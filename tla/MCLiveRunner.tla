--------------------------- MODULE MCLiveRunner ---------------------------
(* LiveRunner for TLC. *)
EXTENDS LiveRunner
=============================================================================
