--------------------------- MODULE MCFillTracker ---------------------------
(* FillTracker for TLC. *)
EXTENDS FillTracker
=============================================================================
