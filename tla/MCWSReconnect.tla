--------------------------- MODULE MCWSReconnect ---------------------------
(* WSReconnect for TLC. *)
EXTENDS WSReconnect
=============================================================================
