--------------------------- MODULE MCOrderManager ---------------------------
(* Instance of OrderManager for TLC. *)
EXTENDS OrderManager
=============================================================================
