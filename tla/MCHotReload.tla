---------------------------- MODULE MCHotReload ----------------------------
(* HotReload for TLC. *)
EXTENDS HotReload
=============================================================================
