--------------------------- MODULE MCRestGateway ---------------------------
(* RestGateway for TLC: the calls are interchangeable. *)
EXTENDS RestGateway, TLC

Symmetry == Permutations(Calls)
=============================================================================
