-------------------------- MODULE MCCircuitBreaker --------------------------
(* CircuitBreaker for TLC. The callers are interchangeable, but no symmetry is *)
(* declared: it would be unsound for the liveness property.                    *)
EXTENDS CircuitBreaker
=============================================================================
