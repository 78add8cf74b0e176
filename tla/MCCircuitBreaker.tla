-------------------------- MODULE MCCircuitBreaker --------------------------
(* Instances of the circuit breaker for TLC. *)
EXTENDS CircuitBreaker, TLC

(* Tasks are interchangeable. *)
Symmetry == Permutations(Calls)
=============================================================================
