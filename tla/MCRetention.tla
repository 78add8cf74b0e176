---------------------------- MODULE MCRetention -----------------------------
(* Instances of Retention for TLC. *)
EXTENDS Retention, TLC

(* Events are interchangeable. *)
Symmetry == Permutations(Events)
=============================================================================
