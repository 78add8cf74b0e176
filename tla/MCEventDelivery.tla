-------------------------- MODULE MCEventDelivery ---------------------------
(* Instances of event delivery for TLC. *)
EXTENDS EventDelivery, TLC

(* Workers are interchangeable. *)
Symmetry == Permutations(Workers)
=============================================================================
