---------------------------- MODULE MCCacheFence ----------------------------
(* Instances of CacheFence for TLC. *)
EXTENDS CacheFence

CONSTANTS p1, p2, r1, r2, w1, w2

(* The first read and write run in one process, the second in another. *)
TwoProcesses == [a \in Readers \cup Writers |-> IF a \in {r2, w2} THEN p2 ELSE p1]
(* Everything runs in one process. *)
OneProcess == [a \in Readers \cup Writers |-> p1]

Everyone == [b \in (0..MaxFaults) \X (1..MaxVersion) |-> Readers]
(* Reads race one another while nothing fails or nothing is written; faults *)
(* and a write together meet one read.                                      *)
OneOrTheOther == [b \in (0..MaxFaults) \X (1..MaxVersion) |->
                     IF b[1] = 0 \/ b[2] = 1 THEN {r1, r2} ELSE {r1}]
=============================================================================
