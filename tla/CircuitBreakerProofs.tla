------------------------ MODULE CircuitBreakerProofs ------------------------
(***************************************************************************)
(* Proofs about the circuit breaker, for any number of tasks and any       *)
(* thresholds.                                                             *)
(***************************************************************************)
EXTENDS CircuitBreaker, FiniteSetTheorems, TLAPS

(* When every call is over before recovery is tested again, an open        *)
(* circuit that may be tested has nothing running, and a circuit on        *)
(* probation runs probes that each hold a slot.                            *)
QuietInv ==
    CallsBounded =>
      /\ state = "open" => (IF cooled THEN Running = {} ELSE Running \subseteq older)
      /\ state = "half_open" =>
           /\ Running = Probes
           /\ IsFiniteSet(Probes)
           /\ Cardinality(Probes) <= inFlight

BreakerInv ==
    /\ TypeOK
    /\ CountersBelowThresholds
    /\ QuietInv

(* The window stays a sequence of outcomes. *)
LEMMA RecordedType ==
  ASSUME window \in Seq(BOOLEAN), NEW outcome \in BOOLEAN, NEW w \in Recorded(outcome)
  PROVE  w \in Seq(BOOLEAN)
<1>1. PICK n \in 0..Len(window) : w = Append(SubSeq(window, n + 1, Len(window)), outcome)
  BY DEF Recorded
<1>2. SubSeq(window, n + 1, Len(window)) \in Seq(BOOLEAN)
  OBVIOUS
<1> QED
  BY <1>1, <1>2

(* A probe that ends gives its slot back, or had none to give. *)
LEMMA SlotType ==
  ASSUME TypeOK, NEW c \in Calls
  PROVE  ReleaseProbe(c) \in 0..HalfOpenMaxCalls
  BY ThresholdsAssumption DEF TypeOK, ReleaseProbe

(* The calls and the probes of the other tasks go on. *)
LEMMA CompletedCalls ==
  ASSUME TypeOK, NEW c \in Calls, calls' = [calls EXCEPT ![c] = "idle"]
  PROVE  /\ calls' \in [Calls -> {"idle", "call", "probe"}]
         /\ Running' = Running \ {c}
         /\ Probes' = Probes \ {c}
  BY DEF TypeOK, Running, Probes

(* On probation, the end of a call keeps the slots covered. *)
LEMMA SlotsKept ==
  ASSUME TypeOK, NEW c \in Running, Running = Probes, IsFiniteSet(Probes),
         Cardinality(Probes) <= inFlight
  PROVE  /\ IsFiniteSet(Probes \ {c})
         /\ Cardinality(Probes \ {c}) <= ReleaseProbe(c)
<1>1. c \in Probes
  OBVIOUS
<1>2. /\ IsFiniteSet(Probes \ {c})
      /\ Cardinality(Probes \ {c}) = Cardinality(Probes) - 1
      /\ Cardinality(Probes) \in Nat
  BY <1>1, FS_RemoveElement, FS_CardinalityType
<1>3. Cardinality(Probes) # 0
  BY <1>1, FS_EmptySet
<1>4. calls[c] = "probe"
  BY <1>1 DEF Probes
<1>5. inFlight \in Int
  BY ThresholdsAssumption DEF TypeOK
<1>6. ReleaseProbe(c) = inFlight - 1
  BY <1>2, <1>3, <1>4, <1>5 DEF ReleaseProbe
<1> QED
  BY <1>2, <1>5, <1>6

(* The breaker starts closed and idle. *)
LEMMA BreakerInit == Init => BreakerInv
<1> SUFFICES ASSUME Init PROVE BreakerInv
  OBVIOUS
<1>1. TypeOK
  BY ThresholdsAssumption DEF Init, TypeOK
<1> QED
  BY <1>1, ThresholdsAssumption DEF Init, BreakerInv, CountersBelowThresholds, QuietInv

(* Every step keeps the invariant. *)
LEMMA BreakerStep == BreakerInv /\ [Next]_vars => BreakerInv'
<1> SUFFICES ASSUME BreakerInv, [Next]_vars PROVE BreakerInv'
  OBVIOUS
<1> USE ThresholdsAssumption, ModeAssumption
<1>1. ASSUME NEW c \in Calls, AdmitCall(c) PROVE BreakerInv'
  <2>1. TypeOK'
    BY <1>1 DEF AdmitCall, BreakerInv, TypeOK, Running
  <2> QED
    BY <1>1, <2>1 DEF AdmitCall, BreakerInv, CountersBelowThresholds, QuietInv
<1>2. ASSUME NEW c \in Calls, AdmitFirstProbe(c) PROVE BreakerInv'
  <2>1. TypeOK'
    BY <1>2 DEF AdmitFirstProbe, BreakerInv, TypeOK, Running
  <2>2. CountersBelowThresholds'
    BY <1>2 DEF AdmitFirstProbe, CountersBelowThresholds
  <2>3. ASSUME CallsBounded PROVE Running' = {c} /\ Probes' = {c}
    <3>1. Running = {}
      BY <1>2, <2>3 DEF AdmitFirstProbe, BreakerInv, QuietInv
    <3> QED
      BY <1>2, <3>1 DEF AdmitFirstProbe, BreakerInv, TypeOK, Running, Probes
  <2>4. IsFiniteSet({c}) /\ Cardinality({c}) = 1
    BY FS_Singleton
  <2>5. QuietInv'
    BY <1>2, <2>3, <2>4 DEF AdmitFirstProbe, QuietInv
  <2> QED
    BY <2>1, <2>2, <2>5 DEF BreakerInv
<1>3. ASSUME NEW c \in Calls, AdmitProbe(c) PROVE BreakerInv'
  <2>1. TypeOK'
    BY <1>3 DEF AdmitProbe, BreakerInv, TypeOK, Running
  <2>2. CountersBelowThresholds'
    BY <1>3 DEF AdmitProbe, BreakerInv, CountersBelowThresholds
  <2>3. Running' = Running \cup {c} /\ Probes' = Probes \cup {c} /\ c \notin Probes
    BY <1>3 DEF AdmitProbe, BreakerInv, TypeOK, Running, Probes
  <2>4. ASSUME CallsBounded
        PROVE  IsFiniteSet(Probes') /\ Cardinality(Probes') <= inFlight'
    <3>1. IsFiniteSet(Probes) /\ Cardinality(Probes) <= inFlight
      BY <1>3, <2>4 DEF AdmitProbe, BreakerInv, QuietInv
    <3>2. /\ IsFiniteSet(Probes') /\ Cardinality(Probes') = Cardinality(Probes) + 1
          /\ Cardinality(Probes) \in Nat
      BY <2>3, <3>1, FS_AddElement, FS_CardinalityType
    <3>3. inFlight \in Int /\ inFlight' = inFlight + 1
      BY <1>3 DEF AdmitProbe, BreakerInv, TypeOK
    <3> QED
      BY <3>1, <3>2, <3>3
  <2>5. QuietInv'
    BY <1>3, <2>3, <2>4 DEF AdmitProbe, BreakerInv, QuietInv
  <2> QED
    BY <2>1, <2>2, <2>5 DEF BreakerInv
<1>4. ASSUME NEW c \in Calls, Succeed(c) PROVE BreakerInv'
  <2>1. /\ c \in Running /\ calls' = [calls EXCEPT ![c] = "idle"]
        /\ older' = older \ {c} /\ UNCHANGED <<cooled, cancels>>
    BY <1>4 DEF Succeed, Completed
  <2>2. /\ calls' \in [Calls -> {"idle", "call", "probe"}]
        /\ Running' = Running \ {c} /\ Probes' = Probes \ {c}
    BY <2>1, CompletedCalls DEF BreakerInv
  <2>3. CASE state = "half_open" /\ CloseCircuit
    <3>1. TypeOK'
      BY <2>1, <2>2, <2>3 DEF BreakerInv, TypeOK, CloseCircuit
    <3> QED
      BY <2>3, <3>1 DEF BreakerInv, CloseCircuit, CountersBelowThresholds, QuietInv
  <2>4. CASE ~(state = "half_open" /\ CloseCircuit)
    <3>1. /\ inFlight' = ReleaseProbe(c) /\ window' \in Recorded(FALSE) /\ UNCHANGED state
          /\ failureCount' \in {0, failureCount}
          /\ state = "half_open" => /\ successCount' = successCount + 1
                                    /\ successCount + 1 < SuccessThreshold
          /\ state # "half_open" => successCount' = successCount
      BY <1>4, <2>4 DEF Succeed
    <3>2. TypeOK'
      <4>1. window' \in Seq(BOOLEAN)
        BY <3>1, RecordedType DEF BreakerInv, TypeOK
      <4>2. inFlight' \in 0..HalfOpenMaxCalls
        BY <3>1, SlotType DEF BreakerInv
      <4>3. failureCount' \in Nat /\ successCount' \in Nat
        BY <3>1 DEF BreakerInv, TypeOK
      <4> QED
        BY <2>1, <2>2, <3>1, <4>1, <4>2, <4>3 DEF BreakerInv, TypeOK
    <3>3. CountersBelowThresholds'
      BY <3>1 DEF BreakerInv, TypeOK, CountersBelowThresholds
    <3>4. QuietInv'
      <4> SUFFICES ASSUME CallsBounded PROVE QuietInv'
        BY DEF QuietInv
      <4>1. CASE state = "half_open"
        BY <2>1, <2>2, <3>1, <4>1, SlotsKept DEF BreakerInv, QuietInv
      <4>2. CASE state # "half_open"
        BY <2>1, <2>2, <3>1, <4>2 DEF BreakerInv, QuietInv
      <4> QED
        BY <4>1, <4>2
    <3> QED
      BY <3>2, <3>3, <3>4 DEF BreakerInv
  <2> QED
    BY <2>3, <2>4
<1>5. ASSUME NEW c \in Calls, Fail(c) PROVE BreakerInv'
  <2>1. /\ c \in Running /\ calls' = [calls EXCEPT ![c] = "idle"]
        /\ older' = Running \ {c} /\ cooled' = FALSE /\ UNCHANGED cancels
        /\ failureCount' = failureCount + 1 /\ successCount' \in {0, successCount}
    BY <1>5 DEF Fail
  <2>2. /\ calls' \in [Calls -> {"idle", "call", "probe"}]
        /\ Running' = Running \ {c}
    BY <2>1, CompletedCalls DEF BreakerInv
  <2>3. PICK w \in Recorded(TRUE) :
          /\ window' = w
          /\ IF Trips(w) THEN state' = "open" /\ inFlight' = 0
                         ELSE state' = state /\ inFlight' = ReleaseProbe(c)
    BY <1>5 DEF Fail
  <2>4. TypeOK'
    <3>1. window' \in Seq(BOOLEAN)
      BY <2>3, RecordedType DEF BreakerInv, TypeOK
    <3>2. inFlight' \in 0..HalfOpenMaxCalls
      BY <2>3, SlotType DEF BreakerInv
    <3>3. failureCount' \in Nat /\ successCount' \in Nat
      BY <2>1 DEF BreakerInv, TypeOK
    <3>4. state' \in {"closed", "open", "half_open"}
      BY <2>3 DEF BreakerInv, TypeOK
    <3> QED
      BY <2>1, <2>2, <3>1, <3>2, <3>3, <3>4 DEF BreakerInv, TypeOK
  <2>5. CountersBelowThresholds'
    <3>1. state' # "half_open"
      BY <2>3 DEF Trips
    <3>2. state' = "closed" => failureCount + 1 < FailureThreshold
      BY <2>3 DEF Trips, BreakerInv, TypeOK
    <3> QED
      BY <2>1, <3>1, <3>2 DEF CountersBelowThresholds
  <2>6. QuietInv'
    BY <2>1, <2>2, <2>3 DEF Trips, QuietInv
  <2> QED
    BY <2>4, <2>5, <2>6 DEF BreakerInv
<1>6. ASSUME NEW c \in Calls, FailExcluded(c) PROVE BreakerInv'
  <2>1. /\ c \in Running /\ calls' = [calls EXCEPT ![c] = "idle"]
        /\ older' = older \ {c} /\ inFlight' = ReleaseProbe(c)
        /\ UNCHANGED <<state, failureCount, successCount, cooled, window, cancels>>
    BY <1>6 DEF FailExcluded, Completed
  <2>2. /\ calls' \in [Calls -> {"idle", "call", "probe"}]
        /\ Running' = Running \ {c} /\ Probes' = Probes \ {c}
    BY <2>1, CompletedCalls DEF BreakerInv
  <2>3. TypeOK'
    <3>1. inFlight' \in 0..HalfOpenMaxCalls
      BY <2>1, SlotType DEF BreakerInv
    <3> QED
      BY <2>1, <2>2, <3>1 DEF BreakerInv, TypeOK
  <2>4. CountersBelowThresholds'
    BY <2>1 DEF BreakerInv, CountersBelowThresholds
  <2>5. QuietInv'
    BY <2>1, <2>2, SlotsKept DEF BreakerInv, QuietInv
  <2> QED
    BY <2>3, <2>4, <2>5 DEF BreakerInv
<1>7. ASSUME NEW c \in Calls, Cancel(c) PROVE BreakerInv'
  <2>1. /\ c \in Running /\ calls' = [calls EXCEPT ![c] = "idle"]
        /\ older' = older \ {c} /\ cancels' = cancels + 1
        /\ UNCHANGED <<state, failureCount, successCount, cooled, window, inFlight>>
    BY <1>7 DEF Cancel, Completed
  <2>2. /\ calls' \in [Calls -> {"idle", "call", "probe"}]
        /\ Running' = Running \ {c} /\ Probes' = Probes \ {c}
    BY <2>1, CompletedCalls DEF BreakerInv
  <2>3. TypeOK'
    BY <2>1, <2>2 DEF BreakerInv, TypeOK
  <2>4. CountersBelowThresholds'
    BY <2>1 DEF BreakerInv, CountersBelowThresholds
  <2>5. ASSUME IsFiniteSet(Probes), Cardinality(Probes) <= inFlight
        PROVE  IsFiniteSet(Probes \ {c}) /\ Cardinality(Probes \ {c}) <= inFlight
    <3>1. /\ IsFiniteSet(Probes \ {c}) /\ Cardinality(Probes \ {c}) <= Cardinality(Probes)
          /\ Cardinality(Probes) \in Nat /\ Cardinality(Probes \ {c}) \in Nat
      BY <2>5, FS_Subset, FS_CardinalityType
    <3>2. inFlight \in Int
      BY DEF BreakerInv, TypeOK
    <3> QED
      BY <2>5, <3>1, <3>2
  <2>6. QuietInv'
    BY <2>1, <2>2, <2>5 DEF BreakerInv, QuietInv
  <2> QED
    BY <2>3, <2>4, <2>6 DEF BreakerInv
<1>8. CASE Reset
  <2>1. TypeOK'
    BY <1>8 DEF Reset, BreakerInv, TypeOK, Running
  <2> QED
    BY <1>8, <2>1 DEF Reset, BreakerInv, CountersBelowThresholds, QuietInv
<1>9. CASE TimeoutElapses
  <2>1. TypeOK'
    BY <1>9 DEF TimeoutElapses, BreakerInv, TypeOK, Running
  <2>2. QuietInv'
    BY <1>9 DEF TimeoutElapses, BreakerInv, QuietInv, Running, Probes
  <2> QED
    BY <1>9, <2>1, <2>2 DEF TimeoutElapses, BreakerInv, CountersBelowThresholds
<1>10. CASE UNCHANGED vars
  BY <1>10 DEF vars, BreakerInv, TypeOK, CountersBelowThresholds, QuietInv, Running, Probes
<1> QED
  BY <1>1, <1>2, <1>3, <1>4, <1>5, <1>6, <1>7, <1>8, <1>9, <1>10 DEF Next, Complete

(* The invariant holds throughout. *)
THEOREM BreakerInvariant == Spec => []BreakerInv
  BY BreakerInit, BreakerStep, PTL DEF Spec

(* The breaker's state keeps its shape; in particular the slot counter     *)
(* never leaves 0..half_open_max_calls.                                    *)
THEOREM BreakerTypeCorrect == Spec => []TypeOK
<1>1. BreakerInv => TypeOK
  BY DEF BreakerInv
<1> QED
  BY <1>1, BreakerInvariant, PTL

(* No way of closing the circuit leaves failures behind that would count   *)
(* as consecutive later.                                                   *)
THEOREM CountersHold == Spec => []CountersBelowThresholds
<1>1. BreakerInv => CountersBelowThresholds
  BY DEF BreakerInv
<1> QED
  BY <1>1, BreakerInvariant, PTL

(* When call_timeout does not exceed timeout, the probe limit holds.       *)
THEOREM ProbeLimitHolds == CallsBounded => (Spec => []ProbesBounded)
<1> SUFFICES ASSUME CallsBounded PROVE Spec => []ProbesBounded
  OBVIOUS
<1>1. BreakerInv => ProbesBounded
  <2> SUFFICES ASSUME BreakerInv, state = "half_open"
               PROVE  Cardinality(Probes) <= HalfOpenMaxCalls
    BY DEF ProbesBounded
  <2>1. /\ IsFiniteSet(Probes) /\ Cardinality(Probes) <= inFlight
        /\ inFlight \in 0..HalfOpenMaxCalls
    BY DEF BreakerInv, QuietInv, TypeOK
  <2> QED
    BY <2>1, FS_CardinalityType, ThresholdsAssumption
<1> QED
  BY <1>1, BreakerInvariant, PTL

(* When call_timeout does not exceed timeout, only probes decide over the  *)
(* recovery.                                                               *)
THEOREM ProbationExclusive == CallsBounded => (Spec => []ProbationIsExclusive)
<1> SUFFICES ASSUME CallsBounded PROVE Spec => []ProbationIsExclusive
  OBVIOUS
<1>1. BreakerInv => ProbationIsExclusive
  BY DEF BreakerInv, QuietInv, ProbationIsExclusive
<1> QED
  BY <1>1, BreakerInvariant, PTL
=============================================================================
