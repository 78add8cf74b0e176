------------------------- MODULE EventDeliveryProofs -------------------------
(***************************************************************************)
(* Proofs about event delivery, for any number of workers and records and  *)
(* any number of faults.                                                   *)
(***************************************************************************)
EXTENDS EventDelivery, TLAPS

(* What a worker in the middle of a record knows. *)
WorkerInv ==
    \A w \in Workers : pc[w] \notin {"down", "idle"} =>
      /\ record[w] \in Offsets
      /\ \A k \in Offsets : k < record[w] => Settled(k)
      /\ pc[w] = "commit" => Settled(record[w])
      /\ pc[w] = "applied" => record[w] \in applied
      /\ pc[w] \in {"handling", "applied"} => record[w] \notin Poison \cup Malformed
      /\ pc[w] = "parking" /\ RetryForever =>
           record[w] \in (Poison \cap quarantined) \cup Malformed

(* The lease of a processed row is gone. *)
RowInv == \A m \in Offsets : inbox[m].status = "processed" => ~inbox[m].leased

DeliveryInv ==
    /\ TypeOK
    /\ WorkerInv
    /\ RowInv
    /\ NothingIsSkipped
    /\ AppliedInOrder
    /\ ProcessedWasApplied
    /\ RetryForever => ParkedWasDiagnosed

(* Without stalls a worker inside the handler holds the live claim, so     *)
(* nobody else can be there.                                               *)
ClaimInv ==
    \A w \in Workers : pc[w] \in {"handling", "applied"} =>
      /\ Row(w).status = "processing"
      /\ Row(w).leased
      /\ Row(w).token = token[w]

-----------------------------------------------------------------------------
USE DEF Offsets

(* The fault counter stays a number. *)
LEMMA FaultFact == TypeOK /\ Fault => faults' \in Nat
  BY DEF TypeOK, Fault

(* A failed attempt is retried, given back to the broker, or parked. *)
LEMMA AfterFailureFacts ==
  ASSUME TypeOK, NEW w \in Workers, NEW durable \in BOOLEAN, AfterFailure(w, durable)
  PROVE  /\ pc' \in [Workers -> PcValues]
         /\ attempt' \in [Workers -> 0..MaxRetries]
         /\ owner' \in Workers \cup {None}
         /\ \A v \in Workers : v # w => pc'[v] = pc[v]
         /\ pc'[w] \in {"dispatch", "down", "parking"}
         /\ durable => pc'[w] # "parking"
<1>1. CASE attempt[w] < MaxRetries
  <2>1. /\ pc' = [pc EXCEPT ![w] = "dispatch"]
        /\ attempt' = [attempt EXCEPT ![w] = @ + 1]
        /\ owner' = owner
    BY <1>1 DEF AfterFailure, Goto
  <2>2. attempt[w] + 1 \in 0..MaxRetries
    BY <1>1, DeliveryAssumption DEF TypeOK
  <2> QED
    BY <2>1, <2>2 DEF TypeOK, PcValues
<1>2. CASE ~(attempt[w] < MaxRetries)
  BY <1>2 DEF AfterFailure, Goto, Exit, TypeOK, PcValues
<1> QED
  BY <1>1, <1>2

(* Nothing is delivered yet. *)
LEMMA DeliveryInit == Init => DeliveryInv
<1> SUFFICES ASSUME Init PROVE DeliveryInv
  OBVIOUS
<1>1. TypeOK
  BY DeliveryAssumption DEF Init, TypeOK, InboxRows, PcValues
<1> QED
  BY <1>1 DEF Init, DeliveryInv, WorkerInv, RowInv, NothingIsSkipped, AppliedInOrder,
              ProcessedWasApplied, ParkedWasDiagnosed

(* The steps that leave the inbox, the effects and the dead letters alone, *)
(* and move one worker to a place that knows no more than it did.          *)
LEMMA QuietStep ==
  ASSUME DeliveryInv, TypeOK', NEW w \in Workers,
         UNCHANGED <<committed, record, inbox, applied, dlq>>,
         quarantined \subseteq quarantined',
         \A v \in Workers : v # w => pc'[v] = pc[v],
         \/ pc'[w] \in {"down", "idle", pc[w]}
         \/ pc[w] \notin {"down", "idle"} /\ pc'[w] \in {"dispatch", "parking"},
         pc'[w] = "parking" /\ RetryForever =>
           record[w] \in (Poison \cap quarantined') \cup Malformed
  PROVE  DeliveryInv'
<1>1. WorkerInv'
  <2> SUFFICES ASSUME NEW v \in Workers, pc'[v] \notin {"down", "idle"}
               PROVE  WorkerInv!(v)'
    BY DEF WorkerInv
  <2> QED
    BY DEF DeliveryInv, WorkerInv, Settled
<1> QED
  BY <1>1 DEF DeliveryInv, RowInv, NothingIsSkipped, Settled, AppliedInOrder,
              ProcessedWasApplied, ParkedWasDiagnosed

(* Every step preserves the invariant, one case per action of Next. *)
LEMMA DeliveryStep == DeliveryInv /\ [Next]_vars => DeliveryInv'
<1> SUFFICES ASSUME DeliveryInv, [Next]_vars PROVE DeliveryInv'
  OBVIOUS
<1> USE DeliveryAssumption, DeliveryModes
<1>1. ASSUME NEW w \in Workers, Join(w) PROVE DeliveryInv'
  <2>1. TypeOK'
    BY <1>1 DEF Join, Goto, DeliveryInv, TypeOK, PcValues
  <2> QED
    BY <1>1, <2>1, QuietStep DEF Join, Goto, DeliveryInv, TypeOK
<1>2. CASE Evict
  <2>1. TypeOK'
    BY <1>2 DEF Evict, Fault, DeliveryInv, TypeOK
  <2> QED
    BY <1>2, <2>1 DEF Evict, DeliveryInv, WorkerInv, RowInv, NothingIsSkipped, Settled,
                      AppliedInOrder, ProcessedWasApplied, ParkedWasDiagnosed
<1>3. ASSUME NEW w \in Workers, Crash(w) PROVE DeliveryInv'
  <2>1. TypeOK'
    <3>1. faults' \in Nat
      BY <1>3, FaultFact DEF Crash, DeliveryInv
    <3> QED
      BY <1>3, <3>1 DEF Crash, Exit, Goto, DeliveryInv, TypeOK, PcValues
  <2> QED
    BY <1>3, <2>1, QuietStep DEF Crash, Exit, Goto, DeliveryInv, TypeOK
<1>4. ASSUME NEW w \in Workers, Fetch(w) PROVE DeliveryInv'
  <2>1. TypeOK'
    <3>1. committed \in 0..LastOffset /\ 0 \in 0..MaxRetries
      BY <1>4 DEF Fetch, DeliveryInv, TypeOK
    <3> QED
      BY <1>4, <3>1 DEF Fetch, Goto, DeliveryInv, TypeOK, PcValues
  <2>2. \A k \in Offsets : k < committed => Settled(k)
    BY DEF DeliveryInv, NothingIsSkipped
  <2>3. WorkerInv'
    <3> SUFFICES ASSUME NEW v \in Workers, pc'[v] \notin {"down", "idle"}
                 PROVE  WorkerInv!(v)'
      BY DEF WorkerInv
    <3>1. CASE v = w
      <4>1. pc'[w] = "dispatch" /\ record'[w] = committed /\ committed \in Offsets
        BY <1>4 DEF Fetch, Goto, DeliveryInv, TypeOK
      <4> QED
        BY <1>4, <2>2, <3>1, <4>1 DEF Fetch, Settled
    <3>2. CASE v # w
      BY <1>4, <3>2 DEF Fetch, Goto, DeliveryInv, TypeOK, WorkerInv, Settled
    <3> QED
      BY <3>1, <3>2
  <2> QED
    BY <1>4, <2>1, <2>3 DEF Fetch, DeliveryInv, RowInv, NothingIsSkipped, Settled,
                            AppliedInOrder, ProcessedWasApplied, ParkedWasDiagnosed
<1>5. ASSUME NEW w \in Workers, Commit(w) PROVE DeliveryInv'
  <2>1. CASE owner # w
    <3>1. TypeOK'
      BY <1>5, <2>1 DEF Commit, CommitOffset, Exit, Goto, DeliveryInv, TypeOK, PcValues
    <3> QED
      BY <1>5, <2>1, <3>1, QuietStep DEF Commit, CommitOffset, Exit, Goto, DeliveryInv, TypeOK
  <2>2. CASE owner = w
    <3>1. /\ pc[w] = "commit" /\ committed' = record[w] + 1
          /\ pc' = [pc EXCEPT ![w] = "idle"]
          /\ UNCHANGED <<owner, record, attempt, token, inbox, applied, quarantined, dlq, faults>>
      BY <1>5, <2>2 DEF Commit, CommitOffset, Goto
    <3>2. /\ record[w] \in Offsets /\ Settled(record[w])
          /\ \A k \in Offsets : k < record[w] => Settled(k)
      BY <3>1 DEF DeliveryInv, WorkerInv
    <3>3. TypeOK'
      <4>1. committed' \in 1..(LastOffset + 1)
        BY <3>1, <3>2
      <4> QED
        BY <3>1, <4>1 DEF DeliveryInv, TypeOK, PcValues
    <3>4. NothingIsSkipped'
      <4>1. \A k \in Offsets : k < record[w] + 1 => k < record[w] \/ k = record[w]
        BY <3>2
      <4> QED
        BY <3>1, <3>2, <4>1 DEF DeliveryInv, NothingIsSkipped, Settled
    <3>5. WorkerInv'
      BY <3>1 DEF DeliveryInv, TypeOK, WorkerInv, Settled
    <3> QED
      BY <3>1, <3>3, <3>4, <3>5 DEF DeliveryInv, RowInv, Settled, AppliedInOrder,
                                    ProcessedWasApplied, ParkedWasDiagnosed
  <2> QED
    BY <2>1, <2>2
<1>6. ASSUME NEW w \in Workers, Quarantine(w) \/ RejectMalformed(w) PROVE DeliveryInv'
  <2>1. TypeOK'
    BY <1>6 DEF Quarantine, RejectMalformed, Goto, DeliveryInv, TypeOK, PcValues
  <2> QED
    BY <1>6, <2>1, QuietStep DEF Quarantine, RejectMalformed, Goto, DeliveryInv, TypeOK
<1>7. ASSUME NEW w \in Workers, QuarantineFails(w) PROVE DeliveryInv'
  <2>1. AfterFailure(w, TRUE) /\ pc[w] = "dispatch"
    BY <1>7 DEF QuarantineFails
  <2>2. TypeOK'
    <3>1. faults' \in Nat
      BY <1>7, FaultFact DEF QuarantineFails, DeliveryInv
    <3> QED
      BY <1>7, <2>1, <3>1, AfterFailureFacts DEF QuarantineFails, DeliveryInv, TypeOK
  <2> QED
    BY <1>7, <2>1, <2>2, AfterFailureFacts, QuietStep DEF QuarantineFails, DeliveryInv
<1>8. ASSUME NEW w \in Workers, Park(w) \/ ParkFails(w) PROVE DeliveryInv'
  <2>1. /\ pc[w] = "parking" /\ dlq' \in {dlq, dlq \cup {record[w]}}
        /\ pc'[w] \in {"commit", "down"}
        /\ pc'[w] = "commit" => record[w] \in dlq'
        /\ \A v \in Workers : v # w => pc'[v] = pc[v]
        /\ UNCHANGED <<committed, record, attempt, token, inbox, applied, quarantined>>
    BY <1>8 DEF Park, ParkFails, Exit, Goto, DeliveryInv, TypeOK
  <2>2. /\ record[w] \in Offsets /\ \A k \in Offsets : k < record[w] => Settled(k)
        /\ RetryForever => record[w] \in (Poison \cap quarantined) \cup Malformed
    BY <2>1 DEF DeliveryInv, WorkerInv
  <2>3. TypeOK'
    <3>1. faults' \in Nat
      BY <1>8, FaultFact DEF Park, ParkFails, DeliveryInv, TypeOK
    <3>2. /\ pc' \in [Workers -> PcValues]
          /\ owner' \in Workers \cup {None}
      BY <1>8 DEF Park, ParkFails, Exit, Goto, DeliveryInv, TypeOK, PcValues
    <3> QED
      BY <2>1, <2>2, <3>1, <3>2 DEF DeliveryInv, TypeOK
  <2>4. \A k \in Offsets : Settled(k) => Settled(k)'
    BY <2>1 DEF Settled
  <2>5. WorkerInv'
    BY <2>1, <2>2, <2>4 DEF DeliveryInv, WorkerInv, Settled
  <2>6. NothingIsSkipped' /\ (RetryForever => ParkedWasDiagnosed)'
    BY <2>1, <2>2, <2>4 DEF DeliveryInv, NothingIsSkipped, ParkedWasDiagnosed
  <2>7. AppliedInOrder' /\ RowInv' /\ ProcessedWasApplied'
    BY <2>1, <2>4 DEF DeliveryInv, AppliedInOrder, RowInv, ProcessedWasApplied
  <2> QED
    BY <2>3, <2>5, <2>6, <2>7 DEF DeliveryInv
<1>9. ASSUME NEW w \in Workers, Claim(w) PROVE DeliveryInv'
  <2>1. /\ pc[w] = "dispatch" /\ record[w] \notin Poison \cup Malformed /\ record[w] \in Offsets
        /\ inbox[record[w]].status # "processed"
    BY <1>9 DEF Claim, Dispatching, Row, DeliveryInv, WorkerInv
  <2> DEFINE row == [status |-> "processing", attempts |-> inbox[record[w]].attempts + 1,
                     token |-> inbox[record[w]].attempts + 1, leased |-> TRUE]
  <2>2. /\ inbox' = [inbox EXCEPT ![record[w]] = row]
        /\ token' = [token EXCEPT ![w] = inbox[record[w]].attempts + 1]
        /\ pc' = [pc EXCEPT ![w] = "handling"]
        /\ UNCHANGED <<committed, owner, record, attempt, applied, quarantined, dlq, faults>>
    BY <1>9 DEF Claim, Row, Goto
  <2>3. row \in InboxRows /\ inbox[record[w]].attempts + 1 \in Nat
    <3>1. inbox[record[w]] \in InboxRows
      BY <2>1 DEF DeliveryInv, TypeOK
    <3> QED
      BY <3>1 DEF InboxRows
  <2>4. /\ inbox'[record[w]].status = "processing"
        /\ \A k \in Offsets : k # record[w] => inbox'[k] = inbox[k]
    BY <2>1, <2>2 DEF DeliveryInv, TypeOK
  <2>5. TypeOK'
    <3> HIDE DEF row
    <3> QED
      BY <2>2, <2>3 DEF DeliveryInv, TypeOK, PcValues
  <2>6. \A k \in Offsets : Settled(k) <=> Settled(k)'
    BY <2>1, <2>2, <2>4 DEF Settled
  <2>7. WorkerInv'
    BY <2>1, <2>2, <2>6 DEF DeliveryInv, TypeOK, WorkerInv
  <2>8. RowInv' /\ ProcessedWasApplied'
    BY <2>2, <2>4 DEF DeliveryInv, RowInv, ProcessedWasApplied
  <2>9. NothingIsSkipped' /\ AppliedInOrder' /\ (RetryForever => ParkedWasDiagnosed)'
    BY <2>2, <2>6 DEF DeliveryInv, TypeOK, NothingIsSkipped, AppliedInOrder, ParkedWasDiagnosed
  <2> QED
    BY <2>5, <2>7, <2>8, <2>9 DEF DeliveryInv
<1>10. ASSUME NEW w \in Workers, SkipProcessed(w) \/ PassOver(w) PROVE DeliveryInv'
  <2>1. TypeOK'
    BY <1>10 DEF SkipProcessed, PassOver, Goto, DeliveryInv, TypeOK, PcValues
  <2>2. /\ pc[w] = "dispatch" /\ Settled(record[w]) /\ pc'[w] = "commit"
        /\ \A v \in Workers : v # w => pc'[v] = pc[v]
    BY <1>10 DEF SkipProcessed, PassOver, Dispatching, Row, Settled, Goto, DeliveryInv, TypeOK
  <2>3. WorkerInv'
    BY <1>10, <2>2 DEF SkipProcessed, PassOver, DeliveryInv, WorkerInv, Settled
  <2> QED
    BY <1>10, <2>1, <2>3 DEF SkipProcessed, PassOver, DeliveryInv, RowInv, NothingIsSkipped, Settled,
                             AppliedInOrder, ProcessedWasApplied, ParkedWasDiagnosed
<1>11. ASSUME NEW w \in Workers, FindBusy(w) \/ TimedOut(w) PROVE DeliveryInv'
  <2>1. /\ AfterFailure(w, RetryForever) /\ pc[w] \in {"dispatch", "handling", "applied"}
        /\ UNCHANGED <<committed, record, token, inbox, applied, quarantined, dlq>>
        /\ faults' = faults \/ Fault
    BY <1>11 DEF FindBusy, TimedOut, Dispatching
  <2>2. TypeOK'
    <3>1. faults' \in Nat
      BY <2>1, FaultFact DEF DeliveryInv, TypeOK
    <3> QED
      BY <2>1, <3>1, AfterFailureFacts DEF DeliveryInv, TypeOK
  <2> QED
    BY <2>1, <2>2, AfterFailureFacts, QuietStep DEF DeliveryInv
<1>12. ASSUME NEW w \in Workers, Apply(w) PROVE DeliveryInv'
  <2>1. /\ pc[w] = "handling" /\ record[w] \in Offsets /\ record[w] \notin Poison \cup Malformed
        /\ \A k \in Offsets : k < record[w] => Settled(k)
    BY <1>12 DEF Apply, DeliveryInv, WorkerInv
  <2>2. /\ applied' = applied \cup {record[w]} /\ pc' = [pc EXCEPT ![w] = "applied"]
        /\ UNCHANGED <<committed, owner, record, attempt, token, inbox, quarantined, dlq, faults>>
    BY <1>12 DEF Apply, Goto
  <2>3. TypeOK'
    BY <2>1, <2>2 DEF DeliveryInv, TypeOK, PcValues
  <2>4. WorkerInv'
    BY <2>1, <2>2 DEF DeliveryInv, TypeOK, WorkerInv, Settled
  <2>5. AppliedInOrder' /\ ProcessedWasApplied'
    BY <2>1, <2>2 DEF DeliveryInv, AppliedInOrder, ProcessedWasApplied, Settled
  <2> QED
    BY <2>2, <2>3, <2>4, <2>5 DEF DeliveryInv, RowInv, NothingIsSkipped, Settled,
                                  ParkedWasDiagnosed
<1>13. ASSUME NEW w \in Workers, HandlerFails(w) PROVE DeliveryInv'
  <2>1. /\ pc[w] = "handling" /\ record[w] \in Offsets /\ record[w] \notin Poison \cup Malformed
        /\ AfterFailure(w, RetryForever) /\ faults' \in Nat
        /\ UNCHANGED <<committed, record, token, applied, quarantined, dlq>>
    BY <1>13, FaultFact DEF HandlerFails, DeliveryInv, WorkerInv
  <2> DEFINE row == [inbox[record[w]] EXCEPT !.status = "failed", !.token = 0, !.leased = FALSE]
  <2>a. row \in InboxRows /\ row.status = "failed"
    <3>1. inbox[record[w]] \in InboxRows
      BY <2>1 DEF DeliveryInv, TypeOK
    <3> QED
      BY <3>1 DEF InboxRows
  <2>b. \/ inbox' = inbox
        \/ /\ inbox' = [inbox EXCEPT ![record[w]] = row]
           /\ inbox[record[w]].status # "processed"
    BY <1>13 DEF HandlerFails, HoldsClaim, Row
  <2> HIDE DEF row
  <2>2. inbox' \in [Offsets -> InboxRows]
    BY <2>1, <2>a, <2>b DEF DeliveryInv, TypeOK
  <2>3. TypeOK'
    BY <2>1, <2>2, AfterFailureFacts DEF DeliveryInv, TypeOK
  <2>4. \A k \in Offsets : /\ inbox'[k].status = "processed" <=> inbox[k].status = "processed"
                           /\ inbox'[k].status = "processed" => inbox'[k] = inbox[k]
    BY <2>1, <2>a, <2>b DEF DeliveryInv, TypeOK
  <2>5. \A k \in Offsets : Settled(k)' <=> Settled(k)
    BY <2>1, <2>4 DEF Settled
  <2>6. WorkerInv'
    <3>1. /\ \A v \in Workers : v # w => pc'[v] = pc[v]
          /\ pc'[w] \in {"dispatch", "down", "parking"}
          /\ RetryForever => pc'[w] # "parking"
      BY <2>1, AfterFailureFacts DEF DeliveryInv
    <3> QED
      BY <2>1, <2>5, <3>1 DEF DeliveryInv, TypeOK, WorkerInv
  <2>7. RowInv' /\ ProcessedWasApplied'
    BY <2>1, <2>4 DEF DeliveryInv, RowInv, ProcessedWasApplied
  <2>8. NothingIsSkipped' /\ AppliedInOrder' /\ (RetryForever => ParkedWasDiagnosed)'
    BY <2>1, <2>5 DEF DeliveryInv, TypeOK, NothingIsSkipped, AppliedInOrder, ParkedWasDiagnosed
  <2> QED
    BY <2>3, <2>6, <2>7, <2>8 DEF DeliveryInv
<1>14. ASSUME NEW w \in Workers, Complete(w) PROVE DeliveryInv'
  <2>1. /\ pc[w] = "applied" /\ record[w] \in Offsets /\ record[w] \in applied
        /\ UNCHANGED <<committed, record, token, applied, quarantined, dlq, faults>>
    BY <1>14 DEF Complete, DeliveryInv, WorkerInv
  <2>2. CASE ~HoldsClaim(w)
    <3>1. AfterFailure(w, RetryForever) /\ UNCHANGED inbox
      BY <1>14, <2>2 DEF Complete
    <3>2. TypeOK'
      BY <2>1, <3>1, AfterFailureFacts DEF DeliveryInv, TypeOK
    <3> QED
      BY <2>1, <3>1, <3>2, AfterFailureFacts, QuietStep DEF DeliveryInv
  <2>3. CASE HoldsClaim(w)
    <3>1. /\ inbox' = [inbox EXCEPT ![record[w]] =
                         [@ EXCEPT !.status = "processed", !.token = 0, !.leased = FALSE]]
          /\ pc' = [pc EXCEPT ![w] = "commit"]
          /\ UNCHANGED <<owner, attempt>>
      BY <1>14, <2>3 DEF Complete, Goto
    <3>2. inbox' \in [Offsets -> InboxRows]
      BY <2>1, <3>1 DEF DeliveryInv, TypeOK, InboxRows
    <3>3. /\ inbox'[record[w]].status = "processed" /\ ~inbox'[record[w]].leased
          /\ \A k \in Offsets : k # record[w] => inbox'[k] = inbox[k]
      BY <2>1, <3>1 DEF DeliveryInv, TypeOK
    <3>4. TypeOK'
      BY <2>1, <3>1, <3>2 DEF DeliveryInv, TypeOK, PcValues
    <3>5. \A k \in Offsets : Settled(k) => Settled(k)'
      BY <2>1, <3>3 DEF Settled
    <3>6. WorkerInv'
      BY <2>1, <3>1, <3>3, <3>5 DEF DeliveryInv, TypeOK, WorkerInv, Settled
    <3>7. RowInv' /\ ProcessedWasApplied'
      BY <2>1, <3>3 DEF DeliveryInv, RowInv, ProcessedWasApplied
    <3>8. NothingIsSkipped' /\ AppliedInOrder' /\ (RetryForever => ParkedWasDiagnosed)'
      BY <2>1, <3>5 DEF DeliveryInv, TypeOK, NothingIsSkipped, AppliedInOrder, ParkedWasDiagnosed
    <3> QED
      BY <3>4, <3>6, <3>7, <3>8 DEF DeliveryInv
  <2> QED
    BY <2>2, <2>3
<1>15. ASSUME NEW m \in Offsets, LeaseExpires(m) PROVE DeliveryInv'
  <2>1. /\ inbox' = [inbox EXCEPT ![m].leased = FALSE] /\ inbox[m].leased
        /\ UNCHANGED <<committed, owner, pc, record, attempt, token, applied, quarantined,
                       dlq, faults>>
    BY <1>15 DEF LeaseExpires
  <2>2. \A k \in Offsets : inbox'[k].status = inbox[k].status
    BY <2>1 DEF DeliveryInv, TypeOK
  <2>3. TypeOK'
    BY <2>1 DEF DeliveryInv, TypeOK, InboxRows
  <2>4. RowInv'
    BY <2>1, <2>2 DEF DeliveryInv, TypeOK, RowInv
  <2>5. \A k \in Offsets : Settled(k)' <=> Settled(k)
    BY <2>1, <2>2 DEF Settled
  <2> QED
    BY <2>1, <2>2, <2>3, <2>4, <2>5 DEF DeliveryInv, TypeOK, WorkerInv, NothingIsSkipped,
            AppliedInOrder, ProcessedWasApplied, ParkedWasDiagnosed
<1>16. CASE UNCHANGED vars
  BY <1>16 DEF vars, DeliveryInv, TypeOK, WorkerInv, RowInv, NothingIsSkipped, Settled,
               AppliedInOrder, ProcessedWasApplied, ParkedWasDiagnosed
<1> QED
  BY <1>1, <1>2, <1>3, <1>4, <1>5, <1>6, <1>7, <1>8, <1>9, <1>10, <1>11, <1>12, <1>13,
     <1>14, <1>15, <1>16 DEF Next, Work

(* The invariant holds throughout: whatever crashes, times out, fails or   *)
(* loses its partition.                                                    *)
THEOREM DeliveryInvariant == Spec => []DeliveryInv
  BY DeliveryInit, DeliveryStep, PTL DEF Spec

(* Every variable keeps its type. *)
THEOREM DeliveryTypeCorrect == Spec => []TypeOK
<1>1. DeliveryInv => TypeOK
  BY DEF DeliveryInv
<1> QED
  BY <1>1, DeliveryInvariant, PTL

(* KafkaClient.consume never commits past a record that was neither        *)
(* processed nor parked, and a durable worker parks only poison.           *)
THEOREM NothingSkipped == Spec => []NothingIsSkipped
<1>1. DeliveryInv => NothingIsSkipped
  BY DEF DeliveryInv
<1> QED
  BY <1>1, DeliveryInvariant, PTL

(* Effects are first committed in the order of the partition. *)
THEOREM EffectsInOrder == Spec => []AppliedInOrder
<1>1. DeliveryInv => AppliedInOrder
  BY DEF DeliveryInv
<1> QED
  BY <1>1, DeliveryInvariant, PTL

(* The inbox calls a record processed only after its effect committed. *)
THEOREM ProcessedApplied == Spec => []ProcessedWasApplied
<1>1. DeliveryInv => ProcessedWasApplied
  BY DEF DeliveryInv
<1> QED
  BY <1>1, DeliveryInvariant, PTL

(* A durable worker parks nothing without its quarantine row. *)
THEOREM DurableParkedDiagnosed == RetryForever => (Spec => []ParkedWasDiagnosed)
<1> SUFFICES ASSUME RetryForever PROVE Spec => []ParkedWasDiagnosed
  OBVIOUS
<1>1. DeliveryInv => ParkedWasDiagnosed
  BY DEF DeliveryInv
<1> QED
  BY <1>1, DeliveryInvariant, PTL

-----------------------------------------------------------------------------
(* The only steps that write an inbox row leave a processed one alone. *)
LEMMA ProcessedStep ==
  ASSUME DeliveryInv, [Next]_vars, NEW m \in Offsets, inbox[m].status = "processed"
  PROVE  inbox'[m] = inbox[m]
<1>0. inbox \in [Offsets -> InboxRows]
  BY DEF DeliveryInv, TypeOK
<1>1. ASSUME NEW w \in Workers, Claim(w) PROVE inbox'[m] = inbox[m]
  <2>1. record[w] # m
    BY <1>1 DEF Claim, Row
  <2> QED
    BY <1>0, <1>1, <2>1 DEF Claim
<1>2. ASSUME NEW w \in Workers, HandlerFails(w) \/ Complete(w) PROVE inbox'[m] = inbox[m]
  <2>1. HoldsClaim(w) => record[w] # m
    BY DEF HoldsClaim, Row
  <2> QED
    BY <1>0, <1>2, <2>1 DEF HandlerFails, Complete
<1>3. ASSUME NEW k \in Offsets, LeaseExpires(k) PROVE inbox'[m] = inbox[m]
  <2>1. k # m
    BY <1>3 DEF LeaseExpires, DeliveryInv, RowInv
  <2> QED
    BY <1>0, <1>3, <2>1 DEF LeaseExpires
<1>4. ASSUME NEW w \in Workers,
             \/ Join(w) \/ Crash(w) \/ ParkFails(w) \/ QuarantineFails(w) \/ TimedOut(w)
             \/ Fetch(w) \/ Commit(w) \/ Quarantine(w) \/ Park(w) \/ SkipProcessed(w)
             \/ FindBusy(w) \/ Apply(w) \/ RejectMalformed(w) \/ PassOver(w)
      PROVE  inbox' = inbox
  BY <1>4 DEF Join, Crash, ParkFails, QuarantineFails, TimedOut, Fetch, Commit, Quarantine,
              Park, SkipProcessed, FindBusy, Apply, RejectMalformed, PassOver
<1>5. Evict \/ UNCHANGED vars => inbox' = inbox
  BY DEF Evict, vars
<1> QED
  BY <1>1, <1>2, <1>3, <1>4, <1>5 DEF Next, Work

(* No late fail, complete, claim or expiry reopens a processed row. *)
THEOREM ProcessedFinal == Spec => ProcessedIsFinal
<1>1. DeliveryInv /\ [Next]_vars =>
        [\A m \in Offsets : inbox[m].status = "processed" => inbox'[m] = inbox[m]]_vars
  BY ProcessedStep
<1> QED
  BY <1>1, DeliveryInvariant, PTL DEF Spec, ProcessedIsFinal

-----------------------------------------------------------------------------
InHandler(w) == pc[w] \in {"handling", "applied"}

(* A step that lets no worker into the handler and leaves the claims of    *)
(* those who stay inside alone.                                            *)
LEMMA NobodyEnters ==
  ASSUME ClaimInv, HandlerIsExclusive,
         \A v \in Workers : InHandler(v)' =>
            InHandler(v) /\ UNCHANGED <<record[v], token[v], Row(v)>>
  PROVE  ClaimInv' /\ HandlerIsExclusive'
  BY DEF ClaimInv, HandlerIsExclusive, InHandler

(* Only Claim enters the handler, and it finds nobody inside. *)
LEMMA ExclusiveStep ==
  ASSUME DeliveryInv, [Next]_vars, ~Stalls, ClaimInv, HandlerIsExclusive
  PROVE  ClaimInv' /\ HandlerIsExclusive'
<1> USE DeliveryModes
<1>0. /\ inbox \in [Offsets -> InboxRows] /\ pc \in [Workers -> PcValues]
      /\ record \in [Workers -> 0..LastOffset] /\ token \in [Workers -> Nat]
      /\ \A v \in Workers : InHandler(v) => record[v] \in Offsets
  BY DEF DeliveryInv, TypeOK, WorkerInv, InHandler
<1>1. ASSUME NEW w \in Workers,
             \/ Join(w) \/ Crash(w) \/ ParkFails(w) \/ Fetch(w) \/ Commit(w) \/ Quarantine(w)
             \/ Park(w) \/ SkipProcessed(w) \/ RejectMalformed(w) \/ PassOver(w)
      PROVE  ClaimInv' /\ HandlerIsExclusive'
  <2>1. /\ pc'[w] \notin {"handling", "applied"}
        /\ \A v \in Workers : v # w => pc'[v] = pc[v] /\ record'[v] = record[v]
        /\ UNCHANGED <<token, inbox>>
    BY <1>0, <1>1 DEF Join, Crash, ParkFails, Fetch, Commit, CommitOffset, Quarantine, Park,
                      SkipProcessed, RejectMalformed, PassOver, Exit, Goto
  <2> QED
    BY <2>1, NobodyEnters DEF InHandler, Row
<1>2. ASSUME NEW w \in Workers, QuarantineFails(w) \/ TimedOut(w) \/ FindBusy(w)
      PROVE  ClaimInv' /\ HandlerIsExclusive'
  <2>1. /\ UNCHANGED <<record, token, inbox>>
        /\ AfterFailure(w, TRUE) \/ AfterFailure(w, RetryForever)
    BY <1>2 DEF QuarantineFails, TimedOut, FindBusy
  <2>2. /\ pc'[w] \notin {"handling", "applied"}
        /\ \A v \in Workers : v # w => pc'[v] = pc[v]
    BY <2>1, AfterFailureFacts DEF DeliveryInv
  <2> QED
    BY <2>1, <2>2, NobodyEnters DEF InHandler, Row
<1>3. ASSUME NEW w \in Workers, Apply(w) PROVE ClaimInv' /\ HandlerIsExclusive'
  <2>1. /\ pc[w] = "handling" /\ pc' = [pc EXCEPT ![w] = "applied"]
        /\ UNCHANGED <<record, token, inbox>>
    BY <1>3 DEF Apply, Goto
  <2> QED
    BY <1>0, <2>1, NobodyEnters DEF InHandler, Row
<1>4. ASSUME NEW w \in Workers, HandlerFails(w) \/ Complete(w)
      PROVE  ClaimInv' /\ HandlerIsExclusive'
  <2>1. /\ InHandler(w) /\ UNCHANGED <<record, token>>
        /\ \A k \in Offsets : k # record[w] => inbox'[k] = inbox[k]
    BY <1>0, <1>4 DEF HandlerFails, Complete, InHandler
  <2>2. /\ pc'[w] \notin {"handling", "applied"}
        /\ \A v \in Workers : v # w => pc'[v] = pc[v]
    <3>1. \/ AfterFailure(w, RetryForever)
          \/ pc' = [pc EXCEPT ![w] = "commit"]
      BY <1>4 DEF HandlerFails, Complete, Goto
    <3> QED
      BY <1>0, <3>1, AfterFailureFacts DEF DeliveryInv
  <2>3. \A v \in Workers : v # w /\ InHandler(v) => record[v] # record[w]
    BY <2>1 DEF HandlerIsExclusive, InHandler
  <2> QED
    BY <1>0, <2>1, <2>2, <2>3, NobodyEnters DEF InHandler, Row
<1>5. ASSUME NEW w \in Workers, Claim(w) PROVE ClaimInv' /\ HandlerIsExclusive'
  <2>1. record[w] \in Offsets /\ ~Busy(Row(w)) /\ record' = record
    BY <1>5 DEF Claim, Dispatching, DeliveryInv, WorkerInv
  <2>2. \A v \in Workers : InHandler(v) => record[v] # record[w]
    BY <2>1 DEF ClaimInv, InHandler, Busy, Row
  <2>3. /\ InHandler(w)' /\ Row(w)'.status = "processing" /\ Row(w)'.leased
        /\ Row(w)'.token = token'[w]
    BY <1>0, <1>5, <2>1 DEF Claim, Goto, InHandler, Row
  <2>4. \A v \in Workers : v # w /\ InHandler(v)' =>
          InHandler(v) /\ token'[v] = token[v] /\ Row(v)' = Row(v)
    BY <1>0, <1>5, <2>1, <2>2 DEF Claim, Goto, InHandler, Row
  <2> QED
    BY <2>1, <2>2, <2>3, <2>4 DEF ClaimInv, HandlerIsExclusive, InHandler
<1>6. ASSUME NEW m \in Offsets, LeaseExpires(m) PROVE ClaimInv' /\ HandlerIsExclusive'
  <2>1. \A v \in Workers : InHandler(v) => record[v] # m
    BY <1>6 DEF LeaseExpires, ClaimInv, InHandler, Row
  <2> QED
    BY <1>0, <1>6, <2>1, NobodyEnters DEF LeaseExpires, InHandler, Row
<1>7. CASE Evict \/ UNCHANGED vars
  BY <1>7, NobodyEnters DEF Evict, vars, InHandler, Row
<1> QED
  BY <1>1, <1>2, <1>3, <1>4, <1>5, <1>6, <1>7 DEF Next, Work

(* While no worker stalls past its lease, InboxStore.claim admits one      *)
(* worker at a time to the handler of a record.                            *)
THEOREM HandlerExclusive == ~Stalls => (Spec => []HandlerIsExclusive)
<1> SUFFICES ASSUME ~Stalls PROVE Spec => []HandlerIsExclusive
  OBVIOUS
<1>1. Init => ClaimInv /\ HandlerIsExclusive
  BY DEF Init, ClaimInv, HandlerIsExclusive
<1>2. DeliveryInv /\ (ClaimInv /\ HandlerIsExclusive) /\ [Next]_vars
        => (ClaimInv /\ HandlerIsExclusive)'
  BY ExclusiveStep
<1> QED
  BY <1>1, <1>2, DeliveryInvariant, PTL DEF Spec
=============================================================================
