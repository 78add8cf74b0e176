-------------------------- MODULE RetentionProofs ---------------------------
(* Proofs about retention and replay, for any number of events, any batch     *)
(* size, lag and horizons that satisfy the assumptions, and any faults.       *)
EXTENDS Retention, FiniteSetTheorems, SequenceTheorems, TLAPS

-----------------------------------------------------------------------------
(* The outbox and its connector.                                              *)

OutboxType ==
    /\ outbox \in [Events -> {"none", "stored", "deleted"}]
    /\ wal \in Seq(Events)
    /\ slot \in [state : {"absent", "snapshot", "idle", "active"},
                confirmed : 0..Len(wal), recorded : BOOLEAN]
    /\ published \subseteq Events
    /\ prune \in [pc : {"idle", "checked", "deleted", "vouched"}, batch : SUBSET Events]
    /\ forfeited \subseteq Events /\ skipped \subseteq Events

(* A transaction deletes rows that are there.                                 *)
BatchIsStored == prune.pc \in {"deleted", "vouched"} => prune.batch \subseteq Stored

(* A slot that has streamed owes every row it has neither published nor left  *)
(* behind its start.                                                          *)
StreamingIsComplete ==
    slot.state \in {"idle", "active"} =>
        \A e \in Events : outbox[e] # "none" =>
            e \in published \cup forfeited \cup skipped \/ Owed(e)

OutboxInv ==
    /\ OutboxType
    /\ BatchIsStored
    /\ StreamingIsComplete
    /\ PrunedIsOwed
    /\ LossIsBounded

(* The rows a lost slot would cost are finitely many, and a step that adds    *)
(* none keeps their bound.                                                    *)
LEMMA LossShrinks ==
  ASSUME LossIsBounded, AtRisk' \subseteq AtRisk
  PROVE  LossIsBounded'
<1>1. IsFiniteSet(AtRisk)
  <2>1. AtRisk \subseteq Events
    BY DEF AtRisk
  <2> QED
    BY <2>1, FS_Subset, NotEvents
<1>2. IsFiniteSet(AtRisk') /\ Cardinality(AtRisk') <= Cardinality(AtRisk)
  BY <1>1, FS_Subset
<1>3. Cardinality(AtRisk) \in Nat /\ Cardinality(AtRisk') \in Nat
  BY <1>1, <1>2, FS_CardinalityType
<1>4. Cardinality(AtRisk) <= MaxSlotLag
  BY DEF LossIsBounded, AtRisk
<1>5. Cardinality(AtRisk') <= MaxSlotLag
  BY <1>2, <1>3, <1>4, Horizons
<1> QED
  BY <1>5 DEF LossIsBounded, AtRisk

(* What an active slot owes fits in its lag.                                  *)
LEMMA OwedWithinLag ==
  ASSUME OutboxType, SlotReady
  PROVE  LET owed == {e \in Events : Owed(e)}
         IN  IsFiniteSet(owed) /\ Cardinality(owed) <= MaxSlotLag
<1> DEFINE owed == {e \in Events : Owed(e)}
           n == Len(wal) - slot.confirmed
           f == [i \in 1..n |-> wal[slot.confirmed + i]]
<1>1. n \in Nat /\ n <= MaxSlotLag /\ slot.confirmed \in Nat /\ Len(wal) \in Nat
  BY LenProperties, Horizons DEF OutboxType, SlotReady
<1>2. f \in Surjection(1..n, owed)
  <2>1. ASSUME NEW i \in 1..n PROVE f[i] \in owed
    <3>1. slot.confirmed + i \in (slot.confirmed + 1)..Len(wal) /\ slot.confirmed + i \in 1..Len(wal)
      BY <1>1
    <3>2. wal[slot.confirmed + i] \in Events
      BY <3>1, ElementOfSeq DEF OutboxType
    <3> QED
      BY <3>1, <3>2 DEF Owed, SlotReady
  <2>2. ASSUME NEW e \in owed PROVE \E i \in 1..n : f[i] = e
    <3>1. PICK j \in (slot.confirmed + 1)..Len(wal) : wal[j] = e
      BY <2>2 DEF Owed
    <3>2. j - slot.confirmed \in 1..n /\ f[j - slot.confirmed] = e
      BY <1>1, <3>1
    <3> QED
      BY <3>2
  <2> QED
    BY <2>1, <2>2 DEF Surjection
<1>3. IsFiniteSet(1..n) /\ Cardinality(1..n) = n
  <2> HIDE DEF n
  <2>1. n \in Int /\ 1 \in Int /\ (1 > n => n = 0)
    BY <1>1
  <2>2. /\ IsFiniteSet(1..n)
        /\ Cardinality(1..n) = IF 1 > n THEN 0 ELSE n - 1 + 1
    BY <2>1, FS_Interval
  <2> QED
    BY <2>1, <2>2
<1>4. IsFiniteSet(owed) /\ Cardinality(owed) <= n
  BY <1>2, <1>3, FS_Surjection
<1>5. Cardinality(owed) \in Nat
  BY <1>4, FS_CardinalityType
<1> QED
  BY <1>1, <1>4, <1>5, Horizons

(* A step that leaves outbox, cleaner and connector alone keeps all of it.    *)
LEMMA OutboxUnchanged ==
  ASSUME OutboxInv, UNCHANGED <<outboxVars, slotVars>>
  PROVE  OutboxInv'
<1> USE DEF outboxVars, slotVars
<1>1. OutboxType' /\ BatchIsStored' /\ StreamingIsComplete'
  BY DEF OutboxInv, OutboxType, BatchIsStored, StreamingIsComplete, Stored, Owed
<1>2. PrunedIsOwed' /\ LossIsBounded'
  BY DEF OutboxInv, PrunedIsOwed, LossIsBounded, AtRisk, Pruned, Owed
<1> QED
  BY <1>1, <1>2 DEF OutboxInv

(* A row and its record enter together: the slot, if there is one, owes it.   *)
LEMMA InsertStep ==
  ASSUME OutboxInv, NEW e \in Events, Insert(e)
  PROVE  OutboxInv'
<1> USE DEF outboxVars, slotVars
<1>1. /\ OutboxType /\ outbox[e] = "none" /\ outbox' = [outbox EXCEPT ![e] = "stored"]
      /\ wal' = Append(wal, e) /\ UNCHANGED <<slot, published, forfeited, skipped, prune>>
  BY DEF OutboxInv, Insert
<1>2. /\ wal' \in Seq(Events) /\ Len(wal') = Len(wal) + 1 /\ Len(wal) \in Nat
      /\ wal'[Len(wal) + 1] = e /\ \A i \in 1..Len(wal) : wal'[i] = wal[i]
  BY <1>1 DEF OutboxType
<1>3. OutboxType'
  BY <1>1, <1>2 DEF OutboxType
<1>4. \A f \in Events : (Owed(f) => Owed(f)') /\ (slot.state # "absent" => Owed(e)')
  <2>1. slot.confirmed \in 0..Len(wal)
    BY <1>1 DEF OutboxType
  <2> QED
    BY <1>1, <1>2, <2>1 DEF Owed
<1>5. Stored \subseteq Stored' /\ e \notin Stored
  BY <1>1 DEF Stored, OutboxType
<1>6. BatchIsStored'
  BY <1>1, <1>5 DEF OutboxInv, BatchIsStored
<1>7. \A f \in Events : Pruned(f)' => Pruned(f)
  BY <1>1 DEF Pruned, OutboxType
<1>8. StreamingIsComplete'
  BY <1>1, <1>4 DEF OutboxInv, StreamingIsComplete, OutboxType
<1>9. PrunedIsOwed'
  BY <1>1, <1>4, <1>7 DEF OutboxInv, PrunedIsOwed
<1>10. LossIsBounded'
  BY <1>1, <1>7, LossShrinks DEF OutboxInv, AtRisk
<1> QED
  BY <1>3, <1>6, <1>8, <1>9, <1>10 DEF OutboxInv

(* The connector publishes, stops, resumes, is dropped or starts anew.        *)
LEMMA ConnectorStep ==
  ASSUME OutboxInv, \/ Stream(TRUE) \/ Stream(FALSE) \/ Disconnect \/ Reconnect
                    \/ \E b \in BOOLEAN : DropSlot(b)
                    \/ RecreateSlot \/ StartSnapshot \/ Snapshot
  PROVE  OutboxInv'
<1> USE DEF outboxVars, slotVars, Connects
<1>1. OutboxType /\ UNCHANGED outboxVars
  BY DEF OutboxInv, Stream, Disconnect, Reconnect, DropSlot, RecreateSlot, StartSnapshot, Snapshot
<1>2. Len(wal) \in Nat /\ slot.confirmed \in 0..Len(wal) /\ slot.recorded \in BOOLEAN
  BY <1>1, LenProperties DEF OutboxType
<1>3. BatchIsStored' /\ \A e \in Events : (Pruned(e)' <=> Pruned(e)) /\ outbox'[e] = outbox[e]
  BY <1>1 DEF OutboxInv, BatchIsStored, Stored, Pruned
<1>4. CASE Stream(TRUE) \/ Stream(FALSE)
  <2> DEFINE e == wal[slot.confirmed + 1]
  <2>1. /\ slot.state = "active" /\ slot.confirmed < Len(wal)
        /\ published' = published \cup {e} /\ UNCHANGED <<forfeited, skipped>>
        /\ \/ slot' = [slot EXCEPT !.confirmed = @ + 1, !.recorded = TRUE]
           \/ slot' = [slot EXCEPT !.state = "idle"]
    BY <1>4 DEF Stream
  <2>2. e \in Events
    BY <1>1, <1>2, <2>1, ElementOfSeq DEF OutboxType
  <2>3. OutboxType'
    <3>1. slot' \in [state : {"absent", "snapshot", "idle", "active"},
                     confirmed : 0..Len(wal), recorded : BOOLEAN]
      <4>1. slot.confirmed + 1 \in 0..Len(wal)
        BY <1>2, <2>1
      <4>2. slot \in [state : {"absent", "snapshot", "idle", "active"},
                      confirmed : 0..Len(wal), recorded : BOOLEAN]
        BY <1>1 DEF OutboxType
      <4> QED
        BY <2>1, <4>1, <4>2
    <3> QED
      BY <1>1, <2>1, <2>2, <3>1 DEF OutboxType
  <2>4. slot'.state \in {"active", "idle"} /\ slot'.confirmed \in {slot.confirmed, slot.confirmed + 1}
    BY <1>1, <2>1 DEF OutboxType
  <2>5. \A f \in Events : Owed(f) => Owed(f)' \/ f \in published'
    <3> SUFFICES ASSUME NEW f \in Events, Owed(f), f \notin published' PROVE Owed(f)'
      OBVIOUS
    <3>1. PICK i \in (slot.confirmed + 1)..Len(wal) : wal[i] = f
      BY DEF Owed
    <3>2. i # slot.confirmed + 1
      BY <2>1, <3>1
    <3>3. i \in (slot'.confirmed + 1)..Len(wal')
      BY <1>1, <1>2, <2>4, <3>1, <3>2
    <3> QED
      BY <1>1, <2>4, <3>1, <3>3 DEF Owed
  <2>6. StreamingIsComplete'
    BY <1>3, <2>1, <2>5 DEF OutboxInv, StreamingIsComplete
  <2>7. PrunedIsOwed'
    BY <1>3, <2>1, <2>5 DEF OutboxInv, PrunedIsOwed
  <2>8. LossIsBounded'
    BY <1>3, <2>1, LossShrinks DEF OutboxInv, AtRisk
  <2> QED
    BY <1>3, <2>3, <2>6, <2>7, <2>8 DEF OutboxInv
<1>5. CASE Disconnect \/ Reconnect
  <2>1. /\ slot.state \in {"active", "idle"} /\ UNCHANGED <<published, forfeited, skipped>>
        /\ \E x \in {"active", "idle"} : slot' = [slot EXCEPT !.state = x]
    BY <1>5 DEF Disconnect, Reconnect
  <2>2. slot'.state \in {"active", "idle"} /\ slot'.confirmed = slot.confirmed
    BY <1>1, <2>1 DEF OutboxType
  <2>3. OutboxType'
    BY <1>1, <2>1 DEF OutboxType
  <2>4. \A f \in Events : Owed(f) <=> Owed(f)'
    BY <1>1, <2>1, <2>2 DEF Owed
  <2>5. StreamingIsComplete' /\ PrunedIsOwed'
    BY <1>3, <2>1, <2>4 DEF OutboxInv, StreamingIsComplete, PrunedIsOwed
  <2>6. LossIsBounded'
    BY <1>3, <2>1, LossShrinks DEF OutboxInv, AtRisk
  <2> QED
    BY <1>3, <2>3, <2>5, <2>6 DEF OutboxInv
<1>6. CASE (\E b \in BOOLEAN : DropSlot(b)) \/ StartSnapshot
  <2>1. /\ slot'.state \in {"absent", "snapshot"} /\ UNCHANGED <<published, skipped>>
        /\ slot' \in [state : {"absent", "snapshot"}, confirmed : 0..Len(wal), recorded : BOOLEAN]
        /\ forfeited' = forfeited \cup AtRisk
    <3>1. CASE \E b \in BOOLEAN : DropSlot(b)
      <4>1. PICK b \in BOOLEAN : DropSlot(b)
        BY <3>1
      <4> QED
        BY <1>2, <4>1 DEF DropSlot
    <3>2. CASE StartSnapshot
      <4>1. slot' = [slot EXCEPT !.state = "snapshot", !.confirmed = Len(wal)]
        BY <3>2 DEF StartSnapshot
      <4>2. slot'.state = "snapshot" /\ Len(wal) \in 0..Len(wal)
        BY <1>1, <1>2, <4>1 DEF OutboxType
      <4>3. slot' \in [state : {"absent", "snapshot"}, confirmed : 0..Len(wal), recorded : BOOLEAN]
        BY <1>1, <4>1, <4>2 DEF OutboxType
      <4> QED
        BY <3>2, <4>2, <4>3 DEF StartSnapshot
    <3> QED
      BY <1>6, <3>1, <3>2
  <2>2. OutboxType'
    BY <1>1, <1>2, <2>1 DEF OutboxType, AtRisk
  <2>3. StreamingIsComplete' /\ PrunedIsOwed'
    BY <1>3, <2>1 DEF StreamingIsComplete, PrunedIsOwed, AtRisk
  <2>4. LossIsBounded'
    BY <1>3, <2>1, LossShrinks DEF OutboxInv, AtRisk
  <2> QED
    BY <1>3, <2>2, <2>3, <2>4 DEF OutboxInv
<1>7. CASE RecreateSlot
  <2>1. /\ slot.state = "absent"
        /\ slot' = [slot EXCEPT !.state = "active", !.confirmed = Len(wal)]
        /\ skipped' = skipped \cup (Stored \ published) /\ UNCHANGED <<published, forfeited>>
    BY <1>7 DEF RecreateSlot
  <2>2. OutboxType'
    <3>1. slot' \in [state : {"absent", "snapshot", "idle", "active"},
                     confirmed : 0..Len(wal), recorded : BOOLEAN]
      <4>1. Len(wal) \in 0..Len(wal)
        BY <1>2
      <4>2. slot \in [state : {"absent", "snapshot", "idle", "active"},
                      confirmed : 0..Len(wal), recorded : BOOLEAN]
        BY <1>1 DEF OutboxType
      <4> QED
        BY <2>1, <4>1, <4>2
    <3> QED
      BY <1>1, <2>1, <3>1 DEF OutboxType, Stored
  <2>3. PrunedIsOwed'
    BY <1>3, <2>1 DEF OutboxInv, PrunedIsOwed, Owed
  <2>4. \A e \in Events : outbox[e] # "none" => e \in Stored \/ Pruned(e)
    BY <1>1 DEF Stored, Pruned, OutboxType
  <2>5. \A e \in Events : Pruned(e) => e \in published \cup forfeited \cup skipped
    BY <2>1 DEF OutboxInv, PrunedIsOwed, Owed
  <2>6. StreamingIsComplete'
    BY <1>3, <2>1, <2>4, <2>5 DEF StreamingIsComplete
  <2>7. LossIsBounded'
    BY <1>3, <2>1, LossShrinks DEF OutboxInv, AtRisk
  <2> QED
    BY <1>3, <2>2, <2>3, <2>6, <2>7 DEF OutboxInv
<1>8. CASE Snapshot
  <2>1. /\ published' = published \cup Stored /\ UNCHANGED <<forfeited, skipped>>
        /\ \E r \in BOOLEAN : slot' = [slot EXCEPT !.state = "active", !.recorded = r]
        /\ slot.state = "snapshot"
    BY <1>8 DEF Snapshot
  <2>2. slot'.state = "active" /\ slot'.confirmed = slot.confirmed
    BY <1>1, <2>1 DEF OutboxType
  <2>3. OutboxType'
    BY <1>1, <2>1 DEF OutboxType, Stored
  <2>4. \A f \in Events : Owed(f) <=> Owed(f)'
    BY <1>1, <2>1, <2>2 DEF Owed
  <2>5. PrunedIsOwed'
    BY <1>3, <2>1, <2>4 DEF OutboxInv, PrunedIsOwed
  <2>6. \A e \in Events : outbox[e] # "none" => e \in Stored \/ Pruned(e)
    BY <1>1 DEF Stored, Pruned, OutboxType
  <2>7. StreamingIsComplete'
    BY <1>3, <2>1, <2>5, <2>6 DEF StreamingIsComplete, PrunedIsOwed
  <2>8. LossIsBounded'
    BY <1>3, <2>1, LossShrinks DEF OutboxInv, AtRisk
  <2> QED
    BY <1>3, <2>3, <2>5, <2>7, <2>8 DEF OutboxInv
<1> QED
  BY <1>4, <1>5, <1>6, <1>7, <1>8

(* The cleaner's transaction: the slot it finds ready at the recheck has      *)
(* published or owes what the commit then removes.                            *)
LEMMA PruneStep ==
  ASSUME OutboxInv, \/ CheckSlot \/ SelectAndDelete \/ RecheckSlot \/ CommitBatch \/ RollBack
  PROVE  OutboxInv'
<1> USE DEF outboxVars, slotVars, PrunesOnly
<1>1. OutboxType /\ UNCHANGED <<wal, slot, published, forfeited, skipped>>
  BY DEF OutboxInv, CheckSlot, SelectAndDelete, RecheckSlot, CommitBatch, RollBack
<1>2. \A f \in Events : Owed(f) <=> Owed(f)'
  BY <1>1 DEF Owed
<1>3. ASSUME outbox' = outbox, prune' \in [pc : {"idle", "checked", "deleted", "vouched"},
                                           batch : SUBSET Events],
             prune'.pc # "vouched",
             prune'.pc = "deleted" => prune'.batch \subseteq Stored
      PROVE  OutboxInv'
  <2>1. OutboxType' /\ BatchIsStored' /\ StreamingIsComplete'
    BY <1>1, <1>2, <1>3 DEF OutboxInv, OutboxType, BatchIsStored, StreamingIsComplete, Stored
  <2>2. \A f \in Events : Pruned(f)' => Pruned(f)
    BY <1>3 DEF Pruned
  <2>3. PrunedIsOwed'
    BY <1>1, <1>2, <2>2 DEF OutboxInv, PrunedIsOwed
  <2>4. LossIsBounded'
    BY <1>1, <2>2, LossShrinks DEF OutboxInv, AtRisk
  <2> QED
    BY <2>1, <2>3, <2>4 DEF OutboxInv
<1>4. CASE CheckSlot
  BY <1>1, <1>3, <1>4 DEF CheckSlot, OutboxType
<1>5. CASE SelectAndDelete
  <2>1. PICK b \in SUBSET OldRows :
            prune' = IF b = {} THEN IdlePrune ELSE [pc |-> "deleted", batch |-> b]
    BY <1>5 DEF SelectAndDelete
  <2>2. b \subseteq Stored /\ Stored \subseteq Events
    BY <2>1 DEF OldRows, Stored
  <2> QED
    BY <1>3, <1>5, <2>1, <2>2 DEF SelectAndDelete, IdlePrune
<1>6. CASE RollBack \/ (RecheckSlot /\ ~SlotReady)
  BY <1>3, <1>6 DEF RollBack, RecheckSlot, IdlePrune
<1>7. CASE RecheckSlot /\ SlotReady
  <2>1. /\ prune.pc = "deleted" /\ prune' = [prune EXCEPT !.pc = "vouched"] /\ outbox' = outbox
        /\ slot.state = "active"
    BY <1>7 DEF RecheckSlot, SlotReady
  <2>2. /\ prune' \in [pc : {"idle", "checked", "deleted", "vouched"}, batch : SUBSET Events]
        /\ prune'.batch = prune.batch
    BY <1>1, <2>1 DEF OutboxType
  <2>3. OutboxType' /\ BatchIsStored' /\ StreamingIsComplete'
    BY <1>1, <1>2, <2>1, <2>2 DEF OutboxInv, OutboxType, BatchIsStored, StreamingIsComplete, Stored
  <2>4. \A f \in Events : Pruned(f)' => f \in published \cup forfeited \cup skipped \/ Owed(f)
    <3> SUFFICES ASSUME NEW f \in Events, Pruned(f)'
                 PROVE  f \in published \cup forfeited \cup skipped \/ Owed(f)
      OBVIOUS
    <3>1. outbox[f] # "none"
      BY <2>1, <2>2 DEF Pruned, OutboxInv, BatchIsStored, Stored
    <3> QED
      BY <2>1, <3>1 DEF OutboxInv, StreamingIsComplete
  <2>5. PrunedIsOwed'
    BY <1>1, <1>2, <2>4 DEF PrunedIsOwed
  <2>6. AtRisk' \subseteq {e \in Events : Owed(e)}
    BY <1>1, <2>4 DEF AtRisk
  <2>7. LossIsBounded'
    <3> DEFINE owed == {e \in Events : Owed(e)}
    <3>1. IsFiniteSet(owed) /\ Cardinality(owed) <= MaxSlotLag
      BY <1>1, <1>7, OwedWithinLag
    <3>2. IsFiniteSet(AtRisk') /\ Cardinality(AtRisk') <= Cardinality(owed)
      BY <2>6, <3>1, FS_Subset
    <3>3. Cardinality(owed) \in Nat /\ Cardinality(AtRisk') \in Nat
      BY <3>1, <3>2, FS_CardinalityType
    <3>4. Cardinality(AtRisk') <= MaxSlotLag
      BY <3>1, <3>2, <3>3, Horizons
    <3> QED
      BY <3>4 DEF LossIsBounded, AtRisk
  <2> QED
    BY <2>3, <2>5, <2>7 DEF OutboxInv
<1>8. CASE CommitBatch
  <2>1. /\ prune.pc = "vouched" /\ prune' = IdlePrune
        /\ outbox' = [e \in Events |-> IF e \in prune.batch THEN "deleted" ELSE outbox[e]]
    BY <1>8 DEF CommitBatch
  <2>2. OutboxType'
    BY <1>1, <2>1 DEF OutboxType, IdlePrune
  <2>3. BatchIsStored'
    BY <2>1 DEF BatchIsStored, IdlePrune
  <2>4. \A f \in Events : (Pruned(f)' => Pruned(f)) /\ (outbox'[f] # "none" => outbox[f] # "none")
    BY <1>1, <2>1 DEF Pruned, IdlePrune, OutboxInv, BatchIsStored, Stored
  <2>5. StreamingIsComplete' /\ PrunedIsOwed'
    BY <1>1, <1>2, <2>4 DEF OutboxInv, StreamingIsComplete, PrunedIsOwed
  <2>6. LossIsBounded'
    BY <1>1, <2>4, LossShrinks DEF OutboxInv, AtRisk
  <2> QED
    BY <2>2, <2>3, <2>5, <2>6 DEF OutboxInv
<1> QED
  BY <1>4, <1>5, <1>6, <1>7, <1>8

(* Before the first row there is nothing to lose.                             *)
LEMMA OutboxInit == Init => OutboxInv
<1> SUFFICES ASSUME Init PROVE OutboxInv
  OBVIOUS
<1>1. OutboxType /\ BatchIsStored /\ StreamingIsComplete /\ PrunedIsOwed
  BY DEF Init, OutboxType, BatchIsStored, StreamingIsComplete, PrunedIsOwed, Pruned, IdlePrune
<1>2. AtRisk = {}
  BY DEF Init, AtRisk, Pruned, IdlePrune
<1>3. LossIsBounded
  <2>1. Cardinality({}) <= MaxSlotLag
    BY FS_EmptySet, Horizons
  <2> QED
    BY <1>2, <2>1, Zenon DEF LossIsBounded
<1> QED
  BY <1>1, <1>3 DEF OutboxInv

(* Every step keeps it.                                                       *)
LEMMA OutboxNext == OutboxInv /\ [Next]_vars => OutboxInv'
<1> SUFFICES ASSUME OutboxInv, [Next]_vars PROVE OutboxInv'
  OBVIOUS
<1>1. CASE UNCHANGED vars
  BY <1>1, OutboxUnchanged DEF vars, outboxVars, slotVars
<1>2. CASE \E e \in Events : Insert(e)
  BY <1>2, InsertStep
<1>3. CASE \/ Stream(TRUE) \/ Stream(FALSE) \/ Disconnect \/ Reconnect
           \/ (\E b \in BOOLEAN : DropSlot(b)) \/ RecreateSlot \/ StartSnapshot \/ Snapshot
  BY <1>3, ConnectorStep
<1>4. CASE \/ CheckSlot \/ SelectAndDelete \/ RecheckSlot \/ CommitBatch \/ RollBack
  BY <1>4, PruneStep
<1>5. CASE PruneInbox \/ Complete \/ SkipProcessed \/ Park \/ Tick
           \/ \E x \in {Foreign, Broken} : ParkForeign(x)
  BY <1>5, OutboxUnchanged DEF PruneInbox, Complete, SkipProcessed, Park, Tick, ParkForeign
<1>6. CASE \/ \E b \in BOOLEAN : StartReplay(b)
           \/ Republish \/ SkipForeign \/ RefuseBroken \/ CommitReplay
           \/ SendFails \/ ReplayDies
  BY <1>6, OutboxUnchanged DEF StartReplay, Republish, SkipForeign, RefuseBroken, CommitReplay,
                               SendFails, ReplayDies, ReplaysOnly
<1> QED
  BY <1>1, <1>2, <1>3, <1>4, <1>5, <1>6 DEF Next, Step, Mishap

(* A row leaves the outbox only once it was published or while a slot owes it.*)
THEOREM PrunedAlwaysOwed == Spec => []PrunedIsOwed
<1>1. Spec => []OutboxInv
  BY OutboxInit, OutboxNext, PTL DEF Spec
<1>2. OutboxInv => PrunedIsOwed
  BY DEF OutboxInv
<1> QED
  BY <1>1, <1>2, PTL

(* Losing the replication slot costs at most the lag the cleaner tolerates.   *)
THEOREM LossAlwaysBounded == Spec => []LossIsBounded
<1>1. Spec => []OutboxInv
  BY OutboxInit, OutboxNext, PTL DEF Spec
<1>2. OutboxInv => LossIsBounded
  BY DEF OutboxInv
<1> QED
  BY <1>1, <1>2, PTL

-----------------------------------------------------------------------------
(* The records that wait for the consumer group.                              *)

TopicInv == topic \in Seq(Record)

(* A tick adds one to an age until it exceeds every horizon.                  *)
LEMMA OlderFacts ==
  /\ Forever \in Nat /\ Forever > InboxAge /\ Ages \subseteq Nat
  /\ \A a \in Ages : /\ Older(a) \in Ages /\ a <= Older(a) /\ Older(a) <= a + 1
                     /\ a <= InboxAge => Older(a) = a + 1
  /\ \A a, b \in Ages : a <= b => Older(a) <= Older(b)
<1>1. Forever \in Nat /\ Forever > InboxAge
  BY Horizons DEF Forever
<1>2. Ages = 0..Forever
  BY DEF Ages
<1>3. \A a \in 0..Forever : /\ Older(a) \in 0..Forever /\ a <= Older(a) /\ Older(a) <= a + 1
                            /\ a <= InboxAge => Older(a) = a + 1
  BY <1>1, Horizons DEF Older
<1>4. \A a, b \in 0..Forever : a <= b => Older(a) <= Older(b)
  BY <1>1 DEF Older
<1> QED
  BY <1>1, <1>2, <1>3, <1>4

(* Growing older keeps a sequence of records in place.                        *)
LEMMA AgedFacts ==
  ASSUME NEW X, NEW s \in Seq([event : X, age : Ages])
  PROVE  /\ Aged(s) \in Seq([event : X, age : Ages]) /\ Len(Aged(s)) = Len(s)
         /\ \A i \in 1..Len(s) : /\ Aged(s)[i].event = s[i].event
                                 /\ Aged(s)[i].age = Older(s[i].age)
<1> DEFINE R == [event : X, age : Ages]
<1>1. DOMAIN s = 1..Len(s) /\ Len(s) \in Nat /\ \A i \in 1..Len(s) : s[i] \in R
  BY LenProperties, ElementOfSeq
<1>2. \A a \in Ages : Older(a) \in Ages
  BY Horizons DEF Older, Ages, Forever
<1>3. Aged(s) = [i \in 1..Len(s) |-> [s[i] EXCEPT !.age = Older(@)]]
  BY <1>1 DEF Aged
<1>4. \A i \in 1..Len(s) : /\ Aged(s)[i] \in R /\ Aged(s)[i].event = s[i].event
                           /\ Aged(s)[i].age = Older(s[i].age)
  BY <1>1, <1>2, <1>3
<1>5. Aged(s) \in [1..Len(s) -> R]
  BY <1>3, <1>4
<1>6. Aged(s) \in Seq(R)
  BY <1>1, <1>5, SeqDef
<1>7. Len(Aged(s)) = Len(s)
  BY <1>1, <1>3, <1>6, LenProperties
<1> QED
  BY <1>4, <1>6, <1>7

(* The record of an event is new when it is published.                        *)
LEMMA UnreadType ==
  /\ \A e \in Events : Unread(e) \in Record /\ Unread(e).event = e /\ Unread(e).age = 0
  /\ \A e \in Events \cup {Foreign, Broken} :
         Unread(e) \in Parked /\ Unread(e).event = e /\ Unread(e).age = 0
  BY Horizons DEF Unread, Record, Parked, Ages, Forever

(* What the connector or a replay can publish.                                *)
Source(e) ==
    \/ outbox[e] = "stored"
    \/ Owed(e)
    \/ replay.pc = "fetched" /\ Fetched = e

(* A step leaves the topic alone, takes its first record, ages it, or adds    *)
(* copies of a Source behind what is there.                                   *)
LEMMA TopicStep ==
  ASSUME OutboxInv, TopicInv, [Next]_vars
  PROVE  /\ TopicInv'
         /\ \/ topic' = topic
            \/ topic # <<>> /\ topic' = Tail(topic)
            \/ topic' = Aged(topic) /\ Tick
            \/ ~Tick /\ \A i \in 1..Len(topic') :
                  \/ i \in 1..Len(topic) /\ topic'[i] = topic[i]
                  \/ /\ topic'[i] = Unread(topic'[i].event)
                     /\ topic'[i].event \in Events /\ Source(topic'[i].event)
<1> USE DEF TopicInv
<1> DEFINE Grows(t) == /\ t \in Seq(Record)
                       /\ \A i \in 1..Len(t) :
                            \/ i \in 1..Len(topic) /\ t[i] = topic[i]
                            \/ /\ t[i] = Unread(t[i].event)
                               /\ t[i].event \in Events /\ Source(t[i].event)
           Goal == /\ topic' \in Seq(Record)
                   /\ \/ topic' = topic
                      \/ topic # <<>> /\ topic' = Tail(topic)
                      \/ topic' = Aged(topic) /\ Tick
                      \/ ~Tick /\ Grows(topic')
<1>1. ASSUME NEW e \in Events, Source(e), topic' = Append(topic, Unread(e)) PROVE Grows(topic')
  <2>1. /\ topic' \in Seq(Record) /\ Len(topic') = Len(topic) + 1 /\ Len(topic) \in Nat
        /\ topic'[Len(topic) + 1] = Unread(e)
        /\ \A i \in 1..Len(topic) : topic'[i] = topic[i]
    BY <1>1, UnreadType
  <2>2. \A i \in 1..Len(topic') : i \in 1..Len(topic) \/ i = Len(topic) + 1
    BY <2>1
  <2> QED
    BY <1>1, <2>1, <2>2, UnreadType
<1>2. CASE Tick
  <2>1. topic' = Aged(topic)
    BY <1>2 DEF Tick
  <2> QED
    BY <1>2, <2>1, AgedFacts DEF Record
<1>3. ASSUME UNCHANGED topic PROVE Goal
  BY <1>3
<1>4. CASE ~Tick /\ (Stream(TRUE) \/ Stream(FALSE))
  <2> DEFINE e == wal[slot.confirmed + 1]
  <2>1. /\ slot.state = "active" /\ slot.confirmed < Len(wal) /\ topic' = Append(topic, Unread(e))
    BY <1>4 DEF Stream
  <2>2. slot.confirmed \in Nat /\ Len(wal) \in Nat
    BY LenProperties DEF OutboxInv, OutboxType
  <2>3. slot.confirmed + 1 \in 1..Len(wal) /\ slot.confirmed + 1 \in (slot.confirmed + 1)..Len(wal)
    BY <2>1, <2>2
  <2>4. e \in Events /\ Source(e)
    BY <2>1, <2>3, ElementOfSeq DEF OutboxInv, OutboxType, Source, Owed
  <2> QED
    BY <1>1, <1>4, <2>1, <2>4
<1>5. CASE ~Tick /\ Snapshot
  <2> DEFINE n == Cardinality(Stored)
  <2>1. PICK s \in [1..n -> Stored] : topic' = topic \o [i \in DOMAIN s |-> Unread(s[i])]
    BY <1>5 DEF Snapshot
  <2>2. n \in Nat
    <3>1. Stored \subseteq Events
      BY DEF Stored
    <3> QED
      BY <3>1, FS_Subset, FS_CardinalityType, NotEvents
  <2> DEFINE t == [i \in DOMAIN s |-> Unread(s[i])]
  <2>3. \A i \in 1..n : s[i] \in Events /\ Source(s[i]) /\ Unread(s[i]) \in Record
    BY UnreadType DEF Stored, Source
  <2> HIDE DEF n
  <2>4. t \in [1..n -> Record] /\ DOMAIN t = 1..n
    BY <2>3
  <2>5. t \in Seq(Record) /\ Len(t) = n
    BY <2>2, <2>4, SeqDef, LenProperties
  <2>6. /\ topic' \in Seq(Record) /\ Len(topic') = Len(topic) + n /\ Len(topic) \in Nat
        /\ \A i \in 1..Len(topic) + n :
               topic'[i] = IF i <= Len(topic) THEN topic[i] ELSE t[i - Len(topic)]
    BY <2>1, <2>5, ConcatProperties, LenProperties
  <2>7. ASSUME NEW i \in 1..Len(topic'), i \notin 1..Len(topic)
        PROVE  /\ topic'[i] = Unread(topic'[i].event)
               /\ topic'[i].event \in Events /\ Source(topic'[i].event)
    <3>1. i - Len(topic) \in 1..n /\ i \in 1..Len(topic) + n /\ ~(i <= Len(topic))
      BY <2>2, <2>6, <2>7
    <3>2. topic'[i] = t[i - Len(topic)]
      <4> HIDE DEF t
      <4> QED
        BY <2>6, <3>1
    <3>3. topic'[i] = Unread(s[i - Len(topic)])
      BY <3>1, <3>2
    <3> QED
      BY <2>3, <3>1, <3>3, UnreadType
  <2>8. ASSUME NEW i \in 1..Len(topic') PROVE i \in 1..Len(topic) => topic'[i] = topic[i]
    <3> HIDE DEF t
    <3>1. i \in 1..Len(topic) => i \in 1..Len(topic) + n /\ i <= Len(topic)
      BY <2>2, <2>6
    <3> QED
      BY <2>6, <3>1
  <2> QED
    BY <1>5, <2>6, <2>7, <2>8
<1>6. CASE ~Tick /\ (Republish \/ SendFails)
  <2>1. /\ replay.pc = "fetched" /\ Fetched \in Events
        /\ topic' = topic \/ topic' = Append(topic, Unread(Fetched))
    BY <1>6 DEF Republish, SendFails
  <2>2. Source(Fetched)
    BY <2>1 DEF Source
  <2> QED
    BY <1>1, <1>6, <2>1, <2>2
<1>7. CASE Complete \/ SkipProcessed \/ Park
  <2>1. topic # <<>> /\ topic' = Tail(topic)
    BY <1>7 DEF Complete, SkipProcessed, Park
  <2> QED
    BY <2>1, HeadTailProperties
<1>8. CASE \/ UNCHANGED vars \/ \E e \in Events : Insert(e)
           \/ Disconnect \/ Reconnect \/ \E b \in BOOLEAN : DropSlot(b)
           \/ RecreateSlot \/ StartSnapshot
  BY <1>3, <1>8 DEF vars, Insert, Disconnect, Reconnect, DropSlot, RecreateSlot, StartSnapshot
<1>9. CASE \/ CheckSlot \/ SelectAndDelete \/ RecheckSlot \/ CommitBatch \/ RollBack \/ PruneInbox
           \/ \E x \in {Foreign, Broken} : ParkForeign(x)
  BY <1>3, <1>9 DEF CheckSlot, SelectAndDelete, RecheckSlot, CommitBatch, RollBack, PrunesOnly,
                    PruneInbox, ParkForeign
<1>10. CASE \/ \E b \in BOOLEAN : StartReplay(b)
            \/ SkipForeign \/ RefuseBroken \/ CommitReplay \/ ReplayDies
  BY <1>3, <1>10 DEF StartReplay, SkipForeign, RefuseBroken, CommitReplay, ReplayDies
<1>11. Goal
  BY <1>2, <1>4, <1>5, <1>6, <1>7, <1>8, <1>9, <1>10 DEF Next, Step, Mishap
<1> QED
  BY <1>11

-----------------------------------------------------------------------------
(* The dead-letter topic and its replay.                                      *)

ReplayType ==
    /\ dlq \in Seq(Parked)
    /\ expired \in 0..Len(dlq)
    /\ replay \in [pc : {"idle", "fetched", "sent"}, pos : Nat, end : 0..Len(dlq)]
    /\ replay.pc # "idle" => replay.pos < replay.end
    /\ replayed \in 0..Len(dlq)
    /\ republished \subseteq 1..Len(dlq)

(* A replay reads retained records, the next after the committed ones.        *)
ReplayAtCommitted ==
    replay.pc # "idle" => expired <= replay.pos /\ replay.pos <= Later(replayed, expired)

SentIsRepublished ==
    replay.pc = "sent" =>
        dlq[replay.pos + 1].event = Foreign \/ replay.pos + 1 \in republished

(* Records expire in the order in which they were parked.                     *)
ParkedInOrder ==
    /\ \A i, j \in 1..Len(dlq) : i < j => dlq[j].age <= dlq[i].age
    /\ \A i \in 1..Len(dlq) : i > expired => dlq[i].age <= ParkedAge

ReplayInv ==
    /\ ReplayType
    /\ ReplayAtCommitted
    /\ SentIsRepublished
    /\ ParkedInOrder
    /\ ReplayLosesNothing

(* A record parked at the end of the topic disturbs nothing before it.        *)
LEMMA ParkStep ==
  ASSUME ReplayInv, NEW x \in Events \cup {Foreign, Broken}, dlq' = Append(dlq, Unread(x)),
         UNCHANGED <<expired, replay, replayed, republished>>
  PROVE  ReplayInv'
<1>1. /\ dlq \in Seq(Parked) /\ Len(dlq) \in Nat
      /\ \A i \in 1..Len(dlq) : dlq[i] \in Parked
  BY LenProperties, ElementOfSeq DEF ReplayInv, ReplayType
<1>2. /\ dlq' \in Seq(Parked) /\ Len(dlq') = Len(dlq) + 1
      /\ dlq'[Len(dlq) + 1] = Unread(x) /\ \A i \in 1..Len(dlq) : dlq'[i] = dlq[i]
  BY <1>1, UnreadType
<1>3. ReplayType' /\ ReplayAtCommitted'
  BY <1>1, <1>2 DEF ReplayInv, ReplayType, ReplayAtCommitted
<1>4. replay.pc # "idle" => replay.pos + 1 \in 1..Len(dlq)
  BY <1>1 DEF ReplayInv, ReplayType
<1>5. SentIsRepublished'
  BY <1>2, <1>4 DEF ReplayInv, SentIsRepublished
<1>6. ParkedInOrder'
  <2>1. Unread(x).age = 0 /\ 0 <= ParkedAge /\ ParkedAge \in Nat
    BY UnreadType, Horizons
  <2>2. \A i \in 1..Len(dlq) : dlq[i].age \in Nat
    BY <1>1, Horizons DEF Parked, Ages, Forever
  <2>3. \A i \in 1..Len(dlq') : i \in 1..Len(dlq) \/ i = Len(dlq) + 1
    BY <1>1, <1>2
  <2>4. ASSUME NEW i \in 1..Len(dlq'), NEW j \in 1..Len(dlq'), i < j
        PROVE  dlq'[j].age <= dlq'[i].age
    <3>1. i \in 1..Len(dlq)
      BY <1>1, <1>2, <2>4
    <3>2. CASE j \in 1..Len(dlq)
      BY <1>2, <2>4, <3>1, <3>2 DEF ReplayInv, ParkedInOrder
    <3>3. CASE j = Len(dlq) + 1
      BY <1>2, <2>1, <2>2, <3>1, <3>3
    <3> QED
      BY <2>3, <3>2, <3>3
  <2>5. ASSUME NEW i \in 1..Len(dlq'), i > expired'
        PROVE  dlq'[i].age <= ParkedAge
    BY <1>2, <2>1, <2>3, <2>5 DEF ReplayInv, ParkedInOrder
  <2> QED
    BY <2>4, <2>5 DEF ParkedInOrder
<1>7. ReplayLosesNothing'
  <2>1. \A i \in (expired + 1)..replayed : i \in 1..Len(dlq)
    BY <1>1 DEF ReplayInv, ReplayType
  <2> QED
    BY <1>2, <2>1 DEF ReplayInv, ReplayLosesNothing
<1> QED
  BY <1>3, <1>5, <1>6, <1>7 DEF ReplayInv

(* The offset the replay commits follows records that came back.              *)
LEMMA ReplayStep ==
  ASSUME ReplayInv, UNCHANGED <<dlq, expired>>,
         \/ \E b \in BOOLEAN : StartReplay(b)
         \/ Republish \/ SendFails \/ SkipForeign \/ RefuseBroken \/ CommitReplay \/ ReplayDies
  PROVE  ReplayInv'
<1>1. /\ ReplayType /\ Len(dlq) \in Nat /\ expired \in Nat /\ replayed \in Nat
      /\ replay.pos \in Nat /\ replay.end \in Nat
  BY LenProperties DEF ReplayInv, ReplayType
<1>2. ParkedInOrder'
  BY DEF ReplayInv, ParkedInOrder
<1>3. CASE \E b \in BOOLEAN : StartReplay(b)
  <2>1. PICK start \in {expired, Later(replayed, expired)} :
          /\ start < Len(dlq) /\ replay' = [pc |-> "fetched", pos |-> start, end |-> Len(dlq)]
          /\ UNCHANGED <<replayed, republished>>
    BY <1>3 DEF StartReplay
  <2>2. start \in Nat /\ expired <= start /\ start <= Later(replayed, expired)
    BY <1>1, <2>1 DEF Later
  <2>3. ReplayType'
    BY <1>1, <2>1, <2>2 DEF ReplayType
  <2>4. ReplayAtCommitted' /\ SentIsRepublished' /\ ReplayLosesNothing'
    BY <2>1, <2>2 DEF ReplayInv, ReplayAtCommitted, SentIsRepublished, ReplayLosesNothing
  <2> QED
    BY <1>2, <2>3, <2>4 DEF ReplayInv
<1>4. CASE Republish \/ SkipForeign
  <2>1. /\ replay.pc = "fetched" /\ replay' = [replay EXCEPT !.pc = "sent"] /\ UNCHANGED replayed
        /\ \/ republished' = republished \cup {replay.pos + 1}
           \/ republished' = republished /\ dlq[replay.pos + 1].event = Foreign
    BY <1>4 DEF Republish, SkipForeign, Fetched
  <2>2. /\ replay'.pc = "sent" /\ replay'.pos = replay.pos /\ replay'.end = replay.end
        /\ replay' \in [pc : {"idle", "fetched", "sent"}, pos : Nat, end : 0..Len(dlq)]
        /\ replay.pos < replay.end
    BY <1>1, <2>1 DEF ReplayType
  <2>3. replay.pos + 1 \in 1..Len(dlq)
    BY <1>1, <2>2 DEF ReplayType
  <2>4. republished' \subseteq 1..Len(dlq) /\ republished \subseteq republished'
    BY <1>1, <2>1, <2>3 DEF ReplayType
  <2>5. ReplayType'
    BY <1>1, <2>1, <2>2, <2>4 DEF ReplayType
  <2>6. ReplayAtCommitted' /\ SentIsRepublished'
    BY <2>1, <2>2 DEF ReplayInv, ReplayAtCommitted, SentIsRepublished
  <2>7. ReplayLosesNothing'
    BY <2>1, <2>4 DEF ReplayInv, ReplayLosesNothing
  <2> QED
    BY <1>2, <2>5, <2>6, <2>7 DEF ReplayInv
<1>5. CASE SendFails \/ RefuseBroken \/ ReplayDies
  <2>1. replay' = IdleReplay /\ UNCHANGED <<replayed, republished>>
    BY <1>5 DEF SendFails, RefuseBroken, ReplayDies
  <2>2. ReplayType'
    BY <1>1, <2>1 DEF ReplayType, IdleReplay
  <2>3. ReplayAtCommitted' /\ SentIsRepublished' /\ ReplayLosesNothing'
    BY <2>1 DEF ReplayInv, ReplayAtCommitted, SentIsRepublished, ReplayLosesNothing, IdleReplay
  <2> QED
    BY <1>2, <2>2, <2>3 DEF ReplayInv
<1>6. CASE CommitReplay
  <2>1. /\ replay.pc = "sent" /\ replayed' = replay.pos + 1 /\ UNCHANGED republished
        /\ replay' = IF replay.pos + 1 < replay.end
                     THEN [replay EXCEPT !.pc = "fetched", !.pos = @ + 1]
                     ELSE IdleReplay
    BY <1>6 DEF CommitReplay
  <2>2. replay.pos < replay.end /\ replay.end <= Len(dlq)
    BY <1>1, <2>1 DEF ReplayType
  <2>3. /\ replay' \in [pc : {"idle", "fetched", "sent"}, pos : Nat, end : 0..Len(dlq)]
        /\ replay'.pc # "sent"
        /\ replay'.pc # "idle" => replay'.pos = replay.pos + 1 /\ replay'.pos < replay'.end
    <3>1. CASE replay.pos + 1 < replay.end
      <4>1. replay' = [replay EXCEPT !.pc = "fetched", !.pos = replay.pos + 1]
        BY <2>1, <3>1
      <4>2. /\ replay' \in [pc : {"idle", "fetched", "sent"}, pos : Nat, end : 0..Len(dlq)]
            /\ replay'.pc = "fetched" /\ replay'.pos = replay.pos + 1 /\ replay'.end = replay.end
        <5>1. /\ replay \in [pc : {"idle", "fetched", "sent"}, pos : Nat, end : 0..Len(dlq)]
              /\ replay.pos + 1 \in Nat
          BY <1>1 DEF ReplayType
        <5> DEFINE next == replay.pos + 1
        <5> HIDE DEF next
        <5>2. replay' = [replay EXCEPT !.pc = "fetched", !.pos = next] /\ next \in Nat
          BY <4>1, <5>1 DEF next
        <5>3. /\ replay' \in [pc : {"idle", "fetched", "sent"}, pos : Nat, end : 0..Len(dlq)]
              /\ replay'.pc = "fetched" /\ replay'.pos = next /\ replay'.end = replay.end
          BY <5>1, <5>2
        <5> QED
          BY <5>3 DEF next
      <4> QED
        BY <3>1, <4>2
    <3>2. CASE ~(replay.pos + 1 < replay.end)
      BY <1>1, <2>1, <3>2 DEF IdleReplay
    <3> QED
      BY <3>1, <3>2
  <2>4. ReplayType'
    BY <1>1, <2>1, <2>2, <2>3 DEF ReplayType
  <2>5. expired <= replay.pos /\ replay.pos <= Later(replayed, expired)
    BY <2>1 DEF ReplayInv, ReplayAtCommitted
  <2>6. ReplayAtCommitted' /\ SentIsRepublished'
    BY <1>1, <2>1, <2>3, <2>5 DEF ReplayAtCommitted, SentIsRepublished, Later
  <2>7. ReplayLosesNothing'
    <3> SUFFICES ASSUME NEW i \in (expired + 1)..(replay.pos + 1)
                 PROVE  dlq[i].event = Foreign \/ i \in republished
      BY <2>1 DEF ReplayLosesNothing
    <3>1. CASE i = replay.pos + 1
      BY <2>1, <3>1 DEF ReplayInv, SentIsRepublished
    <3>2. CASE i # replay.pos + 1
      <4>1. i \in (expired + 1)..replayed
        BY <1>1, <2>5, <3>2 DEF Later
      <4> QED
        BY <4>1 DEF ReplayInv, ReplayLosesNothing
    <3> QED
      BY <3>1, <3>2
  <2> QED
    BY <1>2, <2>4, <2>6, <2>7 DEF ReplayInv
<1> QED
  BY <1>3, <1>4, <1>5, <1>6

(* With the clock, the records that have been there for ParkedAge go: those   *)
(* are the first ones.                                                        *)
LEMMA ExpiryStep ==
  ASSUME ReplayInv, Tick
  PROVE  ReplayInv'
<1> DEFINE old == {i \in DOMAIN dlq : dlq[i].age >= ParkedAge}
<1>1. /\ dlq' = Aged(dlq) /\ expired' = Later(expired, Cardinality(old))
      /\ UNCHANGED <<replay, replayed, republished>> /\ replay.pc = "idle"
  BY DEF Tick, OnSchedule, dlqVars
<1>2. /\ dlq \in Seq(Parked) /\ Len(dlq) \in Nat /\ DOMAIN dlq = 1..Len(dlq)
      /\ \A i \in 1..Len(dlq) : dlq[i] \in Parked
  BY LenProperties, ElementOfSeq DEF ReplayInv, ReplayType
<1>3. /\ dlq' \in Seq(Parked) /\ Len(dlq') = Len(dlq)
      /\ \A i \in 1..Len(dlq) : dlq'[i].event = dlq[i].event /\ dlq'[i].age = Older(dlq[i].age)
  BY <1>1, <1>2, AgedFacts DEF Parked
<1>4. /\ IsFiniteSet(1..Len(dlq)) /\ Cardinality(1..Len(dlq)) = Len(dlq)
  <2> DEFINE n == Len(dlq)
  <2> HIDE DEF n
  <2>1. n \in Int /\ 1 \in Int /\ (1 > n => n = 0)
    BY <1>2 DEF n
  <2>2. /\ IsFiniteSet(1..n)
        /\ Cardinality(1..n) = IF 1 > n THEN 0 ELSE n - 1 + 1
    BY <2>1, FS_Interval
  <2>3. IsFiniteSet(1..n) /\ Cardinality(1..n) = n
    BY <2>1, <2>2
  <2> QED
    BY <2>3 DEF n
<1>5. old \subseteq 1..Len(dlq)
  BY <1>2
<1>6. /\ IsFiniteSet(old) /\ Cardinality(old) \in Nat /\ Cardinality(old) <= Len(dlq)
  BY <1>4, <1>5, FS_Subset, FS_CardinalityType
<1>7. expired' \in 0..Len(dlq) /\ expired <= expired' /\ Cardinality(old) <= expired' /\ expired \in Nat
  BY <1>1, <1>2, <1>6 DEF ReplayInv, ReplayType, Later
<1>8. ReplayType'
  BY <1>1, <1>3, <1>7 DEF ReplayInv, ReplayType
<1>9. ReplayAtCommitted' /\ SentIsRepublished'
  BY <1>1 DEF ReplayAtCommitted, SentIsRepublished
<1>10. ReplayLosesNothing'
  <2> SUFFICES ASSUME NEW i \in (expired' + 1)..replayed
               PROVE  dlq'[i].event = Foreign \/ i \in republished
    BY <1>1 DEF ReplayLosesNothing
  <2>1. i \in (expired + 1)..replayed /\ i \in 1..Len(dlq)
    BY <1>2, <1>7 DEF ReplayInv, ReplayType
  <2> QED
    BY <1>3, <2>1 DEF ReplayInv, ReplayLosesNothing
<1>11. \A i \in 1..Len(dlq) : dlq[i].age \in Ages
  <2>1. \A i \in 1..Len(dlq) : dlq[i] \in Parked
    BY <1>2, ElementOfSeq
  <2>2. \A r \in Parked : r.age \in Ages
    BY DEF Parked
  <2> QED
    BY <2>1, <2>2
<1>12. ASSUME NEW i \in 1..Len(dlq), i > expired' PROVE dlq'[i].age <= ParkedAge
  <2>1. dlq[i].age < ParkedAge
    <3> SUFFICES ASSUME dlq[i].age >= ParkedAge PROVE FALSE
      BY <1>11, Horizons DEF Ages, Forever
    <3>1. 1..i \subseteq old
      <4> SUFFICES ASSUME NEW j \in 1..i PROVE j \in old
        OBVIOUS
      <4>1. j \in 1..Len(dlq) /\ (j = i \/ j < i)
        BY <1>2
      <4>2. dlq[i].age <= dlq[j].age
        BY <1>11, <4>1, Horizons DEF ReplayInv, ParkedInOrder, Ages, Forever
      <4>3. dlq[j].age >= ParkedAge
        BY <1>11, <4>1, <4>2, Horizons DEF Ages, Forever
      <4> QED
        BY <1>2, <4>1, <4>3
    <3>2. IsFiniteSet(1..i) /\ Cardinality(1..i) = i
      <4>1. i \in Int /\ 1 \in Int /\ ~(1 > i)
        BY <1>2
      <4>2. /\ IsFiniteSet(1..i)
            /\ Cardinality(1..i) = IF 1 > i THEN 0 ELSE i - 1 + 1
        BY <4>1, FS_Interval
      <4> QED
        BY <4>1, <4>2
    <3> HIDE DEF old
    <3>3. i <= Cardinality(old)
      BY <1>6, <3>1, <3>2, FS_Subset
    <3> QED
      BY <1>6, <1>7, <1>12, <3>3
  <2>2. dlq'[i].age = Older(dlq[i].age)
    BY <1>3
  <2> DEFINE a == dlq[i].age
  <2>3. a \in Ages
    BY <1>11
  <2> HIDE DEF a
  <2>4. a \in Nat /\ Older(a) \in Nat /\ Older(a) <= a + 1
    BY <2>3, OlderFacts
  <2>5. a < ParkedAge => Older(a) <= ParkedAge
    BY <2>4, Horizons
  <2> QED
    BY <2>1, <2>2, <2>5 DEF a
<1>13. ASSUME NEW i \in 1..Len(dlq), NEW j \in 1..Len(dlq), i < j PROVE dlq'[j].age <= dlq'[i].age
  <2>1. dlq[j].age <= dlq[i].age
    BY <1>13 DEF ReplayInv, ParkedInOrder
  <2>2. Older(dlq[j].age) <= Older(dlq[i].age)
    BY <1>11, <2>1, OlderFacts
  <2> QED
    BY <1>3, <2>2
<1>14. ParkedInOrder'
  BY <1>3, <1>12, <1>13 DEF ParkedInOrder
<1> QED
  BY <1>8, <1>9, <1>10, <1>14 DEF ReplayInv

(* Every step keeps it.                                                       *)
LEMMA ReplayNext == TopicInv /\ ReplayInv /\ [Next]_vars => ReplayInv'
<1> SUFFICES ASSUME TopicInv, ReplayInv, [Next]_vars PROVE ReplayInv'
  OBVIOUS
<1>1. ASSUME UNCHANGED dlqVars PROVE ReplayInv'
  BY <1>1 DEF dlqVars, ReplayInv, ReplayType, ReplayAtCommitted, SentIsRepublished, ParkedInOrder,
              ReplayLosesNothing
<1>2. CASE Park \/ \E x \in {Foreign, Broken} : ParkForeign(x)
  <2>1. Park => Head1 \in Events
    <3>1. ASSUME topic # <<>> PROVE 1 \in 1..Len(topic)
      BY <3>1 DEF TopicInv
    <3>2. ASSUME topic # <<>> PROVE topic[1] \in Record
      BY <3>1, <3>2, ElementOfSeq DEF TopicInv
    <3> QED
      BY <3>2 DEF Head1, Park, Record
  <2> QED
    BY <1>2, <2>1, ParkStep DEF Park, ParkForeign
<1>3. CASE \/ \E b \in BOOLEAN : StartReplay(b)
           \/ Republish \/ SendFails \/ SkipForeign \/ RefuseBroken \/ CommitReplay \/ ReplayDies
  BY <1>3, ReplayStep DEF StartReplay, Republish, SendFails, SkipForeign, RefuseBroken,
                          CommitReplay, ReplayDies, ReplaysOnly
<1>4. CASE Tick
  BY <1>4, ExpiryStep
<1>5. CASE \/ UNCHANGED vars \/ \E e \in Events : Insert(e)
           \/ Stream(TRUE) \/ Stream(FALSE) \/ Disconnect \/ Reconnect
           \/ (\E b \in BOOLEAN : DropSlot(b)) \/ RecreateSlot \/ StartSnapshot \/ Snapshot
  BY <1>1, <1>5 DEF vars, Insert, Stream, Disconnect, Reconnect, DropSlot, RecreateSlot,
                    StartSnapshot, Snapshot, Connects, dlqVars
<1>6. CASE \/ CheckSlot \/ SelectAndDelete \/ RecheckSlot \/ CommitBatch \/ RollBack
           \/ PruneInbox \/ Complete \/ SkipProcessed
  BY <1>1, <1>6 DEF CheckSlot, SelectAndDelete, RecheckSlot, CommitBatch, RollBack, PrunesOnly,
                    PruneInbox, Complete, SkipProcessed
<1> QED
  BY <1>2, <1>3, <1>4, <1>5, <1>6 DEF Next, Step, Mishap

(* An empty topic and an empty dead-letter topic.                             *)
LEMMA RecordsInit == Init => TopicInv /\ ReplayInv
<1> SUFFICES ASSUME Init PROVE TopicInv /\ ReplayInv
  OBVIOUS
<1>1. topic = <<>> /\ dlq = <<>> /\ expired = 0 /\ replayed = 0 /\ replay = IdleReplay /\ republished = {}
  BY DEF Init
<1>2. TopicInv /\ ReplayType
  BY <1>1 DEF TopicInv, ReplayType, IdleReplay
<1>3. ReplayAtCommitted /\ SentIsRepublished /\ ParkedInOrder /\ ReplayLosesNothing
  BY <1>1 DEF ReplayAtCommitted, SentIsRepublished, ParkedInOrder, ReplayLosesNothing, IdleReplay
<1> QED
  BY <1>2, <1>3 DEF ReplayInv

(* The replay group commits past a parked record only once it came back.      *)
THEOREM ReplayNeverLoses == Spec => []ReplayLosesNothing
<1>1. Spec => []OutboxInv
  BY OutboxInit, OutboxNext, PTL DEF Spec
<1>2. OutboxInv /\ TopicInv /\ ReplayInv /\ [Next]_vars => TopicInv' /\ ReplayInv'
  BY TopicStep, ReplayNext
<1>3. Spec => [](TopicInv /\ ReplayInv)
  BY <1>1, <1>2, RecordsInit, PTL DEF Spec
<1>4. ReplayInv => ReplayLosesNothing
  BY DEF ReplayInv
<1> QED
  BY <1>3, <1>4, PTL

-----------------------------------------------------------------------------
(* The evidence that an event was handled.                                    *)

EvidenceType ==
    /\ age \in [Events -> Ages]
    /\ inbox \in [Events -> {"open", "processed"}]
    /\ evidence \in [Events -> Ages]
    /\ handled \subseteq Events

Known(e) == outbox[e] # "none"
Processed(e) == inbox[e] = "processed"

(* An event is captured on schedule, and handled no earlier than written.     *)
EventOk(e) ==
    /\ Processed(e) \/ e \in handled => Known(e)
    /\ ~Known(e) => age[e] = 0
    /\ outbox[e] = "stored" \/ Owed(e) => age[e] <= OutboxAge + Delay
    /\ Processed(e) => evidence[e] <= age[e]

(* An unread record is read on schedule, and was published on schedule.       *)
CopyOk(r) ==
    /\ r.event \in Events /\ Known(r.event) /\ r.age \in Nat /\ r.age <= ReadAge
    /\ Processed(r.event) => \/ evidence[r.event] <= OutboxAge + Delay + r.age
                             \/ evidence[r.event] <= ParkedAge + r.age

(* An event was parked before it was handled.                                 *)
ParkedOk(r) ==
    r.event \in Events => /\ Known(r.event)
                          /\ Processed(r.event) => evidence[r.event] <= r.age

EvidenceInv ==
    /\ EvidenceType
    /\ \A i \in 1..Len(wal) : Known(wal[i])
    /\ \A e \in Events : EventOk(e)
    /\ \A i \in 1..Len(topic) : CopyOk(topic[i])
    /\ \A i \in 1..Len(dlq) : ParkedOk(dlq[i])
    /\ EvidenceOutlivesReplay

RetentionInv == OutboxInv /\ TopicInv /\ ReplayInv /\ EvidenceInv

(* Shapes used throughout.                                                    *)
LEMMA RetentionTypes ==
  ASSUME RetentionInv
  PROVE  /\ Len(wal) \in Nat /\ Len(topic) \in Nat /\ Len(dlq) \in Nat
         /\ DOMAIN topic = 1..Len(topic)
         /\ \A i \in 1..Len(wal) : wal[i] \in Events
         /\ \A i \in 1..Len(topic) : topic[i] \in Record
         /\ \A i \in 1..Len(dlq) : dlq[i] \in Parked
         /\ expired \in Nat /\ expired <= Len(dlq)
         /\ \A e \in Events : age[e] \in Nat /\ evidence[e] \in Nat
<1>1. wal \in Seq(Events) /\ topic \in Seq(Record) /\ dlq \in Seq(Parked) /\ expired \in 0..Len(dlq)
  BY DEF RetentionInv, OutboxInv, OutboxType, TopicInv, ReplayInv, ReplayType
<1>2. Len(wal) \in Nat /\ Len(topic) \in Nat /\ Len(dlq) \in Nat /\ DOMAIN topic = 1..Len(topic)
  BY <1>1, LenProperties
<1>3. /\ \A i \in 1..Len(wal) : wal[i] \in Events
      /\ \A i \in 1..Len(topic) : topic[i] \in Record
      /\ \A i \in 1..Len(dlq) : dlq[i] \in Parked
  BY <1>1, ElementOfSeq
<1>4. \A e \in Events : age[e] \in Nat /\ evidence[e] \in Nat
  BY OlderFacts DEF RetentionInv, EvidenceInv, EvidenceType
<1> QED
  BY <1>1, <1>2, <1>3, <1>4

(* What the connector or a replay can publish was written on schedule or is   *)
(* retained, and if it was handled the evidence is there.                     *)
LEMMA SourceOk ==
  ASSUME RetentionInv, NEW e \in Events, Source(e)
  PROVE  CopyOk(Unread(e)) /\ Replayable(e) /\ (e \in handled => Processed(e))
<1>1. Unread(e).event = e /\ Unread(e).age = 0 /\ 0 <= ReadAge /\ 0 \in Nat
  BY UnreadType, Horizons
<1>2. CASE outbox[e] = "stored" \/ Owed(e)
  <2>1. Known(e)
    <3>1. CASE outbox[e] = "stored"
      BY <3>1 DEF Known
    <3>2. CASE Owed(e)
      <4>1. PICK i \in (slot.confirmed + 1)..Len(wal) : wal[i] = e
        BY <3>2 DEF Owed
      <4>2. i \in 1..Len(wal)
        BY <4>1, RetentionTypes DEF RetentionInv, OutboxInv, OutboxType
      <4> QED
        BY <4>1, <4>2 DEF RetentionInv, EvidenceInv
    <3> QED
      BY <1>2, <3>1, <3>2
  <2>2. Processed(e) => evidence[e] <= age[e] /\ age[e] <= OutboxAge + Delay
    BY <1>2 DEF RetentionInv, EvidenceInv, EventOk
  <2>3. Processed(e) => evidence[e] <= OutboxAge + Delay + 0
    BY <2>2, RetentionTypes, Horizons
  <2>4. CopyOk(Unread(e))
    BY <1>1, <2>1, <2>3 DEF CopyOk
  <2>5. Replayable(e)
    BY <1>2 DEF Replayable
  <2> QED
    BY <2>4, <2>5 DEF RetentionInv, EvidenceInv, EvidenceOutlivesReplay, Processed
<1>3. CASE replay.pc = "fetched" /\ Fetched = e
  <2> DEFINE i == replay.pos + 1
  <2>1. i \in 1..Len(dlq) /\ i \in (expired + 1)..Len(dlq) /\ i > expired
    BY <1>3, RetentionTypes DEF RetentionInv, ReplayInv, ReplayType, ReplayAtCommitted
  <2>2. dlq[i].event = e /\ ParkedOk(dlq[i]) /\ dlq[i].age <= ParkedAge /\ dlq[i] \in Parked
    BY <1>3, <2>1, RetentionTypes DEF Fetched, RetentionInv, EvidenceInv, ReplayInv, ParkedInOrder
  <2> HIDE DEF i
  <2>3. Known(e) /\ (Processed(e) => evidence[e] <= dlq[i].age)
    BY <2>2 DEF ParkedOk
  <2>4. dlq[i].age \in Nat
    BY <2>2, OlderFacts DEF Parked
  <2>5. Processed(e) => evidence[e] <= ParkedAge + 0
    BY <2>2, <2>3, <2>4, RetentionTypes, Horizons
  <2>6. CopyOk(Unread(e))
    BY <1>1, <2>3, <2>5 DEF CopyOk
  <2>7. Replayable(e)
    BY <2>1, <2>2 DEF Replayable, Retained
  <2> QED
    BY <2>6, <2>7 DEF RetentionInv, EvidenceInv, EvidenceOutlivesReplay, Processed
<1> QED
  BY <1>2, <1>3 DEF Source

(* Evidence that can be asked for again is within its horizon.                *)
LEMMA ReplayableIsYoung ==
  ASSUME RetentionInv, NEW e \in Events, Processed(e), Replayable(e)
  PROVE  evidence[e] <= InboxAge
<1>1. evidence[e] \in Nat /\ age[e] \in Nat
  BY RetentionTypes
<1>2. CASE outbox[e] = "stored" \/ Owed(e)
  <2>1. evidence[e] <= age[e] /\ age[e] <= OutboxAge + Delay
    BY <1>2 DEF RetentionInv, EvidenceInv, EventOk
  <2> QED
    BY <1>1, <2>1, Horizons
<1>3. CASE \E i \in DOMAIN topic : topic[i].event = e
  <2>1. PICK i \in 1..Len(topic) : topic[i].event = e
    BY <1>3, RetentionTypes
  <2>2. CopyOk(topic[i])
    BY <2>1 DEF RetentionInv, EvidenceInv
  <2> DEFINE a == topic[i].age
  <2>3. /\ a \in Nat /\ a <= ReadAge
        /\ evidence[e] <= OutboxAge + Delay + a \/ evidence[e] <= ParkedAge + a
    BY <2>1, <2>2 DEF CopyOk
  <2> HIDE DEF a
  <2> QED
    BY <1>1, <2>3, Horizons
<1>4. CASE Retained(e)
  <2>1. PICK i \in (expired + 1)..Len(dlq) : dlq[i].event = e
    BY <1>4 DEF Retained
  <2>2. i \in 1..Len(dlq) /\ i > expired
    BY <2>1, RetentionTypes
  <2>3. dlq[i] \in Parked /\ ParkedOk(dlq[i]) /\ dlq[i].age <= ParkedAge
    BY <2>2, RetentionTypes DEF RetentionInv, EvidenceInv, ReplayInv, ParkedInOrder
  <2>4. dlq[i].age \in Nat /\ evidence[e] <= dlq[i].age
    BY <2>1, <2>3, OlderFacts DEF ParkedOk, Parked
  <2> QED
    BY <1>1, <2>3, <2>4, Horizons
<1> QED
  BY <1>2, <1>3, <1>4 DEF Replayable

(* The records after a step, other than a tick, are old ones or new copies of *)
(* what can be published.                                                     *)
LEMMA CopiesStep ==
  ASSUME RetentionInv, [Next]_vars, ~Tick, NEW i \in 1..Len(topic')
  PROVE  \/ \E j \in 1..Len(topic) : topic'[i] = topic[j]
         \/ /\ topic'[i] = Unread(topic'[i].event)
            /\ topic'[i].event \in Events /\ Source(topic'[i].event)
<1>1. OutboxInv /\ TopicInv
  BY DEF RetentionInv
<1>2. CASE topic # <<>> /\ topic' = Tail(topic)
  <2>1. topic \in Seq(Record)
    BY <1>1 DEF TopicInv
  <2>2. Len(topic') = Len(topic) - 1 /\ topic'[i] = topic[i + 1] /\ Len(topic) \in Nat
    BY <1>2, <2>1, HeadTailProperties, RetentionTypes
  <2>3. i + 1 \in 1..Len(topic)
    BY <2>2
  <2> QED
    BY <2>2, <2>3
<1>3. CASE topic' = topic
  BY <1>3
<1> QED
  BY <1>1, <1>2, <1>3, TopicStep

(* A step that writes no row and no evidence keeps every event's record: what *)
(* it publishes comes from a Source, what it parks was not handled.           *)
QuietRows ==
    /\ UNCHANGED <<age, wal, inbox, evidence, handled, expired>>
    /\ \A e \in Events : /\ outbox'[e] = "stored" => outbox[e] = "stored"
                         /\ (outbox'[e] = "none") <=> (outbox[e] = "none")
                         /\ Owed(e)' => Owed(e)
    /\ \A i \in 1..Len(dlq') :
          \/ i \in 1..Len(dlq) /\ dlq'[i] = dlq[i]
          \/ dlq'[i].event \in Events => /\ ~Processed(dlq'[i].event)
                                         /\ Known(dlq'[i].event)
                                         /\ Replayable(dlq'[i].event)

(* Such a step makes nothing deliverable whose evidence is gone.              *)
LEMMA QuietReplayable ==
  ASSUME RetentionInv, [Next]_vars, ~Tick, QuietRows, topic' \in Seq(Record),
         NEW e \in Events, Replayable(e)'
  PROVE  Replayable(e) \/ (e \in handled => Processed(e))
<1>1. CASE outbox'[e] = "stored" \/ Owed(e)'
  BY <1>1 DEF QuietRows, Replayable
<1>2. CASE \E i \in DOMAIN topic' : topic'[i].event = e
  <2>1. PICK i \in 1..Len(topic') : topic'[i].event = e
    BY <1>2, LenProperties
  <2>2. CASE \E j \in 1..Len(topic) : topic'[i] = topic[j]
    BY <2>1, <2>2, RetentionTypes DEF Replayable
  <2>3. CASE Source(e)
    BY <2>3, SourceOk
  <2> QED
    BY <2>1, <2>2, <2>3, CopiesStep
<1>3. CASE Retained(e)'
  <2>1. PICK i \in (expired' + 1)..Len(dlq') : dlq'[i].event = e
    BY <1>3 DEF Retained
  <2>2. expired' = expired /\ expired \in Nat /\ i \in Nat /\ i > expired
    BY <2>1, RetentionTypes DEF QuietRows
  <2>3. i \in 1..Len(dlq')
    BY <2>1, <2>2
  <2>4. CASE i \in 1..Len(dlq) /\ dlq'[i] = dlq[i]
    <3>1. i \in (expired + 1)..Len(dlq) /\ dlq[i].event = e
      BY <2>1, <2>2, <2>4, RetentionTypes
    <3> QED
      BY <3>1 DEF Replayable, Retained
  <2>5. CASE dlq'[i].event \in Events => Replayable(dlq'[i].event)
    BY <2>1, <2>5
  <2> QED
    BY <2>3, <2>4, <2>5 DEF QuietRows
<1> QED
  BY <1>1, <1>2, <1>3 DEF Replayable

(* Such a step keeps the invariant.                                           *)
LEMMA QuietStep ==
  ASSUME RetentionInv, [Next]_vars, ~Tick, QuietRows, topic' \in Seq(Record)
  PROVE  EvidenceInv'
<1>1. EvidenceInv
  BY DEF RetentionInv
<1>2. EvidenceType'
  BY <1>1 DEF EvidenceInv, EvidenceType, QuietRows
<1>3. \A e \in Events : (Known(e)' <=> Known(e)) /\ (Processed(e)' <=> Processed(e))
  BY DEF QuietRows, Known, Processed
<1>4. \A i \in 1..Len(wal') : Known(wal[i])'
  BY <1>1, <1>3, RetentionTypes DEF QuietRows, EvidenceInv
<1>5. \A e \in Events : EventOk(e)'
  BY <1>1, <1>3 DEF EvidenceInv, EventOk, QuietRows
<1>6. ASSUME NEW i \in 1..Len(topic') PROVE CopyOk(topic[i])'
  <2>1. \A r : CopyOk(r) => /\ r.event \in Events /\ Known(r.event)' /\ r.age \in Nat /\ r.age <= ReadAge
                            /\ Processed(r.event)' =>
                                  \/ evidence'[r.event] <= OutboxAge + Delay + r.age
                                  \/ evidence'[r.event] <= ParkedAge + r.age
    BY <1>3 DEF CopyOk, QuietRows
  <2>2. CopyOk(topic'[i])
    <3>1. CASE \E j \in 1..Len(topic) : topic'[i] = topic[j]
      BY <1>1, <3>1 DEF EvidenceInv
    <3>2. CASE /\ topic'[i] = Unread(topic'[i].event)
               /\ topic'[i].event \in Events /\ Source(topic'[i].event)
      <4> DEFINE x == topic'[i].event
      <4>1. x \in Events /\ Source(x) /\ topic'[i] = Unread(x)
        BY <3>2
      <4> HIDE DEF x
      <4> QED
        BY <4>1, SourceOk
    <3> QED
      BY <3>1, <3>2, CopiesStep
  <2> QED
    BY <2>1, <2>2 DEF CopyOk
<1>7. ASSUME NEW i \in 1..Len(dlq') PROVE ParkedOk(dlq[i])'
  <2>1. CASE i \in 1..Len(dlq) /\ dlq'[i] = dlq[i]
    BY <1>1, <1>3, <2>1 DEF EvidenceInv, ParkedOk, QuietRows
  <2>2. CASE dlq'[i].event \in Events => ~Processed(dlq'[i].event) /\ Known(dlq'[i].event)
    BY <1>3, <2>2 DEF ParkedOk
  <2> QED
    BY <2>1, <2>2 DEF QuietRows
<1>8. EvidenceOutlivesReplay'
  <2> SUFFICES ASSUME NEW e \in handled', Replayable(e)' PROVE inbox'[e] = "processed"
    BY DEF EvidenceOutlivesReplay
  <2>1. e \in handled /\ e \in Events
    BY <1>1 DEF QuietRows, EvidenceInv, EvidenceType
  <2>2. Replayable(e) \/ (e \in handled => Processed(e))
    BY <2>1, QuietReplayable
  <2> QED
    BY <1>1, <2>1, <2>2 DEF EvidenceInv, EvidenceOutlivesReplay, Processed, QuietRows
<1> QED
  BY <1>2, <1>4, <1>5, <1>6, <1>7, <1>8 DEF EvidenceInv

(* Completing a delivery starts the evidence of an event that is written.     *)
LEMMA CompleteStep ==
  ASSUME RetentionInv, [Next]_vars, ~Tick, Complete, topic' \in Seq(Record)
  PROVE  EvidenceInv'
<1>1. EvidenceInv /\ topic # <<>> /\ topic \in Seq(Record)
  BY DEF Complete, RetentionInv, TopicInv
<1>2. 1 \in 1..Len(topic) /\ Head1 = topic[1].event
  BY <1>1, EmptySeq, LenProperties DEF Head1
<1>3. PICK h \in Events : h = Head1 /\ Known(h)
  BY <1>1, <1>2 DEF EvidenceInv, CopyOk
<1>4. /\ inbox' = [inbox EXCEPT ![h] = "processed"]
      /\ evidence' = [evidence EXCEPT ![h] = 0] /\ handled' = handled \cup {h}
      /\ topic' = Tail(topic)
      /\ UNCHANGED <<age, outbox, wal, slot, dlq, expired>>
  BY <1>3 DEF Complete, outboxVars, slotVars, dlqVars
<1>5. EvidenceType'
  BY <1>1, <1>3, <1>4, Horizons DEF EvidenceInv, EvidenceType, Ages, Forever
<1>6. /\ \A e \in Events : (Known(e)' <=> Known(e)) /\ (Owed(e)' <=> Owed(e))
      /\ \A e \in Events \ {h} : (Processed(e)' <=> Processed(e)) /\ evidence'[e] = evidence[e]
      /\ evidence'[h] = 0 /\ inbox'[h] = "processed"
  BY <1>1, <1>3, <1>4 DEF EvidenceInv, EvidenceType, Known, Processed, Owed
<1>7. \A i \in 1..Len(wal') : Known(wal[i])'
  BY <1>1, <1>3, <1>4, <1>6, RetentionTypes DEF EvidenceInv
<1>8. \A e \in Events : EventOk(e)'
  BY <1>1, <1>3, <1>4, <1>6, RetentionTypes DEF EvidenceInv, EventOk
<1>9. ASSUME NEW i \in 1..Len(topic') PROVE CopyOk(topic[i])'
  <2>1. i + 1 \in 1..Len(topic) /\ topic'[i] = topic[i + 1]
    BY <1>1, <1>3, <1>4, HeadTailProperties, LenProperties
  <2>2. CopyOk(topic[i + 1])
    BY <1>1, <1>3, <1>4, <2>1 DEF EvidenceInv
  <2>3. CASE topic'[i].event = h
    <3>1. /\ topic'[i].event \in Events /\ Known(h)' /\ topic'[i].age \in Nat
          /\ topic'[i].age <= ReadAge
      BY <1>1, <1>3, <1>4, <1>6, <2>1, <2>2, <2>3 DEF CopyOk
    <3>2. evidence'[h] <= ParkedAge + topic'[i].age
      <4>1. ParkedAge \in Nat /\ evidence'[h] = 0
        BY <1>6, Horizons
      <4> QED
        BY <3>1, <4>1
    <3> QED
      BY <2>3, <3>1, <3>2 DEF CopyOk
  <2>4. CASE topic'[i].event # h
    <3>1. topic'[i].event \in Events \ {h}
      BY <2>1, <2>2, <2>4 DEF CopyOk
    <3> QED
      BY <1>1, <1>3, <1>4, <1>6, <2>1, <2>2, <3>1 DEF CopyOk
  <2> QED
    BY <2>3, <2>4
<1>10. ASSUME NEW i \in 1..Len(dlq') PROVE ParkedOk(dlq[i])'
  <2>1. i \in 1..Len(dlq) /\ dlq'[i] = dlq[i]
    BY <1>1, <1>3, <1>4
  <2>2. ParkedOk(dlq[i]) /\ dlq[i].age \in Nat
    BY <1>1, <1>3, <1>4, <2>1, RetentionTypes, OlderFacts DEF EvidenceInv, Parked
  <2>3. dlq[i].event = h => 0 <= dlq[i].age
    BY <2>2
  <2> QED
    BY <1>1, <1>3, <1>4, <1>6, <2>1, <2>2, <2>3 DEF ParkedOk
<1>11. EvidenceOutlivesReplay'
  <2> SUFFICES ASSUME NEW e \in handled', Replayable(e)' PROVE inbox'[e] = "processed"
    BY DEF EvidenceOutlivesReplay
  <2>1. CASE e = h
    BY <1>1, <1>3, <1>4, <1>6, <2>1
  <2>2. CASE e # h
    <3>1. e \in handled /\ e \in Events \ {h}
      BY <1>1, <1>3, <1>4, <2>2 DEF EvidenceInv, EvidenceType
    <3>2. Replayable(e)
      <4>1. CASE \E i \in DOMAIN topic' : topic'[i].event = e
        <5>1. PICK i \in 1..Len(topic') : topic'[i].event = e
          BY <4>1, LenProperties
        <5>2. i + 1 \in 1..Len(topic) /\ topic'[i] = topic[i + 1]
          BY <1>1, <1>3, <1>4, HeadTailProperties, LenProperties
        <5> QED
          BY <5>1, <5>2, RetentionTypes DEF Replayable
      <4>2. CASE outbox'[e] = "stored" \/ Owed(e)' \/ Retained(e)'
        BY <1>1, <1>3, <1>4, <1>6, <3>1, <4>2 DEF Replayable, Retained
      <4> QED
        BY <4>1, <4>2 DEF Replayable
    <3> QED
      BY <1>1, <1>3, <1>4, <1>6, <3>1, <3>2 DEF EvidenceInv, EvidenceOutlivesReplay, Processed
  <2> QED
    BY <2>1, <2>2
<1> QED
  BY <1>5, <1>7, <1>8, <1>9, <1>10, <1>11 DEF EvidenceInv

(* The inbox cleaner forgets only what can no longer be delivered.            *)
LEMMA PruneInboxStep ==
  ASSUME RetentionInv, PruneInbox
  PROVE  EvidenceInv'
<1>1. EvidenceInv /\ UNCHANGED <<age, topic, handled, outbox, wal, slot, dlq, expired>>
  BY DEF RetentionInv, PruneInbox, outboxVars, slotVars, dlqVars
<1>2. PICK b \in SUBSET ExpiredEvidence :
        /\ inbox' = [e \in Events |-> IF e \in b THEN "open" ELSE inbox[e]]
        /\ evidence' = [e \in Events |-> IF e \in b THEN 0 ELSE evidence[e]]
  BY DEF PruneInbox
<1>3. EvidenceType'
  BY <1>1, <1>2, Horizons DEF EvidenceInv, EvidenceType, Ages, Forever
<1>4. \A e \in Events : /\ (Known(e)' <=> Known(e)) /\ (Owed(e)' <=> Owed(e))
                        /\ Replayable(e)' <=> Replayable(e)
                        /\ Processed(e)' => Processed(e) /\ evidence'[e] = evidence[e]
  BY <1>1, <1>2 DEF Known, Owed, Replayable, Retained, Processed
<1>5. \A i \in 1..Len(wal') : Known(wal[i])'
  BY <1>1, <1>4, RetentionTypes DEF EvidenceInv
<1>6. \A e \in Events : EventOk(e)'
  BY <1>1, <1>4 DEF EvidenceInv, EventOk
<1>7. \A i \in 1..Len(topic') : CopyOk(topic[i])'
  BY <1>1, <1>4 DEF EvidenceInv, CopyOk
<1>8. \A i \in 1..Len(dlq') : ParkedOk(dlq[i])'
  BY <1>1, <1>4 DEF EvidenceInv, ParkedOk
<1>9. EvidenceOutlivesReplay'
  <2> SUFFICES ASSUME NEW e \in handled', Replayable(e)' PROVE inbox'[e] = "processed"
    BY DEF EvidenceOutlivesReplay
  <2>1. e \in Events /\ e \in handled /\ Replayable(e)
    BY <1>1, <1>4 DEF EvidenceInv, EvidenceType
  <2>2. Processed(e)
    BY <1>1, <2>1 DEF EvidenceInv, EvidenceOutlivesReplay, Processed
  <2>3. evidence[e] <= InboxAge /\ evidence[e] \in Nat
    BY <2>1, <2>2, ReplayableIsYoung, RetentionTypes
  <2>4. e \notin b
    BY <1>2, <2>3, Horizons DEF ExpiredEvidence
  <2> QED
    BY <1>2, <2>1, <2>2, <2>4 DEF Processed
<1> QED
  BY <1>3, <1>5, <1>6, <1>7, <1>8, <1>9 DEF EvidenceInv

(* A new row was never handled.                                               *)
LEMMA NewRowStep ==
  ASSUME RetentionInv, NEW x \in Events, Insert(x)
  PROVE  EvidenceInv'
<1>1. /\ EvidenceInv /\ OutboxType /\ outbox[x] = "none" /\ outbox' = [outbox EXCEPT ![x] = "stored"]
      /\ wal' = Append(wal, x)
      /\ UNCHANGED <<age, topic, inbox, evidence, handled, slot, dlq, expired>>
  BY DEF RetentionInv, OutboxInv, Insert, slotVars, inboxVars, dlqVars
<1>2. EvidenceType'
  BY <1>1 DEF EvidenceInv, EvidenceType
<1>3. /\ Len(wal') = Len(wal) + 1 /\ wal'[Len(wal) + 1] = x /\ Len(wal) \in Nat
      /\ \A i \in 1..Len(wal) : wal'[i] = wal[i]
  BY <1>1, AppendProperties, LenProperties DEF OutboxType
<1>4. \A e \in Events : /\ Known(e)' <=> Known(e) \/ e = x
                        /\ Processed(e)' <=> Processed(e)
                        /\ outbox'[e] = "stored" <=> outbox[e] = "stored" \/ e = x
  BY <1>1 DEF OutboxType, Known, Processed
<1>5. \A e \in Events : Owed(e)' => Owed(e) \/ e = x
  <2> SUFFICES ASSUME NEW e \in Events, Owed(e)' PROVE Owed(e) \/ e = x
    OBVIOUS
  <2>1. PICK i \in (slot.confirmed + 1)..Len(wal') : wal'[i] = e
    BY <1>1 DEF Owed
  <2>2. slot.confirmed \in Nat /\ slot.confirmed <= Len(wal) /\ slot.state # "absent"
    BY <1>1, <1>3 DEF OutboxType, Owed
  <2>3. CASE i = Len(wal) + 1
    BY <1>3, <2>1, <2>3
  <2>4. CASE i # Len(wal) + 1
    <3>1. i \in (slot.confirmed + 1)..Len(wal) /\ i \in 1..Len(wal)
      BY <1>3, <2>1, <2>2, <2>4
    <3> QED
      BY <1>3, <2>1, <2>2, <3>1 DEF Owed
  <2> QED
    BY <2>3, <2>4
<1>6. ASSUME NEW i \in 1..Len(wal') PROVE Known(wal[i])'
  <2>1. CASE i = Len(wal) + 1
    BY <1>3, <1>4, <2>1
  <2>2. CASE i # Len(wal) + 1
    <3>1. i \in 1..Len(wal)
      BY <1>3, <2>2
    <3> QED
      BY <1>1, <1>3, <1>4, <3>1, RetentionTypes DEF EvidenceInv
  <2> QED
    BY <2>1, <2>2
<1>7. ~Known(x) /\ x \notin handled /\ ~Processed(x) /\ age[x] = 0
  BY <1>1 DEF EvidenceInv, EventOk, Known
<1>8. \A e \in Events : EventOk(e)'
  <2> SUFFICES ASSUME NEW e \in Events PROVE EventOk(e)'
    OBVIOUS
  <2>1. CASE e = x
    BY <1>1, <1>4, <1>7, <2>1, Horizons DEF EventOk
  <2>2. CASE e # x
    BY <1>1, <1>4, <1>5, <2>2 DEF EventOk, EvidenceInv
  <2> QED
    BY <2>1, <2>2
<1>9. \A i \in 1..Len(topic') : CopyOk(topic[i])'
  BY <1>1, <1>4 DEF EvidenceInv, CopyOk
<1>10. \A i \in 1..Len(dlq') : ParkedOk(dlq[i])'
  BY <1>1, <1>4 DEF EvidenceInv, ParkedOk
<1>11. EvidenceOutlivesReplay'
  <2> SUFFICES ASSUME NEW e \in handled', Replayable(e)' PROVE inbox'[e] = "processed"
    BY DEF EvidenceOutlivesReplay
  <2>1. e \in handled /\ e \in Events /\ e # x
    BY <1>1, <1>7 DEF EvidenceInv, EvidenceType
  <2>2. Replayable(e)
    BY <1>1, <1>4, <1>5, <2>1 DEF Replayable, Retained
  <2> QED
    BY <1>1, <2>1, <2>2 DEF EvidenceInv, EvidenceOutlivesReplay
<1> QED
  BY <1>2, <1>6, <1>8, <1>9, <1>10, <1>11 DEF EvidenceInv

(* Evidence grows no faster than what could bring the event back.             *)
LEMMA TickStep ==
  ASSUME RetentionInv, Tick
  PROVE  EvidenceInv'
<1>1. EvidenceInv /\ EvidenceType /\ topic \in Seq(Record) /\ dlq \in Seq(Parked)
  BY DEF RetentionInv, EvidenceInv, TopicInv, ReplayInv, ReplayType
<1>2. /\ OnSchedule
      /\ age' = [e \in Events |-> IF outbox[e] = "none" THEN 0 ELSE Older(age[e])]
      /\ evidence' = [e \in Events |-> IF inbox[e] = "processed" THEN Older(evidence[e]) ELSE 0]
      /\ topic' = Aged(topic) /\ dlq' = Aged(dlq)
      /\ UNCHANGED <<outbox, wal, slot, inbox, handled>>
  BY DEF Tick, outboxVars, slotVars
<1>3. \A e \in Events : /\ age[e] \in Ages /\ evidence[e] \in Ages
                        /\ (Known(e)' <=> Known(e)) /\ (Owed(e)' <=> Owed(e))
                        /\ (Processed(e)' <=> Processed(e))
                        /\ age'[e] = IF Known(e) THEN Older(age[e]) ELSE 0
                        /\ Processed(e) => evidence'[e] = Older(evidence[e])
  BY <1>1, <1>2 DEF EvidenceType, Known, Owed, Processed
<1>4. EvidenceType'
  <2>1. 0 \in Ages
    BY Horizons DEF Ages, Forever
  <2> QED
    BY <1>1, <1>2, <1>3, <2>1, OlderFacts DEF EvidenceType
<1>5. \A i \in 1..Len(wal') : Known(wal[i])'
  BY <1>1, <1>2, <1>3, RetentionTypes DEF EvidenceInv
<1>6. ASSUME NEW e \in Events PROVE EventOk(e)'
  <2>1. EventOk(e)
    BY <1>1 DEF EvidenceInv
  <2>2. outbox[e] = "stored" \/ Owed(e) => Older(age[e]) <= OutboxAge + Delay
    <3>1. SUFFICES ASSUME outbox[e] = "stored" \/ Owed(e)
                   PROVE  Older(age[e]) <= OutboxAge + Delay
      OBVIOUS
    <3>2. age[e] < OutboxAge + Delay
      BY <1>2, <3>1 DEF OnSchedule
    <3>3. age[e] \in Nat /\ Older(age[e]) \in Nat /\ Older(age[e]) <= age[e] + 1
      BY <1>3, OlderFacts
    <3> QED
      BY <3>2, <3>3, Horizons
  <2>3. age'[e] <= Older(age[e])
    <3>1. Older(age[e]) \in Nat
      BY <1>3, OlderFacts
    <3> QED
      BY <1>3, <3>1
  <2>4. outbox[e] = "stored" \/ Owed(e) => age'[e] <= OutboxAge + Delay
    <3>1. Older(age[e]) \in Nat /\ age'[e] \in Nat
      BY <1>3, <1>4, OlderFacts DEF EvidenceType
    <3> QED
      BY <2>2, <2>3, <3>1, Horizons
  <2>5. Processed(e) => evidence'[e] <= age'[e]
    BY <1>3, <2>1, OlderFacts DEF EventOk
  <2> QED
    BY <1>2, <1>3, <2>1, <2>4, <2>5 DEF EventOk
<1>7. ASSUME NEW i \in 1..Len(topic') PROVE CopyOk(topic[i])'
  <2>1. /\ i \in 1..Len(topic) /\ topic'[i].event = topic[i].event
        /\ topic'[i].age = Older(topic[i].age) /\ topic[i] \in Record
    BY <1>1, <1>2, AgedFacts, RetentionTypes DEF Record
  <2>2. PICK e \in Events, a \in Ages : topic[i].event = e /\ topic[i].age = a
    BY <2>1 DEF Record
  <2>3. /\ Known(e)
        /\ Processed(e) => \/ evidence[e] <= OutboxAge + Delay + a
                           \/ evidence[e] <= ParkedAge + a
    BY <1>1, <2>1, <2>2 DEF EvidenceInv, CopyOk
  <2>4. a < ReadAge /\ a \in Nat
    <3>1. i \in DOMAIN topic
      BY <2>1, RetentionTypes
    <3> QED
      BY <1>2, <2>2, <3>1, OlderFacts DEF OnSchedule
  <2>5. Older(a) = a + 1
    <3>1. a <= InboxAge
      BY <2>4, Horizons
    <3> QED
      BY <2>2, <3>1, OlderFacts
  <2>6. a + 1 \in Nat /\ a + 1 <= ReadAge
    BY <2>4, Horizons
  <2>7. Processed(e) => \/ evidence'[e] <= OutboxAge + Delay + (a + 1)
                        \/ evidence'[e] <= ParkedAge + (a + 1)
    <3>1. SUFFICES ASSUME Processed(e)
                   PROVE \/ evidence'[e] <= OutboxAge + Delay + (a + 1)
                         \/ evidence'[e] <= ParkedAge + (a + 1)
      OBVIOUS
    <3>2. evidence'[e] <= evidence[e] + 1 /\ evidence'[e] \in Nat /\ evidence[e] \in Nat
      BY <1>3, <3>1, OlderFacts
    <3>3. \A m, n, x, y \in Nat : m <= n + 1 /\ n <= x + y => m <= x + (y + 1)
      OBVIOUS
    <3>4. OutboxAge + Delay \in Nat /\ ParkedAge \in Nat
      BY Horizons
    <3> QED
      BY <2>3, <2>4, <3>1, <3>2, <3>3, <3>4
  <2>8. topic'[i].event = e /\ topic'[i].age = a + 1
    BY <2>1, <2>2, <2>5
  <2> QED
    BY <1>3, <2>3, <2>6, <2>7, <2>8 DEF CopyOk
<1>8. ASSUME NEW i \in 1..Len(dlq') PROVE ParkedOk(dlq[i])'
  <2>1. /\ i \in 1..Len(dlq) /\ dlq'[i].event = dlq[i].event
        /\ dlq'[i].age = Older(dlq[i].age) /\ dlq[i].age \in Ages
    BY <1>1, <1>2, AgedFacts, RetentionTypes DEF Parked
  <2>2. ParkedOk(dlq[i])
    BY <1>1, <2>1 DEF EvidenceInv
  <2> QED
    BY <1>3, <2>1, <2>2, OlderFacts DEF ParkedOk
<1>9. EvidenceOutlivesReplay'
  <2> SUFFICES ASSUME NEW e \in handled', Replayable(e)' PROVE inbox'[e] = "processed"
    BY DEF EvidenceOutlivesReplay
  <2>1. e \in handled /\ e \in Events
    BY <1>1, <1>2 DEF EvidenceType
  <2>2. Len(topic') = Len(topic) /\ Len(dlq') = Len(dlq) /\ DOMAIN topic' = 1..Len(topic)
    BY <1>1, <1>2, AgedFacts, LenProperties DEF Record, Parked
  <2>3. CASE \E i \in DOMAIN topic' : topic'[i].event = e
    <3>1. PICK i \in 1..Len(topic) : topic'[i].event = e
      BY <2>2, <2>3
    <3>2. topic[i].event = e
      BY <1>1, <1>2, <3>1, AgedFacts DEF Record
    <3>3. Replayable(e)
      BY <3>2, RetentionTypes DEF Replayable
    <3> QED
      BY <1>1, <1>2, <2>1, <3>3 DEF EvidenceInv, EvidenceOutlivesReplay
  <2>4. CASE Retained(e)'
    <3>1. PICK i \in (expired' + 1)..Len(dlq') : dlq'[i].event = e
      BY <2>4 DEF Retained
    <3>2. expired' \in Nat /\ expired \in Nat /\ expired <= expired'
      <4> DEFINE old == {j \in DOMAIN dlq : dlq[j].age >= ParkedAge}
      <4>1. DOMAIN dlq = 1..Len(dlq) /\ Len(dlq) \in Nat
        BY <1>1, LenProperties
      <4>2. IsFiniteSet(old)
        <5>1. IsFiniteSet(1..Len(dlq))
          BY <4>1, FS_Interval
        <5>2. old \subseteq 1..Len(dlq)
          BY <4>1
        <5> QED
          BY <5>1, <5>2, FS_Subset
      <4>3. Cardinality(old) \in Nat
        BY <4>2, FS_CardinalityType
      <4>4. expired' = Later(expired, Cardinality(old))
        BY DEF Tick
      <4> QED
        BY <4>3, <4>4, RetentionTypes DEF Later
    <3>3. i \in (expired + 1)..Len(dlq) /\ i \in 1..Len(dlq)
      <4>1. Len(dlq) \in Nat
        BY RetentionTypes
      <4>2. i \in (expired' + 1)..Len(dlq)
        BY <2>2, <3>1
      <4>3. \A m, n, k \in Nat : m <= n => (n + 1)..k \subseteq (m + 1)..k /\ (m + 1)..k \subseteq 1..k
        OBVIOUS
      <4>4. (expired' + 1)..Len(dlq) \subseteq (expired + 1)..Len(dlq)
        BY <3>2, <4>1, <4>3
      <4>5. (expired + 1)..Len(dlq) \subseteq 1..Len(dlq)
        BY <3>2, <4>1, <4>3
      <4> QED
        BY <4>2, <4>4, <4>5
    <3>4. dlq[i].event = e
      BY <1>1, <1>2, <3>1, <3>3, AgedFacts DEF Parked
    <3>5. Replayable(e)
      BY <3>3, <3>4 DEF Replayable, Retained
    <3> QED
      BY <1>1, <1>2, <2>1, <3>5 DEF EvidenceInv, EvidenceOutlivesReplay
  <2>5. CASE outbox'[e] = "stored" \/ Owed(e)'
    <3>1. Replayable(e)
      BY <1>2, <1>3, <2>1, <2>5 DEF Replayable
    <3> QED
      BY <1>1, <1>2, <2>1, <3>1 DEF EvidenceInv, EvidenceOutlivesReplay
  <2> QED
    BY <2>3, <2>4, <2>5 DEF Replayable
<1> QED
  BY <1>4, <1>5, <1>6, <1>7, <1>8, <1>9 DEF EvidenceInv

(* No step but an insert, a completion, a pruned inbox and a tick touches the *)
(* rows or the evidence.                                                      *)
LEMMA OtherStepsAreQuiet ==
  ASSUME RetentionInv, [Next]_vars, ~Tick, ~Complete, ~PruneInbox, \A e \in Events : ~Insert(e)
  PROVE  QuietRows
<1>1. OutboxType /\ BatchIsStored /\ EvidenceInv /\ dlq \in Seq(Parked)
  BY DEF RetentionInv, OutboxInv, ReplayInv, ReplayType
<1>2. Len(wal) \in Nat /\ Len(dlq) \in Nat /\ slot.confirmed \in Nat
  BY <1>1, LenProperties DEF OutboxType
<1>3. ASSUME UNCHANGED <<age, wal, inbox, evidence, handled, expired, dlq>>,
             \A e \in Events : /\ outbox'[e] = "stored" => outbox[e] = "stored"
                               /\ (outbox'[e] = "none") <=> (outbox[e] = "none"),
             \A e \in Events : Owed(e)' => Owed(e)
      PROVE  QuietRows
  BY <1>3 DEF QuietRows
<1>4. ASSUME UNCHANGED <<age, wal, inbox, evidence, handled, expired, dlq, outbox, slot>>
      PROVE  QuietRows
  BY <1>3, <1>4 DEF Owed
<1>5. CASE UNCHANGED vars
  BY <1>4, <1>5 DEF vars
<1>6. CASE CheckSlot \/ SelectAndDelete \/ RecheckSlot \/ RollBack
  BY <1>4, <1>6 DEF CheckSlot, SelectAndDelete, RecheckSlot, RollBack, PrunesOnly, slotVars,
                    inboxVars, dlqVars
<1>7. CASE \/ SkipProcessed
           \/ \E b \in BOOLEAN : StartReplay(b)
           \/ Republish \/ SendFails \/ SkipForeign \/ RefuseBroken \/ CommitReplay \/ ReplayDies
  BY <1>4, <1>7 DEF SkipProcessed, StartReplay, Republish, SendFails, SkipForeign, RefuseBroken,
                    CommitReplay, ReplayDies, ReplaysOnly, outboxVars, slotVars, inboxVars, dlqVars
<1>8. CASE CommitBatch
  <2>1. /\ UNCHANGED <<age, wal, inbox, evidence, handled, expired, dlq, slot>>
        /\ outbox' = [e \in Events |-> IF e \in prune.batch THEN "deleted" ELSE outbox[e]]
        /\ prune.batch \subseteq Stored
    BY <1>1, <1>8 DEF CommitBatch, PrunesOnly, slotVars, inboxVars, dlqVars, BatchIsStored
  <2>2. \A e \in Events : /\ outbox'[e] = "stored" => outbox[e] = "stored"
                          /\ (outbox'[e] = "none") <=> (outbox[e] = "none")
    BY <2>1 DEF Stored
  <2>3. \A e \in Events : Owed(e)' => Owed(e)
    BY <2>1 DEF Owed
  <2> QED
    BY <1>3, <2>1, <2>2, <2>3
<1>9. CASE \/ Stream(TRUE) \/ Stream(FALSE) \/ Disconnect \/ Reconnect
           \/ (\E b \in BOOLEAN : DropSlot(b)) \/ RecreateSlot \/ StartSnapshot \/ Snapshot
  <2>1. UNCHANGED <<age, wal, inbox, evidence, handled, expired, dlq, outbox>>
    BY <1>9 DEF Stream, Disconnect, Reconnect, DropSlot, RecreateSlot, StartSnapshot, Snapshot,
                Connects, outboxVars, inboxVars, dlqVars
  <2>2. \/ slot'.state = "absent"
        \/ slot'.confirmed = Len(wal)
        \/ slot.state # "absent" /\ slot'.confirmed \in {slot.confirmed, slot.confirmed + 1}
    <3>1. slot \in [state : {"absent", "snapshot", "idle", "active"},
                    confirmed : 0..Len(wal), recorded : BOOLEAN]
      BY <1>1 DEF OutboxType
    <3>2. CASE Stream(TRUE) \/ Stream(FALSE)
      <4>1. /\ slot.state = "active"
            /\ \/ slot' = [slot EXCEPT !.confirmed = @ + 1, !.recorded = TRUE]
               \/ slot' = [slot EXCEPT !.state = "idle"]
        BY <3>2 DEF Stream
      <4> QED
        BY <3>1, <4>1
    <3>3. CASE Disconnect \/ Reconnect \/ Snapshot
      <4>1. /\ slot.state # "absent"
            /\ \E x \in {"idle", "active"}, r \in BOOLEAN :
                  \/ slot' = [slot EXCEPT !.state = x]
                  \/ slot' = [slot EXCEPT !.state = x, !.recorded = r]
        BY <3>3 DEF Disconnect, Reconnect, Snapshot
      <4> QED
        BY <3>1, <4>1
    <3>4. CASE \E b \in BOOLEAN : DropSlot(b)
      <4>1. PICK b \in BOOLEAN : DropSlot(b)
        BY <3>4
      <4> QED
        BY <4>1 DEF DropSlot
    <3>5. CASE RecreateSlot \/ StartSnapshot
      <4>1. \E x \in {"snapshot", "active"} :
                slot' = [slot EXCEPT !.state = x, !.confirmed = Len(wal)]
        BY <3>5 DEF RecreateSlot, StartSnapshot
      <4> QED
        BY <3>1, <4>1
    <3> QED
      BY <1>9, <3>2, <3>3, <3>4, <3>5
  <2>3. ASSUME NEW e \in Events, Owed(e)' PROVE Owed(e)
    <3>1. slot'.state # "absent"
      BY <2>3 DEF Owed
    <3>2. PICK i \in (slot'.confirmed + 1)..Len(wal) : wal[i] = e
      BY <2>1, <2>3 DEF Owed
    <3>3. slot'.confirmed # Len(wal)
      BY <1>2, <3>2
    <3>4. slot.state # "absent" /\ i \in (slot.confirmed + 1)..Len(wal)
      BY <1>2, <2>2, <3>1, <3>2, <3>3
    <3> QED
      BY <3>2, <3>4 DEF Owed
  <2> QED
    BY <1>3, <2>1, <2>3
<1>10. ASSUME NEW x \in Events \cup {Foreign, Broken}, dlq' = Append(dlq, Unread(x)),
              UNCHANGED <<age, wal, inbox, evidence, handled, expired, outbox, slot>>,
              x \in Events => ~Processed(x) /\ Known(x) /\ Replayable(x)
       PROVE  QuietRows
  <2>1. Unread(x) \in Parked /\ Unread(x).event = x
    BY UnreadType
  <2>2. /\ Len(dlq') = Len(dlq) + 1 /\ dlq'[Len(dlq) + 1] = Unread(x)
        /\ \A i \in 1..Len(dlq) : dlq'[i] = dlq[i]
    BY <1>1, <1>10, <2>1, AppendProperties
  <2>3. ASSUME NEW i \in 1..Len(dlq')
        PROVE  \/ i \in 1..Len(dlq) /\ dlq'[i] = dlq[i]
               \/ dlq'[i].event \in Events => /\ ~Processed(dlq'[i].event)
                                              /\ Known(dlq'[i].event)
                                              /\ Replayable(dlq'[i].event)
    <3>1. i = Len(dlq) + 1 \/ i \in 1..Len(dlq)
      BY <1>2, <2>2
    <3>2. CASE i = Len(dlq) + 1
      <4>1. dlq'[i].event = x
        BY <2>1, <2>2, <3>2
      <4> QED
        BY <1>10, <4>1
    <3> QED
      BY <2>2, <3>1, <3>2
  <2>4. \A e \in Events : Owed(e)' => Owed(e)
    BY <1>10 DEF Owed
  <2> QED
    BY <1>10, <2>3, <2>4 DEF QuietRows
<1>11. CASE Park
  <2>1. /\ topic # <<>> /\ inbox[Head1] = "open" /\ dlq' = Append(dlq, Unread(Head1))
        /\ UNCHANGED <<age, wal, inbox, evidence, handled, expired, outbox, slot>>
    BY <1>11 DEF Park, inboxVars, outboxVars, slotVars
  <2>2. topic \in Seq(Record)
    BY DEF RetentionInv, TopicInv
  <2>3. 1 \in 1..Len(topic)
    BY <2>1, <2>2, EmptySeq, LenProperties
  <2>4. CopyOk(topic[1])
    BY <1>1, <2>3 DEF EvidenceInv
  <2>5. PICK x \in Events : x = Head1 /\ Known(x)
    BY <2>4 DEF CopyOk, Head1
  <2>6. Replayable(x) /\ ~Processed(x)
    BY <2>1, <2>3, <2>5, RetentionTypes DEF Replayable, Head1, Processed
  <2> QED
    BY <1>10, <2>1, <2>5, <2>6
<1>12. CASE \E x \in {Foreign, Broken} : ParkForeign(x)
  <2>1. PICK x \in {Foreign, Broken} : ParkForeign(x)
    BY <1>12
  <2>2. /\ dlq' = Append(dlq, Unread(x)) /\ x \notin Events
        /\ UNCHANGED <<age, wal, inbox, evidence, handled, expired, outbox, slot>>
    BY <2>1, NotEvents DEF ParkForeign, inboxVars, outboxVars, slotVars
  <2> QED
    BY <1>10, <2>2
<1> QED
  BY <1>5, <1>6, <1>7, <1>8, <1>9, <1>11, <1>12 DEF Next, Step, Mishap

(* Every step keeps the evidence ahead of what could be delivered again.      *)
LEMMA EvidenceNext == RetentionInv /\ [Next]_vars => EvidenceInv'
<1> SUFFICES ASSUME RetentionInv, [Next]_vars PROVE EvidenceInv'
  OBVIOUS
<1>1. topic' \in Seq(Record)
  BY TopicStep DEF RetentionInv, TopicInv
<1>2. CASE Tick
  BY <1>2, TickStep
<1>3. CASE Complete /\ ~Tick
  BY <1>1, <1>3, CompleteStep
<1>4. CASE PruneInbox
  BY <1>4, PruneInboxStep
<1>5. CASE \E e \in Events : Insert(e)
  BY <1>5, NewRowStep
<1>6. CASE ~Tick /\ ~Complete /\ ~PruneInbox /\ \A e \in Events : ~Insert(e)
  <2>1. QuietRows
    BY <1>6, OtherStepsAreQuiet
  <2> QED
    BY <1>1, <1>6, <2>1, QuietStep
<1> QED
  BY <1>2, <1>3, <1>4, <1>5, <1>6

(* Nothing is written or handled at first.                                    *)
LEMMA EvidenceInit == Init => EvidenceInv
<1> SUFFICES ASSUME Init PROVE EvidenceInv
  OBVIOUS
<1>1. /\ outbox = [e \in Events |-> "none"] /\ age = [e \in Events |-> 0] /\ wal = <<>>
      /\ inbox = [e \in Events |-> "open"] /\ evidence = [e \in Events |-> 0] /\ dlq = <<>>
      /\ topic = <<>> /\ handled = {} /\ slot.confirmed = 0
  BY DEF Init
<1>2. EvidenceType
  BY <1>1, Horizons DEF EvidenceType, Ages, Forever
<1>3. 1..Len(wal) = {} /\ 1..Len(topic) = {} /\ 1..Len(dlq) = {}
  BY <1>1
<1>4. \A e \in Events : ~Owed(e)
  BY <1>1 DEF Owed
<1>5. \A e \in Events : EventOk(e)
  BY <1>1, <1>4 DEF EventOk, Processed, Known
<1>6. EvidenceOutlivesReplay
  BY <1>1 DEF EvidenceOutlivesReplay
<1> QED
  BY <1>2, <1>3, <1>5, <1>6 DEF EvidenceInv

(* The inductive invariant of the module.                                     *)
THEOREM RetentionInvariant == Spec => []RetentionInv
<1>1. Init => RetentionInv
  BY OutboxInit, RecordsInit, EvidenceInit DEF RetentionInv
<1>2. RetentionInv /\ [Next]_vars => RetentionInv'
  <2> SUFFICES ASSUME RetentionInv, [Next]_vars PROVE RetentionInv'
    OBVIOUS
  <2>1. OutboxInv /\ TopicInv /\ ReplayInv
    BY DEF RetentionInv
  <2>2. OutboxInv' /\ TopicInv' /\ ReplayInv'
    BY <2>1, OutboxNext, TopicStep, ReplayNext
  <2> QED
    BY <2>2, EvidenceNext DEF RetentionInv
<1> QED
  BY <1>1, <1>2, PTL DEF Spec

(* As long as an event can be delivered again, by a new slot's snapshot, a    *)
(* repeated position, an unread record or a replay, the inbox row that says   *)
(* it was handled is kept.                                                    *)
THEOREM EvidenceAlwaysOutlives == Spec => []EvidenceOutlivesReplay
<1>1. RetentionInv => EvidenceOutlivesReplay
  BY DEF RetentionInv, EvidenceInv
<1> QED
  BY <1>1, RetentionInvariant, PTL

FaultsBounded == faults \in 0..MaxFaults

(* Every variable keeps its shape.                                            *)
THEOREM RetentionTypeCorrect == Spec => []TypeOK
<1>1. RetentionInv /\ FaultsBounded => TypeOK
  BY DEF RetentionInv, OutboxInv, OutboxType, TopicInv, ReplayInv, ReplayType, EvidenceInv,
         EvidenceType, TypeOK, FaultsBounded
<1>2. Init => FaultsBounded
  BY Batches DEF Init, FaultsBounded
<1>3. FaultsBounded /\ [Next]_vars => FaultsBounded'
  <2> SUFFICES ASSUME FaultsBounded, [Next]_vars PROVE FaultsBounded'
    OBVIOUS
  <2>1. CASE Next
    <3>1. UNCHANGED faults \/ (faults < MaxFaults /\ faults' = faults + 1)
      BY <2>1, Zenon DEF Next
    <3> QED
      BY <3>1, Batches DEF FaultsBounded
  <2>2. CASE UNCHANGED vars
    BY <2>2 DEF vars, FaultsBounded
  <2> QED
    BY <2>1, <2>2
<1>4. Spec => []FaultsBounded
  BY <1>2, <1>3, PTL DEF Spec
<1> QED
  BY <1>1, <1>4, RetentionInvariant, PTL
=============================================================================
