----------------------------- MODULE Retention ------------------------------
(***************************************************************************)
(* How long an event can still be replayed, and how long the evidence that *)
(* it was handled is kept: the outbox cleaner fenced on the connector's    *)
(* replication slot, the cleaner of processed inbox rows, and the replay   *)
(* of a dead-letter topic.  One topic partition and one handler; delivery  *)
(* itself is EventDelivery's and is reduced here to claim, complete, park. *)
(*                                                                         *)
(* Time is a number of ticks of the database clock.  An age stops growing  *)
(* once it exceeds every horizon.                                          *)
(***************************************************************************)
EXTENDS Integers, Sequences, FiniteSets

CONSTANTS
    Events,        \* outbox rows ever written
    Foreign,       \* a dead-letter record without the client's wrapper
    Broken,        \* one whose fields are not byte envelopes
    BatchSize,     \* --batch-size of the outbox cleaner
    MaxSlotLag,    \* --max-slot-lag-bytes, in inserts
    OutboxAge,     \* --retention-hours
    InboxAge,      \* --processed-inbox-days
    Delay,         \* ticks by which cleaner and connector may fall behind
    ReadAge,       \* ticks a published record may wait for its consumer
    ParkedAge,     \* retention of the dead-letter topic
    MaxFaults,     \* bound: lost connections, slots, transactions, replays
    MaxUnread,     \* bound: unread records
    MaxParked      \* bound: records ever parked

(* docs/DEPLOYMENT.md: the inbox horizon exceeds the outbox's (120 and 90  *)
(* days) by the 30 days a topic keeps a record.                            *)
ASSUME Horizons ==
    /\ {OutboxAge, InboxAge, Delay, ReadAge, ParkedAge, MaxSlotLag} \subseteq Nat
    /\ OutboxAge + Delay + ReadAge <= InboxAge
    /\ ParkedAge + ReadAge <= InboxAge
ASSUME Batches == BatchSize \in Nat \ {0} /\ {MaxFaults, MaxUnread, MaxParked} \subseteq Nat
ASSUME NotEvents ==
    /\ IsFiniteSet(Events)
    /\ Foreign \notin Events /\ Broken \notin Events /\ Foreign # Broken

VARIABLES
    outbox,       \* "none", "stored" or "deleted" row of each event
    age,          \* ticks since its insertion
    wal,          \* the inserted events, in commit order
    slot,         \* the connector's replication slot, and whether Kafka
                  \* Connect has recorded an offset of the connector
    published,    \* events the connector has put on the topic
    prune,        \* transaction of the outbox cleaner
    topic,        \* records the consumer group has not passed yet
    inbox,        \* "open" or "processed" row of each event
    evidence,     \* ticks since processed_at
    dlq,          \* records ever parked, by offset
    expired,      \* offsets up to this one are no longer retained
    replay,       \* the running replay_dlq.py
    replayed,     \* offset the replay group has committed
    \* what happened
    forfeited,    \* pruned rows that only a lost position of the slot still had
    skipped,      \* unpublished rows behind the start of a recreated slot
    handled,      \* events the handler has completed
    republished,  \* dead-letter offsets the broker acknowledged again
    faults        \* faults so far

vars == <<outbox, age, wal, slot, published, prune, topic, inbox, evidence,
          dlq, expired, replay, replayed, forfeited, skipped, handled, republished,
          faults>>

outboxVars == <<outbox, wal, prune>>
slotVars == <<slot, published, forfeited, skipped>>
inboxVars == <<inbox, evidence, handled>>
dlqVars == <<dlq, expired, replay, replayed, republished>>

-----------------------------------------------------------------------------
Forever == InboxAge + 1
Ages == 0..Forever
Older(n) == IF n = Forever THEN n ELSE n + 1

Record == [event : Events, age : Ages]
Parked == [event : Events \cup {Foreign, Broken}, age : Ages]
Unread(e) == [event |-> e, age |-> 0]

IdlePrune == [pc |-> "idle", batch |-> {}]
IdleReplay == [pc |-> "idle", pos |-> 0, end |-> 0]

Init ==
    /\ outbox = [e \in Events |-> "none"]
    /\ age = [e \in Events |-> 0]
    /\ wal = <<>>
    /\ slot = [state |-> "active", confirmed |-> 0, recorded |-> FALSE]
    /\ published = {}
    /\ prune = IdlePrune
    /\ topic = <<>>
    /\ inbox = [e \in Events |-> "open"]
    /\ evidence = [e \in Events |-> 0]
    /\ dlq = <<>>
    /\ expired = 0
    /\ replay = IdleReplay
    /\ replayed = 0
    /\ forfeited = {}
    /\ skipped = {}
    /\ handled = {}
    /\ republished = {}
    /\ faults = 0

-----------------------------------------------------------------------------
(* The outbox table and its connector *)

(* A unit of work commits its outbox row; inserted_at is the database's. *)
Insert(e) ==
    /\ outbox[e] = "none"
    /\ outbox' = [outbox EXCEPT ![e] = "stored"]
    /\ wal' = Append(wal, e)
    /\ UNCHANGED <<age, prune, topic, slotVars, inboxVars, dlqVars>>

(* The slot holds the WAL behind its confirmed position. *)
Owed(e) == /\ slot.state # "absent"
           /\ \E i \in (slot.confirmed + 1)..Len(wal) : wal[i] = e

Stored == {e \in Events : outbox[e] = "stored"}

(* The row is gone, or will be once the vouched batch commits.             *)
Pruned(e) == outbox[e] = "deleted" \/ (prune.pc = "vouched" /\ e \in prune.batch)

(* What can be published from the slot only.                               *)
AtRisk == {e \in Events : Pruned(e)} \ (published \cup forfeited \cup skipped)

Connects == UNCHANGED <<age, outboxVars, inboxVars, dlqVars>>

(* The connector publishes the next insert; if it stops before the flush   *)
(* of its position it publishes it again.                                  *)
Stream(flushed) ==
    /\ slot.state = "active"
    /\ slot.confirmed < Len(wal)
    /\ Len(topic) < MaxUnread
    /\ topic' = Append(topic, Unread(wal[slot.confirmed + 1]))
    /\ published' = published \cup {wal[slot.confirmed + 1]}
    /\ slot' = IF flushed THEN [slot EXCEPT !.confirmed = @ + 1, !.recorded = TRUE]
                          ELSE [slot EXCEPT !.state = "idle"]
    /\ UNCHANGED <<forfeited, skipped>>
    /\ Connects

Disconnect ==
    /\ slot.state = "active"
    /\ slot' = [slot EXCEPT !.state = "idle"]
    /\ UNCHANGED <<published, forfeited, skipped, topic>>
    /\ Connects

(* The slot is dropped with the WAL it held; the offsets topic is kept, or *)
(* reset with it.                                                          *)
DropSlot(kept) ==
    /\ slot.state \in {"idle", "snapshot"}
    /\ slot' = [state |-> "absent", confirmed |-> 0, recorded |-> slot.recorded /\ kept]
    /\ forfeited' = forfeited \cup AtRisk
    /\ UNCHANGED <<published, skipped, topic>>
    /\ Connects

(* The connector starts from its offset, ...                               *)
Reconnect ==
    /\ slot.state = "idle" /\ slot.recorded
    /\ slot' = [slot EXCEPT !.state = "active"]
    /\ UNCHANGED <<published, forfeited, skipped, topic>>
    /\ Connects

(* ... and if its slot is gone, from a new one at the end of the WAL.  No  *)
(* snapshot.mode is set: with an offset there is none.                     *)
RecreateSlot ==
    /\ slot.state = "absent" /\ slot.recorded
    /\ slot' = [slot EXCEPT !.state = "active", !.confirmed = Len(wal)]
    /\ skipped' = skipped \cup (Stored \ published)
    /\ UNCHANGED <<published, forfeited, topic>>
    /\ Connects

(* Without an offset it goes to the end of the WAL, creating the slot if   *)
(* need be, ...                                                            *)
StartSnapshot ==
    /\ slot.state \in {"idle", "absent"} /\ ~slot.recorded
    /\ slot' = [slot EXCEPT !.state = "snapshot", !.confirmed = Len(wal)]
    /\ forfeited' = forfeited \cup AtRisk
    /\ UNCHANGED <<published, skipped, topic>>
    /\ Connects

(* ... publishes the rows of the table, and streams.                       *)
Snapshot ==
    /\ slot.state = "snapshot"
    /\ \E s \in [1..Cardinality(Stored) -> Stored] :
          /\ {s[i] : i \in DOMAIN s} = Stored
          /\ Len(topic) + Len(s) <= MaxUnread
          /\ topic' = topic \o [i \in DOMAIN s |-> Unread(s[i])]
    /\ published' = published \cup Stored
    /\ \E flushed \in BOOLEAN :
          slot' = [slot EXCEPT !.state = "active", !.recorded = flushed /\ Stored # {}]
    /\ UNCHANGED <<forfeited, skipped>>
    /\ Connects

-----------------------------------------------------------------------------
(* OutboxRetentionService.prune, one transaction for each batch *)

SlotActive == slot.state = "active"

(* _require_active_replication_slot *)
SlotReady == slot.state = "active" /\ Len(wal) - slot.confirmed <= MaxSlotLag

PrunesOnly == UNCHANGED <<age, wal, topic, slotVars, inboxVars, dlqVars>>

(* An unfit slot raises: nothing happens. *)
CheckSlot ==
    /\ prune.pc = "idle"
    /\ SlotReady
    /\ prune' = [prune EXCEPT !.pc = "checked"]
    /\ UNCHANGED outbox
    /\ PrunesOnly

OldRows == {e \in Stored : age[e] > OutboxAge}

(* The oldest rows past the cutoff; rows of one tick are ordered by id. *)
OldestBatch(b) ==
    /\ b \subseteq OldRows
    /\ Cardinality(b) = IF Cardinality(OldRows) < BatchSize
                        THEN Cardinality(OldRows) ELSE BatchSize
    /\ \A e \in b, f \in OldRows \ b : age[e] >= age[f]

SelectAndDelete ==
    /\ prune.pc = "checked"
    /\ \E b \in SUBSET OldRows :
          /\ OldestBatch(b)
          /\ prune' = IF b = {} THEN IdlePrune
                                ELSE [pc |-> "deleted", batch |-> b]
    /\ UNCHANGED outbox
    /\ PrunesOnly

(* No second look at the slot. *)
TrustCheck ==
    /\ prune.pc = "deleted"
    /\ prune' = [prune EXCEPT !.pc = "vouched"]
    /\ UNCHANGED outbox
    /\ PrunesOnly

(* The recheck before the commit raises and rolls back, or vouches. *)
RecheckSlot ==
    /\ prune.pc = "deleted"
    /\ prune' = IF SlotReady THEN [prune EXCEPT !.pc = "vouched"] ELSE IdlePrune
    /\ UNCHANGED outbox
    /\ PrunesOnly

(* The commit; the loop goes on with a transaction of its own. *)
CommitBatch ==
    /\ prune.pc = "vouched"
    /\ outbox' = [e \in Events |-> IF e \in prune.batch THEN "deleted" ELSE outbox[e]]
    /\ prune' = IdlePrune
    /\ PrunesOnly

(* The transaction is lost before its commit. *)
RollBack ==
    /\ prune.pc # "idle"
    /\ prune' = IdlePrune
    /\ UNCHANGED outbox
    /\ PrunesOnly

-----------------------------------------------------------------------------
(* The handler's inbox.  A row that is absent, failed or whose lease ran   *)
(* out can be claimed: it is "open".                                       *)

Head1 == topic[1].event

(* A claim, the handler's effect and the claim's completion. *)
Complete ==
    /\ topic # <<>>
    /\ inbox[Head1] = "open"
    /\ inbox' = [inbox EXCEPT ![Head1] = "processed"]
    /\ evidence' = [evidence EXCEPT ![Head1] = 0]
    /\ handled' = handled \cup {Head1}
    /\ topic' = Tail(topic)
    /\ UNCHANGED <<age, outboxVars, slotVars, dlqVars>>

SkipProcessed ==
    /\ topic # <<>>
    /\ inbox[Head1] = "processed"
    /\ topic' = Tail(topic)
    /\ UNCHANGED <<age, outboxVars, slotVars, inboxVars, dlqVars>>

(* Retries are exhausted: the claim is failed and the record parked. *)
Park ==
    /\ topic # <<>>
    /\ inbox[Head1] = "open"
    /\ Len(dlq) < MaxParked
    /\ dlq' = Append(dlq, Unread(Head1))
    /\ topic' = Tail(topic)
    /\ UNCHANGED <<age, inboxVars, outboxVars, slotVars, expired,
                   replay, replayed, republished>>

(* The horizon of the other table. *)
ShortEvidence == {e \in Events : inbox[e] = "processed" /\ evidence[e] > OutboxAge}

(* _prune_table of event_inbox: rows past the horizon, as many as the      *)
(* batch takes and nobody has locked.                                      *)
ExpiredEvidence == {e \in Events : inbox[e] = "processed" /\ evidence[e] > InboxAge}

PruneInbox ==
    /\ \E b \in SUBSET ExpiredEvidence \ {{}} :
          /\ inbox' = [e \in Events |-> IF e \in b THEN "open" ELSE inbox[e]]
          /\ evidence' = [e \in Events |-> IF e \in b THEN 0 ELSE evidence[e]]
    /\ UNCHANGED <<age, topic, handled, outboxVars, slotVars, dlqVars>>

-----------------------------------------------------------------------------
(* replay_dlq.py *)

(* A record some other producer left on the topic. *)
ParkForeign(x) ==
    /\ Len(dlq) < MaxParked
    /\ dlq' = Append(dlq, Unread(x))
    /\ UNCHANGED <<age, topic, outboxVars, slotVars, inboxVars, expired, replay,
                   replayed, republished>>

ReplaysOnly == UNCHANGED <<age, outboxVars, slotVars, inboxVars, dlq, expired>>

Later(m, n) == IF m > n THEN m ELSE n

(* main: from the committed offset, or from the beginning, up to the end   *)
(* of the partition as it is now.  An offset no longer retained resets to  *)
(* the earliest.                                                           *)
StartReplay(fromBeginning) ==
    /\ replay.pc = "idle"
    /\ LET start == IF fromBeginning THEN expired ELSE Later(replayed, expired)
       IN  /\ start < Len(dlq)
           /\ replay' = [pc |-> "fetched", pos |-> start, end |-> Len(dlq)]
    /\ UNCHANGED <<topic, replayed, republished>>
    /\ ReplaysOnly

Fetched == dlq[replay.pos + 1].event

(* send_raw returned TRUE. *)
Republish ==
    /\ replay.pc = "fetched"
    /\ Fetched \in Events
    /\ Len(topic) < MaxUnread
    /\ topic' = Append(topic, Unread(Fetched))
    /\ republished' = republished \cup {replay.pos + 1}
    /\ replay' = [replay EXCEPT !.pc = "sent"]
    /\ UNCHANGED replayed
    /\ ReplaysOnly

(* The answer is not looked at. *)
IgnoreSendError ==
    /\ replay.pc = "fetched"
    /\ Fetched \in Events
    /\ replay' = [replay EXCEPT !.pc = "sent"]
    /\ UNCHANGED <<topic, replayed, republished>>
    /\ ReplaysOnly

(* send_raw returned FALSE, though the record may have arrived: raise. *)
SendFails ==
    /\ replay.pc = "fetched"
    /\ Fetched \in Events
    /\ \/ UNCHANGED topic
       \/ /\ Len(topic) < MaxUnread
          /\ topic' = Append(topic, Unread(Fetched))
    /\ replay' = IdleReplay
    /\ UNCHANGED <<replayed, republished>>
    /\ ReplaysOnly

(* Not a wrapper: passed over. *)
SkipForeign ==
    /\ replay.pc = "fetched"
    /\ Fetched = Foreign
    /\ replay' = [replay EXCEPT !.pc = "sent"]
    /\ UNCHANGED <<topic, replayed, republished>>
    /\ ReplaysOnly

(* _require_kafka_bytes raises. *)
RefuseBroken ==
    /\ replay.pc = "fetched"
    /\ Fetched = Broken
    /\ replay' = IdleReplay
    /\ UNCHANGED <<topic, replayed, republished>>
    /\ ReplaysOnly

(* The commit, then the next record of the partition if there is one. *)
CommitReplay ==
    /\ replay.pc = "sent"
    /\ replayed' = replay.pos + 1
    /\ replay' = IF replay.pos + 1 < replay.end
                 THEN [replay EXCEPT !.pc = "fetched", !.pos = @ + 1]
                 ELSE IdleReplay
    /\ UNCHANGED <<topic, republished>>
    /\ ReplaysOnly

ReplayDies ==
    /\ replay.pc # "idle"
    /\ replay' = IdleReplay
    /\ UNCHANGED <<topic, replayed, republished>>
    /\ ReplaysOnly

-----------------------------------------------------------------------------
(* Time *)

(* The service levels the horizons are chosen for: a row is captured and   *)
(* pruned before OutboxAge + Delay, a record is read within ReadAge, and a *)
(* replay takes less than a tick.                                          *)
OnSchedule ==
    /\ \A e \in Events : outbox[e] = "stored" \/ Owed(e) => age[e] < OutboxAge + Delay
    /\ \A i \in DOMAIN topic : topic[i].age < ReadAge
    /\ replay.pc = "idle"

Aged(s) == [i \in DOMAIN s |-> [s[i] EXCEPT !.age = Older(@)]]

Tick ==
    /\ OnSchedule
    /\ age' = [e \in Events |-> IF outbox[e] = "none" THEN 0 ELSE Older(age[e])]
    /\ evidence' = [e \in Events |-> IF inbox[e] = "processed" THEN Older(evidence[e]) ELSE 0]
    /\ topic' = Aged(topic)
    /\ dlq' = Aged(dlq)
    \* the broker deletes what it retained long enough
    /\ expired' = Later(expired, Cardinality({i \in DOMAIN dlq : dlq[i].age >= ParkedAge}))
    /\ UNCHANGED <<outboxVars, slotVars, inbox, handled, replay, replayed, republished>>

-----------------------------------------------------------------------------
Step ==
    \/ \E e \in Events : Insert(e)
    \/ Stream(TRUE) \/ Reconnect \/ RecreateSlot \/ StartSnapshot \/ Snapshot
    \/ CheckSlot \/ SelectAndDelete \/ RecheckSlot \/ CommitBatch \/ PruneInbox
    \/ Complete \/ SkipProcessed \/ Park
    \/ \E b \in BOOLEAN : StartReplay(b)
    \/ Republish \/ SkipForeign \/ RefuseBroken \/ CommitReplay
    \/ Tick

Mishap ==
    \/ Stream(FALSE) \/ Disconnect \/ \E b \in BOOLEAN : DropSlot(b)
    \/ RollBack
    \/ \E x \in {Foreign, Broken} : ParkForeign(x)
    \/ SendFails \/ ReplayDies

Next ==
    \/ Step /\ UNCHANGED faults
    \/ Mishap /\ faults < MaxFaults /\ faults' = faults + 1

Spec == Init /\ [][Next]_vars

-----------------------------------------------------------------------------
(* Properties *)

(* Every variable keeps its shape. *)
TypeOK ==
    /\ outbox \in [Events -> {"none", "stored", "deleted"}]
    /\ age \in [Events -> Ages]
    /\ wal \in Seq(Events)
    /\ slot \in [state : {"absent", "snapshot", "idle", "active"},
                confirmed : 0..Len(wal), recorded : BOOLEAN]
    /\ published \subseteq Events
    /\ prune \in [pc : {"idle", "checked", "deleted", "vouched"}, batch : SUBSET Events]
    /\ topic \in Seq(Record)
    /\ inbox \in [Events -> {"open", "processed"}]
    /\ evidence \in [Events -> Ages]
    /\ dlq \in Seq(Parked)
    /\ expired \in 0..Len(dlq)
    /\ replay \in [pc : {"idle", "fetched", "sent"}, pos : Nat, end : 0..Len(dlq)]
    /\ replay.pc # "idle" => replay.pos < replay.end
    /\ replayed \in 0..Len(dlq)
    /\ forfeited \subseteq Events /\ skipped \subseteq Events
    /\ handled \subseteq Events
    /\ republished \subseteq 1..Len(dlq)
    /\ faults \in 0..MaxFaults

(* A row leaves the outbox only when it was published or the slot still    *)
(* owes it, through slots that stop, lag, or are dropped between the two   *)
(* checks of a batch.  The exceptions are named: what a slot owed when it  *)
(* was lost, and what a slot recreated over kept offsets never read; the   *)
(* fence compares no more than a name and accepts that slot.               *)
PrunedIsOwed ==
    \A e \in Events : Pruned(e) => e \in published \cup forfeited \cup skipped \/ Owed(e)

(* Losing the slot forfeits at most the lag the cleaner tolerates, however *)
(* many rows it pruned: the others of the table are safe if the offsets    *)
(* go with the slot.                                                       *)
LossIsBounded == Cardinality(AtRisk) <= MaxSlotLag

Retained(e) == \E i \in (expired + 1)..Len(dlq) : dlq[i].event = e

Replayable(e) ==
    \/ outbox[e] = "stored"
    \/ Owed(e)
    \/ \E i \in DOMAIN topic : topic[i].event = e
    \/ Retained(e)

(* The evidence that an event was handled outlives every way to deliver it *)
(* again: the row a new slot snapshots, the position an old one repeats,   *)
(* the record still unread and the copy on the dead-letter topic.  It      *)
(* rests on OnSchedule: a cleaner that its fence keeps off for longer than *)
(* Delay, or a consumer behind by more than ReadAge, is outside it.        *)
EvidenceOutlivesReplay ==
    \A e \in handled : Replayable(e) => inbox[e] = "processed"

(* The replay group commits past a parked record only after the broker     *)
(* acknowledged it again, whatever fails or dies in between.               *)
ReplayLosesNothing ==
    \A i \in (expired + 1)..replayed : dlq[i].event = Foreign \/ i \in republished
=============================================================================
