--------------------------- MODULE EventDelivery ----------------------------
(***************************************************************************)
(* Delivery of one partition of an outbox topic to one handler: the        *)
(* workers of a consumer group, the retry loop of KafkaClient, the         *)
(* dispatcher, the lease-based handler inbox and the dead-letter topic.    *)
(*                                                                         *)
(* A worker holds at most one record.  Between any two of its steps it may *)
(* crash, its handler may be cancelled by the processing timeout, or the   *)
(* partition may move to another worker while it carries on (a zombie).    *)
(***************************************************************************)
EXTENDS Integers

CONSTANTS
    Workers,        \* processes of the consumer group
    LastOffset,     \* the records of the partition are 1..LastOffset
    Poison,         \* records whose contract cannot be deserialized
    Malformed,      \* records that are not even JSON
    Unsubscribed,   \* tombstones and events this worker has no handler for
    RetryForever,   \* durable_delivery: the workflow worker, not notification
    MaxRetries,     \* consumer_max_retries
    Stalls,         \* a worker may stall longer than its lease
    MaxFaults,      \* bound: failures, timeouts, crashes, rebalances
    None            \* no owner

ASSUME DeliveryAssumption ==
    /\ LastOffset \in Nat
    /\ Poison \cup Malformed \cup Unsubscribed \subseteq 1..LastOffset
    /\ Malformed \cap Poison = {}
    /\ MaxRetries \in Nat
    /\ MaxFaults \in Nat
ASSUME DeliveryModes == RetryForever \in BOOLEAN /\ Stalls \in BOOLEAN
ASSUME NoneIsNoWorker == None \notin Workers

VARIABLES
    committed,    \* next offset of the consumer group
    owner,        \* worker the partition is assigned to
    pc,           \* what each worker is doing
    record,       \* the offset it works on
    attempt,      \* attempts of the current poll cycle
    token,        \* its claim token
    inbox,        \* inbox row of each record for this handler
    applied,      \* records whose handler committed its effect
    quarantined,  \* rows of the quarantine table
    dlq,          \* records on the dead-letter topic
    faults        \* faults so far

vars == <<committed, owner, pc, record, attempt, token, inbox, applied,
          quarantined, dlq, faults>>

Offsets == 1..LastOffset

(* A token is fresh for each claim, and attempts counts the claims of the  *)
(* row, so the number of the claim stands for its token (0: no token).     *)
InboxRows == [status : {"absent", "processing", "failed", "processed"},
              attempts : Nat, token : Nat, leased : BOOLEAN]

PcValues == {"down", "idle", "dispatch", "handling", "applied", "parking",
             "commit"}

Init ==
    /\ committed = 1
    /\ owner = None
    /\ pc = [w \in Workers |-> "down"]
    /\ record = [w \in Workers |-> 0]
    /\ attempt = [w \in Workers |-> 0]
    /\ token = [w \in Workers |-> 0]
    /\ inbox = [m \in Offsets |-> [status |-> "absent", attempts |-> 0,
                                   token |-> 0, leased |-> FALSE]]
    /\ applied = {}
    /\ quarantined = {}
    /\ dlq = {}
    /\ faults = 0

Fault == faults < MaxFaults /\ faults' = faults + 1

Goto(w, label) == pc' = [pc EXCEPT ![w] = label]

-----------------------------------------------------------------------------
(* The broker *)

(* A restarted or evicted worker joins the group and is assigned the       *)
(* partition.                                                              *)
Join(w) ==
    /\ pc[w] \in {"down", "idle"}
    /\ owner = None
    /\ owner' = w
    /\ Goto(w, "idle")
    /\ UNCHANGED <<committed, record, attempt, token, inbox, applied,
                   quarantined, dlq, faults>>

(* The group evicts the owner, which may still be working on a record. *)
Evict ==
    /\ owner # None
    /\ Fault
    /\ owner' = None
    /\ UNCHANGED <<committed, pc, record, attempt, token, inbox, applied,
                   quarantined, dlq>>

(* The consumer leaves the loop with an exception, without committing; the *)
(* supervisor restarts it.                                                 *)
Exit(w) ==
    /\ Goto(w, "down")
    /\ owner' = IF owner = w THEN None ELSE owner

Crash(w) ==
    /\ pc[w] # "down"
    /\ Fault
    /\ Exit(w)
    /\ UNCHANGED <<committed, record, attempt, token, inbox, applied,
                   quarantined, dlq>>

FetchAndCommit(w) ==
    /\ pc[w] = "idle"
    /\ owner = w
    /\ committed <= LastOffset
    /\ Goto(w, "dispatch")
    /\ record' = [record EXCEPT ![w] = committed]
    /\ attempt' = [attempt EXCEPT ![w] = 0]
    /\ committed' = committed + 1
    /\ UNCHANGED <<owner, token, inbox, applied, quarantined, dlq, faults>>

(* KafkaClient.consume: the next record, and the commit after it. *)
Fetch(w) ==
    /\ pc[w] = "idle"
    /\ owner = w
    /\ committed <= LastOffset
    /\ Goto(w, "dispatch")
    /\ record' = [record EXCEPT ![w] = committed]
    /\ attempt' = [attempt EXCEPT ![w] = 0]
    /\ UNCHANGED <<committed, owner, token, inbox, applied, quarantined, dlq,
                   faults>>

(* An evicted member's commit is refused and ends its loop. *)
CommitOffset(w) ==
    /\ pc[w] = "commit"
    /\ IF owner = w
       THEN /\ committed' = record[w] + 1
            /\ Goto(w, "idle")
            /\ UNCHANGED owner
       ELSE /\ Exit(w)
            /\ UNCHANGED committed

Commit(w) ==
    /\ CommitOffset(w)
    /\ UNCHANGED <<record, attempt, token, inbox, applied, quarantined, dlq,
                   faults>>

-----------------------------------------------------------------------------
ParkOnExhaustion(w, durable) ==
    IF attempt[w] < MaxRetries
    THEN /\ Goto(w, "dispatch")
         /\ attempt' = [attempt EXCEPT ![w] = @ + 1]
         /\ UNCHANGED owner
    ELSE Goto(w, "parking") /\ UNCHANGED <<owner, attempt>>

(* _handle_with_retry after a failed attempt: retry, give the record back  *)
(* to the broker, or dead-letter it.                                       *)
AfterFailure(w, durable) ==
    IF attempt[w] < MaxRetries
    THEN /\ Goto(w, "dispatch")
         /\ attempt' = [attempt EXCEPT ![w] = @ + 1]
         /\ UNCHANGED owner
    ELSE /\ IF durable THEN Exit(w)
                       ELSE Goto(w, "parking") /\ UNCHANGED owner
         /\ UNCHANGED attempt

(* A record that cannot be deserialized is quarantined, then parked. *)
Quarantine(w) ==
    /\ pc[w] = "dispatch"
    /\ record[w] \in Poison
    /\ quarantined' = quarantined \cup {record[w]}
    /\ Goto(w, "parking")
    /\ UNCHANGED <<committed, owner, record, attempt, token, inbox, applied,
                   dlq, faults>>

QuarantineBestEffort(w) ==
    /\ pc[w] = "dispatch"
    /\ record[w] \in Poison
    /\ Fault
    /\ Goto(w, "parking")
    /\ UNCHANGED <<committed, owner, record, attempt, token, inbox, applied,
                   quarantined, dlq>>

(* A malformed record is parked before anybody reads its contract. *)
RejectMalformed(w) ==
    /\ pc[w] = "dispatch"
    /\ record[w] \in Malformed
    /\ Goto(w, "parking")
    /\ UNCHANGED <<committed, owner, record, attempt, token, inbox, applied,
                   quarantined, dlq, faults>>

(* The quarantine row could not be written: a durable failure. *)
QuarantineFails(w) ==
    /\ pc[w] = "dispatch"
    /\ record[w] \in Poison
    /\ Fault
    /\ AfterFailure(w, TRUE)
    /\ UNCHANGED <<committed, record, token, inbox, applied, quarantined, dlq>>

(* _park_on_dead_letter: acknowledged by the broker, or failed or timed    *)
(* out, in which case the record may have been parked all the same.        *)
Park(w) ==
    /\ pc[w] = "parking"
    /\ dlq' = dlq \cup {record[w]}
    /\ Goto(w, "commit")
    /\ UNCHANGED <<committed, owner, record, attempt, token, inbox, applied,
                   quarantined, faults>>

ParkFails(w) ==
    /\ pc[w] = "parking"
    /\ Fault
    /\ dlq' \in {dlq, dlq \cup {record[w]}}
    /\ Exit(w)
    /\ UNCHANGED <<committed, record, attempt, token, inbox, applied,
                   quarantined>>

-----------------------------------------------------------------------------
(* The dispatcher and the inbox *)

Dispatching(w) == /\ pc[w] = "dispatch"
                  /\ record[w] \notin Poison \cup Malformed \cup Unsubscribed

(* Nothing to do for this record. *)
PassOver(w) ==
    /\ pc[w] = "dispatch"
    /\ record[w] \in Unsubscribed \ (Poison \cup Malformed)
    /\ Goto(w, "commit")
    /\ UNCHANGED <<committed, owner, record, attempt, token, inbox, applied,
                   quarantined, dlq, faults>>

Row(w) == inbox[record[w]]

IgnoreLease(row) == FALSE

IgnoreExpiry(row) == row.status = "processing"

Busy(row) == row.status = "processing" /\ row.leased

(* claim: CLAIMED *)
Claim(w) ==
    /\ Dispatching(w)
    /\ Row(w).status # "processed"
    /\ ~Busy(Row(w))
    /\ inbox' = [inbox EXCEPT ![record[w]] =
                   [status |-> "processing", attempts |-> @.attempts + 1,
                    token |-> @.attempts + 1, leased |-> TRUE]]
    /\ token' = [token EXCEPT ![w] = Row(w).attempts + 1]
    /\ Goto(w, "handling")
    /\ UNCHANGED <<committed, owner, record, attempt, applied, quarantined,
                   dlq, faults>>

(* claim: PROCESSED, the dispatcher skips the handler. *)
SkipProcessed(w) ==
    /\ Dispatching(w)
    /\ Row(w).status = "processed"
    /\ Goto(w, "commit")
    /\ UNCHANGED <<committed, owner, record, attempt, token, inbox, applied,
                   quarantined, dlq, faults>>

(* claim: BUSY counts as a failed attempt. *)
FindBusy(w) ==
    /\ Dispatching(w)
    /\ Busy(Row(w))
    /\ AfterFailure(w, RetryForever)
    /\ UNCHANGED <<committed, record, token, inbox, applied, quarantined, dlq,
                   faults>>

(* The handler commits its transaction. *)
Apply(w) ==
    /\ pc[w] = "handling"
    /\ applied' = applied \cup {record[w]}
    /\ Goto(w, "applied")
    /\ UNCHANGED <<committed, owner, record, attempt, token, inbox,
                   quarantined, dlq, faults>>

HoldsAnyClaim(w) == Row(w).status # "absent"

(* The row still carries the worker's token and is not processed. *)
HoldsClaim(w) == Row(w).token = token[w] /\ Row(w).status # "processed"

(* The handler raises; inbox.fail gives the claim back if it still holds.  *)
HandlerFails(w) ==
    /\ pc[w] = "handling"
    /\ Fault
    /\ IF HoldsClaim(w)
       THEN inbox' = [inbox EXCEPT ![record[w]] =
                        [@ EXCEPT !.status = "failed", !.token = 0, !.leased = FALSE]]
       ELSE UNCHANGED inbox
    /\ AfterFailure(w, RetryForever)
    /\ UNCHANGED <<committed, record, token, applied, quarantined, dlq>>

(* inbox.complete: a lost claim is a failed attempt. *)
Complete(w) ==
    /\ pc[w] = "applied"
    /\ IF HoldsClaim(w)
       THEN /\ inbox' = [inbox EXCEPT ![record[w]] =
                           [@ EXCEPT !.status = "processed", !.token = 0,
                                     !.leased = FALSE]]
            /\ Goto(w, "commit")
            /\ UNCHANGED <<owner, attempt>>
       ELSE /\ AfterFailure(w, RetryForever)
            /\ UNCHANGED inbox
    /\ UNCHANGED <<committed, record, token, applied, quarantined, dlq, faults>>

(* The processing timeout, or an error of the inbox's database: the        *)
(* attempt is over and the claim stays leased.                             *)
TimedOut(w) ==
    /\ pc[w] \in {"dispatch", "handling", "applied"}
    /\ Dispatching(w) \/ record[w] \in Poison \/ pc[w] # "dispatch"
    /\ Fault
    /\ AfterFailure(w, RetryForever)
    /\ UNCHANGED <<committed, record, token, inbox, applied, quarantined, dlq>>

(* The processing timeout is shorter than the lease, so a lease outlives   *)
(* the attempt it was taken for unless the whole worker stalls.            *)
LeaseExpires(m) ==
    /\ inbox[m].leased
    /\ Stalls \/ \A w \in Workers : ~ /\ pc[w] \in {"handling", "applied"}
                                      /\ record[w] = m
                                      /\ token[w] = inbox[m].token
    /\ inbox' = [inbox EXCEPT ![m].leased = FALSE]
    /\ UNCHANGED <<committed, owner, pc, record, attempt, token, applied,
                   quarantined, dlq, faults>>

-----------------------------------------------------------------------------
(* What a live worker does by itself. *)
Work(w) ==
    \/ Fetch(w) \/ Commit(w) \/ Quarantine(w) \/ Park(w) \/ Claim(w)
    \/ SkipProcessed(w) \/ FindBusy(w) \/ Apply(w) \/ Complete(w)
    \/ RejectMalformed(w) \/ PassOver(w)

Next ==
    \/ \E w \in Workers : \/ Join(w) \/ Work(w) \/ Crash(w) \/ ParkFails(w)
                          \/ QuarantineFails(w)
                          \/ HandlerFails(w) \/ TimedOut(w)
    \/ Evict
    \/ \E m \in Offsets : LeaseExpires(m)

Spec == Init /\ [][Next]_vars

(* A live worker keeps going, a worker that left the loop is restarted and *)
(* rejoins, and leases run out.                                            *)
FairSpec ==
    /\ Spec
    /\ \A w \in Workers : WF_vars(Work(w))
    /\ WF_vars(\E w \in Workers : Join(w))
    /\ \A m \in Offsets : WF_vars(LeaseExpires(m))

-----------------------------------------------------------------------------
(* Properties *)

(* Every variable keeps its shape. *)
TypeOK ==
    /\ committed \in 1..(LastOffset + 1)
    /\ owner \in Workers \cup {None}
    /\ pc \in [Workers -> PcValues]
    /\ record \in [Workers -> 0..LastOffset]
    /\ attempt \in [Workers -> 0..MaxRetries]
    /\ token \in [Workers -> Nat]
    /\ inbox \in [Offsets -> InboxRows]
    /\ applied \subseteq Offsets
    /\ quarantined \subseteq Offsets
    /\ dlq \subseteq Offsets
    /\ faults \in Nat

Settled(m) == inbox[m].status = "processed" \/ m \in dlq \/ m \in Unsubscribed

(* The offset only passes records that were processed or parked, and a     *)
(* durable worker parks only what nobody can read: no committed fact is lost to   *)
(* crashes, timeouts, rebalances or failing dead-letter publishes.         *)
NothingIsSkipped ==
    /\ \A m \in Offsets : m < committed => Settled(m)
    /\ RetryForever => dlq \subseteq Poison \cup Malformed

(* A record's effect is first committed after every earlier record of the  *)
(* partition was settled, even by a worker that lost the partition.        *)
AppliedInOrder == \A m \in applied : \A k \in Offsets : k < m => Settled(k)

(* The inbox says processed only of a record whose effect is committed,    *)
(* and a record that cannot be read is never handled.                      *)
ProcessedWasApplied ==
    /\ \A m \in Offsets : inbox[m].status = "processed" => m \in applied
    /\ (Poison \cup Malformed) \cap applied = {}

(* A poison record is parked only after its diagnosis was persisted. *)
ParkedWasDiagnosed == dlq \cap Poison \subseteq quarantined

(* While no worker stalls past its lease, two workers never run the        *)
(* handler of one record at the same time.                                 *)
HandlerIsExclusive ==
    \A v, w \in Workers :
       /\ pc[v] \in {"handling", "applied"}
       /\ pc[w] \in {"handling", "applied"}
       /\ record[v] = record[w]
       => v = w

(* A processed row is never reopened, by a late fail or claim. *)
ProcessedIsFinal ==
    [][\A m \in Offsets : inbox[m].status = "processed" => inbox'[m] = inbox[m]]_vars

(* Every record is settled in the end. *)
AllSettle == <>(\A m \in Offsets : Settled(m))
=============================================================================
