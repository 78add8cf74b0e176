----------------------------- MODULE Projection -----------------------------
(* One search read model: the CDC consumer that copies every row change into  *)
(* Elasticsearch, and the reindex job that rebuilds the index behind its      *)
(* alias while the consumer keeps writing.  The consumer writes to the alias  *)
(* and to the job's new index once it has discovered it; discovery is cached  *)
(* for a second, and the job waits longer than that before it reads a row.    *)
EXTENDS Integers, Sequences, FiniteSets

CONSTANTS
    Rows,        \* row ids, in keyset order
    Tags,        \* what a search can filter on
    Workers,     \* instances of the CDC consumer
    Seeds,       \* how many rows may exist at the start
    MaxChanges,  \* bound: row changes, the first rows included
    MaxIndices,  \* bound: physical indices, numbered as they are created
    BatchSize,   \* rows read by one transaction of the job
    FullImage,   \* rows whose delete carries the row: REPLICA IDENTITY FULL
    None

ASSUME ProjectionAssumption ==
    /\ Rows \subseteq Nat \ {0} /\ IsFiniteSet(Workers) /\ FullImage \subseteq Rows
    /\ Seeds \subseteq Nat /\ \A k \in Seeds : 1..k \subseteq Rows
    /\ MaxIndices \in Nat \ {0} /\ BatchSize \in Nat \ {0} /\ MaxChanges \in Nat
    /\ None \notin Tags /\ None \notin Nat /\ Tags # {}

VARIABLES
    pg,         \* the table
    wal,        \* the committed changes of the table, in commit order
    shipped,    \* how many of them Debezium has written to Kafka
    committed,  \* the offset committed by the consumer group
    docs,       \* the documents of every physical index, tombstones included
    shown,      \* what a search of each index finds: the documents, and the
                \* offset committed, at the index's last refresh
    exists,     \* the physical indices
    alias,      \* the index behind the read alias
    target,     \* the index behind the dual-write alias
    worker,     \* the consumer instances
    early,      \* instances whose cached targets are older than the registration
    job,        \* the reindex job; the advisory lock admits one
    owners      \* the instances that have owned the partition

pvars == <<pg, wal, shipped, committed, docs, shown, exists, alias, target,
           worker, early, job, owners>>

Indices == 1..MaxIndices
Live == 0      \* the logical index name, which each request resolves

RowType == [ver : Nat, live : BOOLEAN, tag : Tags]
NoRow == [ver |-> 0, live |-> FALSE, tag |-> None]
DocType == [ver : Nat, live : BOOLEAN, tag : Tags \cup {None}]
NoDoc == [ver |-> 0, live |-> FALSE, tag |-> None]
EmptyIndex == [r \in Rows |-> NoDoc]
View(index, n) == [docs |-> index, upto |-> n]

WorkerSteps == {"idle", "looking", "writing"}
JobSteps == {"idle", "created", "grace", "scan", "bulk", "copied", "refreshed",
             "swapped", "cleared", "cleanup", "unregistered", "unserved"}

IdleWorker == [pc |-> "idle", off |-> 0, cached |-> None, valid |-> FALSE,
               todo |-> {}]
IdleJob == [pc |-> "idle", new |-> 1, old |-> 1, last |-> 0, batch |-> <<>>]

Born(t) == [ver |-> 0, live |-> TRUE, tag |-> t]
Insertion(r, t) == [row |-> r, after |-> Born(t)]

-----------------------------------------------------------------------------
(* Documents.                                                                 *)

(* Mutant: a delete carries the version of the row it deletes.                *)
DeleteAtRowVersion(s) == s.ver + 1

(* Aggregates start at version 0, external versions at 1; a delete is one     *)
(* newer than the row it deletes.                                             *)
ExternalVersion(s) == IF s.live THEN s.ver + 1 ELSE s.ver + 2

(* The document, or the tombstone, that a row state becomes.                  *)
Transform(s) == [ver |-> ExternalVersion(s), live |-> s.live, tag |-> s.tag]

(* version_type external_gte: an older write is a conflict, which the client  *)
(* ignores.                                                                   *)
Upsert(old, new) == IF new.ver >= old.ver THEN new ELSE old

(* Without the row's image the delete has no version: it always takes effect, *)
(* and counts on from whatever document it finds; beyond the version it lacks *)
(* no later one matters.                                                      *)
Unversioned(rec) == ~rec.after.live /\ rec.row \notin FullImage
Tombstone(old, new) == [new EXCEPT !.ver = IF old.ver < @ THEN old.ver + 1 ELSE old.ver]

Written(old, rec) ==
    IF Unversioned(rec) THEN Tombstone(old, Transform(rec.after))
                        ELSE Upsert(old, Transform(rec.after))

(* The rows 1 to k exist, and searches find them.                             *)
Init ==
    /\ \E k \in Seeds : \E tag \in [1..k -> Tags] :
           /\ pg = [r \in Rows |-> IF r \in 1..k THEN Born(tag[r]) ELSE NoRow]
           /\ wal = [r \in 1..k |-> Insertion(r, tag[r])]
           /\ docs = [i \in Indices |-> [r \in Rows |->
                          IF i = 1 /\ r \in 1..k THEN Transform(Born(tag[r])) ELSE NoDoc]]
           /\ shipped = k /\ committed = k
           /\ shown = [i \in Indices |-> View(docs[i], IF i = 1 THEN k ELSE 0)]
    /\ exists = {1} /\ alias = 1 /\ target = None
    /\ worker = [w \in Workers |-> IdleWorker]
    /\ early = {} /\ job = IdleJob /\ owners = {}

-----------------------------------------------------------------------------
(* The table and its change stream.  Every commit adds one WAL record.        *)

Change(r, s) ==
    /\ Len(wal) < MaxChanges
    /\ pg' = [pg EXCEPT ![r] = s]
    /\ wal' = Append(wal, [row |-> r, after |-> s])
    /\ UNCHANGED <<shipped, committed, docs, shown, exists, alias, target,
                   worker, early, job, owners>>

InsertRow(r) ==
    /\ pg[r] = NoRow
    /\ \E t \in Tags : Change(r, Born(t))

UpdateRow(r) ==
    /\ pg[r].live
    /\ \E t \in Tags : Change(r, [ver |-> pg[r].ver + 1, live |-> TRUE, tag |-> t])

(* Only an operator deletes rows, and ids are never used again.               *)
DeleteRow(r) == pg[r].live /\ Change(r, [pg[r] EXCEPT !.live = FALSE])

Ship ==
    /\ shipped < Len(wal)
    /\ shipped' = shipped + 1
    /\ UNCHANGED <<pg, wal, committed, docs, shown, exists, alias, target,
                   worker, early, job, owners>>

-----------------------------------------------------------------------------
(* The consumer.                                                              *)

Busy(w) == worker[w].pc # "idle"

SetWorker(w, s) == worker' = [worker EXCEPT ![w] = s]

Targets(i) == {Live} \cup (IF i = None THEN {} ELSE {i})

(* The owner of the partition reads on from the committed offset.  After a    *)
(* rebalance that can be an instance next to one that is still writing.       *)
Fetch(w, s) ==
    /\ ~Busy(w) /\ committed < shipped
    /\ SetWorker(w, [s EXCEPT !.off = committed + 1])
    /\ owners' = owners \cup {w}
    /\ UNCHANGED <<pg, wal, shipped, committed, docs, shown, exists, alias,
                   target, job>>

FetchAndUseCache(w) ==
    /\ worker[w].valid
    /\ Fetch(w, [worker[w] EXCEPT !.pc = "writing",
                                  !.todo = Targets(worker[w].cached)])
    /\ UNCHANGED early

(* The entry's second starts before the alias is looked up.                   *)
FetchAndLookup(w) ==
    /\ ~worker[w].valid
    /\ Fetch(w, [worker[w] EXCEPT !.pc = "looking", !.valid = TRUE])
    /\ early' = early \ {w}

FinishLookup(w) ==
    /\ worker[w].pc = "looking"
    /\ SetWorker(w, [worker[w] EXCEPT !.pc = "writing", !.todo = Targets(target),
                     !.cached = IF worker[w].valid THEN target ELSE None])
    /\ UNCHANGED <<pg, wal, shipped, committed, docs, shown, exists, alias,
                   target, early, job, owners>>

(* REINDEX_TARGET_CACHE_SECONDS have passed since the entry's stamp.          *)
Expire(w) ==
    /\ worker[w].valid
    /\ SetWorker(w, [worker[w] EXCEPT !.valid = FALSE, !.cached = None])
    /\ early' = early \ {w}
    /\ UNCHANGED <<pg, wal, shipped, committed, docs, shown, exists, alias,
                   target, job, owners>>

(* One of the gathered requests takes effect.  An index that is gone is       *)
(* created by the request.                                                    *)
WriteDocument(w, t) ==
    LET i == IF t = Live THEN alias ELSE t
        rec == wal[worker[w].off]
    IN  /\ worker[w].pc = "writing" /\ t \in worker[w].todo
        /\ docs' = [docs EXCEPT ![i][rec.row] = Written(@, rec)]
        /\ exists' = exists \cup {i}
        /\ SetWorker(w, [worker[w] EXCEPT !.todo = @ \ {t}])
        /\ UNCHANGED <<pg, wal, shipped, committed, shown, alias, target,
                       early, job, owners>>

(* A commit that the group has moved past is refused.                         *)
CommitOffset(w) ==
    /\ worker[w].pc = "writing" /\ worker[w].todo = {}
    /\ committed' = IF worker[w].off = committed + 1 THEN committed + 1 ELSE committed
    /\ SetWorker(w, [worker[w] EXCEPT !.pc = "idle", !.off = 0])
    /\ UNCHANGED <<pg, wal, shipped, docs, shown, exists, alias, target, early,
                   job, owners>>

(* A request fails or the instance dies: nothing is committed, and the record *)
(* is read again.                                                             *)
FailRecord(w) ==
    /\ Busy(w)
    /\ SetWorker(w, [worker[w] EXCEPT !.pc = "idle", !.off = 0, !.todo = {},
                     !.valid = @ /\ worker[w].pc # "looking"])
    /\ early' = IF worker[w].pc = "looking" THEN early \ {w} ELSE early
    /\ UNCHANGED <<pg, wal, shipped, committed, docs, shown, exists, alias,
                   target, job, owners>>

-----------------------------------------------------------------------------
(* The reindex job, under the session's advisory lock.                        *)

SetJob(j) == job' = j
JobAt(pc) == job.pc = pc
(* The job leaves its function: its local variables are gone.                 *)
JobReturns == SetJob([IdleJob EXCEPT !.new = job.new])
TryBody == {"created", "grace", "scan", "bulk", "copied", "refreshed", "swapped"}

(* Index names are time stamps: a name is never used again.                   *)
CreateIndex ==
    /\ JobAt("idle") /\ job.new < MaxIndices
    /\ SetJob([job EXCEPT !.pc = "created", !.new = @ + 1, !.old = alias])
    /\ exists' = exists \cup {job.new + 1}
    /\ UNCHANGED <<pg, wal, shipped, committed, docs, shown, alias, target,
                   worker, early, owners>>

SetReindexTarget ==
    /\ JobAt("created")
    /\ target' = job.new
    /\ early' = {w \in Workers : worker[w].valid}
    /\ SetJob([job EXCEPT !.pc = "grace"])
    /\ UNCHANGED <<pg, wal, shipped, committed, docs, shown, exists, alias,
                   worker, owners>>

(* Mutant: the scan does not wait for the caches.                             *)
ScanAtOnce ==
    /\ JobAt("grace")
    /\ SetJob([job EXCEPT !.pc = "scan"])
    /\ UNCHANGED <<pg, wal, shipped, committed, docs, shown, exists, alias,
                   target, worker, early, owners>>

(* The grace is at least as long as a cache entry lives: no entry stamped     *)
(* before the registration outlasts it.                                       *)
GraceEnds ==
    /\ JobAt("grace") /\ early = {}
    /\ SetJob([job EXCEPT !.pc = "scan"])
    /\ UNCHANGED <<pg, wal, shipped, committed, docs, shown, exists, alias,
                   target, worker, early, owners>>

(* The live rows after last, the first BatchSize of them in keyset order.     *)
Remaining == {r \in Rows : r > job.last /\ pg[r].live}
FirstBatch ==
    {r \in Remaining : Cardinality({q \in Remaining : q < r}) < BatchSize}

ReadBatch ==
    /\ JobAt("scan")
    /\ IF FirstBatch = {}
       THEN SetJob([job EXCEPT !.pc = "copied"])
       ELSE SetJob([job EXCEPT !.pc = "bulk", !.batch = [r \in FirstBatch |-> pg[r]]])
    /\ UNCHANGED <<pg, wal, shipped, committed, docs, shown, exists, alias,
                   target, worker, early, owners>>

BulkIndexed(i) ==
    [r \in Rows |-> IF r \in DOMAIN job.batch
                    THEN Upsert(docs[i][r], Transform(job.batch[r]))
                    ELSE docs[i][r]]

BulkIndex ==
    /\ JobAt("bulk")
    /\ docs' = [docs EXCEPT ![job.new] = BulkIndexed(job.new)]
    /\ \E last \in DOMAIN job.batch :
           /\ \A r \in DOMAIN job.batch : r <= last
           /\ SetJob([job EXCEPT !.pc = "scan", !.last = last, !.batch = <<>>])
    /\ UNCHANGED <<pg, wal, shipped, committed, shown, exists, alias, target,
                   worker, early, owners>>

RefreshNewIndex ==
    /\ JobAt("copied")
    /\ shown' = [shown EXCEPT ![job.new] = View(docs[job.new], committed)]
    /\ SetJob([job EXCEPT !.pc = "refreshed"])
    /\ UNCHANGED <<pg, wal, shipped, committed, docs, exists, alias, target, worker,
                   early, owners>>

SwapAlias ==
    /\ JobAt("refreshed")
    /\ alias' = job.new
    /\ SetJob([job EXCEPT !.pc = "swapped"])
    /\ UNCHANGED <<pg, wal, shipped, committed, docs, shown, exists, target, worker,
                   early, owners>>

ClearReindexTarget ==
    /\ JobAt("swapped")
    /\ target' = None
    /\ SetJob([job EXCEPT !.pc = "cleared"])
    /\ UNCHANGED <<pg, wal, shipped, committed, docs, shown, exists, alias,
                   worker, early, owners>>

DropIndex(i) ==
    /\ exists' = exists \ {i}
    /\ docs' = [docs EXCEPT ![i] = EmptyIndex]
    /\ shown' = [shown EXCEPT ![i] = View(EmptyIndex, 0)]
    /\ target' = IF target = i THEN None ELSE target

DeleteOldIndex ==
    /\ JobAt("cleared")
    /\ DropIndex(job.old)
    /\ JobReturns
    /\ UNCHANGED <<pg, wal, shipped, committed, alias, worker, early,
                   owners>>

(* A call of the try block raises, or its answer is lost after it took effect.*)
JobFails ==
    /\ job.pc \in TryBody
    /\ SetJob([job EXCEPT !.pc = "cleanup", !.last = 0, !.batch = <<>>])
    /\ UNCHANGED <<pg, wal, shipped, committed, docs, shown, exists, alias,
                   target, worker, early, owners>>

ClearOwnTarget ==
    /\ JobAt("cleanup")
    /\ target' = IF target = job.new THEN None ELSE target
    /\ SetJob([job EXCEPT !.pc = "unregistered"])
    /\ UNCHANGED <<pg, wal, shipped, committed, docs, shown, exists, alias,
                   worker, early, owners>>

(* Mutant: the cleanup deletes the new index whatever serves.                 *)
NeverServed ==
    /\ JobAt("unregistered")
    /\ SetJob([job EXCEPT !.pc = "unserved"])
    /\ UNCHANGED <<pg, wal, shipped, committed, docs, shown, exists, alias, target,
                   worker, early, owners>>

CheckServing ==
    /\ JobAt("unregistered")
    /\ IF alias = job.new THEN JobReturns ELSE SetJob([job EXCEPT !.pc = "unserved"])
    /\ UNCHANGED <<pg, wal, shipped, committed, docs, shown, exists, alias, target,
                   worker, early, owners>>

DeleteUnservedIndex ==
    /\ JobAt("unserved")
    /\ DropIndex(job.new)
    /\ JobReturns
    /\ UNCHANGED <<pg, wal, shipped, committed, alias, worker, early, owners>>

(* The process dies, its cleanup fails, or --keep-old ends it: the lock goes, *)
(* what it left in Elasticsearch stays.                                       *)
JobEnds ==
    /\ ~JobAt("idle")
    /\ JobReturns
    /\ UNCHANGED <<pg, wal, shipped, committed, docs, shown, exists, alias,
                   target, worker, early, owners>>

-----------------------------------------------------------------------------
(* Elasticsearch refreshes each index by itself, every second.                *)
Refresh(i) ==
    /\ i \in exists
    /\ shown' = [shown EXCEPT ![i] = View(docs[i], committed)]
    /\ UNCHANGED <<pg, wal, shipped, committed, docs, exists, alias, target, worker,
                   early, job, owners>>

-----------------------------------------------------------------------------
TableStep ==
    \/ \E r \in Rows : InsertRow(r) \/ UpdateRow(r) \/ DeleteRow(r)
    \/ Ship

WorkerStep(w) ==
    \/ FetchAndUseCache(w) \/ FetchAndLookup(w) \/ FinishLookup(w) \/ Expire(w)
    \/ CommitOffset(w) \/ FailRecord(w)
    \/ \E t \in Indices \cup {Live} : WriteDocument(w, t)

JobStep ==
    \/ CreateIndex \/ SetReindexTarget \/ GraceEnds \/ ReadBatch \/ BulkIndex
    \/ RefreshNewIndex \/ SwapAlias \/ ClearReindexTarget \/ DeleteOldIndex
    \/ JobFails \/ ClearOwnTarget \/ CheckServing \/ DeleteUnservedIndex \/ JobEnds

ProjectionNext ==
    \/ TableStep \/ JobStep
    \/ \E w \in Workers : WorkerStep(w)
    \/ \E i \in Indices : Refresh(i)

ProjectionSpec == Init /\ [][ProjectionNext]_pvars

-----------------------------------------------------------------------------
(* Properties.                                                                *)

(* Every variable keeps its shape. *)
ProjectionTypeOK ==
    /\ pg \in [Rows -> RowType \cup {NoRow}]
    /\ wal \in Seq([row : Rows, after : RowType])
    /\ shipped \in 0..Len(wal) /\ committed \in 0..shipped
    /\ docs \in [Indices -> [Rows -> DocType]]
    /\ shown \in [Indices -> [docs : [Rows -> DocType], upto : 0..committed]]
    /\ exists \subseteq Indices /\ alias \in Indices
    /\ target \in Indices \cup {None}
    /\ DOMAIN worker = Workers
    /\ \A w \in Workers :
           /\ worker[w].pc \in WorkerSteps /\ worker[w].off \in 0..shipped
           /\ worker[w].cached \in Indices \cup {None}
           /\ worker[w].valid \in BOOLEAN
           /\ worker[w].todo \subseteq Indices \cup {Live}
    /\ early \subseteq Workers
    /\ job.pc \in JobSteps /\ job.new \in Indices /\ job.old \in Indices
    /\ job.last \in Nat
    /\ owners \subseteq Workers

(* Alias swaps, stale target caches, failed and repeated records included:    *)
(* whatever change the consumer has committed, the index behind the alias     *)
(* shows that change, or a later one, of every row that still exists.         *)
SwapLosesNoChange ==
    \A n \in 1..committed : pg[wal[n].row].live =>
        docs[alias][wal[n].row].ver >= ExternalVersion(wal[n].after)

(* Once the consumer has caught up, the index behind the alias is the table.  *)
(* A deleted row is gone too, if its delete carried the row and the partition *)
(* has not changed hands: a delete without a version loses to a batch of the  *)
(* job read before it, and two instances may know different targets during    *)
(* the grace.                                                                 *)
CaughtUpIndexIsExact ==
    committed = Len(wal) => \A r \in Rows :
        /\ pg[r].live => docs[alias][r] = Transform(pg[r])
        /\ ~pg[r].live /\ r \in FullImage /\ Cardinality(owners) = 1 =>
               ~docs[alias][r].live

(* No cleanup, of a failed job or of a finished one, deletes the index that   *)
(* serves: searches always find one.                                          *)
ServingIndexExists == alias \in exists
=============================================================================
