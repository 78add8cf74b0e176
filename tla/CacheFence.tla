----------------------------- MODULE CacheFence -----------------------------
(***************************************************************************)
(* The generation fence of the read cache, for one key of one namespace:   *)
(* CacheAdapter of every API process over the Redis they share.            *)
(*                                                                         *)
(* A command commits and then increments the namespace generation; a read  *)
(* looks only at the entry stored under the generation it read.  If the    *)
(* increment fails the process marks the namespace unsafe, bypasses Redis  *)
(* and keeps retrying.  The value of an entry is the version of the source *)
(* it was loaded from; 0 stands for no value.  The search worker indexes a *)
(* document and then calls invalidate_entity, with the steps of a Writer.  *)
(*                                                                         *)
(* Every Redis call is a step, and may fail.  An increment takes two: Redis*)
(* executes it, and later its answer reaches the coroutine.                *)
(***************************************************************************)
EXTENDS Integers

CONSTANTS Procs,        \* API processes, each with its CacheAdapter
          Readers,      \* requests that call get_or_set
          Writers,      \* requests that run InvalidateCacheAfterCommand.handle
          ProcOf,       \* the process a request runs in
          None,         \* no holder, no generation
          MaxVersion,   \* bound on commits
          MaxGen,       \* bound on increments
          MaxFailures,  \* bound on failing Redis calls
          MaxCrashes,   \* bound on process crashes
          MaxEvictions, \* bound on evictions of the generation key
          MaxFaults,    \* bound on these faults together
          Active        \* bound: the readers that take part, by the faults and
                        \* the version so far

ASSUME ProcsAssumption == ProcOf \in [Readers \cup Writers -> Procs]
ASSUME BoundsAssumption ==
    /\ MaxVersion \in Nat /\ MaxGen \in Nat /\ MaxFailures \in Nat
    /\ MaxCrashes \in Nat /\ MaxEvictions \in Nat
    /\ MaxFaults \in Nat
    /\ Active \in [(0..MaxFaults) \X (1..MaxVersion) -> SUBSET Readers]
ASSUME NoneAssumption == None \notin Int /\ None \notin Readers
ASSUME DisjointAssumption == Procs \cap (Readers \cup Writers) = {}

Gens == 0..MaxGen
Newer(u, v) == IF u < v THEN v ELSE u

VARIABLES version,    \* committed version of the source the factory reads
          gen,        \* cache-generation:v1:<namespace> in Redis
          entries,    \* the value stored under the key of each generation
          lease,      \* the cache-lock of each generation's key
          reads,      \* the coroutine of each reader
          writes,     \* the coroutine of each writer
          unsafe,     \* processes with the namespace in _unsafe_namespaces
          tasks,      \* the recovery task of each process
          recovery,   \* progress in _recover_namespace_once, by process task or reader
          failures, crashes, evictions,
          fence,      \* history: the version committed when a generation began
          acked,      \* history: the newest write whose fence was reported
          returned    \* history: the newest write whose handler returned, by process

redis == <<gen, entries, lease>>
history == <<fence, acked, returned>>
faults == <<failures, crashes, evictions>>
vars == <<version, redis, reads, writes, unsafe, tasks, recovery, faults, history>>

ReadPCs == {"idle", "recovering", "generation", "lookup", "flight", "generation2",
            "lookup2", "acquire", "wait", "acquire2", "load", "recheck", "reload",
            "store", "release", "bypass", "done"}

(* gen: the generation whose key the read uses.  flight: the generation of *)
(* the local flight it holds.  token: the generation of the lease it holds.*)
(* need, own: history, the writes a read that starts now has to reflect.   *)
ReadRows == [pc : ReadPCs, gen : Gens, flight : Gens \cup {None},
             token : Gens \cup {None}, value : Nat, need : Nat, own : Nat]
IdleRead == [pc |-> "idle", gen |-> 0, flight |-> None, token |-> None,
             value |-> 0, need |-> 0, own |-> 0]

WriteRows == [pc : {"idle", "advance", "fenced", "unfenced", "clean"}, version : Nat]
IdleWrite == [pc |-> "idle", version |-> 0]

Recoverers == Procs \cup Readers
ProcOfRecoverer(a) == IF a \in Procs THEN a ELSE ProcOf[a]

TypeOK ==
    /\ version \in Nat
    /\ gen \in Gens
    /\ entries \in [Gens -> Nat]
    /\ lease \in [Gens -> Readers \cup {None}]
    /\ reads \in [Readers -> ReadRows]
    /\ writes \in [Writers -> WriteRows]
    /\ unsafe \subseteq Procs
    /\ tasks \in [Procs -> {"none", "asleep", "recovering"}]
    /\ recovery \in [Recoverers -> {"off", "queued", "incr", "answered", "refused"}]
    /\ failures \in Nat /\ crashes \in Nat /\ evictions \in Nat
    /\ fence \in [Gens -> Nat]
    /\ acked \in Nat
    /\ returned \in [Procs -> Nat]

Init ==
    /\ version = 1
    /\ gen = 0
    /\ entries = [g \in Gens |-> 0]
    /\ lease = [g \in Gens |-> None]
    /\ reads = [r \in Readers |-> IdleRead]
    /\ writes = [w \in Writers |-> IdleWrite]
    /\ unsafe = {}
    /\ tasks = [p \in Procs |-> "none"]
    /\ recovery = [a \in Recoverers |-> "off"]
    /\ failures = 0 /\ crashes = 0 /\ evictions = 0
    /\ fence = [g \in Gens |-> 0]
    /\ acked = 0
    /\ returned = [p \in Procs |-> 0]

-----------------------------------------------------------------------------
(* Redis *)

Faults == failures + crashes + evictions
(* The readers that take no part from now on have not begun. *)
Limited(n, v) == \A r \in Readers \ Active[<<n, v>>] : reads[r].pc = "idle"
Bounded == Faults < MaxFaults /\ Limited(Faults + 1, version)

RedisFails ==
    /\ failures < MaxFailures /\ Bounded
    /\ failures' = failures + 1
    /\ UNCHANGED <<crashes, evictions>>

(* INCR executed by Redis. *)
Incr ==
    /\ gen < MaxGen
    /\ gen' = gen + 1
    /\ fence' = [fence EXCEPT ![gen + 1] = version]

(* bump_namespace_generation returns None: Redis was not reached, or its   *)
(* answer was lost.                                                        *)
IncrFails == RedisFails /\ (Incr \/ UNCHANGED <<gen, fence>>)

-----------------------------------------------------------------------------
(* InvalidateCacheAfterCommand.handle *)

Commit(w) ==
    /\ writes[w].pc = "idle"
    /\ version < MaxVersion /\ Limited(Faults, version + 1)
    /\ version' = version + 1
    /\ writes' = [writes EXCEPT ![w] = [pc |-> "advance", version |-> version + 1]]
    /\ UNCHANGED <<redis, reads, unsafe, tasks, recovery, faults, history>>

AdvanceGeneration(w) ==
    /\ writes[w].pc = "advance"
    /\ \/ Incr /\ UNCHANGED faults /\ writes' = [writes EXCEPT ![w].pc = "fenced"]
       \/ IncrFails /\ writes' = [writes EXCEPT ![w].pc = "unfenced"]
    /\ UNCHANGED <<version, entries, lease, reads, unsafe, tasks, recovery, acked,
                   returned>>

Fenced(w) ==
    /\ writes[w].pc = "fenced"
    /\ unsafe' = unsafe \ {ProcOf[w]}
    /\ acked' = Newer(acked, writes[w].version)
    /\ writes' = [writes EXCEPT ![w].pc = "clean"]
    /\ UNCHANGED <<version, redis, reads, tasks, recovery, faults, fence, returned>>

(* A recovery task that is not done keeps running; no second is created. *)
StartRecovery(p) ==
    tasks' = [tasks EXCEPT ![p] = IF @ = "none" THEN "asleep" ELSE @]

Unfenced(w) ==
    /\ writes[w].pc = "unfenced"
    /\ unsafe' = unsafe \cup {ProcOf[w]}
    /\ StartRecovery(ProcOf[w])
    /\ writes' = [writes EXCEPT ![w].pc = "clean"]
    /\ UNCHANGED <<version, redis, reads, recovery, faults, history>>

(* delete_pattern scans without a snapshot and gives up on an error: any   *)
(* subset of the keys may be gone when the handler returns.                *)
DeletePattern(w) ==
    /\ writes[w].pc = "clean"
    /\ \E S \in SUBSET Gens :
         entries' = [g \in Gens |-> IF g \in S THEN 0 ELSE entries[g]]
    /\ writes' = [writes EXCEPT ![w] = IdleWrite]
    /\ returned' = [returned EXCEPT ![ProcOf[w]] = Newer(@, writes[w].version)]
    /\ UNCHANGED <<version, gen, lease, reads, unsafe, tasks, recovery, faults,
                   fence, acked>>

-----------------------------------------------------------------------------
(* _recover_namespace_once, by the recovery task or on a request path *)

(* Variant: the task gives up after one attempt. *)
RecoveredOnce(a, ok) ==
    /\ recovery' = [recovery EXCEPT ![a] = "off"]
    /\ IF a \in Procs
       THEN tasks' = [tasks EXCEPT ![a] = "none"] /\ UNCHANGED reads
       ELSE /\ reads' = [reads EXCEPT ![a].pc = IF ok THEN "generation" ELSE "bypass"]
            /\ UNCHANGED tasks

(* The task of the process stops, or sleeps again; a read goes on to Redis,*)
(* or bypasses it.                                                         *)
Recovered(a, ok) ==
    /\ recovery' = [recovery EXCEPT ![a] = "off"]
    /\ IF a \in Procs
       THEN /\ tasks' = [tasks EXCEPT ![a] = IF ok \/ a \notin unsafe THEN "none"
                                                                   ELSE "asleep"]
            /\ UNCHANGED reads
       ELSE /\ reads' = [reads EXCEPT ![a].pc = IF ok THEN "generation" ELSE "bypass"]
            /\ UNCHANGED tasks

(* The recovery lock of the process is held from here to the answer. *)
RecoveryLocked(p) ==
    \E a \in Recoverers : /\ ProcOfRecoverer(a) = p
                          /\ recovery[a] \in {"incr", "answered", "refused"}

EnterRecovery(a) ==
    /\ recovery[a] = "queued"
    /\ ~RecoveryLocked(ProcOfRecoverer(a))
    /\ IF ProcOfRecoverer(a) \in unsafe
       THEN recovery' = [recovery EXCEPT ![a] = "incr"] /\ UNCHANGED <<tasks, reads>>
       ELSE Recovered(a, TRUE)
    /\ UNCHANGED <<version, redis, writes, unsafe, faults, history>>

RecoveryIncr(a) ==
    /\ recovery[a] = "incr"
    /\ \/ Incr /\ UNCHANGED faults /\ recovery' = [recovery EXCEPT ![a] = "answered"]
       \/ IncrFails /\ recovery' = [recovery EXCEPT ![a] = "refused"]
    /\ UNCHANGED <<version, entries, lease, reads, writes, unsafe, tasks, acked,
                   returned>>

RecoveryAnswered(a) ==
    /\ recovery[a] = "answered"
    /\ unsafe' = unsafe \ {ProcOfRecoverer(a)}
    /\ Recovered(a, TRUE)
    /\ UNCHANGED <<version, redis, writes, faults, history>>

RecoveryRefused(a) ==
    /\ recovery[a] = "refused"
    /\ Recovered(a, FALSE)
    /\ UNCHANGED <<version, redis, writes, unsafe, faults, history>>

(* The backoff sleep of _recover_namespace ends. *)
TaskWakes(p) ==
    /\ tasks[p] = "asleep"
    /\ IF p \in unsafe
       THEN /\ tasks' = [tasks EXCEPT ![p] = "recovering"]
            /\ recovery' = [recovery EXCEPT ![p] = "queued"]
       ELSE tasks' = [tasks EXCEPT ![p] = "none"] /\ UNCHANGED recovery
    /\ UNCHANGED <<version, redis, reads, writes, unsafe, faults, history>>

-----------------------------------------------------------------------------
(* get_or_set *)

At(r, pc) == reads[r].pc = pc
Go(r, pc) == reads' = [reads EXCEPT ![r].pc = pc]
Unshared == UNCHANGED <<version, writes, unsafe, tasks, recovery, history>>

(* Variant: the read consults Redis in an unsafe namespace. *)
StartReadRegardless(r) ==
    /\ reads[r].pc \in {"idle", "done"} /\ r \in Active[<<Faults, version>>]
    /\ reads' = [reads EXCEPT ![r] = [IdleRead EXCEPT !.pc = "generation",
                                     !.need = acked, !.own = returned[ProcOf[r]]]]
    /\ UNCHANGED <<redis, faults>> /\ Unshared

StartRead(r) ==
    /\ reads[r].pc \in {"idle", "done"} /\ r \in Active[<<Faults, version>>]
    /\ LET row == [IdleRead EXCEPT !.need = acked, !.own = returned[ProcOf[r]]]
       IN  IF ProcOf[r] \in unsafe
           THEN /\ reads' = [reads EXCEPT ![r] = [row EXCEPT !.pc = "recovering"]]
                /\ recovery' = [recovery EXCEPT ![r] = "queued"]
           ELSE /\ reads' = [reads EXCEPT ![r] = [row EXCEPT !.pc = "generation"]]
                /\ UNCHANGED recovery
    /\ UNCHANGED <<version, redis, writes, unsafe, tasks, faults, history>>

(* get_namespace_generation; None sends the read to the source. *)
ReadGeneration(r) ==
    /\ reads[r].pc \in {"generation", "generation2"}
    /\ \/ /\ reads' = [reads EXCEPT ![r].gen = gen,
                         ![r].pc = IF @ = "generation" THEN "lookup" ELSE "lookup2"]
          /\ UNCHANGED faults
       \/ RedisFails /\ Go(r, "bypass")
    /\ UNCHANGED redis /\ Unshared

(* Variant: a read that raises keeps its flight. *)
AnswerOrKeepFlight(r, v) ==
    reads' = [reads EXCEPT ![r] = IF v = 0 THEN [IdleRead EXCEPT !.flight = reads[r].flight]
                ELSE [IdleRead EXCEPT !.pc = "done", !.value = v,
                                      !.need = reads[r].need, !.own = reads[r].own]]

(* Return to the caller, or raise: the coroutine's locals are gone and the *)
(* flight is released with the async with block.                           *)
Answer(r, v) ==
    reads' = [reads EXCEPT ![r] = IF v = 0 THEN IdleRead
                ELSE [IdleRead EXCEPT !.pc = "done", !.value = v,
                                      !.need = reads[r].need, !.own = reads[r].own]]

(* RedisClient.get of the versioned key; an error is a miss. *)
Lookup(r) ==
    /\ reads[r].pc \in {"lookup", "lookup2"}
    /\ LET miss == IF At(r, "lookup") THEN "flight" ELSE "acquire"
       IN  \/ /\ IF entries[reads[r].gen] # 0 THEN Answer(r, entries[reads[r].gen])
                                              ELSE Go(r, miss)
              /\ UNCHANGED faults
           \/ RedisFails /\ Go(r, miss)
    /\ UNCHANGED redis /\ Unshared

(* The local flight of a versioned key: one read of a process at a time. *)
EnterFlight(r) ==
    /\ At(r, "flight")
    /\ \A s \in Readers : ProcOf[s] = ProcOf[r] => reads[s].flight # reads[r].gen
    /\ reads' = [reads EXCEPT ![r].flight = reads[r].gen, ![r].pc = "generation2"]
    /\ UNCHANGED <<redis, faults>> /\ Unshared

(* try_acquire_lock: a token, contention, or Redis unavailable (with the   *)
(* lease possibly set and its answer lost).  Only a first contention waits.*)
AcquireLease(r) ==
    /\ reads[r].pc \in {"acquire", "acquire2"}
    /\ LET g == reads[r].gen
       IN  \/ /\ lease[g] = None
              /\ lease' = [lease EXCEPT ![g] = r]
              /\ reads' = [reads EXCEPT ![r].token = g, ![r].pc = "load"]
              /\ UNCHANGED faults
           \/ /\ lease[g] # None
              /\ Go(r, IF At(r, "acquire") THEN "wait" ELSE "load")
              /\ UNCHANGED <<lease, faults>>
           \/ /\ RedisFails
              /\ \/ UNCHANGED lease
                 \/ lease[g] = None /\ lease' = [lease EXCEPT ![g] = r]
              /\ Go(r, "load")
    /\ UNCHANGED <<gen, entries>> /\ Unshared

(* _wait_for_peer: the peer's value, or None at the deadline. *)
WaitForPeer(r) ==
    /\ At(r, "wait")
    /\ \/ entries[reads[r].gen] # 0 /\ Answer(r, entries[reads[r].gen])
       \/ Go(r, "acquire2")
    /\ UNCHANGED <<redis, faults>> /\ Unshared

(* await factory(): the committed source; 0 when it raises. *)
Load(r) ==
    /\ reads[r].pc \in {"load", "reload"}
    /\ \E v \in {version, 0} :
         reads' = [reads EXCEPT ![r].value = v,
                     ![r].pc = IF v = 0 THEN "release"
                               ELSE IF @ = "load" THEN "recheck" ELSE "store"]
    /\ UNCHANGED <<redis, faults>> /\ Unshared

(* Variant: the value is stored under the generation of the recheck. *)
RecheckWithoutReload(r) ==
    /\ At(r, "recheck")
    /\ \/ reads' = [reads EXCEPT ![r].gen = gen, ![r].pc = "store"] /\ UNCHANGED faults
       \/ RedisFails /\ Go(r, "release")
    /\ UNCHANGED redis /\ Unshared

(* The generation after the load: unknown, the same, or moved on.  In the  *)
(* last case the source is read again, once.                               *)
Recheck(r) ==
    /\ At(r, "recheck")
    /\ \/ /\ reads' = [reads EXCEPT ![r].gen = gen,
                         ![r].pc = IF gen = reads[r].gen THEN "store" ELSE "reload"]
          /\ UNCHANGED faults
       \/ RedisFails /\ Go(r, "release")
    /\ UNCHANGED redis /\ Unshared

(* RedisClient.set; whether or not it succeeds, the read goes on. *)
Store(r) ==
    /\ At(r, "store")
    /\ \/ entries' = [entries EXCEPT ![reads[r].gen] = reads[r].value]
          /\ UNCHANGED faults
       \/ RedisFails /\ UNCHANGED entries
    /\ Go(r, "release")
    /\ UNCHANGED <<gen, lease>> /\ Unshared

(* release_lock deletes the lease only while it still holds this token. *)
ReleaseLease(r) ==
    /\ At(r, "release")
    /\ \/ /\ lease' = [g \in Gens |-> IF reads[r].token = g /\ lease[g] = r
                                      THEN None ELSE lease[g]]
          /\ UNCHANGED faults
       \/ reads[r].token # None /\ RedisFails /\ UNCHANGED lease
    /\ Answer(r, reads[r].value)
    /\ UNCHANGED <<gen, entries>> /\ Unshared

Bypass(r) ==
    /\ At(r, "bypass")
    /\ \E v \in {version, 0} : Answer(r, v)
    /\ UNCHANGED <<redis, faults>> /\ Unshared

-----------------------------------------------------------------------------
(* The environment *)

(* The TTL of an entry, or its eviction. *)
EntryExpires(g) ==
    /\ entries[g] # 0
    /\ entries' = [entries EXCEPT ![g] = 0]
    /\ UNCHANGED <<gen, lease, reads, faults>> /\ Unshared

LeaseExpires(g) ==
    /\ lease[g] # None
    /\ lease' = [lease EXCEPT ![g] = None]
    /\ UNCHANGED <<gen, entries, reads, faults>> /\ Unshared

(* The server runs with --maxmemory-policy allkeys-lru: the generation key *)
(* can be evicted too, and a missing key reads as generation 0.            *)
GenerationEvicted ==
    /\ evictions < MaxEvictions /\ Bounded
    /\ evictions' = evictions + 1
    /\ gen' = 0
    /\ UNCHANGED <<version, entries, lease, reads, writes, unsafe, tasks, recovery,
                   failures, crashes, history>>

(* A process dies with its coroutines and its _unsafe_namespaces. *)
Crash(p) ==
    /\ crashes < MaxCrashes /\ Bounded
    /\ crashes' = crashes + 1
    /\ reads' = [r \in Readers |-> IF ProcOf[r] = p THEN IdleRead ELSE reads[r]]
    /\ writes' = [w \in Writers |-> IF ProcOf[w] = p THEN IdleWrite ELSE writes[w]]
    /\ unsafe' = unsafe \ {p}
    /\ tasks' = [tasks EXCEPT ![p] = "none"]
    /\ recovery' = [a \in Recoverers |-> IF ProcOfRecoverer(a) = p THEN "off"
                                                                ELSE recovery[a]]
    /\ returned' = [returned EXCEPT ![p] = 0]
    /\ UNCHANGED <<version, redis, failures, evictions, fence, acked>>

WriterStep(w) == \/ Commit(w) \/ AdvanceGeneration(w) \/ Fenced(w) \/ Unfenced(w)
                 \/ DeletePattern(w)
RecoveryStep(a) == \/ EnterRecovery(a) \/ RecoveryIncr(a) \/ RecoveryAnswered(a)
                   \/ RecoveryRefused(a)
(* What a read does once it has started. *)
ReaderStep(r) == \/ ReadGeneration(r) \/ Lookup(r) \/ EnterFlight(r) \/ AcquireLease(r)
                 \/ WaitForPeer(r) \/ Load(r) \/ Recheck(r) \/ Store(r)
                 \/ ReleaseLease(r) \/ Bypass(r)

Next ==
    \/ \E w \in Writers : WriterStep(w)
    \/ \E a \in Recoverers : RecoveryStep(a)
    \/ \E p \in Procs : TaskWakes(p) \/ Crash(p)
    \/ \E r \in Readers : StartRead(r) \/ ReaderStep(r)
    \/ \E g \in Gens : EntryExpires(g) \/ LeaseExpires(g)
    \/ GenerationEvicted

(* The event loop of a process runs every coroutine that is ready; asyncio *)
(* hands its locks over in order; the source and Redis answer or fail.     *)
Fairness ==
    /\ \A r \in Readers : WF_vars(ReaderStep(r)) /\ SF_vars(EnterFlight(r))
    /\ \A a \in Recoverers : WF_vars(RecoveryStep(a)) /\ SF_vars(EnterRecovery(a))
    /\ \A p \in Procs : WF_vars(TaskWakes(p))
    /\ \A w \in Writers : WF_vars(~(writes[w].pc = "idle") /\ WriterStep(w))

Spec == Init /\ [][Next]_vars
FairSpec == Spec /\ Fairness

-----------------------------------------------------------------------------
(* An entry is never older than the write that opened its generation: a    *)
(* load that raced a write is stored, if at all, under a generation no     *)
(* later read looks at.                                                    *)
EntriesFresh == \A g \in Gens : entries[g] # 0 => entries[g] >= fence[g]

(* A read that starts after some process was told its write is fenced      *)
(* reflects that write, in whichever process it runs and however its calls *)
(* interleave with other fills, failures, crashes and expiries.            *)
FencedReads == \A r \in Readers : At(r, "done") => reads[r].value >= reads[r].need

(* A process that marked the namespace unsafe always has a task that will  *)
(* retry the increment: a task that is just finishing is not mistaken for  *)
(* one that will retry.                                                    *)
UnsafeIsRetried == \A p \in unsafe : tasks[p] # "none"

(* "If Redis cannot persist it, this process must not read or populate the *)
(* old generation": a read that starts after a write's handler returned in *)
(* the same process, fenced or not, reflects that write.                   *)
OwnWritesRead == \A r \in Readers : At(r, "done") => reads[r].value >= reads[r].own

(* The recovery task brings every process back to the cache once Redis     *)
(* answers again.                                                          *)
UnsafeEnds == \A p \in Procs : p \in unsafe ~> p \notin unsafe

(* Every read returns: neither another read that holds the flight or the   *)
(* lease of its key, nor a peer's fill that never comes, nor a recovery    *)
(* leaves it waiting for ever.                                             *)
ReadsReturn == \A r \in Readers : ~At(r, "idle") ~> reads[r].pc \in {"idle", "done"}
=============================================================================
