-------------------------- MODULE CacheFenceProofs --------------------------
(***************************************************************************)
(* Proofs about the generation fence, for any number of processes, readers *)
(* and writers and any bounds.                                             *)
(***************************************************************************)
EXTENDS CacheFence, TLAPS

USE DEF ReadRows, ReadPCs, WriteRows, IdleRead, IdleWrite

(* The history of the fence: a generation opens with the version committed *)
(* at that moment, later generations with later versions, and nothing is   *)
(* stored under a generation that has not begun.                           *)
FenceHistory ==
    /\ \A g \in Gens : fence[g] <= version
    /\ \A g \in Gens : g <= gen => fence[g] <= fence[gen]
    /\ \A g \in Gens : g > gen => entries[g] = 0
    /\ acked <= fence[gen]

WritesInv ==
    \A w \in Writers :
      /\ writes[w].version <= version
      /\ writes[w].pc = "fenced" => writes[w].version <= fence[gen]

AfterGeneration == {"lookup", "flight", "generation2", "lookup2", "acquire", "wait",
                    "acquire2", "load", "recheck", "reload", "store"}

(* A read uses a generation no older than the writes it has to reflect,    *)
(* and the value it carries is no older than that generation.              *)
ReadOK(row) ==
    /\ row.need <= fence[gen]
    /\ row.gen <= gen
    /\ row.pc \in AfterGeneration => row.need <= fence[row.gen]
    /\ row.pc \in {"recheck", "store"} => row.value >= fence[row.gen]
    /\ row.pc \in {"release", "done"} => row.value = 0 \/ row.value >= row.need
    /\ row.pc = "done" => row.value # 0

ReadsInv == \A r \in Readers : ReadOK(reads[r])

(* The inductive invariant, while the generation key is never evicted. *)
FenceInv == /\ TypeOK /\ evictions = 0
            /\ FenceHistory /\ WritesInv /\ ReadsInv /\ EntriesFresh

-----------------------------------------------------------------------------
(* Where the coroutine of one reader is replaced by a well-typed row, the  *)
(* reads stay well typed.                                                  *)
LEMMA ReadTyped ==
  ASSUME TypeOK, NEW r \in Readers, NEW row \in ReadRows,
         reads' = [reads EXCEPT ![r] = row]
  PROVE  reads' \in [Readers -> ReadRows]
BY DEF TypeOK

(* Rows derived from a well-typed row by moving its program counter. *)
LEMMA GoTyped ==
  ASSUME TypeOK, NEW r \in Readers, NEW pc \in ReadPCs, Go(r, pc)
  PROVE  reads' \in [Readers -> ReadRows]
<1>1. reads[r] \in ReadRows
  BY DEF TypeOK
<1>2. [reads[r] EXCEPT !.pc = pc] \in ReadRows
  BY <1>1
<1>3. reads' = [reads EXCEPT ![r] = [reads[r] EXCEPT !.pc = pc]]
  BY DEF Go, TypeOK
<1> QED
  BY <1>2, <1>3, ReadTyped

(* Returning leaves a well-typed row. *)
LEMMA AnswerTyped ==
  ASSUME TypeOK, NEW r \in Readers, NEW v \in Nat, Answer(r, v)
  PROVE  reads' \in [Readers -> ReadRows]
<1>1. reads[r] \in ReadRows
  BY DEF TypeOK
<1>2. 0 \in Gens
  BY BoundsAssumption DEF Gens
<1>3. CASE v = 0
  BY <1>2, <1>3 DEF TypeOK, Answer
<1>4. CASE v # 0
  BY <1>1, <1>2, <1>4 DEF TypeOK, Answer
<1> QED
  BY <1>3, <1>4

(* An increment keeps generation and history well typed. *)
LEMMA IncrTyped ==
  ASSUME TypeOK, Incr
  PROVE  gen' \in Gens /\ fence' \in [Gens -> Nat]
BY BoundsAssumption DEF TypeOK, Incr, Gens

(* A failing call only counts. *)
LEMMA RedisFailsTyped ==
  ASSUME TypeOK, RedisFails
  PROVE  failures' \in Nat /\ crashes' \in Nat /\ evictions' \in Nat
BY DEF TypeOK, RedisFails

(* Type correctness of the writer's steps. *)
LEMMA WriterTyped ==
  ASSUME TypeOK, NEW w \in Writers, WriterStep(w)
  PROVE  TypeOK'
<1> USE DEF redis, faults, history
<1>1. ProcOf[w] \in Procs /\ writes[w] \in WriteRows
  BY ProcsAssumption DEF TypeOK
<1>2. CASE Commit(w)
  BY <1>2 DEF TypeOK, Commit
<1>3. CASE AdvanceGeneration(w)
  <2>1. gen' \in Gens /\ fence' \in [Gens -> Nat]
    BY <1>3, IncrTyped DEF AdvanceGeneration, IncrFails, TypeOK
  <2>2. failures' \in Nat /\ crashes' \in Nat /\ evictions' \in Nat
    BY <1>3, RedisFailsTyped DEF AdvanceGeneration, IncrFails, TypeOK
  <2>3. writes' \in [Writers -> WriteRows]
    <3>1. \/ writes' = [writes EXCEPT ![w].pc = "fenced"]
          \/ writes' = [writes EXCEPT ![w].pc = "unfenced"]
      BY <1>3 DEF AdvanceGeneration
    <3>2. /\ [writes[w] EXCEPT !.pc = "fenced"] \in WriteRows
          /\ [writes[w] EXCEPT !.pc = "unfenced"] \in WriteRows
      BY <1>1
    <3> QED
      BY <3>1, <3>2 DEF TypeOK
  <2> QED
    BY <1>3, <2>1, <2>2, <2>3 DEF AdvanceGeneration, TypeOK
<1>4. CASE Fenced(w)
  <2>1. acked' \in Nat
    BY <1>1, <1>4 DEF Fenced, Newer, TypeOK
  <2>2. writes' \in [Writers -> WriteRows] /\ unsafe' \subseteq Procs
    BY <1>4 DEF Fenced, TypeOK
  <2> QED
    BY <1>4, <2>1, <2>2 DEF Fenced, TypeOK
<1>5. CASE Unfenced(w)
  <2>1. tasks' \in [Procs -> {"none", "asleep", "recovering"}]
    BY <1>1, <1>5 DEF Unfenced, StartRecovery, TypeOK
  <2>2. writes' \in [Writers -> WriteRows] /\ unsafe' \subseteq Procs
    BY <1>1, <1>5 DEF Unfenced, TypeOK
  <2> QED
    BY <1>5, <2>1, <2>2 DEF Unfenced, TypeOK
<1>6. CASE DeletePattern(w)
  <2>1. returned' \in [Procs -> Nat]
    BY <1>1, <1>6 DEF DeletePattern, Newer, TypeOK
  <2>2. entries' \in [Gens -> Nat]
    BY <1>6 DEF DeletePattern, TypeOK
  <2>3. writes' \in [Writers -> WriteRows]
    BY <1>6 DEF DeletePattern, TypeOK
  <2> QED
    BY <1>6, <2>1, <2>2, <2>3 DEF DeletePattern, TypeOK
<1> QED
  BY <1>2, <1>3, <1>4, <1>5, <1>6 DEF WriterStep

(* Type correctness of _recover_namespace_once and its two callers. *)
LEMMA RecoveredTyped ==
  ASSUME TypeOK, NEW a \in Recoverers, NEW ok \in BOOLEAN, Recovered(a, ok)
  PROVE  /\ recovery' \in [Recoverers -> {"off", "queued", "incr", "answered", "refused"}]
         /\ tasks' \in [Procs -> {"none", "asleep", "recovering"}]
         /\ reads' \in [Readers -> ReadRows]
<1>1. recovery' \in [Recoverers -> {"off", "queued", "incr", "answered", "refused"}]
  BY DEF Recovered, TypeOK
<1>2. CASE a \in Procs
  BY <1>1, <1>2 DEF Recovered, TypeOK
<1>3. CASE a \notin Procs
  <2>1. a \in Readers
    BY <1>3 DEF Recoverers
  <2>2. reads' \in [Readers -> ReadRows]
    BY <1>3, <2>1, GoTyped DEF Recovered, Go
  <2> QED
    BY <1>1, <1>3, <2>2 DEF Recovered, TypeOK
<1> QED
  BY <1>2, <1>3

(* Type correctness of the recovery's steps. *)
LEMMA RecoveryTyped ==
  ASSUME TypeOK, NEW a \in Recoverers, RecoveryStep(a)
  PROVE  TypeOK'
<1> USE DEF redis, faults, history
<1>1. CASE EnterRecovery(a)
  <2>1. CASE ProcOfRecoverer(a) \in unsafe
    BY <1>1, <2>1 DEF EnterRecovery, TypeOK
  <2>2. CASE ProcOfRecoverer(a) \notin unsafe
    <3>1. Recovered(a, TRUE)
      BY <1>1, <2>2 DEF EnterRecovery
    <3> QED
      BY <1>1, <3>1, RecoveredTyped DEF EnterRecovery, TypeOK
  <2> QED
    BY <2>1, <2>2
<1>2. CASE RecoveryIncr(a)
  <2>1. gen' \in Gens /\ fence' \in [Gens -> Nat]
    BY <1>2, IncrTyped DEF RecoveryIncr, IncrFails, TypeOK
  <2>2. failures' \in Nat /\ crashes' \in Nat /\ evictions' \in Nat
    BY <1>2, RedisFailsTyped DEF RecoveryIncr, IncrFails, TypeOK
  <2>3. recovery' \in [Recoverers -> {"off", "queued", "incr", "answered", "refused"}]
    BY <1>2 DEF RecoveryIncr, TypeOK
  <2> QED
    BY <1>2, <2>1, <2>2, <2>3 DEF RecoveryIncr, TypeOK
<1>3. CASE RecoveryAnswered(a)
  BY <1>3, RecoveredTyped DEF RecoveryAnswered, TypeOK
<1>4. CASE RecoveryRefused(a)
  BY <1>4, RecoveredTyped DEF RecoveryRefused, TypeOK
<1> QED
  BY <1>1, <1>2, <1>3, <1>4 DEF RecoveryStep

(* Type correctness of get_or_set after its start. *)
LEMMA ReaderTyped ==
  ASSUME TypeOK, NEW r \in Readers, ReaderStep(r)
  PROVE  TypeOK'
<1> USE DEF redis, faults, history, Unshared
<1>1. /\ reads[r] \in ReadRows
      /\ reads[r].gen \in Gens /\ reads[r].value \in Nat
      /\ entries[reads[r].gen] \in Nat
  BY DEF TypeOK
<1>2. CASE ReadGeneration(r)
  <2>1. reads' \in [Readers -> ReadRows]
    <3>1. CASE Go(r, "bypass")
      BY <3>1, GoTyped
    <3>2. CASE reads' = [reads EXCEPT ![r].gen = gen,
                          ![r].pc = IF @ = "generation" THEN "lookup" ELSE "lookup2"]
      BY <1>1, <3>2 DEF TypeOK
    <3> QED
      BY <1>2, <3>1, <3>2 DEF ReadGeneration
  <2>2. failures' \in Nat /\ crashes' \in Nat /\ evictions' \in Nat
    BY <1>2, RedisFailsTyped DEF ReadGeneration, TypeOK
  <2> QED
    BY <1>2, <2>1, <2>2 DEF ReadGeneration, TypeOK
<1>3. CASE Lookup(r)
  <2>1. reads' \in [Readers -> ReadRows]
    BY <1>1, <1>3, GoTyped, AnswerTyped DEF Lookup
  <2>2. failures' \in Nat /\ crashes' \in Nat /\ evictions' \in Nat
    BY <1>3, RedisFailsTyped DEF Lookup, TypeOK
  <2> QED
    BY <1>3, <2>1, <2>2 DEF Lookup, TypeOK
<1>4. CASE EnterFlight(r)
  <2>1. reads' \in [Readers -> ReadRows]
    BY <1>1, <1>4 DEF EnterFlight, TypeOK
  <2> QED
    BY <1>4, <2>1 DEF EnterFlight, TypeOK
<1>5. CASE AcquireLease(r)
  <2>1. reads' \in [Readers -> ReadRows]
    <3>1. CASE reads' = [reads EXCEPT ![r].token = reads[r].gen, ![r].pc = "load"]
      BY <1>1, <3>1 DEF TypeOK
    <3>2. CASE Go(r, IF At(r, "acquire") THEN "wait" ELSE "load") \/ Go(r, "load")
      BY <3>2, GoTyped
    <3> QED
      BY <1>5, <3>1, <3>2 DEF AcquireLease
  <2>2. failures' \in Nat /\ crashes' \in Nat /\ evictions' \in Nat
    BY <1>5, RedisFailsTyped DEF AcquireLease, TypeOK
  <2>3. lease' \in [Gens -> Readers \cup {None}]
    <3>1. lease' = lease \/ lease' = [lease EXCEPT ![reads[r].gen] = r]
      BY <1>5 DEF AcquireLease
    <3> QED
      BY <1>1, <3>1 DEF TypeOK
  <2> QED
    BY <1>5, <2>1, <2>2, <2>3 DEF AcquireLease, TypeOK
<1>6. CASE WaitForPeer(r)
  <2>1. reads' \in [Readers -> ReadRows]
    BY <1>1, <1>6, GoTyped, AnswerTyped DEF WaitForPeer
  <2> QED
    BY <1>6, <2>1 DEF WaitForPeer, TypeOK
<1>7. CASE Load(r)
  <2>1. PICK v \in {version, 0} :
          reads' = [reads EXCEPT ![r].value = v,
                      ![r].pc = IF v = 0 THEN "release"
                                ELSE IF @ = "load" THEN "recheck" ELSE "store"]
    BY <1>7 DEF Load
  <2>2. v \in Nat
    BY DEF TypeOK
  <2>3. reads' \in [Readers -> ReadRows]
    BY <1>1, <2>1, <2>2 DEF TypeOK
  <2> QED
    BY <1>7, <2>3 DEF Load, TypeOK
<1>8. CASE Recheck(r)
  <2>1. reads' \in [Readers -> ReadRows]
    <3>1. CASE Go(r, "release")
      BY <3>1, GoTyped
    <3>2. CASE reads' = [reads EXCEPT ![r].gen = gen,
                          ![r].pc = IF gen = reads[r].gen THEN "store" ELSE "reload"]
      BY <1>1, <3>2 DEF TypeOK
    <3> QED
      BY <1>8, <3>1, <3>2 DEF Recheck
  <2>2. failures' \in Nat /\ crashes' \in Nat /\ evictions' \in Nat
    BY <1>8, RedisFailsTyped DEF Recheck, TypeOK
  <2> QED
    BY <1>8, <2>1, <2>2 DEF Recheck, TypeOK
<1>9. CASE Store(r)
  <2>1. reads' \in [Readers -> ReadRows]
    BY <1>9, GoTyped DEF Store
  <2>2. failures' \in Nat /\ crashes' \in Nat /\ evictions' \in Nat
    BY <1>9, RedisFailsTyped DEF Store, TypeOK
  <2>3. entries' \in [Gens -> Nat]
    BY <1>1, <1>9 DEF Store, TypeOK
  <2> QED
    BY <1>9, <2>1, <2>2, <2>3 DEF Store, TypeOK
<1>10. CASE ReleaseLease(r)
  <2>1. reads' \in [Readers -> ReadRows]
    BY <1>1, <1>10, AnswerTyped DEF ReleaseLease
  <2>2. failures' \in Nat /\ crashes' \in Nat /\ evictions' \in Nat
    BY <1>10, RedisFailsTyped DEF ReleaseLease, TypeOK
  <2>3. lease' \in [Gens -> Readers \cup {None}]
    BY <1>10 DEF ReleaseLease, TypeOK
  <2> QED
    BY <1>10, <2>1, <2>2, <2>3 DEF ReleaseLease, TypeOK
<1>11. CASE Bypass(r)
  <2>1. reads' \in [Readers -> ReadRows]
    BY <1>11, AnswerTyped DEF Bypass, TypeOK
  <2> QED
    BY <1>11, <2>1 DEF Bypass, TypeOK
<1> QED
  BY <1>2, <1>3, <1>4, <1>5, <1>6, <1>7, <1>8, <1>9, <1>10, <1>11 DEF ReaderStep

(* Type correctness of every step. *)
LEMMA TypeStep ==
  ASSUME TypeOK, [Next]_vars
  PROVE  TypeOK'
<1> USE DEF redis, faults, history, Unshared
<1>1. CASE UNCHANGED vars
  BY <1>1 DEF vars, TypeOK
<1>2. ASSUME NEW w \in Writers, WriterStep(w) PROVE TypeOK'
  BY <1>2, WriterTyped
<1>3. ASSUME NEW a \in Recoverers, RecoveryStep(a) PROVE TypeOK'
  BY <1>3, RecoveryTyped
<1>4. ASSUME NEW p \in Procs, TaskWakes(p) PROVE TypeOK'
  BY <1>4 DEF TaskWakes, TypeOK
<1>5. ASSUME NEW p \in Procs, Crash(p) PROVE TypeOK'
  <2>1. 0 \in Gens
    BY BoundsAssumption DEF Gens
  <2>2. reads' \in [Readers -> ReadRows] /\ writes' \in [Writers -> WriteRows]
    BY <1>5, <2>1 DEF Crash, TypeOK
  <2>3. /\ recovery' \in [Recoverers -> {"off", "queued", "incr", "answered", "refused"}]
        /\ tasks' \in [Procs -> {"none", "asleep", "recovering"}]
        /\ returned' \in [Procs -> Nat] /\ unsafe' \subseteq Procs
        /\ crashes' \in Nat
    BY <1>5 DEF Crash, TypeOK
  <2> QED
    BY <1>5, <2>2, <2>3 DEF Crash, TypeOK
<1>6. ASSUME NEW r \in Readers, StartRead(r) PROVE TypeOK'
  <2>1. 0 \in Gens /\ ProcOf[r] \in Procs
    BY BoundsAssumption, ProcsAssumption DEF Gens
  <2>2. acked \in Nat /\ returned[ProcOf[r]] \in Nat
    BY <2>1 DEF TypeOK
  <2>3. reads' \in [Readers -> ReadRows]
    <3> DEFINE row == [IdleRead EXCEPT !.need = acked, !.own = returned[ProcOf[r]]]
    <3>1. /\ [row EXCEPT !.pc = "recovering"] \in ReadRows
          /\ [row EXCEPT !.pc = "generation"] \in ReadRows
      BY <2>1, <2>2
    <3>2. \/ reads' = [reads EXCEPT ![r] = [row EXCEPT !.pc = "recovering"]]
          \/ reads' = [reads EXCEPT ![r] = [row EXCEPT !.pc = "generation"]]
      BY <1>6 DEF StartRead
    <3> HIDE DEF row
    <3> QED
      BY <3>1, <3>2, ReadTyped
  <2>4. recovery' \in [Recoverers -> {"off", "queued", "incr", "answered", "refused"}]
    BY <1>6 DEF StartRead, TypeOK, Recoverers
  <2> QED
    BY <1>6, <2>3, <2>4 DEF StartRead, TypeOK
<1>7. ASSUME NEW r \in Readers, ReaderStep(r) PROVE TypeOK'
  BY <1>7, ReaderTyped
<1>8. ASSUME NEW g \in Gens, EntryExpires(g) \/ LeaseExpires(g) PROVE TypeOK'
  <2>1. CASE EntryExpires(g)
    BY <2>1 DEF EntryExpires, TypeOK
  <2>2. CASE LeaseExpires(g)
    BY <2>2 DEF LeaseExpires, TypeOK
  <2> QED
    BY <1>8, <2>1, <2>2
<1>9. CASE GenerationEvicted
  BY <1>9, BoundsAssumption DEF GenerationEvicted, TypeOK, Gens
<1> QED
  BY <1>1, <1>2, <1>3, <1>4, <1>5, <1>6, <1>7, <1>8, <1>9 DEF Next

(* The initial state is well typed. *)
LEMMA TypeInit == Init => TypeOK
<1>1. 0 \in Gens
  BY BoundsAssumption DEF Gens
<1> QED
  BY <1>1 DEF Init, TypeOK, Recoverers

(* The cache model is type correct. *)
THEOREM CacheTypeCorrect == Spec => []TypeOK
BY TypeInit, TypeStep, PTL DEF Spec

-----------------------------------------------------------------------------
(* The recovery task of an unsafe namespace, through every step. *)
LEMMA RetryStep ==
  ASSUME TypeOK, UnsafeIsRetried, [Next]_vars
  PROVE  UnsafeIsRetried'
<1> USE DEF UnsafeIsRetried, Unshared
<1>1. CASE UNCHANGED vars
  BY <1>1 DEF vars
<1>2. ASSUME NEW w \in Writers, WriterStep(w) PROVE UnsafeIsRetried'
  <2>1. CASE Unfenced(w)
    <3>1. /\ unsafe' = unsafe \cup {ProcOf[w]}
          /\ tasks' = [tasks EXCEPT ![ProcOf[w]] = IF @ = "none" THEN "asleep" ELSE @]
      BY <2>1 DEF Unfenced, StartRecovery
    <3>2. \A q \in Procs : tasks'[q] = "none" => tasks[q] = "none" /\ q # ProcOf[w]
      BY <3>1, ProcsAssumption DEF TypeOK
    <3> QED
      BY <3>1, <3>2, ProcsAssumption DEF TypeOK
  <2>2. CASE ~Unfenced(w)
    BY <1>2, <2>2 DEF WriterStep, Commit, AdvanceGeneration, Fenced, DeletePattern
  <2> QED
    BY <2>1, <2>2
<1>3. ASSUME NEW a \in Recoverers, RecoveryStep(a) PROVE UnsafeIsRetried'
  <2>1. ASSUME NEW ok \in BOOLEAN, Recovered(a, ok), unsafe' \subseteq unsafe,
               ok => ProcOfRecoverer(a) \notin unsafe'
        PROVE  UnsafeIsRetried'
    <3>1. CASE a \in Procs
      <4>1. tasks' = [tasks EXCEPT ![a] = IF ok \/ a \notin unsafe THEN "none"
                                                                  ELSE "asleep"]
        BY <2>1, <3>1 DEF Recovered
      <4>2. ok => a \notin unsafe'
        BY <2>1, <3>1 DEF ProcOfRecoverer
      <4> QED
        BY <2>1, <4>1, <4>2 DEF TypeOK
    <3>2. CASE a \notin Procs
      BY <2>1, <3>2 DEF Recovered
    <3> QED
      BY <3>1, <3>2
  <2>2. CASE EnterRecovery(a)
    <3>1. CASE ProcOfRecoverer(a) \in unsafe
      BY <2>2, <3>1 DEF EnterRecovery
    <3>2. CASE ProcOfRecoverer(a) \notin unsafe
      BY <2>1, <2>2, <3>2 DEF EnterRecovery
    <3> QED
      BY <3>1, <3>2
  <2>3. CASE RecoveryIncr(a)
    BY <2>3 DEF RecoveryIncr
  <2>4. CASE RecoveryAnswered(a)
    <3>1. /\ Recovered(a, TRUE) /\ unsafe' \subseteq unsafe
          /\ ProcOfRecoverer(a) \notin unsafe'
      BY <2>4 DEF RecoveryAnswered
    <3> QED
      BY <2>1, <3>1
  <2>5. CASE RecoveryRefused(a)
    BY <2>1, <2>5 DEF RecoveryRefused
  <2> QED
    BY <1>3, <2>2, <2>3, <2>4, <2>5 DEF RecoveryStep
<1>4. ASSUME NEW p \in Procs, TaskWakes(p) PROVE UnsafeIsRetried'
  BY <1>4 DEF TaskWakes, TypeOK
<1>5. ASSUME NEW p \in Procs, Crash(p) PROVE UnsafeIsRetried'
  BY <1>5 DEF Crash, TypeOK
<1>6. ASSUME NEW r \in Readers, StartRead(r) PROVE UnsafeIsRetried'
  BY <1>6 DEF StartRead
<1>7. ASSUME NEW r \in Readers, ReaderStep(r) PROVE UnsafeIsRetried'
  BY <1>7 DEF ReaderStep, ReadGeneration, Lookup, EnterFlight, AcquireLease,
              WaitForPeer, Load, Recheck, Store, ReleaseLease, Bypass
<1>8. ASSUME NEW g \in Gens, EntryExpires(g) \/ LeaseExpires(g) PROVE UnsafeIsRetried'
  BY <1>8 DEF EntryExpires, LeaseExpires
<1>9. CASE GenerationEvicted
  BY <1>9 DEF GenerationEvicted
<1> QED
  BY <1>1, <1>2, <1>3, <1>4, <1>5, <1>6, <1>7, <1>8, <1>9 DEF Next

(* _unsafe_namespaces never holds a namespace nobody retries, however      *)
(* failing writes, successful writes, recoveries on request paths and the  *)
(* task itself interleave.                                                 *)
THEOREM UnsafeAlwaysRetried == Spec => []UnsafeIsRetried
<1>1. Init => UnsafeIsRetried
  BY DEF Init, UnsafeIsRetried
<1> QED
  BY <1>1, TypeInit, TypeStep, RetryStep, PTL DEF Spec

-----------------------------------------------------------------------------
(* Generations are numbers. *)
LEMMA GensAreNat == \A g \in Gens : g \in Nat
BY DEF Gens

(* Steps that open no generation and commit nothing. *)
LEMMA FenceFrame ==
  ASSUME FenceInv, TypeOK', UNCHANGED <<version, gen, fence, acked, evictions>>,
         \A g \in Gens : \/ entries'[g] = 0
                         \/ entries'[g] = entries[g]
                         \/ g <= gen /\ entries'[g] >= fence[g],
         \A w \in Writers : \/ writes'[w].version = 0 /\ writes'[w].pc # "fenced"
                            \/ /\ writes'[w].version = writes[w].version
                               /\ writes'[w].pc = "fenced" => writes[w].pc = "fenced",
         \A r \in Readers : ReadOK(reads'[r])
  PROVE  FenceInv'
<1>1. /\ gen \in Gens /\ gen \in Nat /\ version \in Nat /\ acked \in Nat
      /\ \A g \in Gens : g \in Nat /\ fence[g] \in Nat
  BY GensAreNat DEF FenceInv, TypeOK
<1>2. FenceHistory'
  BY <1>1 DEF FenceInv, FenceHistory
<1>3. WritesInv'
  BY <1>1 DEF FenceInv, WritesInv
<1>4. ReadsInv'
  <2> SUFFICES ASSUME NEW r \in Readers PROVE ReadOK(reads[r])'
    BY DEF ReadsInv
  <2>1. ReadOK(reads'[r])
    OBVIOUS
  <2> QED
    BY <2>1 DEF ReadOK
<1>5. EntriesFresh'
  BY DEF FenceInv, EntriesFresh
<1> QED
  BY <1>2, <1>3, <1>4, <1>5 DEF FenceInv

(* The step of one reader. *)
LEMMA ReaderFrame ==
  ASSUME FenceInv, TypeOK', NEW r \in Readers, NEW row, ReadOK(row),
         reads' = [reads EXCEPT ![r] = row],
         UNCHANGED <<version, gen, fence, acked, evictions, writes>>,
         \A g \in Gens : \/ entries'[g] = entries[g]
                         \/ g <= gen /\ entries'[g] >= fence[g]
  PROVE  FenceInv'
<1>1. \A s \in Readers : ReadOK(reads'[s])
  BY DEF FenceInv, ReadsInv, TypeOK
<1> QED
  BY <1>1, FenceFrame

(* INCR: the new generation begins with everything committed so far. *)
LEMMA FenceIncr ==
  ASSUME FenceInv, TypeOK', Incr, UNCHANGED <<version, entries, reads, acked, evictions>>,
         \A w \in Writers : writes'[w].version = writes[w].version
  PROVE  FenceInv'
<1> gen + 1 \in Gens
  BY BoundsAssumption DEF FenceInv, TypeOK, Gens, Incr
<1>1. /\ gen \in Gens /\ gen \in Nat /\ version \in Nat /\ acked \in Nat
      /\ \A g \in Gens : g \in Nat /\ fence[g] \in Nat
  BY GensAreNat DEF FenceInv, TypeOK
<1>2. /\ gen' = gen + 1 /\ fence'[gen + 1] = version
      /\ \A g \in Gens : g # gen + 1 => fence'[g] = fence[g]
  BY <1>1 DEF Incr, FenceInv, TypeOK
<1>3. \A g \in Gens : fence[g] <= version
  BY DEF FenceInv, FenceHistory
<1>4. FenceHistory'
  BY <1>1, <1>2, <1>3 DEF FenceInv, FenceHistory
<1>5. WritesInv'
  BY <1>1, <1>2 DEF FenceInv, WritesInv
<1>6. EntriesFresh'
  BY <1>1, <1>2 DEF FenceInv, EntriesFresh, FenceHistory
<1>7. ReadsInv'
  <2> SUFFICES ASSUME NEW r \in Readers PROVE ReadOK(reads[r])'
    BY DEF ReadsInv
  <2>1. ReadOK(reads[r])
    BY DEF FenceInv, ReadsInv
  <2>2. /\ reads[r].gen \in Gens /\ reads[r].gen # gen + 1
        /\ reads[r].need \in Nat
    BY <1>1, <2>1 DEF FenceInv, TypeOK, ReadOK
  <2>3. fence'[reads[r].gen] = fence[reads[r].gen]
    BY <1>2, <2>2
  <2>4. reads[r].need <= fence'[gen'] /\ reads[r].gen <= gen'
    <3>1. reads[r].need <= fence[gen] /\ fence[gen] <= version /\ reads[r].gen <= gen
      BY <1>1, <1>3, <2>1 DEF ReadOK
    <3>2. fence[gen] \in Nat /\ reads[r].gen \in Nat
      BY <1>1, <2>2
    <3> QED
      BY <1>1, <1>2, <2>2, <3>1, <3>2
  <2> QED
    BY <2>1, <2>3, <2>4 DEF ReadOK
<1> QED
  BY <1>4, <1>5, <1>6, <1>7 DEF FenceInv

(* The steps of a command and its invalidation. *)
LEMMA WriterFence ==
  ASSUME FenceInv, TypeOK', NEW w \in Writers, WriterStep(w)
  PROVE  FenceInv'
<1> USE DEF redis, faults, history
<1>1. /\ writes[w] \in WriteRows /\ \A v \in Writers : writes[v].version \in Nat
      /\ version \in Nat /\ acked \in Nat /\ gen \in Gens /\ fence[gen] \in Nat
  BY DEF FenceInv, TypeOK
<1>2. \A r \in Readers : ReadOK(reads[r])
  BY DEF FenceInv, ReadsInv
<1>3. CASE Commit(w)
  <2>1. /\ version' = version + 1
        /\ \A v \in Writers : IF v = w THEN writes'[v] = [pc |-> "advance",
                                                          version |-> version + 1]
                                       ELSE writes'[v] = writes[v]
        /\ UNCHANGED <<gen, entries, fence, acked, evictions, reads>>
    BY <1>3 DEF Commit, FenceInv, TypeOK
  <2>2. \A g \in Gens : fence[g] \in Nat
    BY DEF FenceInv, TypeOK
  <2>3. FenceHistory'
    BY <1>1, <2>1, <2>2 DEF FenceInv, FenceHistory
  <2>4. WritesInv'
    BY <1>1, <2>1 DEF FenceInv, WritesInv
  <2>5. ReadsInv'
    BY <2>1 DEF FenceInv, ReadsInv, ReadOK
  <2>6. EntriesFresh'
    BY <2>1 DEF FenceInv, EntriesFresh
  <2> QED
    BY <2>1, <2>3, <2>4, <2>5, <2>6 DEF FenceInv
<1>4. CASE AdvanceGeneration(w)
  <2>1. /\ \A v \in Writers : writes'[v].version = writes[v].version
        /\ UNCHANGED <<version, entries, acked, reads>>
    BY <1>4 DEF AdvanceGeneration, FenceInv, TypeOK
  <2>2. UNCHANGED evictions
    BY <1>4 DEF AdvanceGeneration, IncrFails, RedisFails
  <2>3. CASE Incr
    BY <2>1, <2>2, <2>3, FenceIncr
  <2>4. CASE ~Incr
    <3>1. UNCHANGED <<gen, fence>> /\ writes' = [writes EXCEPT ![w].pc = "unfenced"]
      BY <1>4, <2>4 DEF AdvanceGeneration, IncrFails
    <3>2. \A v \in Writers : writes'[v].pc = "fenced" => writes[v].pc = "fenced"
      BY <3>1 DEF FenceInv, TypeOK
    <3> QED
      BY <1>2, <2>1, <2>2, <3>1, <3>2, FenceFrame
  <2> QED
    BY <2>3, <2>4
<1>5. CASE Fenced(w)
  <2>1. /\ acked' = Newer(acked, writes[w].version)
        /\ writes[w].version <= fence[gen]
        /\ \A v \in Writers : /\ writes'[v].version = writes[v].version
                              /\ writes'[v].pc = "fenced" => writes[v].pc = "fenced"
        /\ UNCHANGED <<version, gen, entries, fence, evictions, reads>>
    BY <1>5 DEF Fenced, FenceInv, TypeOK, WritesInv
  <2>2. acked' <= fence[gen]
    BY <1>1, <2>1 DEF FenceInv, FenceHistory, Newer
  <2>3. FenceHistory'
    BY <2>1, <2>2 DEF FenceInv, FenceHistory
  <2>4. WritesInv'
    BY <2>1 DEF FenceInv, WritesInv
  <2>5. ReadsInv'
    BY <2>1 DEF FenceInv, ReadsInv, ReadOK
  <2>6. EntriesFresh'
    BY <2>1 DEF FenceInv, EntriesFresh
  <2> QED
    BY <2>1, <2>3, <2>4, <2>5, <2>6 DEF FenceInv
<1>6. CASE Unfenced(w)
  <2>1. /\ \A v \in Writers : /\ writes'[v].version = writes[v].version
                              /\ writes'[v].pc = "fenced" => writes[v].pc = "fenced"
        /\ UNCHANGED <<version, gen, entries, fence, acked, evictions, reads>>
    BY <1>6 DEF Unfenced, FenceInv, TypeOK
  <2> QED
    BY <1>2, <2>1, FenceFrame
<1>7. CASE DeletePattern(w)
  <2>1. /\ \A v \in Writers : \/ writes'[v].version = 0 /\ writes'[v].pc # "fenced"
                              \/ /\ writes'[v].version = writes[v].version
                                 /\ writes'[v].pc = "fenced" => writes[v].pc = "fenced"
        /\ \A g \in Gens : entries'[g] = 0 \/ entries'[g] = entries[g]
        /\ UNCHANGED <<version, gen, fence, acked, evictions, reads>>
    BY <1>7 DEF DeletePattern, FenceInv, TypeOK
  <2> QED
    BY <1>2, <2>1, FenceFrame
<1> QED
  BY <1>3, <1>4, <1>5, <1>6, <1>7 DEF WriterStep

(* A read whose program counter moves to a place with weaker obligations. *)
LEMMA ReadOKGo ==
  ASSUME FenceInv, NEW r \in Readers, NEW pc,
         \/ pc \in {"recovering", "generation", "bypass"}
         \/ /\ pc \in AfterGeneration \ {"recheck", "store"}
            /\ reads[r].pc \in AfterGeneration
         \/ /\ pc = "release"
            /\ reads[r].pc \in {"recheck", "store"}
  PROVE  ReadOK([reads[r] EXCEPT !.pc = pc])
<1>1. reads[r] \in ReadRows /\ ReadOK(reads[r])
  BY DEF FenceInv, ReadsInv, TypeOK
<1>2. /\ reads[r].gen \in Gens /\ reads[r].value \in Nat /\ reads[r].need \in Nat
      /\ fence[reads[r].gen] \in Nat
  BY <1>1 DEF FenceInv, TypeOK
<1> DEFINE row == [reads[r] EXCEPT !.pc = pc]
<1>3. /\ row.pc = pc /\ row.gen = reads[r].gen /\ row.value = reads[r].value
      /\ row.need = reads[r].need
  BY <1>1
<1> HIDE DEF row
<1>4. ReadOK(row)
  BY <1>1, <1>2, <1>3 DEF ReadOK, AfterGeneration, At
<1> QED
  BY <1>4 DEF row

(* What get_or_set may return: nothing, or a value as new as it needs. *)
LEMMA ReadOKAnswer ==
  ASSUME FenceInv, TypeOK', NEW r \in Readers, NEW v \in Nat, Answer(r, v),
         v = 0 \/ v >= reads[r].need,
         UNCHANGED <<version, gen, entries, fence, acked, evictions, writes>>
  PROVE  FenceInv'
<1>1. /\ reads[r] \in ReadRows /\ ReadOK(reads[r]) /\ reads[r].need \in Nat
      /\ gen \in Nat /\ fence[gen] \in Nat
  BY GensAreNat DEF FenceInv, ReadsInv, TypeOK
<1>2. CASE v = 0
  <2>1. ReadOK(IdleRead)
    BY <1>1 DEF ReadOK, AfterGeneration
  <2>2. reads' = [reads EXCEPT ![r] = IdleRead]
    BY <1>2 DEF Answer
  <2> QED
    BY <2>1, <2>2, ReaderFrame
<1>3. CASE v # 0
  <2> DEFINE row == [IdleRead EXCEPT !.pc = "done", !.value = v,
                                     !.need = reads[r].need, !.own = reads[r].own]
  <2>1. ReadOK(row)
    BY <1>1, <1>3 DEF ReadOK, AfterGeneration
  <2>2. reads' = [reads EXCEPT ![r] = row]
    BY <1>3 DEF Answer
  <2> HIDE DEF row
  <2> QED
    BY <2>1, <2>2, ReaderFrame
<1> QED
  BY <1>2, <1>3

(* A step that only moves the program counter of a read. *)
LEMMA GoFence ==
  ASSUME FenceInv, TypeOK', NEW r \in Readers, NEW pc, Go(r, pc),
         ReadOK([reads[r] EXCEPT !.pc = pc]),
         UNCHANGED <<version, gen, fence, acked, evictions, writes>>,
         \A g \in Gens : \/ entries'[g] = entries[g]
                         \/ g <= gen /\ entries'[g] >= fence[g]
  PROVE  FenceInv'
<1>1. reads' = [reads EXCEPT ![r] = [reads[r] EXCEPT !.pc = pc]]
  BY DEF Go, FenceInv, TypeOK
<1> QED
  BY <1>1, ReaderFrame

(* The steps of _recover_namespace_once. *)
LEMMA RecoveryFence ==
  ASSUME FenceInv, TypeOK', NEW a \in Recoverers, RecoveryStep(a)
  PROVE  FenceInv'
<1> USE DEF redis, faults, history
<1>1. \A r \in Readers : ReadOK(reads[r])
  BY DEF FenceInv, ReadsInv
<1>2. ASSUME NEW ok \in BOOLEAN, Recovered(a, ok),
             UNCHANGED <<version, gen, entries, fence, acked, evictions, writes>>
      PROVE  FenceInv'
  <2>1. CASE a \in Procs
    BY <1>1, <1>2, <2>1, FenceFrame DEF Recovered
  <2>2. CASE a \notin Procs
    <3> DEFINE pc == IF ok THEN "generation" ELSE "bypass"
    <3>1. a \in Readers /\ Go(a, pc)
      BY <1>2, <2>2 DEF Recovered, Recoverers, Go
    <3>2. ReadOK([reads[a] EXCEPT !.pc = pc])
      BY <3>1, ReadOKGo
    <3> HIDE DEF pc
    <3> QED
      BY <1>2, <3>1, <3>2, GoFence
  <2> QED
    BY <2>1, <2>2
<1>3. CASE EnterRecovery(a)
  <2>1. UNCHANGED <<version, gen, entries, fence, acked, evictions, writes>>
    BY <1>3 DEF EnterRecovery
  <2>2. CASE UNCHANGED reads
    BY <1>1, <2>1, <2>2, FenceFrame
  <2>3. CASE Recovered(a, TRUE)
    BY <1>2, <2>1, <2>3
  <2> QED
    BY <1>3, <2>2, <2>3 DEF EnterRecovery
<1>4. CASE RecoveryIncr(a)
  <2>1. UNCHANGED <<version, entries, acked, reads, writes, evictions>>
    BY <1>4 DEF RecoveryIncr, IncrFails, RedisFails
  <2>2. CASE Incr
    BY <2>1, <2>2, FenceIncr
  <2>3. CASE UNCHANGED <<gen, fence>>
    BY <1>1, <2>1, <2>3, FenceFrame
  <2> QED
    BY <1>4, <2>2, <2>3 DEF RecoveryIncr, IncrFails
<1>5. CASE RecoveryAnswered(a)
  BY <1>2, <1>5 DEF RecoveryAnswered
<1>6. CASE RecoveryRefused(a)
  BY <1>2, <1>6 DEF RecoveryRefused
<1> QED
  BY <1>3, <1>4, <1>5, <1>6 DEF RecoveryStep

(* The steps of get_or_set. *)
LEMMA ReaderFence ==
  ASSUME FenceInv, TypeOK', NEW r \in Readers, ReaderStep(r)
  PROVE  FenceInv'
<1> USE DEF redis, faults, history, Unshared
<1>1. /\ reads[r] \in ReadRows /\ ReadOK(reads[r])
      /\ reads[r].gen \in Gens /\ reads[r].value \in Nat /\ reads[r].need \in Nat
      /\ gen \in Gens /\ gen \in Nat /\ version \in Nat
      /\ \A g \in Gens : g \in Nat /\ fence[g] \in Nat /\ entries[g] \in Nat
  BY GensAreNat DEF FenceInv, ReadsInv, TypeOK
<1>2. /\ \A g \in Gens : fence[g] <= version
      /\ \A g \in Gens : entries[g] # 0 => entries[g] >= fence[g]
  BY DEF FenceInv, FenceHistory, EntriesFresh
<1>3. UNCHANGED <<version, gen, fence, acked, evictions, writes>>
  BY DEF ReaderStep, ReadGeneration, Lookup, EnterFlight, AcquireLease, WaitForPeer,
         Load, Recheck, Store, ReleaseLease, Bypass, RedisFails
<1>4. ~Store(r) => UNCHANGED entries
  BY DEF ReaderStep, ReadGeneration, Lookup, EnterFlight, AcquireLease, WaitForPeer,
         Load, Recheck, ReleaseLease, Bypass
<1>5. ASSUME NEW pc, Go(r, pc), ReadOK([reads[r] EXCEPT !.pc = pc]), UNCHANGED entries
      PROVE  FenceInv'
  BY <1>3, <1>5, GoFence
<1>6. reads[r].pc \in AfterGeneration /\ entries[reads[r].gen] # 0
        => entries[reads[r].gen] >= reads[r].need
  <2> SUFFICES ASSUME reads[r].pc \in AfterGeneration, entries[reads[r].gen] # 0
               PROVE  entries[reads[r].gen] >= reads[r].need
    OBVIOUS
  <2>1. entries[reads[r].gen] >= fence[reads[r].gen]
    BY <1>1, <1>2
  <2>2. reads[r].need <= fence[reads[r].gen]
    BY <1>1 DEF ReadOK
  <2>3. /\ entries[reads[r].gen] \in Nat /\ fence[reads[r].gen] \in Nat
        /\ reads[r].need \in Nat
    BY <1>1
  <2> QED
    BY <2>1, <2>2, <2>3
<1>7. version >= reads[r].need
  <2>1. reads[r].need <= fence[gen] /\ fence[gen] <= version
    BY <1>1, <1>2 DEF ReadOK
  <2> QED
    BY <1>1, <2>1
<1>8. CASE ReadGeneration(r)
  <2>0. UNCHANGED entries
    BY <1>8 DEF ReadGeneration
  <2>1. CASE Go(r, "bypass")
    BY <1>5, <2>0, <2>1, ReadOKGo
  <2>2. CASE reads' = [reads EXCEPT ![r].gen = gen,
                        ![r].pc = IF @ = "generation" THEN "lookup" ELSE "lookup2"]
    <3> DEFINE q == IF reads[r].pc = "generation" THEN "lookup" ELSE "lookup2"
    <3> DEFINE row == [reads[r] EXCEPT !.gen = gen, !.pc = q]
    <3>1. reads' = [reads EXCEPT ![r] = row]
      BY <2>2, ZenonT(30) DEF FenceInv, TypeOK
    <3>2. /\ row.gen = gen /\ row.pc \in {"lookup", "lookup2"} /\ row.need = reads[r].need
      BY <1>1
    <3> HIDE DEF row
    <3>3. ReadOK(row)
      BY <1>1, <3>2 DEF ReadOK, AfterGeneration
    <3> QED
      BY <1>3, <2>0, <3>1, <3>3, ReaderFrame
  <2> QED
    BY <1>8, <2>1, <2>2 DEF ReadGeneration
<1>9. CASE Lookup(r)
  <2>0. UNCHANGED entries /\ reads[r].pc \in AfterGeneration
    BY <1>9 DEF Lookup, AfterGeneration
  <2>1. ASSUME NEW pc \in {"flight", "acquire"}, Go(r, pc) PROVE FenceInv'
    <3>1. ReadOK([reads[r] EXCEPT !.pc = pc])
      BY <2>0, ReadOKGo DEF AfterGeneration
    <3> QED
      BY <1>5, <2>0, <2>1, <3>1
  <2>2. CASE entries[reads[r].gen] # 0 /\ Answer(r, entries[reads[r].gen])
    BY <1>1, <1>3, <1>6, <2>0, <2>2, ReadOKAnswer
  <2> QED
    BY <1>9, <2>1, <2>2 DEF Lookup
<1>10. CASE EnterFlight(r)
  <2> DEFINE row == [reads[r] EXCEPT !.flight = reads[r].gen, !.pc = "generation2"]
  <2>1. reads' = [reads EXCEPT ![r] = row] /\ UNCHANGED entries /\ reads[r].pc = "flight"
    BY <1>10 DEF EnterFlight, FenceInv, TypeOK, At
  <2>2. /\ row.gen = reads[r].gen /\ row.pc = "generation2" /\ row.need = reads[r].need
    BY <1>1
  <2> HIDE DEF row
  <2>3. ReadOK(row)
    BY <1>1, <2>1, <2>2 DEF ReadOK, AfterGeneration
  <2> QED
    BY <1>3, <2>1, <2>3, ReaderFrame
<1>11. CASE AcquireLease(r)
  <2>0. UNCHANGED entries /\ reads[r].pc \in AfterGeneration
    BY <1>11 DEF AcquireLease, AfterGeneration
  <2>1. ASSUME NEW pc \in {"wait", "load"}, Go(r, pc) PROVE FenceInv'
    <3>1. ReadOK([reads[r] EXCEPT !.pc = pc])
      BY <2>0, ReadOKGo DEF AfterGeneration
    <3> QED
      BY <1>5, <2>0, <2>1, <3>1
  <2>2. CASE reads' = [reads EXCEPT ![r].token = reads[r].gen, ![r].pc = "load"]
    <3> DEFINE row == [reads[r] EXCEPT !.token = reads[r].gen, !.pc = "load"]
    <3>1. reads' = [reads EXCEPT ![r] = row]
      BY <2>2, ZenonT(30) DEF FenceInv, TypeOK
    <3>2. /\ row.gen = reads[r].gen /\ row.pc = "load" /\ row.need = reads[r].need
      BY <1>1
    <3> HIDE DEF row
    <3>3. ReadOK(row)
      BY <1>1, <2>0, <3>2 DEF ReadOK, AfterGeneration
    <3> QED
      BY <1>3, <2>0, <3>1, <3>3, ReaderFrame
  <2> QED
    BY <1>11, <2>1, <2>2 DEF AcquireLease
<1>12. CASE WaitForPeer(r)
  <2>0. UNCHANGED entries /\ reads[r].pc \in AfterGeneration
    BY <1>12 DEF WaitForPeer, AfterGeneration, At
  <2>1. CASE Go(r, "acquire2")
    <3>1. ReadOK([reads[r] EXCEPT !.pc = "acquire2"])
      BY <2>0, ReadOKGo DEF AfterGeneration
    <3> QED
      BY <1>5, <2>0, <2>1, <3>1
  <2>2. CASE entries[reads[r].gen] # 0 /\ Answer(r, entries[reads[r].gen])
    BY <1>1, <1>3, <1>6, <2>0, <2>2, ReadOKAnswer
  <2> QED
    BY <1>12, <2>1, <2>2 DEF WaitForPeer
<1>13. CASE Load(r)
  <2>1. PICK v \in {version, 0} :
          reads' = [reads EXCEPT ![r].value = v,
                      ![r].pc = IF v = 0 THEN "release"
                                ELSE IF @ = "load" THEN "recheck" ELSE "store"]
    BY <1>13 DEF Load
  <2> DEFINE q == IF v = 0 THEN "release"
                  ELSE IF reads[r].pc = "load" THEN "recheck" ELSE "store"
  <2> DEFINE row == [reads[r] EXCEPT !.value = v, !.pc = q]
  <2>2. reads' = [reads EXCEPT ![r] = row] /\ UNCHANGED entries
    BY <1>13, <2>1 DEF FenceInv, TypeOK, Load
  <2>3. /\ row.gen = reads[r].gen /\ row.need = reads[r].need /\ row.value = v
        /\ row.pc \in {"release", "recheck", "store"}
        /\ row.pc = "release" <=> v = 0
    BY <1>1
  <2> HIDE DEF row
  <2>4. reads[r].pc \in AfterGeneration
    BY <1>13 DEF Load, AfterGeneration
  <2>5. v # 0 => v >= fence[reads[r].gen]
    BY <1>1, <1>2
  <2>6. ReadOK(row)
    BY <1>1, <2>3, <2>4, <2>5 DEF ReadOK, AfterGeneration
  <2> QED
    BY <1>3, <2>2, <2>6, ReaderFrame
<1>14. CASE Recheck(r)
  <2>0. UNCHANGED entries /\ reads[r].pc = "recheck"
    BY <1>14 DEF Recheck, At
  <2>1. CASE Go(r, "release")
    <3>1. ReadOK([reads[r] EXCEPT !.pc = "release"])
      BY <2>0, ReadOKGo
    <3> QED
      BY <1>5, <2>0, <2>1, <3>1
  <2>2. CASE reads' = [reads EXCEPT ![r].gen = gen,
                        ![r].pc = IF gen = reads[r].gen THEN "store" ELSE "reload"]
    <3> DEFINE q == IF gen = reads[r].gen THEN "store" ELSE "reload"
    <3> DEFINE row == [reads[r] EXCEPT !.gen = gen, !.pc = q]
    <3>1. reads' = [reads EXCEPT ![r] = row]
      BY <2>2, ZenonT(30) DEF FenceInv, TypeOK
    <3>2. /\ row.gen = gen /\ row.need = reads[r].need /\ row.value = reads[r].value
          /\ row.pc \in {"store", "reload"}
          /\ row.pc = "store" => gen = reads[r].gen
      BY <1>1
    <3> HIDE DEF row
    <3>3. ReadOK(row)
      BY <1>1, <2>0, <3>2 DEF ReadOK, AfterGeneration
    <3> QED
      BY <1>3, <2>0, <3>1, <3>3, ReaderFrame
  <2> QED
    BY <1>14, <2>1, <2>2 DEF Recheck
<1>15. CASE Store(r)
  <2>1. /\ reads[r].pc = "store" /\ Go(r, "release")
        /\ \/ UNCHANGED entries
           \/ entries' = [entries EXCEPT ![reads[r].gen] = reads[r].value]
    BY <1>15 DEF Store, At
  <2>2. reads[r].gen <= gen /\ reads[r].value >= fence[reads[r].gen]
    BY <1>1, <2>1 DEF ReadOK
  <2>3. \A g \in Gens : \/ entries'[g] = entries[g]
                        \/ g <= gen /\ entries'[g] >= fence[g]
    BY <1>1, <2>1, <2>2 DEF FenceInv, TypeOK
  <2>4. ReadOK([reads[r] EXCEPT !.pc = "release"])
    BY <2>1, ReadOKGo
  <2> QED
    BY <1>3, <2>1, <2>3, <2>4, GoFence
<1>16. CASE ReleaseLease(r)
  <2>1. UNCHANGED entries /\ reads[r].pc = "release" /\ Answer(r, reads[r].value)
    BY <1>16 DEF ReleaseLease, At
  <2>2. reads[r].value = 0 \/ reads[r].value >= reads[r].need
    BY <1>1, <2>1 DEF ReadOK
  <2> QED
    BY <1>1, <1>3, <2>1, <2>2, ReadOKAnswer
<1>17. CASE Bypass(r)
  <2>1. PICK v \in {version, 0} : Answer(r, v)
    BY <1>17 DEF Bypass
  <2>2. UNCHANGED entries /\ v \in Nat /\ (v = 0 \/ v >= reads[r].need)
    BY <1>1, <1>7, <1>17 DEF Bypass
  <2> QED
    BY <1>3, <2>1, <2>2, ReadOKAnswer
<1> QED
  BY <1>8, <1>9, <1>10, <1>11, <1>12, <1>13, <1>14, <1>15, <1>16, <1>17 DEF ReaderStep

(* Every step keeps the inductive invariant. *)
LEMMA FenceStep ==
  ASSUME MaxEvictions = 0, FenceInv, [Next]_vars
  PROVE  FenceInv'
<1> USE DEF redis, faults, history, Unshared
<1>0. TypeOK'
  BY TypeStep DEF FenceInv
<1>1. \A r \in Readers : ReadOK(reads[r])
  BY DEF FenceInv, ReadsInv
<1>2. CASE UNCHANGED vars
  BY <1>0, <1>1, <1>2, FenceFrame DEF vars
<1>3. ASSUME NEW w \in Writers, WriterStep(w) PROVE FenceInv'
  BY <1>0, <1>3, WriterFence
<1>4. ASSUME NEW a \in Recoverers, RecoveryStep(a) PROVE FenceInv'
  BY <1>0, <1>4, RecoveryFence
<1>5. ASSUME NEW p \in Procs, TaskWakes(p) PROVE FenceInv'
  BY <1>0, <1>1, <1>5, FenceFrame DEF TaskWakes
<1>6. ASSUME NEW p \in Procs, Crash(p) PROVE FenceInv'
  <2>1. ReadOK(IdleRead)
    BY GensAreNat DEF FenceInv, TypeOK, ReadOK, AfterGeneration
  <2>2. \A r \in Readers : ReadOK(reads'[r])
    BY <1>1, <1>6, <2>1 DEF Crash
  <2>3. \A w \in Writers : writes'[w] = IdleWrite \/ writes'[w] = writes[w]
    BY <1>6 DEF Crash
  <2>4. UNCHANGED <<version, gen, entries, fence, acked, evictions>>
    BY <1>6 DEF Crash
  <2> QED
    BY <1>0, <2>2, <2>3, <2>4, FenceFrame
<1>7. ASSUME NEW r \in Readers, StartRead(r) PROVE FenceInv'
  <2> DEFINE base == [IdleRead EXCEPT !.need = acked, !.own = returned[ProcOf[r]]]
  <2>1. PICK pc \in {"recovering", "generation"} :
          reads' = [reads EXCEPT ![r] = [base EXCEPT !.pc = pc]]
    BY <1>7 DEF StartRead
  <2>2. ReadOK([base EXCEPT !.pc = pc])
    BY GensAreNat DEF FenceInv, FenceHistory, TypeOK, ReadOK, AfterGeneration
  <2>3. UNCHANGED <<version, gen, entries, fence, acked, evictions, writes>>
    BY <1>7 DEF StartRead
  <2> HIDE DEF base
  <2> QED
    BY <1>0, <2>1, <2>2, <2>3, ReaderFrame
<1>8. ASSUME NEW r \in Readers, ReaderStep(r) PROVE FenceInv'
  BY <1>0, <1>8, ReaderFence
<1>9. ASSUME NEW g \in Gens, EntryExpires(g) \/ LeaseExpires(g) PROVE FenceInv'
  <2>1. /\ UNCHANGED <<version, gen, fence, acked, evictions, reads, writes>>
        /\ \A h \in Gens : entries'[h] = 0 \/ entries'[h] = entries[h]
    BY <1>9 DEF EntryExpires, LeaseExpires, FenceInv, TypeOK
  <2> QED
    BY <1>0, <1>1, <2>1, FenceFrame
<1>10. CASE GenerationEvicted
  BY <1>10 DEF GenerationEvicted, FenceInv
<1> QED
  BY <1>2, <1>3, <1>4, <1>5, <1>6, <1>7, <1>8, <1>9, <1>10 DEF Next

(* The initial state satisfies the inductive invariant. *)
LEMMA FenceInit == Init => FenceInv
<1> SUFFICES ASSUME Init PROVE FenceInv
  OBVIOUS
<1>1. TypeOK
  BY TypeInit
<1>2. 0 \in Gens
  BY BoundsAssumption DEF Gens
<1>3. FenceHistory /\ WritesInv /\ EntriesFresh
  BY <1>2 DEF Init, FenceHistory, WritesInv, EntriesFresh
<1>4. ReadsInv
  BY <1>2 DEF Init, ReadsInv, ReadOK, AfterGeneration
<1> QED
  BY <1>1, <1>3, <1>4 DEF Init, FenceInv

(* The fence holds: while Redis keeps the generation key, generations,     *)
(* entries, writes and reads are related as FenceInv says.                 *)
THEOREM FenceInvariant == ASSUME MaxEvictions = 0 PROVE Spec => []FenceInv
BY FenceInit, FenceStep, PTL DEF Spec

(* No entry is ever older than the write that opened its generation. *)
THEOREM EntriesAlwaysFresh == ASSUME MaxEvictions = 0 PROVE Spec => []EntriesFresh
<1>1. FenceInv => EntriesFresh
  BY DEF FenceInv
<1> QED
  BY <1>1, FenceInvariant, PTL

(* A read that starts after a write was reported fenced reflects it. *)
THEOREM ReadsReflectFencedWrites == ASSUME MaxEvictions = 0 PROVE Spec => []FencedReads
<1>1. FenceInv => FencedReads
  BY DEF FenceInv, ReadsInv, ReadOK, FencedReads, At
<1> QED
  BY <1>1, FenceInvariant, PTL

-----------------------------------------------------------------------------
(* A process reads its own writes.                                           *)

(* The current generation covers what the writes of the process have        *)
(* returned, or are about to return.                                         *)
OwnCovered(p) ==
    /\ returned[p] <= fence[gen]
    /\ \A w \in Writers : ProcOf[w] = p /\ writes[w].pc = "clean" =>
           writes[w].version <= fence[gen]

(* A process that is not in fail-closed mode is covered: it left the mode,   *)
(* whenever it left, on an answer from after its last write.                 *)
LeftCovered == \A p \in Procs : p \in unsafe /\ p \notin unsafe' => OwnCovered(p)'
SafeIsCovered == \A p \in Procs : p \in unsafe \/ OwnCovered(p)

(* A read that has passed the check of fail-closed mode uses a generation    *)
(* no older than the writes it has to reflect.                               *)
ReadOwn(r) ==
    LET row == reads[r]
    IN  /\ row.own <= returned[ProcOf[r]]
        /\ row.pc = "generation" => row.own <= fence[gen]
        /\ row.pc \in AfterGeneration => row.own <= fence[row.gen]
        /\ row.pc \in {"release", "done"} => row.value = 0 \/ row.value >= row.own

OwnInv ==
    /\ SafeIsCovered
    /\ \A p \in Procs : returned[p] <= version
    /\ \A r \in Readers : ReadOwn(r)

(* With a single commit, whatever INCR an unsafe process sees answered is    *)
(* from after that commit.                                                   *)
OneWrite ==
    /\ version >= 1
    /\ \A w \in Writers : /\ writes[w].pc # "idle" => version = MaxVersion
                          /\ writes[w].pc = "fenced" => fence[gen] = version
    /\ unsafe # {} => version = MaxVersion
    /\ \A a \in Recoverers : /\ recovery[a] \in {"incr", "answered"} => version = MaxVersion
                             /\ recovery[a] = "answered" => fence[gen] = version

(* The facts of FenceInv these proofs use.                                   *)
LEMMA FenceTypes ==
  ASSUME FenceInv
  PROVE  /\ gen \in Gens /\ gen \in Nat /\ version \in Nat
         /\ \A g \in Gens : g \in Nat /\ fence[g] \in Nat /\ entries[g] \in Nat
         /\ fence[gen] \in Nat /\ fence[gen] <= version
         /\ \A p \in Procs : returned[p] \in Nat
         /\ \A w \in Writers : writes[w] \in WriteRows /\ writes[w].version \in Nat
                               /\ writes[w].version <= version
         /\ \A r \in Readers : /\ reads[r] \in ReadRows /\ reads[r].own \in Nat
                               /\ reads[r].gen \in Gens /\ reads[r].gen <= gen
                               /\ reads[r].value \in Nat
         /\ \A r \in Readers \cup Writers : ProcOf[r] \in Procs
<1>1. TypeOK /\ FenceHistory /\ WritesInv /\ ReadsInv
  BY DEF FenceInv
<1>2. \A w \in Writers : writes[w] \in WriteRows /\ writes[w].version \in Nat
                         /\ writes[w].version <= version
  BY <1>1 DEF TypeOK, WritesInv
<1>3. \A r \in Readers : /\ reads[r] \in ReadRows /\ reads[r].own \in Nat
                         /\ reads[r].gen \in Gens /\ reads[r].gen <= gen
                         /\ reads[r].value \in Nat
  BY <1>1 DEF TypeOK, ReadsInv, ReadOK
<1>4. /\ gen \in Gens /\ version \in Nat /\ \A p \in Procs : returned[p] \in Nat
      /\ \A g \in Gens : fence[g] \in Nat /\ entries[g] \in Nat /\ fence[g] <= version
  BY <1>1 DEF TypeOK, FenceHistory
<1> QED
  BY <1>2, <1>3, <1>4, GensAreNat, ProcsAssumption

(* The fence never goes back, and an INCR brings it up to the source.        *)
LEMMA FenceGrows ==
  ASSUME MaxEvictions = 0, FenceInv, [Next]_vars
  PROVE  /\ version <= version' /\ fence[gen] <= fence'[gen']
         /\ \A g \in Gens : g <= gen => fence'[g] = fence[g]
         /\ UNCHANGED <<gen, fence>> \/ (UNCHANGED version /\ fence'[gen'] = version)
<1> USE DEF redis, faults, history, Unshared
<1>1. ASSUME UNCHANGED <<gen, fence>>, version' \in {version, version + 1}
      PROVE  /\ version <= version' /\ fence[gen] <= fence'[gen']
             /\ \A g \in Gens : g <= gen => fence'[g] = fence[g]
  BY <1>1, FenceTypes
<1>2. ASSUME Incr, UNCHANGED version
      PROVE  /\ version <= version' /\ fence[gen] <= fence'[gen'] /\ fence'[gen'] = version
             /\ \A g \in Gens : g <= gen => fence'[g] = fence[g]
  <2>1. gen + 1 \in Gens /\ gen < gen + 1
    BY <1>2, FenceTypes, BoundsAssumption DEF Incr, Gens
  <2>2. /\ gen' = gen + 1 /\ fence'[gen + 1] = version
        /\ \A g \in Gens : g # gen + 1 => fence'[g] = fence[g]
    BY <1>2, <2>1 DEF Incr, FenceInv, TypeOK
  <2>3. \A g \in Gens : g <= gen => g # gen + 1
    BY FenceTypes
  <2> QED
    BY <1>2, <2>2, <2>3, FenceTypes
<1>3. \/ UNCHANGED <<gen, fence>> /\ version' \in {version, version + 1}
      \/ Incr /\ UNCHANGED version
  <2>1. ASSUME NEW w \in Writers, WriterStep(w)
        PROVE  \/ UNCHANGED <<gen, fence>> /\ version' \in {version, version + 1}
               \/ Incr /\ UNCHANGED version
    BY <2>1 DEF WriterStep, Commit, AdvanceGeneration, IncrFails, Fenced, Unfenced, DeletePattern
  <2>2. ASSUME NEW a \in Recoverers, RecoveryStep(a)
        PROVE  \/ UNCHANGED <<gen, fence, version>>
               \/ Incr /\ UNCHANGED version
    BY <2>2 DEF RecoveryStep, EnterRecovery, RecoveryIncr, IncrFails, RecoveryAnswered, RecoveryRefused
  <2>3. ASSUME NEW r \in Readers, StartRead(r) \/ ReaderStep(r) PROVE UNCHANGED <<gen, fence, version>>
    BY <2>3 DEF StartRead, ReaderStep, ReadGeneration, Lookup, EnterFlight, AcquireLease, WaitForPeer,
       Load, Recheck, Store, ReleaseLease, Bypass
  <2>4. ASSUME NEW p \in Procs, TaskWakes(p) \/ Crash(p) PROVE UNCHANGED <<gen, fence, version>>
    BY <2>4 DEF TaskWakes, Crash
  <2>5. ASSUME NEW g \in Gens, EntryExpires(g) \/ LeaseExpires(g) PROVE UNCHANGED <<gen, fence, version>>
    BY <2>5 DEF EntryExpires, LeaseExpires
  <2>6. CASE GenerationEvicted
    BY <2>6 DEF GenerationEvicted, FenceInv
  <2>7. CASE UNCHANGED vars
    BY <2>7 DEF vars
  <2> QED
    BY <2>1, <2>2, <2>3, <2>4, <2>5, <2>6, <2>7 DEF Next
<1> QED
  BY <1>1, <1>2, <1>3

(* What a handler returns of its own write.                                  *)
LEMMA ReturnedGrows ==
  ASSUME FenceInv, [Next]_vars, NEW p \in Procs
  PROVE  \/ returned'[p] = returned[p]
         \/ returned'[p] = 0 /\ Crash(p)
         \/ \E w \in Writers : /\ writes[w].pc = "clean" /\ ProcOf[w] = p /\ UNCHANGED unsafe
                               /\ returned'[p] = Newer(returned[p], writes[w].version)
<1> USE DEF redis, faults, history, Unshared
<1>0. returned \in [Procs -> Nat]
  BY DEF FenceInv, TypeOK
<1>1. ASSUME NEW w \in Writers, WriterStep(w)
      PROVE  \/ UNCHANGED returned
             \/ /\ writes[w].pc = "clean" /\ UNCHANGED unsafe
                /\ returned' = [returned EXCEPT ![ProcOf[w]] = Newer(@, writes[w].version)]
  BY <1>1 DEF WriterStep, Commit, AdvanceGeneration, IncrFails, Fenced, Unfenced, DeletePattern
<1>2. ASSUME NEW a \in Recoverers, RecoveryStep(a) PROVE UNCHANGED returned
  BY <1>2 DEF RecoveryStep, EnterRecovery, RecoveryIncr, IncrFails, RecoveryAnswered, RecoveryRefused
<1>3. ASSUME NEW r \in Readers, StartRead(r) \/ ReaderStep(r) PROVE UNCHANGED returned
  BY <1>3 DEF StartRead, ReaderStep, ReadGeneration, Lookup, EnterFlight, AcquireLease, WaitForPeer,
     Load, Recheck, Store, ReleaseLease, Bypass
<1>4. ASSUME NEW q \in Procs, TaskWakes(q) \/ Crash(q)
      PROVE  UNCHANGED returned \/ (Crash(q) /\ returned' = [returned EXCEPT ![q] = 0])
  BY <1>4 DEF TaskWakes, Crash
<1>5. CASE GenerationEvicted \/ UNCHANGED vars \/ \E g \in Gens : EntryExpires(g) \/ LeaseExpires(g)
  BY <1>5 DEF GenerationEvicted, EntryExpires, LeaseExpires, vars
<1>6. ASSUME NEW w \in Writers, WriterStep(w)
      PROVE  \/ returned'[p] = returned[p]
             \/ \E v \in Writers : /\ writes[v].pc = "clean" /\ ProcOf[v] = p /\ UNCHANGED unsafe
                                   /\ returned'[p] = Newer(returned[p], writes[v].version)
  BY <1>0, <1>1, <1>6
<1>7. ASSUME NEW q \in Procs, TaskWakes(q) \/ Crash(q)
      PROVE  returned'[p] = returned[p] \/ (returned'[p] = 0 /\ Crash(p))
  BY <1>0, <1>4, <1>7
<1> QED
  BY <1>2, <1>3, <1>5, <1>6, <1>7 DEF Next

(* Nothing is returned that is not committed.                                *)
LEMMA ReturnedCommitted ==
  ASSUME MaxEvictions = 0, FenceInv, \A p \in Procs : returned[p] <= version, [Next]_vars
  PROVE  \A p \in Procs : returned'[p] <= version'
<1> SUFFICES ASSUME NEW p \in Procs PROVE returned'[p] <= version'
  OBVIOUS
<1>1. /\ returned[p] \in Nat /\ version \in Nat /\ version' \in Nat /\ version <= version'
      /\ returned[p] <= version
  BY FenceTypes, FenceGrows, FenceStep, TypeStep DEF FenceInv, TypeOK
<1>2. ASSUME NEW w \in Writers, returned'[p] = Newer(returned[p], writes[w].version)
      PROVE  returned'[p] <= version'
  BY <1>1, <1>2, FenceTypes DEF Newer
<1> QED
  BY <1>1, <1>2, ReturnedGrows

(* While a process leaves fail-closed mode only on answers that cover its    *)
(* writes, it is covered whenever it is not in that mode.                    *)
LEMMA SafeStaysCovered ==
  ASSUME MaxEvictions = 0, FenceInv, SafeIsCovered, LeftCovered, [Next]_vars
  PROVE  SafeIsCovered'
<1> USE DEF redis, faults, history, Unshared
<1> SUFFICES ASSUME NEW p \in Procs, p \notin unsafe', p \notin unsafe PROVE OwnCovered(p)'
  BY DEF SafeIsCovered, LeftCovered
<1>1. OwnCovered(p)
  BY DEF SafeIsCovered
<1>2. /\ fence[gen] \in Nat /\ fence'[gen'] \in Nat /\ fence[gen] <= fence'[gen']
      /\ returned[p] \in Nat /\ returned[p] <= fence[gen]
  <2>1. FenceInv'
    BY FenceStep
  <2>2. fence'[gen'] \in Nat
    BY <2>1 DEF FenceInv, TypeOK
  <2> QED
    BY <1>1, <2>2, FenceTypes, FenceGrows DEF OwnCovered
<1>3. returned'[p] <= fence'[gen']
  <2>1. ASSUME NEW w \in Writers, writes[w].pc = "clean", ProcOf[w] = p,
               returned'[p] = Newer(returned[p], writes[w].version)
        PROVE  returned'[p] <= fence'[gen']
    <3>1. writes[w].version <= fence[gen] /\ writes[w].version \in Nat
      BY <1>1, <2>1, FenceTypes DEF OwnCovered
    <3> QED
      BY <1>2, <2>1, <3>1 DEF Newer
  <2> QED
    BY <1>2, <2>1, ReturnedGrows
<1>4. ASSUME NEW w \in Writers, ProcOf[w] = p, writes'[w].pc = "clean"
      PROVE  writes'[w].version <= fence'[gen']
  <2>1. CASE writes'[w] = writes[w]
    <3>1. writes[w].version <= fence[gen] /\ writes[w].version \in Nat
      BY <1>1, <1>4, <2>1, FenceTypes DEF OwnCovered
    <3> QED
      BY <1>2, <2>1, <3>1
  <2>2. CASE writes'[w] # writes[w]
    <3>1. WriterStep(w)
      <4>1. writes \in [Writers -> WriteRows]
        BY DEF FenceInv, TypeOK
      <4>2. ASSUME NEW v \in Writers, v # w, WriterStep(v) PROVE writes'[w] = writes[w]
        BY <4>1, <4>2 DEF WriterStep, Commit, AdvanceGeneration, Fenced, Unfenced, DeletePattern
      <4>3. ASSUME NEW a \in Recoverers, RecoveryStep(a) PROVE UNCHANGED writes
        BY <4>3 DEF RecoveryStep, EnterRecovery, RecoveryIncr, RecoveryAnswered, RecoveryRefused
      <4>4. ASSUME NEW r \in Readers, StartRead(r) \/ ReaderStep(r) PROVE UNCHANGED writes
        BY <4>4 DEF StartRead, ReaderStep, ReadGeneration, Lookup, EnterFlight, AcquireLease, WaitForPeer,
           Load, Recheck, Store, ReleaseLease, Bypass
      <4>5. ASSUME NEW q \in Procs, TaskWakes(q) PROVE UNCHANGED writes
        BY <4>5 DEF TaskWakes
      <4>6. ASSUME NEW q \in Procs, Crash(q) PROVE FALSE
        <5>1. writes'[w] = writes[w] \/ writes'[w] = IdleWrite
          BY <4>6 DEF Crash
        <5> QED
          BY <1>4, <2>2, <5>1
      <4>7. ASSUME \/ GenerationEvicted \/ UNCHANGED vars
                   \/ \E g \in Gens : EntryExpires(g) \/ LeaseExpires(g)
            PROVE  UNCHANGED writes
        BY <4>7 DEF GenerationEvicted, EntryExpires, LeaseExpires, vars
      <4> QED
        <5>1. ASSUME NEW v \in Writers, WriterStep(v) PROVE WriterStep(w)
          BY <2>2, <4>2, <5>1
        <5>2. (\E v \in Writers : WriterStep(v)) \/ UNCHANGED writes
          BY <4>3, <4>4, <4>5, <4>6, <4>7 DEF Next
        <5> QED
          BY <2>2, <5>1, <5>2
    <3>2. CASE Fenced(w)
      <4>1. writes[w].version <= fence[gen] /\ writes'[w].version = writes[w].version
        BY <3>2 DEF Fenced, FenceInv, WritesInv, TypeOK
      <4> QED
        BY <1>2, <4>1, FenceTypes
    <3>3. CASE Unfenced(w)
      BY <1>4, <3>3 DEF Unfenced
    <3>4. CASE Commit(w) \/ AdvanceGeneration(w) \/ DeletePattern(w)
      BY <1>4, <3>4 DEF Commit, AdvanceGeneration, DeletePattern, FenceInv, TypeOK
    <3> QED
      BY <3>1, <3>2, <3>3, <3>4 DEF WriterStep
  <2> QED
    BY <2>1, <2>2
<1> QED
  BY <1>3, <1>4 DEF OwnCovered

(* A read of the process goes on, or returns a value.                        *)
LEMMA GoOwn ==
  ASSUME FenceInv, NEW r \in Readers, ReadOwn(r), NEW pc, Go(r, pc),
         UNCHANGED <<gen, fence, returned>>, pc # "generation", pc # "done",
         pc \in AfterGeneration => reads[r].pc \in AfterGeneration,
         pc = "release" => reads[r].value = 0 \/ reads[r].value >= reads[r].own
  PROVE  ReadOwn(r)'
<1>1. /\ reads'[r].pc = pc /\ reads'[r].own = reads[r].own /\ reads'[r].gen = reads[r].gen
      /\ reads'[r].value = reads[r].value
  BY DEF Go, FenceInv, TypeOK
<1> QED
  BY <1>1 DEF ReadOwn
LEMMA AnswerOwn ==
  ASSUME FenceInv, NEW r \in Readers, ReadOwn(r), NEW v \in Nat, Answer(r, v),
         UNCHANGED <<gen, fence, returned>>, v = 0 \/ v >= reads[r].own
  PROVE  ReadOwn(r)'
<1>1. returned[ProcOf[r]] \in Nat
  BY FenceTypes
<1>2. CASE v = 0
  <2>1. reads'[r] = IdleRead
    BY <1>2 DEF Answer, FenceInv, TypeOK
  <2>2. reads'[r].pc = "idle" /\ reads'[r].own = 0
    BY <2>1
  <2> QED
    BY <1>1, <2>2 DEF ReadOwn, AfterGeneration
<1>3. CASE v # 0
  <2>1. reads'[r].pc = "done" /\ reads'[r].value = v /\ reads'[r].own = reads[r].own
    BY <1>3 DEF Answer, FenceInv, TypeOK
  <2> QED
    BY <2>1 DEF ReadOwn, AfterGeneration
<1> QED
  BY <1>2, <1>3

(* The steps of get_or_set.                                                  *)
LEMMA ReaderOwn ==
  ASSUME FenceInv, OwnInv, NEW r \in Readers, ReaderStep(r)
  PROVE  ReadOwn(r)'
<1> USE DEF redis, faults, history, Unshared
<1>1. /\ ReadOwn(r) /\ ReadOK(reads[r]) /\ reads \in [Readers -> ReadRows]
      /\ returned[ProcOf[r]] <= version
  BY FenceTypes DEF OwnInv, FenceInv, ReadsInv, TypeOK
<1>2. UNCHANGED <<version, gen, fence, returned>>
  BY DEF ReaderStep, ReadGeneration, Lookup, EnterFlight, AcquireLease, WaitForPeer,
         Load, Recheck, Store, ReleaseLease, Bypass, RedisFails
<1>3. /\ reads[r].gen \in Gens /\ reads[r].gen <= gen /\ reads[r].own \in Nat /\ reads[r].value \in Nat
      /\ gen \in Gens /\ version \in Nat /\ returned[ProcOf[r]] \in Nat
      /\ \A g \in Gens : fence[g] \in Nat /\ entries[g] \in Nat
  BY FenceTypes
<1>4. fence[reads[r].gen] <= fence[gen] /\ fence[gen] <= version
  BY <1>3 DEF FenceInv, FenceHistory
<1>5. reads[r].pc \in AfterGeneration => reads[r].own <= fence[reads[r].gen] /\ reads[r].own <= fence[gen]
  BY <1>1, <1>3, <1>4 DEF ReadOwn
<1>6. reads[r].pc \in AfterGeneration /\ entries[reads[r].gen] # 0 => entries[reads[r].gen] >= reads[r].own
  BY <1>3, <1>5 DEF FenceInv, EntriesFresh
<1>7. reads[r].pc \in {"recheck", "store"} => reads[r].value >= reads[r].own
  <2> SUFFICES ASSUME reads[r].pc \in {"recheck", "store"} PROVE reads[r].value >= reads[r].own
    OBVIOUS
  <2>1. reads[r].value >= fence[reads[r].gen] /\ reads[r].own <= fence[reads[r].gen]
    BY <1>1, <1>5 DEF ReadOK, AfterGeneration
  <2> QED
    BY <1>3, <2>1
<1>8. version >= reads[r].own
  BY <1>1, <1>3 DEF ReadOwn
<1>9. ASSUME NEW pc, Go(r, pc), pc # "generation", pc # "done",
             pc \in AfterGeneration => reads[r].pc \in AfterGeneration,
             pc = "release" => reads[r].value = 0 \/ reads[r].value >= reads[r].own
      PROVE  ReadOwn(r)'
  BY <1>1, <1>2, <1>9, GoOwn
<1>10. ASSUME NEW v \in Nat, Answer(r, v), v = 0 \/ v >= reads[r].own PROVE ReadOwn(r)'
  BY <1>1, <1>2, <1>10, AnswerOwn
<1>11. CASE ReadGeneration(r)
  <2>1. CASE Go(r, "bypass")
    BY <1>9, <2>1 DEF AfterGeneration
  <2>2. CASE reads' = [reads EXCEPT ![r].gen = gen,
                        ![r].pc = IF @ = "generation" THEN "lookup" ELSE "lookup2"]
    <3>1. reads[r].own <= fence[gen]
      BY <1>1, <1>5, <1>11 DEF ReadGeneration, ReadOwn, AfterGeneration
    <3>2. /\ reads'[r].gen = gen /\ reads'[r].own = reads[r].own
          /\ reads'[r].pc \in {"lookup", "lookup2"}
      BY <1>1, <2>2
    <3> QED
      BY <1>1, <1>2, <3>1, <3>2 DEF ReadOwn
  <2> QED
    BY <1>11, <2>1, <2>2 DEF ReadGeneration
<1>12. CASE Lookup(r)
  <2>1. reads[r].pc \in AfterGeneration
    BY <1>12 DEF Lookup, AfterGeneration
  <2>2. \/ entries[reads[r].gen] # 0 /\ Answer(r, entries[reads[r].gen])
        \/ \E pc \in {"flight", "acquire"} : Go(r, pc)
    BY <1>12 DEF Lookup
  <2>3. CASE entries[reads[r].gen] # 0 /\ Answer(r, entries[reads[r].gen])
    BY <1>3, <1>6, <1>10, <2>1, <2>3
  <2>4. CASE \E pc \in {"flight", "acquire"} : Go(r, pc)
    BY <1>9, <2>1, <2>4
  <2> QED
    BY <2>2, <2>3, <2>4
<1>13. CASE EnterFlight(r)
  <2>1. reads' = [reads EXCEPT ![r].flight = reads[r].gen, ![r].pc = "generation2"] /\ At(r, "flight")
    BY <1>13 DEF EnterFlight
  <2>2. /\ reads'[r].gen = reads[r].gen /\ reads'[r].own = reads[r].own
        /\ reads'[r].pc = "generation2" /\ reads[r].pc \in AfterGeneration
    BY <1>1, <2>1 DEF At, AfterGeneration
  <2> QED
    BY <1>1, <1>2, <2>2 DEF ReadOwn
<1>14. CASE AcquireLease(r)
  <2>1. /\ reads[r].pc \in AfterGeneration
        /\ \/ reads' = [reads EXCEPT ![r].token = reads[r].gen, ![r].pc = "load"]
           \/ \E pc \in {"wait", "load"} : Go(r, pc)
    BY <1>14 DEF AcquireLease, AfterGeneration
  <2>2. CASE reads' = [reads EXCEPT ![r].token = reads[r].gen, ![r].pc = "load"]
    <3>1. reads'[r].gen = reads[r].gen /\ reads'[r].own = reads[r].own /\ reads'[r].pc = "load"
      BY <1>1, <2>2
    <3> QED
      BY <1>1, <1>2, <2>1, <3>1 DEF ReadOwn
  <2>3. CASE \E pc \in {"wait", "load"} : Go(r, pc)
    BY <1>9, <2>1, <2>3
  <2> QED
    BY <2>1, <2>2, <2>3
<1>15. CASE WaitForPeer(r)
  <2>1. reads[r].pc \in AfterGeneration
    BY <1>15 DEF WaitForPeer, At, AfterGeneration
  <2>2. CASE entries[reads[r].gen] # 0 /\ Answer(r, entries[reads[r].gen])
    BY <1>3, <1>6, <1>10, <2>1, <2>2
  <2>3. CASE Go(r, "acquire2")
    BY <1>9, <2>1, <2>3
  <2> QED
    BY <1>15, <2>2, <2>3 DEF WaitForPeer
<1>16. CASE Load(r)
  <2>1. PICK v \in {version, 0} :
          reads' = [reads EXCEPT ![r].value = v,
                      ![r].pc = IF v = 0 THEN "release" ELSE IF @ = "load" THEN "recheck" ELSE "store"]
    BY <1>16 DEF Load
  <2>2. reads[r].pc \in AfterGeneration
    BY <1>16 DEF Load, AfterGeneration
  <2>3. /\ reads'[r].gen = reads[r].gen /\ reads'[r].own = reads[r].own /\ reads'[r].value = v
        /\ reads'[r].pc \in {"release", "recheck", "store"} /\ (v # 0 => reads'[r].pc # "release")
    BY <1>1, <2>1
  <2> QED
    BY <1>1, <1>2, <2>2, <2>3 DEF ReadOwn
<1>17. CASE Recheck(r)
  <2>1. reads[r].pc = "recheck"
    BY <1>17 DEF Recheck, At
  <2>2. CASE reads' = [reads EXCEPT ![r].gen = gen,
                         ![r].pc = IF gen = reads[r].gen THEN "store" ELSE "reload"]
    <3>1. /\ reads'[r].gen = gen /\ reads'[r].own = reads[r].own
          /\ reads'[r].pc \in {"store", "reload"}
      BY <1>1, <2>2
    <3>2. reads[r].own <= fence[gen]
      BY <1>5, <2>1 DEF AfterGeneration
    <3> QED
      BY <1>1, <1>2, <3>1, <3>2 DEF ReadOwn
  <2>3. CASE Go(r, "release")
    BY <1>7, <1>9, <2>1, <2>3 DEF AfterGeneration
  <2> QED
    BY <1>17, <2>2, <2>3 DEF Recheck
<1>18. CASE Store(r)
  <2>1. reads[r].pc = "store" /\ Go(r, "release")
    BY <1>18 DEF Store, At
  <2> QED
    BY <1>7, <1>9, <2>1 DEF AfterGeneration
<1>19. CASE ReleaseLease(r)
  <2>1. reads[r].pc = "release" /\ Answer(r, reads[r].value)
    BY <1>19 DEF ReleaseLease, At
  <2> QED
    BY <1>1, <1>3, <1>10, <2>1 DEF ReadOwn
<1>20. CASE Bypass(r)
  <2>1. PICK v \in {version, 0} : Answer(r, v)
    BY <1>20 DEF Bypass
  <2> QED
    BY <1>3, <1>8, <1>10, <2>1
<1> QED
  BY <1>11, <1>12, <1>13, <1>14, <1>15, <1>16, <1>17, <1>18, <1>19, <1>20 DEF ReaderStep

(* How a step moves a read it is not about, or a recovery that ends.         *)
LEMMA ReadsMove ==
  ASSUME FenceInv, [Next]_vars, NEW r \in Readers
  PROVE  \/ reads'[r] = reads[r] \/ StartRead(r) \/ ReaderStep(r)
         \/ Crash(ProcOf[r]) /\ reads'[r] = IdleRead
         \/ reads' = [reads EXCEPT ![r].pc = "bypass"] /\ UNCHANGED returned
         \/ /\ reads' = [reads EXCEPT ![r].pc = "generation"] /\ UNCHANGED <<returned, gen, fence>>
            /\ ProcOf[r] \notin unsafe'
<1> USE DEF redis, faults, history, Unshared
<1>1. reads \in [Readers -> ReadRows]
  BY DEF FenceInv, TypeOK
<1>2. ASSUME NEW w \in Writers, WriterStep(w) PROVE UNCHANGED reads
  BY <1>2 DEF WriterStep, Commit, AdvanceGeneration, Fenced, Unfenced, DeletePattern
<1>3. ASSUME NEW s \in Readers, s # r, StartRead(s) PROVE reads'[r] = reads[r]
  BY <1>1, <1>3 DEF StartRead
<1>4. ASSUME NEW s \in Readers, s # r, ReaderStep(s) PROVE reads'[r] = reads[r]
  BY <1>1, <1>4 DEF ReaderStep, ReadGeneration, Lookup, EnterFlight, AcquireLease, WaitForPeer,
     Load, Recheck, Store, ReleaseLease, Bypass, Go, Answer
<1>5. ASSUME NEW p \in Procs, TaskWakes(p) PROVE UNCHANGED reads
  BY <1>5 DEF TaskWakes
<1>6. ASSUME NEW p \in Procs, Crash(p)
      PROVE  reads'[r] = reads[r] \/ (Crash(ProcOf[r]) /\ reads'[r] = IdleRead)
  <2>1. reads'[r] = IF ProcOf[r] = p THEN IdleRead ELSE reads[r]
    BY <1>6 DEF Crash
  <2> QED
    BY <1>6, <2>1
<1>7. ASSUME \/ GenerationEvicted \/ UNCHANGED vars
             \/ \E g \in Gens : EntryExpires(g) \/ LeaseExpires(g)
      PROVE  UNCHANGED reads
  BY <1>7 DEF GenerationEvicted, EntryExpires, LeaseExpires, vars
<1>8. ASSUME NEW a \in Recoverers, NEW ok \in BOOLEAN, Recovered(a, ok)
      PROVE  \/ reads'[r] = reads[r]
             \/ a = r /\ reads' = [reads EXCEPT ![r].pc = IF ok THEN "generation" ELSE "bypass"]
  <2>1. \/ UNCHANGED reads
        \/ reads' = [reads EXCEPT ![a].pc = IF ok THEN "generation" ELSE "bypass"]
    BY <1>8 DEF Recovered
  <2> QED
    BY <1>1, <2>1
<1>9. ASSUME NEW a \in Recoverers, RecoveryStep(a)
      PROVE  \/ reads'[r] = reads[r]
             \/ reads' = [reads EXCEPT ![r].pc = "bypass"] /\ UNCHANGED returned
             \/ /\ reads' = [reads EXCEPT ![r].pc = "generation"] /\ UNCHANGED <<returned, gen, fence>>
                /\ ProcOf[r] \notin unsafe'
  <2>1. a = r => ProcOfRecoverer(a) = ProcOf[r]
    BY DisjointAssumption DEF ProcOfRecoverer
  <2>2. CASE EnterRecovery(a)
    <3>1. CASE UNCHANGED reads
      BY <3>1
    <3>2. CASE ProcOfRecoverer(a) \notin unsafe /\ Recovered(a, TRUE)
      BY <1>8, <2>1, <2>2, <3>2 DEF EnterRecovery
    <3> QED
      BY <2>2, <3>1, <3>2 DEF EnterRecovery
  <2>3. CASE RecoveryIncr(a)
    BY <2>3 DEF RecoveryIncr
  <2>4. CASE RecoveryAnswered(a)
    BY <1>8, <2>1, <2>4 DEF RecoveryAnswered
  <2>5. CASE RecoveryRefused(a)
    BY <1>8, <2>5 DEF RecoveryRefused
  <2> QED
    BY <1>9, <2>2, <2>3, <2>4, <2>5 DEF RecoveryStep
<1>10. ASSUME NEW s \in Readers, StartRead(s) \/ ReaderStep(s)
       PROVE  reads'[r] = reads[r] \/ StartRead(r) \/ ReaderStep(r)
  BY <1>3, <1>4, <1>10
<1> QED
  BY <1>2, <1>5, <1>6, <1>7, <1>9, <1>10 DEF Next

(* Under the same condition, no read falls behind the writes of its process. *)
LEMMA ReadsKeepOwn ==
  ASSUME MaxEvictions = 0, FenceInv, OwnInv, LeftCovered, [Next]_vars, NEW r \in Readers
  PROVE  ReadOwn(r)'
<1>1. SafeIsCovered' /\ FenceInv'
  BY SafeStaysCovered, FenceStep DEF OwnInv
<1>2. /\ ReadOwn(r) /\ reads \in [Readers -> ReadRows] /\ ProcOf[r] \in Procs
      /\ reads[r].own \in Nat /\ reads[r].gen \in Gens /\ reads[r].gen <= gen
      /\ fence[gen] \in Nat /\ returned[ProcOf[r]] \in Nat
  BY FenceTypes DEF OwnInv, FenceInv, TypeOK
<1>3. /\ fence'[gen'] \in Nat /\ returned'[ProcOf[r]] \in Nat /\ fence[gen] <= fence'[gen']
      /\ fence'[reads[r].gen] = fence[reads[r].gen]
  <2>1. fence'[gen'] \in Nat /\ returned'[ProcOf[r]] \in Nat
    BY <1>1, <1>2 DEF FenceInv, TypeOK
  <2> QED
    BY <1>2, <2>1, FenceGrows
<1>4. CASE Crash(ProcOf[r])
  <2>1. reads'[r] = IdleRead
    BY <1>4 DEF Crash
  <2>2. reads'[r].pc = "idle" /\ reads'[r].own = 0
    BY <2>1
  <2> QED
    BY <1>3, <2>2 DEF ReadOwn, AfterGeneration
<1>5. ASSUME ~Crash(ProcOf[r]) PROVE returned[ProcOf[r]] <= returned'[ProcOf[r]]
  <2>1. ASSUME NEW w \in Writers, returned'[ProcOf[r]] = Newer(returned[ProcOf[r]], writes[w].version)
        PROVE  returned[ProcOf[r]] <= returned'[ProcOf[r]]
    BY <1>2, <2>1, FenceTypes DEF Newer
  <2> QED
    BY <1>2, <1>5, <2>1, ReturnedGrows
<1>6. CASE reads'[r] = reads[r] /\ ~Crash(ProcOf[r])
  <2>1. reads[r].own <= returned'[ProcOf[r]] /\ (reads[r].own <= fence[gen] => reads[r].own <= fence'[gen'])
    BY <1>2, <1>3, <1>5, <1>6 DEF ReadOwn
  <2> QED
    BY <1>2, <1>3, <1>6, <2>1 DEF ReadOwn
<1>7. CASE StartRead(r)
  <2>1. UNCHANGED <<gen, fence, returned, unsafe>>
    BY <1>7 DEF StartRead, redis, history
  <2>2. PICK pc \in {"recovering", "generation"} :
          /\ reads' = [reads EXCEPT ![r] = [[IdleRead EXCEPT !.need = acked, !.own = returned[ProcOf[r]]]
                                            EXCEPT !.pc = pc]]
          /\ pc = "generation" => ProcOf[r] \notin unsafe
    BY <1>7 DEF StartRead
  <2>3. reads'[r].pc = pc /\ reads'[r].own = returned[ProcOf[r]]
    BY <1>2, <2>2
  <2>4. pc = "generation" => returned[ProcOf[r]] <= fence[gen]
    BY <1>2, <2>2 DEF OwnInv, SafeIsCovered, OwnCovered
  <2> QED
    BY <1>2, <2>1, <2>3, <2>4 DEF ReadOwn, AfterGeneration
<1>8. CASE ReaderStep(r)
  BY <1>8, ReaderOwn
<1>9. CASE reads' = [reads EXCEPT ![r].pc = "bypass"] /\ UNCHANGED returned
  <2>1. reads'[r].pc = "bypass" /\ reads'[r].own = reads[r].own
    BY <1>2, <1>9
  <2> QED
    BY <1>2, <1>9, <2>1 DEF ReadOwn, AfterGeneration
<1>10. CASE /\ reads' = [reads EXCEPT ![r].pc = "generation"] /\ UNCHANGED <<returned, gen, fence>>
            /\ ProcOf[r] \notin unsafe'
  <2>1. reads'[r].pc = "generation" /\ reads'[r].own = reads[r].own
    BY <1>2, <1>10
  <2>2. returned[ProcOf[r]] <= fence[gen]
    BY <1>1, <1>2, <1>10 DEF SafeIsCovered, OwnCovered
  <2> QED
    BY <1>2, <1>10, <2>1, <2>2 DEF ReadOwn, AfterGeneration
<1> QED
  BY <1>4, <1>6, <1>7, <1>8, <1>9, <1>10, ReadsMove

(* A read that starts after a write's handler returned in its process        *)
(* reflects that write, as long as no process leaves fail-closed mode on an  *)
(* answer from before its last write: the early exit is the only way to lose *)
(* sight of one's own writes.                                                *)
THEOREM OwnWritesReadUnlessLeftEarly ==
  ASSUME MaxEvictions = 0
  PROVE  Spec /\ [][LeftCovered]_vars => []OwnWritesRead
<1>1. Init => OwnInv
  <2>1. Init => FenceInv
    BY FenceInit
  <2> SUFFICES ASSUME Init, FenceInv PROVE OwnInv
    BY <2>1
  <2>2. /\ version = 1 /\ fence[gen] \in Nat /\ \A p \in Procs : returned[p] = 0
        /\ \A w \in Writers : writes[w].pc = "idle"
        /\ \A r \in Readers : reads[r].pc = "idle" /\ reads[r].own = 0
    BY FenceTypes DEF Init
  <2>3. SafeIsCovered
    <3> SUFFICES ASSUME NEW p \in Procs PROVE OwnCovered(p)
      BY DEF SafeIsCovered
    <3>1. returned[p] <= fence[gen]
      BY <2>2
    <3>2. \A w \in Writers : writes[w].pc # "clean"
      BY <2>2
    <3> QED
      BY <3>1, <3>2 DEF OwnCovered
  <2>4. \A r \in Readers : ReadOwn(r)
    BY <2>2, ProcsAssumption DEF ReadOwn, AfterGeneration
  <2> QED
    BY <2>2, <2>3, <2>4 DEF OwnInv
<1>2. FenceInv /\ OwnInv /\ LeftCovered /\ [Next]_vars => OwnInv'
  BY SafeStaysCovered, ReturnedCommitted, ReadsKeepOwn DEF OwnInv
<1>3. FenceInv /\ OwnInv /\ UNCHANGED vars => OwnInv'
  <2> SUFFICES ASSUME FenceInv, OwnInv, UNCHANGED vars PROVE OwnInv'
    OBVIOUS
  <2>1. LeftCovered
    BY DEF vars, LeftCovered
  <2> QED
    BY <1>2, <2>1
<1>4. OwnInv /\ FenceInv => OwnWritesRead
  BY DEF OwnInv, ReadOwn, FenceInv, ReadsInv, ReadOK, OwnWritesRead, At
<1> QED
  BY <1>1, <1>2, <1>3, <1>4, FenceInvariant, PTL DEF Spec

(* With a single commit, an answered INCR is from after it.                  *)
LEMMA OneWriteStep ==
  ASSUME MaxEvictions = 0, MaxVersion <= 2, FenceInv, OneWrite, [Next]_vars
  PROVE  OneWrite'
<1> USE DEF redis, faults, history, Unshared
<1>1. /\ version \in Nat /\ MaxVersion \in Nat /\ version >= 1
      /\ writes \in [Writers -> WriteRows] /\ tasks \in [Procs -> {"none", "asleep", "recovering"}]
      /\ recovery \in [Recoverers -> {"off", "queued", "incr", "answered", "refused"}]
  BY BoundsAssumption DEF FenceInv, TypeOK, OneWrite
<1>2. ASSUME NEW w \in Writers, Commit(w) PROVE OneWrite'
  <2>1. version = 1 /\ version' = MaxVersion /\ version' = 2
    BY <1>1, <1>2 DEF Commit
  <2>2. writes'[w].pc = "advance" /\ \A v \in Writers : v # w => writes'[v] = writes[v]
    BY <1>1, <1>2 DEF Commit
  <2>3. \A v \in Writers : writes[v].pc = "idle"
    BY <2>1 DEF OneWrite
  <2>4. \A a \in Recoverers : recovery[a] \notin {"incr", "answered"}
    BY <2>1 DEF OneWrite
  <2>5. UNCHANGED recovery
    BY <1>2 DEF Commit
  <2> QED
    BY <2>1, <2>2, <2>3, <2>4, <2>5 DEF OneWrite
<1>3. ASSUME ~ \E w \in Writers : Commit(w) PROVE UNCHANGED version
  <2>1. ASSUME NEW w \in Writers, WriterStep(w) PROVE UNCHANGED version
    BY <1>3, <2>1 DEF WriterStep, AdvanceGeneration, IncrFails, Fenced, Unfenced, DeletePattern
  <2>2. ASSUME NEW a \in Recoverers, RecoveryStep(a) PROVE UNCHANGED version
    BY <2>2 DEF RecoveryStep, EnterRecovery, RecoveryIncr, IncrFails, RecoveryAnswered, RecoveryRefused
  <2>3. ASSUME NEW r \in Readers, StartRead(r) \/ ReaderStep(r) PROVE UNCHANGED version
    BY <2>3 DEF StartRead, ReaderStep, ReadGeneration, Lookup, EnterFlight, AcquireLease, WaitForPeer,
       Load, Recheck, Store, ReleaseLease, Bypass
  <2>4. ASSUME NEW p \in Procs, TaskWakes(p) \/ Crash(p) PROVE UNCHANGED version
    BY <2>4 DEF TaskWakes, Crash
  <2>5. ASSUME \/ GenerationEvicted \/ UNCHANGED vars
               \/ \E g \in Gens : EntryExpires(g) \/ LeaseExpires(g)
        PROVE  UNCHANGED version
    BY <2>5 DEF GenerationEvicted, EntryExpires, LeaseExpires, vars
  <2> QED
    BY <2>1, <2>2, <2>3, <2>4, <2>5 DEF Next
<1>4. ASSUME NEW w \in Writers,
             \/ writes'[w].pc # "idle" /\ writes[w].pc = "idle"
             \/ writes'[w].pc = "fenced" /\ writes[w].pc # "fenced"
      PROVE  Commit(w) \/ (Incr /\ UNCHANGED version /\ writes[w].pc # "idle")
  <2>1. ASSUME NEW v \in Writers, WriterStep(v)
        PROVE  Commit(w) \/ (Incr /\ UNCHANGED version /\ writes[w].pc # "idle")
    <3>1. CASE v # w
      BY <1>1, <1>4, <2>1, <3>1 DEF WriterStep, Commit, AdvanceGeneration, Fenced, Unfenced, DeletePattern
    <3>2. CASE v = w
      <4>1. CASE AdvanceGeneration(w)
        BY <1>1, <1>4, <4>1 DEF AdvanceGeneration
      <4>2. CASE Fenced(w) \/ Unfenced(w) \/ DeletePattern(w)
        BY <1>1, <1>4, <4>2 DEF Fenced, Unfenced, DeletePattern
      <4> QED
        BY <2>1, <3>2, <4>1, <4>2 DEF WriterStep
    <3> QED
      BY <3>1, <3>2
  <2>2. ASSUME NEW a \in Recoverers, RecoveryStep(a) PROVE UNCHANGED writes
    BY <2>2 DEF RecoveryStep, EnterRecovery, RecoveryIncr, RecoveryAnswered, RecoveryRefused
  <2>3. ASSUME NEW r \in Readers, StartRead(r) \/ ReaderStep(r) PROVE UNCHANGED writes
    BY <2>3 DEF StartRead, ReaderStep, ReadGeneration, Lookup, EnterFlight, AcquireLease, WaitForPeer,
       Load, Recheck, Store, ReleaseLease, Bypass
  <2>4. ASSUME NEW p \in Procs, TaskWakes(p) PROVE UNCHANGED writes
    BY <2>4 DEF TaskWakes
  <2>5. ASSUME NEW p \in Procs, Crash(p) PROVE FALSE
    <3>1. writes'[w] = writes[w] \/ writes'[w] = IdleWrite
      BY <2>5 DEF Crash
    <3> QED
      BY <1>4, <3>1
  <2>6. ASSUME \/ GenerationEvicted \/ UNCHANGED vars
               \/ \E g \in Gens : EntryExpires(g) \/ LeaseExpires(g)
        PROVE  UNCHANGED writes
    BY <2>6 DEF GenerationEvicted, EntryExpires, LeaseExpires, vars
  <2>7. (\E v \in Writers : WriterStep(v)) \/ UNCHANGED writes
    BY <2>2, <2>3, <2>4, <2>5, <2>6 DEF Next
  <2> QED
    BY <1>4, <2>1, <2>7
<1>5. ASSUME NEW p, p \in unsafe', p \notin unsafe PROVE \E w \in Writers : writes[w].pc # "idle"
  <2>1. ASSUME NEW w \in Writers, WriterStep(w) PROVE writes[w].pc # "idle"
    BY <1>5, <2>1 DEF WriterStep, Commit, AdvanceGeneration, Fenced, Unfenced, DeletePattern
  <2>2. ASSUME NEW a \in Recoverers, RecoveryStep(a) PROVE FALSE
    BY <1>5, <2>2 DEF RecoveryStep, EnterRecovery, RecoveryIncr, RecoveryAnswered, RecoveryRefused
  <2>3. ASSUME NEW r \in Readers, StartRead(r) \/ ReaderStep(r) PROVE FALSE
    BY <1>5, <2>3 DEF StartRead, ReaderStep, ReadGeneration, Lookup, EnterFlight, AcquireLease, WaitForPeer,
       Load, Recheck, Store, ReleaseLease, Bypass
  <2>4. ASSUME NEW q \in Procs, TaskWakes(q) \/ Crash(q) PROVE FALSE
    BY <1>5, <2>4 DEF TaskWakes, Crash
  <2>5. ASSUME \/ GenerationEvicted \/ UNCHANGED vars
               \/ \E g \in Gens : EntryExpires(g) \/ LeaseExpires(g)
        PROVE  FALSE
    BY <1>5, <2>5 DEF GenerationEvicted, EntryExpires, LeaseExpires, vars
  <2> QED
    BY <2>1, <2>2, <2>3, <2>4, <2>5 DEF Next
<1>6. ASSUME NEW a \in Recoverers, recovery'[a] \in {"incr", "answered"}, recovery'[a] # recovery[a]
      PROVE  \/ recovery'[a] = "incr" /\ unsafe # {}
             \/ recovery[a] = "incr" /\ Incr /\ UNCHANGED version
  <2>1. ASSUME NEW b \in Recoverers, RecoveryStep(b)
        PROVE  \/ recovery'[a] = "incr" /\ unsafe # {}
               \/ recovery[a] = "incr" /\ Incr /\ UNCHANGED version
    <3>1. ASSUME NEW ok \in BOOLEAN, Recovered(b, ok) PROVE FALSE
      BY <1>1, <1>6, <3>1 DEF Recovered
    <3>2. CASE RecoveryIncr(b)
      <4>1. \/ Incr /\ recovery' = [recovery EXCEPT ![b] = "answered"] /\ recovery[b] = "incr"
            \/ recovery' = [recovery EXCEPT ![b] = "refused"]
        BY <3>2 DEF RecoveryIncr
      <4>2. UNCHANGED version
        BY <3>2 DEF RecoveryIncr
      <4> QED
        BY <1>1, <1>6, <4>1, <4>2
    <3>3. CASE EnterRecovery(b)
      <4>1. ProcOfRecoverer(b) \in unsafe /\ recovery' = [recovery EXCEPT ![b] = "incr"]
        BY <3>1, <3>3 DEF EnterRecovery
      <4> QED
        BY <1>1, <1>6, <4>1
    <3> QED
      BY <2>1, <3>1, <3>2, <3>3 DEF RecoveryStep, RecoveryAnswered, RecoveryRefused
  <2>2. ASSUME NEW w \in Writers, WriterStep(w) PROVE UNCHANGED recovery
    BY <2>2 DEF WriterStep, Commit, AdvanceGeneration, Fenced, Unfenced, DeletePattern
  <2>3. ASSUME NEW r \in Readers, StartRead(r) PROVE FALSE
    BY <1>1, <1>6, <2>3 DEF StartRead
  <2>4. ASSUME NEW r \in Readers, ReaderStep(r) PROVE UNCHANGED recovery
    BY <2>4 DEF ReaderStep, ReadGeneration, Lookup, EnterFlight, AcquireLease, WaitForPeer,
       Load, Recheck, Store, ReleaseLease, Bypass
  <2>5. ASSUME NEW p \in Procs, TaskWakes(p) PROVE FALSE
    BY <1>1, <1>6, <2>5 DEF TaskWakes
  <2>6. ASSUME NEW p \in Procs, Crash(p) PROVE FALSE
    <3>1. recovery'[a] = "off" \/ recovery'[a] = recovery[a]
      BY <2>6 DEF Crash
    <3> QED
      BY <1>6, <3>1
  <2>7. ASSUME \/ GenerationEvicted \/ UNCHANGED vars
               \/ \E g \in Gens : EntryExpires(g) \/ LeaseExpires(g)
        PROVE  UNCHANGED recovery
    BY <2>7 DEF GenerationEvicted, EntryExpires, LeaseExpires, vars
  <2>8. (\E b \in Recoverers : RecoveryStep(b)) \/ UNCHANGED recovery
    BY <2>2, <2>3, <2>4, <2>5, <2>6, <2>7 DEF Next
  <2> QED
    BY <1>6, <2>1, <2>8
<1>7. Incr /\ UNCHANGED version => fence'[gen'] = version
  <2> SUFFICES ASSUME Incr PROVE fence'[gen'] = version
    OBVIOUS
  <2>1. gen + 1 \in Gens
    BY FenceTypes, BoundsAssumption DEF Incr, Gens
  <2> QED
    BY <2>1 DEF Incr, FenceInv, TypeOK
<1>8. UNCHANGED version /\ fence[gen] = version => fence'[gen'] = version
  BY FenceGrows
<1>9. ASSUME UNCHANGED version PROVE OneWrite'
  <2>1. ~ \E w \in Writers : Commit(w)
    BY <1>1, <1>9 DEF Commit
  <2>2. ASSUME NEW w \in Writers, writes'[w].pc # "idle" PROVE version = MaxVersion
    BY <1>4, <2>1, <2>2 DEF OneWrite
  <2>3. ASSUME NEW w \in Writers, writes'[w].pc = "fenced" PROVE fence'[gen'] = version
    BY <1>4, <1>7, <1>8, <1>9, <2>1, <2>3 DEF OneWrite
  <2>4. ASSUME NEW p, p \in unsafe' PROVE version = MaxVersion
    BY <1>5, <2>4 DEF OneWrite
  <2>5. ASSUME NEW a \in Recoverers, recovery'[a] \in {"incr", "answered"} PROVE version = MaxVersion
    BY <1>6, <2>5 DEF OneWrite
  <2>6. ASSUME NEW a \in Recoverers, recovery'[a] = "answered" PROVE fence'[gen'] = version
    BY <1>6, <1>7, <1>8, <1>9, <2>6 DEF OneWrite
  <2> QED
    BY <1>1, <1>9, <2>2, <2>3, <2>4, <2>5, <2>6 DEF OneWrite
<1> QED
  BY <1>2, <1>3, <1>9

(* Then no process leaves fail-closed mode early.                            *)
LEMMA OneWriteLeaves ==
  ASSUME MaxEvictions = 0, MaxVersion <= 2, FenceInv, OneWrite,
         \A p \in Procs : returned[p] <= version, [Next]_vars
  PROVE  LeftCovered
<1> USE DEF redis, faults, history, Unshared
<1> SUFFICES ASSUME NEW p \in Procs, p \in unsafe, p \notin unsafe' PROVE OwnCovered(p)'
  BY DEF LeftCovered
<1>1. FenceInv' /\ \A q \in Procs : returned'[q] <= version'
  BY FenceStep, ReturnedCommitted
<1>2. /\ fence'[gen'] \in Nat /\ returned'[p] \in Nat
      /\ \A w \in Writers : writes'[w].version <= version'
  BY <1>1 DEF FenceInv, TypeOK, WritesInv
<1>3. CASE fence'[gen'] = version'
  BY <1>1, <1>2, <1>3 DEF OwnCovered
<1>4. CASE Crash(p)
  <2>1. returned'[p] = 0 /\ \A w \in Writers : ProcOf[w] = p => writes'[w] = IdleWrite
    BY <1>4 DEF Crash, FenceInv, TypeOK
  <2>2. \A w \in Writers : ProcOf[w] = p => writes'[w].pc # "clean"
    BY <2>1
  <2> QED
    BY <1>2, <2>1, <2>2 DEF OwnCovered
<1>5. ASSUME NEW w \in Writers, WriterStep(w) PROVE fence'[gen'] = version'
  <2>1. Fenced(w)
    BY <1>5 DEF WriterStep, Commit, AdvanceGeneration, Unfenced, DeletePattern
  <2> QED
    BY <2>1 DEF Fenced, OneWrite
<1>6. ASSUME NEW a \in Recoverers, RecoveryStep(a) PROVE fence'[gen'] = version'
  <2>1. RecoveryAnswered(a)
    BY <1>6 DEF RecoveryStep, EnterRecovery, RecoveryIncr, RecoveryRefused
  <2> QED
    BY <2>1 DEF RecoveryAnswered, OneWrite
<1>7. ASSUME NEW r \in Readers, StartRead(r) \/ ReaderStep(r) PROVE FALSE
  BY <1>7 DEF StartRead, ReaderStep, ReadGeneration, Lookup, EnterFlight, AcquireLease, WaitForPeer,
     Load, Recheck, Store, ReleaseLease, Bypass
<1>8. ASSUME NEW q \in Procs, TaskWakes(q) \/ Crash(q) PROVE Crash(p)
  BY <1>8 DEF TaskWakes, Crash
<1>9. ASSUME \/ GenerationEvicted \/ UNCHANGED vars
             \/ \E g \in Gens : EntryExpires(g) \/ LeaseExpires(g)
      PROVE  FALSE
  BY <1>9 DEF GenerationEvicted, EntryExpires, LeaseExpires, vars
<1> QED
  BY <1>3, <1>4, <1>5, <1>6, <1>7, <1>8, <1>9 DEF Next

(* With a single commit, a read that starts after its handler returned in    *)
(* the same process, fenced or not, reflects it, however many processes,     *)
(* reads, recoveries, failures and crashes there are.                        *)
THEOREM OneWriteIsRead ==
  ASSUME MaxEvictions = 0, MaxVersion <= 2
  PROVE  Spec => []OwnWritesRead
<1>1. Init => OneWrite /\ \A p \in Procs : returned[p] <= version
  <2> SUFFICES ASSUME Init PROVE OneWrite /\ \A p \in Procs : returned[p] <= version
    OBVIOUS
  <2>1. /\ version = 1 /\ unsafe = {} /\ \A p \in Procs : returned[p] = 0
        /\ \A w \in Writers : writes[w].pc = "idle"
        /\ \A a \in Recoverers : recovery[a] = "off"
    BY DEF Init
  <2>2. OneWrite
    BY <2>1 DEF OneWrite
  <2> QED
    BY <2>1, <2>2
<1> DEFINE Committed == \A p \in Procs : returned[p] <= version
<1>2. FenceInv /\ OneWrite /\ Committed /\ [Next]_vars => OneWrite' /\ Committed' /\ LeftCovered
  BY OneWriteStep, ReturnedCommitted, OneWriteLeaves
<1>3. Init => OneWrite /\ Committed
  BY <1>1
<1> HIDE DEF Committed
<1>4. FenceInv /\ OneWrite /\ Committed /\ [Next]_vars => OneWrite' /\ Committed' /\ [LeftCovered]_vars
  BY <1>2
<1>5. Spec => [][LeftCovered]_vars
  BY <1>3, <1>4, FenceInvariant, PTL DEF Spec
<1> QED
  BY <1>5, OwnWritesReadUnlessLeftEarly, PTL
=============================================================================
