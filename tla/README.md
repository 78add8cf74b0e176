# Library lending service: TLA+ models, checks and proofs

This directory models the service: the commands of the Catalog, Lending and
Patron contexts inside their transactions, the event-driven borrow workflow
across them, the delivery layer that drives it, the search projection with its
rebuild and its readers, the retention of events and of the evidence that they
were handled, the read cache and its generation fence, and the circuit breaker
in front of its dependencies. Each component is a TLA+ module; TLC checks small
instances, TLAPS proves the main properties for every value of the constants.

## The system

A FastAPI process serves commands and queries; workers run the rest. Postgres
is the source of truth; each aggregate commits with its outbox rows, Debezium
publishes them to Kafka keyed by aggregate, and workers consume them.

| Component | State | Operations | Correct when |
|---|---|---|---|
| Catalog (`Book`) | status, reservation id and generation, patron, loan, last loan, due date | reserve, confirm, release, return; the reaper's batch release | a stale message never touches a newer reservation; a borrowed book has its loan |
| Borrow operations | one row per reservation, polled by clients | add, transition | agrees with the book; transitions never fail for good |
| Lending (`Loan`) | status, correlation, due date | create or replay, return, cancel, extend | one loan per reservation, one outstanding per book, limit of the tier |
| Patron | tier, suspension | register, suspend, reinstate, upgrade | read by the preflight and by admission |
| Workflow worker | event handlers, two with a second transaction | create loan, confirm, cancel, return | every open reservation, stale loan and return is driven to an end |
| Notification worker | own consumer group | confirmation email | never for a borrow that is cancelled |
| Delivery | group offset, assignment, inbox rows (token, lease), quarantine, dead letters | fetch, claim, handle, complete/fail, retry, park, commit | nothing skipped, nothing reordered, processed is final |
| Circuit breaker | state, counters, window, probe slots | admit, success, failure, reset | thresholds, probe limit, slots come back |
| Cache | Redis generations, unsafe namespaces | get-or-fill, invalidate, recover | no stale fill outlives its invalidation |
| Command transactions | rows and versions, receipts per (scope, key), advisory and row locks | look up, fence, read, decide, update, commit | one key one effect; no lost update; admission under the policy in force; no deadlock |
| Search projection, reindex | versioned documents, aliases, reindex target | CDC apply, bulk copy, swap, clean up | the swap loses no change; the alias names an index |
| Freshness gate, list queries | cached lag verdict, cursors pinned to a backend | check, page, fall back | a fresh page shows what it must; a scan returns each row once |
| Outbox retention | outbox rows, replication slot | check, delete, recheck, commit | nothing pruned that was not captured |
| Durable-state retention | processed inbox rows (and receipts, operations, quarantine) | prune | evidence outlives what it is evidence of |
| Dead-letter replay | replay group offset | re-publish, commit | every parked record comes back |
| HTTP, CLI, configuration | none of their own | | |

The parts meet through committed events (Catalog -> Lending -> Catalog), through
Postgres rows read in another session (the borrower directory, admission), and
through the delivery layer, which decides which handler runs when. What is
hard: handlers that need two transactions, redelivery of anything at any time,
workers that stall past their lease, requests whose eligibility check is stale,
the reaper racing a confirmation, early returns, late outcomes at the breaker,
cache fills and Redis failures racing a write, retries of a command that may
have committed, checks made in one statement and relied on in a later one, a
rebuild that copies rows while they change, horizons of several cleaners that
have to fit together.
`PROJECT.json` lists these hazards line by line.

## Modules

| Module | Models |
|---|---|
| `BorrowSaga` | the workflow: Catalog, Lending, Patron, both workers, the reaper |
| `Circulation` | what the workflow promises, without events |
| `Aggregates` | requests, rows and what Book, Loan and Patron decide on them |
| `Commands` | the transactions of all commands, statement by statement (EXTENDS `Aggregates`) |
| `AtomicCommands` | what those transactions promise: each command as one step (EXTENDS `Aggregates`) |
| `EventDelivery` | one partition, one handler: KafkaClient, dispatcher, inbox, DLQ |
| `CircuitBreaker` | one breaker shared by the tasks of a process |
| `CacheFence` | `CacheAdapter` of every process over the shared Redis, one key of one namespace |
| `Projection` | one read model: table, change stream, consumers, index behind its alias, reindex job |
| `SearchReads` | `Projection` with the freshness gate and clients that page through a list (EXTENDS it) |
| `Retention` | outbox cleaner and replication slot, inbox evidence, dead-letter replay, and time |
| `MC...` | constants and symmetry for TLC |
| `BorrowSagaProofs`, `BorrowSagaRefinement`, `EventDeliveryProofs`, `CircuitBreakerProofs`, `CacheFenceProofs`, `CommandsProofs`, `RetentionProofs`, `SearchReadsProofs` | theorems |

### BorrowSaga

One action is one committed transaction with the outbox rows it stages; a
transaction that loses a version check or a unique index rolls back and is a
stuttering step. `books`, `ops`, `loans` and `patrons` are the tables, `events`
every outbox row ever committed, `acked` those the workflow worker has finished
with, `comps` the events whose handler stands between its two transactions.

- `PreflightBorrow` / `BorrowBook` split a request at the point where its
  eligibility becomes stale (`borrow_book.py`).
- `CreateLoan`, `ReplayCreateLoan`, `RejectLoan` are the outcomes of
  `create_loan.py` under the patron fence; `CompensateByRelease` is `_compensate`.
- `ConfirmBorrow`, `ReplayConfirm`, `StaleConfirm` are the outcomes of
  `Book.confirm_borrow`; `CompensateByCancel` the cancellation that follows a
  stale one.
- `ReleaseExpiredReservations(S)`: the clock and `SKIP LOCKED` make any set of
  reserved books up to `BatchSize` possible.
- `ReturnLoan` is enabled as soon as the loan exists, also before Catalog has
  confirmed it. `ExtendLoan` changes Lending's due date only.
- `InOrder`: an event is first handled after its predecessors of the same key
  and may be handled again at any later time. `EventDelivery` justifies this
  (`AppliedInOrder`, `NothingIsSkipped`).

Abstracted: titles, names, emails (immutable), timestamps (due dates are day
counts), failure texts. `overdue` and `lost` are reached by no command.
Exceptions that no retry cures are no actions; `Wedged` spells them out and
`NoEventWedges` shows that they never arise. The acknowledgement is part of the
handler's last transaction; a crash between the two is covered by re-handling
an acknowledged event. Adding books and registering patrons is left to `Init`;
`Commands` has them. An extension changes the due date in Lending only, by
design: Catalog keeps the date it confirmed.

### Commands

A call (`tx[c]`) is one execution of a command handler, a retry being a call of
its own; its `pc` names the last statement. `table` holds the committed rows of
the three contexts with their `version`, `receipts` the rows of
`command_receipts`, `fence` the patron advisory locks; a call at `locked` holds
its row lock.

- `Begin`, `BeginWithReceipt`, `BeginReplay` are the lookup every handler opens
  with (`ports/idempotency.py`, the receipt repository, `create_loan`'s first
  read); a receipt whose fingerprint differs ends in `mismatched`.
- `AcquireFence` is `borrowing_fence.py`; `CountOutstanding`,
  `RereadReservation`, `ReadPolicy`, `CheckBook` are the admission of
  `create_loan.py` in its order, `FindWinner` and `FindHolder` its
  `_reconcile_concurrent_insert`.
- `SuspendPatron`, `ReinstatePatron`, `UpgradePatronTier`, `ReturnLoan`,
  `ExtendLoan`, `CancelLoan`, `ReserveBook` read and decide; `Update` is the
  repositories' `UPDATE ... WHERE version = :expected`, which waits for the row
  lock. `RegisterPatron` and `AddBook` stage an insert.
- `Commit` and `CommitUnheard` (the answer is lost) meet the unique indexes of
  the schema; `ReceiptConflict`, `EmailConflict`, `LoanConflict` are their
  violations, `Abort` everything that rolls back.

Abstracted: values to the status and one number (tier, due date, generation);
`by` stands for what a call generated.

`BorrowSaga` treats these transactions as atomic steps. `AtomicCommands` says what
such a step is: the receipt's key is unused, the row is decided on as it is
committed at that moment (for a loan: the patron may borrow, is below the limit
and nobody holds the book), row and receipt are stored together, and the caller
hears the outcome or nothing. A call is answered by its own step, by the receipt
of an earlier one or with the loan that exists, and only once. `Commands`
implements it with `replies` read off `tx` (`ImplementsAtomicCommands`). Not
promised: that a refusal is still justified when it is heard (a call may just
have lost a race), and that the borrower of `borrow_book` is still eligible at its
commit, which is read in a session of its own and checked again by `create_loan`.

### EventDelivery

Each worker holds at most one record and moves through fetch, dispatch, handle,
complete, commit (`pc`). It can crash, time out, fail, lose the partition and
carry on, or stall past its lease (`Stalls`). A claim's token is the number of
the claim. `RetryForever` is `durable_delivery`: TRUE for the workflow worker,
FALSE for notification. Poison records have an unsupported contract, malformed
ones are not JSON, unsubscribed ones have no handler here. The broker (single
owner, refused commits of evicted members) and the database are external.

### CircuitBreaker

Admission and outcome handling are atomic (the lock); the call runs between
them. The wall clock is `cooled` (timeout elapsed since the last failure) and
`older` (calls admitted before it). `CallsBounded` says whether `call_timeout`
is at most `timeout`: configuration does not enforce it. Metrics are left out;
the failure rate is compared on exact integers.

### CacheFence

Every Redis call is a step that may fail, and the value of an entry is the
version of the source it was loaded from. `version` is the source, `gen`,
`entries` and `lease` are Redis, `unsafe` and `tasks` the `_unsafe_namespaces`
and `_recovery_tasks` of each process, `reads`, `writes` and `recovery` the
coroutines. `fence`, `acked` and `returned` are history: the version committed
when a generation began, the newest write reported fenced, and the newest whose
handler returned in a process.

- A write is `Commit`, `AdvanceGeneration` (Redis executes the INCR, or it fails
  with or without having been executed), `Fenced` or `Unfenced` (the coroutine
  sees the answer), `DeletePattern` (any subset of the entries: the scan has no
  snapshot and errors are swallowed). The search worker indexes a document and
  calls `invalidate_entity`, with the same steps.
- A read follows `get_or_set`: `StartRead`, `ReadGeneration`, `Lookup`,
  `EnterFlight` and both again inside the flight, `AcquireLease`, `WaitForPeer`,
  `Load`, `Recheck`, a second `Load` if the generation moved, `Store`,
  `ReleaseLease`; `Bypass` where Redis is not to be used. `Load` may raise.
- `TaskWakes`, `EnterRecovery`, `RecoveryIncr`, `RecoveryAnswered` and
  `RecoveryRefused` are `_recover_namespace` and `_recover_namespace_once`, run by
  the recovery task or by a read in an unsafe process.
- `EntryExpires`, `LeaseExpires`, `GenerationEvicted` and `Crash` are the
  environment. Redis restarting empty is not modelled.

Abstracted: the keys (hashing and patterns), the JSON of values, a source that
answers None (never stored), jitter, the back-off's delays and the disabled
cache.

### Projection and SearchReads

`pg` and `wal` are the table and its committed changes, `shipped` what Debezium
has put on the topic, `committed` the group's offset, `docs` the documents and
tombstones of every physical index. A consumer fetches the next record
(`FetchAndUseCache`, `FetchAndLookup`, `FinishLookup`: `_index_targets` with its
one-second cache), writes it to the alias and to the rebuild's index in any
order (`WriteDocument`, external versions), and commits. The job of
`reindex_read_models.py` creates an index, registers it, waits out the caches
(`GraceEnds`), copies the rows batch by batch, swaps, clears and deletes; each of
its calls can fail, also after it took effect, and the cleanup follows the code,
a step for each await: `CheckServing` looks up the alias, `DeleteUnservedIndex`
deletes. A delete carries the row, and so a version, only for the rows of
`FullImage` (`REPLICA IDENTITY FULL`); any other one (`Unversioned`) always takes
effect and leaves a `Tombstone` that an older write can overtake. What a search
finds is not `docs` but `shown`, the documents at the last refresh of the index
(one shard, no replica: one view each), which Elasticsearch makes by itself every
second (`Refresh`) and the job once before the swap (`RefreshNewIndex`).

`SearchReads` adds `kafka_projection_freshness.py` (`BeginCheck`,
`ReadCommitted`, `ReadEndOffsets`, a verdict cached from the *start* of its
check) and the three list queries with their repositories (`ListBooks`, ...,
`FindBooksPage`, ...): fallback to PostgreSQL, cursors bound to a filter and to
the backend that issued them. The two backends may sort differently (`DbKey`,
`EsKey`), and a book's cursor from PostgreSQL carries a third key: the title in
Python's lower case (`PyKey`), which the next page compares with PostgreSQL's.
`setup` selects which list is read and bounds the rest.

Outside the model: the garbage collection of Elasticsearch's tombstones (60 s),
assumed longer than a request; offset paging; cached pages
(`CacheFence`); Debezium's own lag, which the gate does not see. `Init` follows
the compose file's initialisation (index `books-000001` behind the alias
`books`); `deploy/elasticsearch/create-indices.sh` creates a concrete index
`books` instead.

### Retention

`outbox`, `wal` and `slot` are the outbox and its connector, `prune` the
transaction of `OutboxRetentionService.prune` (`CheckSlot`, `SelectAndDelete`,
`RecheckSlot`, `CommitBatch`, `RollBack`), `topic`, `inbox`, `evidence` and `dlq`
the records, what is known of them and the parked ones, `replay` the running
`replay_dlq.py`. `PruneInbox` is `_prune_table` for the inbox. `slot.recorded` says whether
Kafka Connect's offsets topic has a position of the connector. The slot may stop
and be dropped, with or without that offset. `register-outbox-connector.json` sets
no `snapshot.mode`, so the default of Debezium 2.4 applies: without an offset the
connector goes to the end of the WAL and publishes the rows of the table before it
streams (`StartSnapshot`, `Snapshot`); with one it streams at once, from its slot
(`Reconnect`) or, if that is gone, from a new slot that knows nothing of the rows
stored before it (`RecreateSlot`). `forfeited` and `skipped` record what these two
ways of losing a position cost.
`Tick` is the clock: it moves only `OnSchedule`, which spells out the service
levels the horizons (`Horizons`: the 90, 120 and 30 days of
`docs/DEPLOYMENT.md`) rest on. Receipts, operations and quarantine rows are
pruned by the same statement and are not modelled.

## Runs

| Run | Instance | Shows |
|---|---|---|
| `saga_contention` | 1 book, 2 patrons, 2 reservations, 2 loans, 1 crash | a borrowed book has its loan, operations agree with books, no event wedges, whatever is open has an event that drives it, an e-mailed borrow is final |
| `saga_liveness` | 1 book, 1 patron, 2 reservations, fair worker | settling, closing, freeing |
| `saga_shelf` | 2 books, 1 patron, tiers 0 and 1, one extension, batches of 2 | loan limit; replay after an extension; implements `Circulation` |
| `delivery_workflow` | 2 workers, 4 records (1 poison, 1 malformed), 4 faults, stalls, fair | nothing lost, reordered or reopened; every record settles |
| `delivery_notification` | 2 workers, 3 records (1 unsubscribed, 1 poison), no stalls | exclusive handling |
| `breaker_bounded` | 4 tasks, 2 slots, calls bounded by the timeout, 1 cancellation, fair | probe limit, exclusive probation, slots come back |
| `cache_fence` | 2 processes with a read each, 1 writer, 1 failing call, 1 crash | no stale fill; fenced writes seen everywhere, own writes at home |
| `cache_recovery` | 1 process, 2 reads of one key, 1 writer, 2 faults (failing calls, an eviction), fair | fail-closed mode is retried and ends; reads that contend return |
| `cache_failclosed` | 1 process, 2 writers, 1 failing call | the finding below |
| `commands_races` | 3 calls, 2 patrons, 3 reservations, 3 books, 2 keys, 18 requests | one key one effect, agreeing answers, no lost update, no deadlock, admission and rejection under the fence; implements `AtomicCommands` |
| `search_reads` | eight setups of up to 3 rows, 2 consumers, 3 indices, 3 changes and 1 client; three orders of the rows; one row whose delete has no version | the swap loses nothing; a caught-up index is the table; the alias names an index; fresh pages are as current as the last refresh; a scan returns each row once |
| `retention_replay` | 2 events, batches of 1, 2 faults, horizons of 0 to 2 ticks | captured before pruned or named as lost, bounded loss, evidence outlives replay, replay loses nothing |

The bounds are the smallest in which the interesting cases occur: two
reservations of one book are what makes a message stale, two loans of one
patron what reaches a limit, two workers what makes a zombie, and with
`MaxRetries = 1` four faults exhaust a retry cycle and leave two more. In the
cache one failing call is what enters fail-closed mode and a second is what makes
its first recovery fail; in the fair run `MaxGen` leaves room for every INCR these
cause, so that no recovery stops at the bound, while `cache_fence` stops at one
generation. The fair run has two reads, so that one can wait for the other's flight,
lease or fill, also when that one raises or moves to another generation; `Active`
lets the second take part only while nothing has failed or nothing is written,
because a write, two faults and two reads together are out of TLC's reach for
liveness (the safety properties are proved without these bounds). Of commands, two calls race and a third is the duplicate or the
policy change between them; its requests send one key with two bodies, one body
under two keys and the same loan, limit and book from two reservations. A row
needs three changes (insert, update, delete) for its versions to matter, two
batches for a change behind the scan, a third index for what a failed job left
behind; the setups keep these apart because their product is out of reach. The
horizons are the smallest numbers with zero margin, as the deployed ones are.
The theorems lift the safety results from these bounds. Bounds that cap counters
(`MaxDue`, `MaxCrashes`, `MaxFaults`, `MaxWindow`, `MaxFailures`, `MaxCancels`,
`MaxVersion`, `MaxGen`, `MaxEvictions`, `Active`, `MaxChanges`, `MaxIndices`, `MaxUnread`,
`MaxParked` and the bounds of a `setup`) appear as guards. Deadlock checking is off
where the system may stop: all supplies of ids used, or every record settled.

Fairness. `BorrowSaga`: weak fairness on attempting each unacknowledged event
of a reservation and on finishing a started compensation, because the durable
consumer retries without end and redelivers after a restart; crashes are
bounded; requests, the reaper and emails get none. `EventDelivery`: weak
fairness on each live worker's own steps, on rejoining (the supervisor) and on
lease expiry (the database clock). `CircuitBreaker`: every protected call ends,
by result, `call_timeout` or its transport's timeout. `CacheFence`: weak fairness
on each started read, write, recovery attempt and back-off sleep (the event loop
runs what is ready, the client and the source answer or raise), strong fairness
on taking the flight and the recovery lock (`asyncio.Lock` is first come, first
served); failing calls are bounded, that is, Redis comes back.

## Finding

- `cache_failclosed`: a process leaves fail-closed mode on any answered INCR, also
  one that Redis executed before the write whose INCR failed; that write's
  process then serves what it was to bypass. In the run the earlier INCR is that of
  a concurrent write; it may as well be the recovery's, and then one writer with
  two writes and two failures is enough. `OwnWritesReadUnlessLeftEarly` shows that
  nothing else loses sight of a process's own writes.

## Limits of what is promised

Met while modelling; each is why a property has the condition it has.

- Delivery. A notification worker whose attempts to write a quarantine row time
  out parks the poison record without it (a `TimeoutError` is no durable
  failure): `ParkedWasDiagnosed` is for durable workers.
- Breaker. `_transition_to` zeroes the slot counter when HALF_OPEN is left while
  probes still run, so with `call_timeout > timeout` (the seeded Elasticsearch
  values are 35 s and 30 s) the next probation can exceed `half_open_max_calls`:
  `ProbesBounded` is for `CallsBounded`. A cancelled probe is accounted nowhere
  (`CancelledError` passes `except Exception`); with its slot gone the breaker
  rejects every call: `SlotsFreeUpUncancelled`.
- Cache. Under `allkeys-lru` Redis may evict the generation key, after which reads
  use generation 0 again and can find entries from before fenced writes:
  `FencedReads` is for `MaxEvictions = 0`.
- Commands. `_reconcile_concurrent_insert` makes two reads outside the fence. If
  the competing loan closes, or a duplicate delivery commits, between them, it can
  reject a reservation whose loan exists, although its comment excludes
  compensating an ambiguous race: `RejectionFindsNoLoan` is for the rejections
  decided under the fence, and no property covers the reconciliation.
- Projection. No command deletes rows. "A delete uses a version strictly above the
  row snapshot, preventing a stale scan batch from resurrecting it"
  (`docs/ELASTICSEARCH.md:183-185`) is so only with `REPLICA IDENTITY FULL`: the
  version comes from the `before` image, no migration sets the identity, and
  without it the delete is unversioned and a batch read before it brings the
  document back in the new index. With it, that can still happen if the partition
  changes hands during the grace period. `CaughtUpIndexIsExact` has both as
  conditions on its half about deleted rows (`FullImage`, `owners`). If the job's
  database connection breaks, the advisory lock goes and a second job may start
  beside it. A swap that takes effect after the cleanup's checks is not modelled.
- Search. The gate compares offsets and does not know of refreshes: a page it lets
  through shows what had been in Kafka for `cache_seconds` *and* was committed by
  the last refresh, which by default is as long ago as `cache_seconds` itself. Right
  after the consumer has caught up, such a page can miss a change that is older
  than both. `FreshReadsAreCurrent` says what does hold: that every such change is
  in the serving index and in the part of it that was refreshed.
- Cursors. `docs/READS_VS_SEARCHES.md:180-193` promises stable paging per backend.
  The book list's cursor from PostgreSQL is rebuilt with Python's `lower()`
  (`book_query_repository.py:350`) and compared with PostgreSQL's (lines 332-333).
  A title on which these differ makes the next page start in the wrong place, so
  that rows are skipped or repeated: `ScanReturnsEachRowOnce` is for scans whose
  pages had no such title (`CursorsExact`). The other lists' cursors carry columns.
- Retention. "a connector stop, slot replacement, or excessive lag rolls the batch
  back" (`retention.py:103-105`) does not hold for a replaced slot: name, activity
  and lag are compared, not identity. If the slot is dropped and recreated while the
  offsets of the connector are kept (`docker-compose.yaml:305` and `374-376` keep
  them), the connector streams from the new slot without a snapshot, the slot is
  active and has no lag, and the rows stored before it are pruned unpublished
  once they are old enough. `PrunedIsOwed` names these rows (`skipped`), and
  `LossIsBounded` does not count them: their number has no bound but the table. An
  operator who drops the slot has to reset the offsets with it; the snapshot then
  publishes what is stored, and only pruned rows are lost, within the lag.
- Evidence. "Deduplication evidence cannot expire while its source event remains
  replayable" (`docs/DEPLOYMENT.md:146`) holds while the outbox cleaner keeps its
  schedule (`OnSchedule`, `Delay`); the margin, 90 + 30 against 120 days, is zero.
  `EvidenceOutlivesReplay` says nothing of a cleaner that its fence keeps off for
  longer, although that is when stored rows outlast the horizon.
- Replay. A dead letter whose envelope is broken stops the replay at its offset, and
  replayed events are out of order with their successors.

## Proofs

All theorems hold for any constants that satisfy the named assumptions.

- `BorrowSagaProofs`. The invariants the runs check are not inductive. `SagaInv`
  strengthens them with the correlation between an event and the rows it stems
  from: every reservation event has its operation row; a loan's correlation is
  that of its reservation event; a `LoanCreated` has its loan; a confirmed book
  has the date of its event; generations grow and identify reservations; a
  cancelled loan's reservation is released and stays so; what acknowledges an
  event left behind what the next step needs. Each action preserves it
  (one lemma per action); the listed theorems follow. The limit uses
  cardinalities of finite sets and the monotony of the policy in the tier.
- `BorrowSagaRefinement`. Under `SagaInv` a reservation has at most one loan, so
  `LoanOf` is determined and each step maps to one of `Circulation` or a
  stutter.
- `EventDeliveryProofs`. `DeliveryInv` adds what a worker in the middle of a
  record knows: all earlier records are settled, its own is settled before
  commit, applied before complete, diagnosed before parking. `ClaimInv` (without
  stalls the handler's worker holds the live claim) gives exclusiveness.
- `CircuitBreakerProofs`. During probation, if calls are bounded, the running
  calls are exactly the probes and the slots cover them.
- `CacheFenceProofs`. `FencedReads` is not inductive. `FenceInv` adds that no
  generation began after the current one's version or beyond `version`, and none
  ahead of the current one has an entry; that a write whose INCR was executed is covered by the
  current generation; that a read past its generation check holds a generation
  whose fence covers what it has to reflect, and carries a value at least as new
  as that fence when it is about to store it. It assumes `MaxEvictions = 0`: the
  fence is a counter that never goes back. `UnsafeIsRetried` needs no such assumption.
- `CommandsProofs`. None of the command properties is inductive. `CommandsInv`
  adds what a call's `pc` says about its request and staged row (`Shape`), what it
  may still rely on of the committed rows (`ReadsHold`: it holds the fence of its
  patron from `fenced` on; its count bounds the committed loans; the policy it was
  admitted under is in force; a row at `locked` is its copy), that a holder of the
  fence or of a row lock is under way and alone, that every receipt is that of a
  committed call and every committed call has its receipt, and that a missing row
  is one of version 0. A commit is the one step that changes rows; a call that
  relies on a patron's rows is protected by the fence, all others by versions.
  `LoansAdmittedUnderPolicy` needs besides that tiers stay within the progression.
  For `CommandsAreAtomic`, `StagedInv` adds that what a call has staged is what its
  request decides on the copy it read. A call at `locked` still has its copy in the
  table, an insert meets no row because of its index, and what was staged unchanged
  is a returned loan, which nothing changes any more; so a commit decides on the
  rows of its own moment. Every other step is silent or one of the two answers.
- `RetentionProofs`. `OutboxInv` adds that a deleted batch is still stored until
  its commit and that a slot which has streamed owes every row it has neither
  published nor, by the way it came to its position, left behind; what is vouched
  for on a ready slot and is none of the latter is then owed, and what a ready slot
  owes fits in its lag. `ReplayInv` adds that a replay stands at the committed offset or before it,
  that an offset about to be committed was acknowledged and that parked records are
  in the order of their age. `EvidenceInv` compares clocks: evidence is no older
  than the row while the row or the slot could publish it, exceeds the age of an
  unread copy by at most what the copy's source could have, and is no older than a
  parked copy, because a processed event is skipped and never parked; `Horizons`
  turns this into at most `InboxAge` for everything that can be delivered again.
- `SearchReadsProofs` is about the composed system; what it shows of the projection
  holds of `Projection` alone by the same steps. Assumed are finitely many rows and
  workers and values of `None` outside them.
  - `ProjectionInv`: versions grow along the change stream, a row's last change is
    the table, a document is that of some change of its row or the tombstone of an
    unversioned delete, and a batch was read from such changes. An unversioned delete
    never lowers a version (`WrittenGrows`), which is what keeps rows that exist safe
    from it. An uncommitted offset belongs to the owner's record. The two
    strengthenings that carry the result: `ServedIsCovered` (of each change before
    the owner's position the serving index has that version or a later one, or the
    owner still has to write it there) and `CopiedIsReached` (of the index being
    built the same, or the row is still ahead of the scan or in the batch read, or
    the consumers may not know the index yet and the copy has not begun). The swap
    turns the second into the first; `SwapLosesNoChange` follows.
  - `TombstoneInv` repeats both for rows of `FullImage` that were deleted, which the
    scan does not carry over: a sole owner that knows the index writes the tombstone
    itself, and its version keeps a batch read earlier from undoing it.
  - `ShownInv`: what a search finds was made of changes, too, and the view of the
    serving index, and of the new one from its refresh to the swap, has every change
    committed at its refresh.
  - `GateInv`: a verdict is never younger than its check, the offset a check read is
    at most `committed`, and what a fresh request may rely on was committed when its
    check read the offset.
  - `ScanInv`: while its cursors were exact, a client's cursor parts the rows into
    those seen and those that follow; its other conjuncts (`ScanShape`) hold of any
    title. Rows that no change touches during the scan are on one side or the other. The
    lemmas about pages rest on `Follows` being a strict total order; that a finite
    set has a last row, and so a sorted sequence, follows by taking the smallest
    cardinality of a counterexample.
- `CacheFenceProofs`, own writes. `OwnWritesRead` adds to `FenceInv` that a process is
  unsafe or its current generation covers what it returned (`SafeIsCovered`), that
  an unfenced write leaves its process unsafe before it returns, and that a read
  carries a generation covering the writes it started after. Only leaving
  fail-closed mode on an answer that does not cover the last write breaks this, which
  is what the condition `LeftCovered` excludes, and the finding is exactly that step.
  `OneWriteIsRead` discharges the condition for a single write (`MaxVersion <= 2`, as
  in `cache_fence`): an unsafe process was then marked by that write, and every INCR
  executed after the mark covers it.

Only model-checked is liveness (`ReservationSettles`, `StaleLoanCloses`,
`ReturnFreesBook`, `AllSettle`, `SlotsFreeUpUncancelled`, `UnsafeEnds`,
`ReadsReturn`), which needs fairness and ENABLED.

## Not modelled, and the plan

In this order:

1. The receipts and the fence of `AtomicCommands` composed with the events of
   `BorrowSaga`, so that one specification has both.
2. Pruning of receipts, operations and quarantine rows; offset paging.

Left out for good: request parsing, response formatting and the CLI (no state of
their own), dependency wiring and configuration loading (they fix constants
here), schema migrations (declarative; the indexes that commits meet are guards),
field-by-field validation of event contracts, logging, e-mail rendering.
