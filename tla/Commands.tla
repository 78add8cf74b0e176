------------------------------ MODULE Commands ------------------------------
(* The commands of the Catalog, Lending and Patron contexts inside their      *)
(* database transactions, one action per statement whose place in the         *)
(* interleaving matters: the receipt lookup that makes an HTTP retry          *)
(* idempotent, the borrowing fence (a transaction-scoped advisory lock per    *)
(* patron), the read of the aggregate, the UPDATE guarded by its version, and *)
(* the commit that flushes the inserts and meets the unique indexes.          *)
(* Transactions run at PostgreSQL's READ COMMITTED.  BorrowSaga takes such a  *)
(* transaction as one step; this module shows what that step may rely on.     *)
EXTENDS Aggregates

VARIABLES
    table,     \* the committed rows
    receipts,  \* the committed command receipts
    fence,     \* the call that holds a patron's advisory lock
    tx         \* what each call has read, staged and answered

vars == <<table, receipts, fence, tx>>

Steps == {"idle", "looked", "fenced", "counted", "rechecked", "admitted",
          "eligible", "loaded", "locked", "staged", "conflicted", "unmatched"}
Ends == {"answered", "rejected", "mismatched", "retryable", "failed"}

IdleTx == [pc |-> "idle", q |-> None, row |-> None, copy |-> Absent,
           next |-> Absent, count |-> 0, committed |-> FALSE, answer |-> None]

(* Rows that exist from earlier commands: the loans among them belong to      *)
(* registered patrons, within the limit, and to different books.              *)
Init ==
    /\ \E present \in Seeds :
           table = [x \in Rows |-> IF x \in present THEN Fresh(x) ELSE Absent]
    /\ receipts = {}
    /\ fence = [p \in Patrons |-> None]
    /\ tx = [c \in Calls |-> IdleTx]

-----------------------------------------------------------------------------
(* The rows a query sees.                                                     *)

Outstanding(l) == table[l].status \notin {"absent", "returned", "cancelled"}

OutstandingFor(p) == {l \in Loans : PatronOf[l] = p /\ Outstanding(l)}

OutstandingForBook(b) == {l \in Loans : BookOf[l] = b /\ Outstanding(l)}

ReceiptsFor(q) == {r \in receipts : r.kind = q.kind /\ r.key = q.key}

(* Mutant: the fingerprint leaves the arguments out.                          *)
SameRowOnly(q, r) == r.row = q.row

(* The same row and arguments: the fingerprints of the two requests agree.    *)
SameFacts(q, r) == r.row = q.row /\ r.arg = q.arg

-----------------------------------------------------------------------------
(* The end of a transaction: the advisory lock goes with it, and so does the  *)
(* row lock, which only a call at "locked" holds.                             *)

Released(c) == [p \in Patrons |-> IF fence[p] = c THEN None ELSE fence[p]]

Close(c, t) ==
    /\ tx' = [tx EXCEPT ![c] = t]
    /\ fence' = Released(c)

Finish(c, end) ==
    /\ Close(c, [tx[c] EXCEPT !.pc = end])
    /\ UNCHANGED <<table, receipts>>

AnswerFrom(c, x) ==
    /\ Close(c, [tx[c] EXCEPT !.pc = "answered", !.answer = Answer(x, table[x])])
    /\ UNCHANGED <<table, receipts>>

Advance(c, t) ==
    /\ tx' = [tx EXCEPT ![c] = t]
    /\ UNCHANGED <<table, receipts, fence>>

Goto(c, pc) == Advance(c, [tx[c] EXCEPT !.pc = pc])

-----------------------------------------------------------------------------
(* A handler starts with the row that may already answer it: the receipt of   *)
(* its key or, for create_loan, the loan of its reservation.                  *)

Begin(c, q) ==
    /\ tx[c].pc = "idle"
    /\ q.key # None => ReceiptsFor(q) = {}
    /\ q.kind = "create" => table[q.row].status = "absent"
    /\ Advance(c, [tx[c] EXCEPT !.pc = "looked", !.q = q, !.row = q.row])

BeginWithReceipt(c, q) ==
    /\ tx[c].pc = "idle" /\ q.key # None
    /\ \E r \in ReceiptsFor(q) :
           Advance(c, [tx[c] EXCEPT
               !.pc = IF SameFacts(q, r) THEN "answered" ELSE "mismatched",
               !.q = q, !.row = q.row,
               !.answer = IF SameFacts(q, r) THEN r.answer ELSE None])

BeginReplay(c, q) ==
    /\ tx[c].pc = "idle" /\ q.kind = "create" /\ table[q.row].status # "absent"
    /\ Advance(c, [tx[c] EXCEPT !.pc = "answered", !.q = q, !.row = q.row,
                                !.answer = Answer(q.row, table[q.row])])

FencedPatron(q) == IF q.kind = "create" THEN PatronOf[q.row] ELSE q.row

(* Mutant: a shared lock, which does not wait for other holders.              *)
AcquireShared(c) ==
    /\ tx[c].pc = "looked" /\ tx[c].q.kind \in PolicyKinds \cup {"create"}
    /\ fence' = [fence EXCEPT ![FencedPatron(tx[c].q)] = c]
    /\ tx' = [tx EXCEPT ![c].pc = "fenced"]
    /\ UNCHANGED <<table, receipts>>

(* pg_advisory_xact_lock: waits while another transaction holds it.           *)
AcquireFence(c) ==
    /\ tx[c].pc = "looked" /\ tx[c].q.kind \in PolicyKinds \cup {"create"}
    /\ fence[FencedPatron(tx[c].q)] = None
    /\ fence' = [fence EXCEPT ![FencedPatron(tx[c].q)] = c]
    /\ tx' = [tx EXCEPT ![c].pc = "fenced"]
    /\ UNCHANGED <<table, receipts>>

-----------------------------------------------------------------------------
(* Loan admission.                                                            *)

CountOutstanding(c) ==
    /\ tx[c].pc = "fenced" /\ tx[c].q.kind = "create"
    /\ Advance(c, [tx[c] EXCEPT !.pc = "counted",
                   !.count = Cardinality(OutstandingFor(PatronOf[tx[c].row]))])

(* Mutant: the reservation is not read again once the fence is held.          *)
SkipReread(c) == tx[c].pc = "counted" /\ Goto(c, "rechecked")

RereadReservation(c) ==
    /\ tx[c].pc = "counted"
    /\ IF table[tx[c].row].status # "absent"
       THEN AnswerFrom(c, tx[c].row)
       ELSE Goto(c, "rechecked")

(* The directory reads the patron in a session of its own.                    *)
Admits(c, p) ==
    /\ table[p].status = "eligible"
    /\ tx[c].count < MaxOutstanding[table[p].n]

ReadPolicy(c) ==
    /\ tx[c].pc = "rechecked"
    /\ IF Admits(c, PatronOf[tx[c].row])
       THEN Goto(c, "admitted")
       ELSE Finish(c, "rejected")

CheckBook(c) ==
    /\ tx[c].pc = "admitted"
    /\ IF OutstandingForBook(BookOf[tx[c].row]) # {}
       THEN Finish(c, "rejected")
       ELSE Advance(c, [tx[c] EXCEPT !.pc = "staged",
                        !.next = [Absent EXCEPT !.status = "active"]])

-----------------------------------------------------------------------------
(* Inserts of the other contexts, and the preflight of borrow_book.           *)

RegisterPatron(c) ==
    /\ tx[c].pc = "looked" /\ tx[c].q.kind = "register"
    /\ IF table[tx[c].row].status # "absent"
       THEN Finish(c, "rejected")
       ELSE Advance(c, [tx[c] EXCEPT !.pc = "staged",
                        !.next = [Absent EXCEPT !.status = "eligible",
                                                !.n = tx[c].q.arg]])

(* BookId.next_id is fresh: no row and no other transaction has it.           *)
AddBook(c) ==
    /\ tx[c].pc = "looked" /\ tx[c].q.kind = "add"
    /\ \E b \in Books :
           /\ table[b].status = "absent" /\ \A d \in Calls : tx[d].row # b
           /\ Advance(c, [tx[c] EXCEPT !.pc = "staged", !.row = b,
                          !.next = [Absent EXCEPT !.status = "available"]])

FindBorrower(c) ==
    /\ tx[c].pc = "looked" /\ tx[c].q.kind = "borrow"
    /\ IF table[tx[c].q.arg].status = "eligible"
       THEN Goto(c, "eligible")
       ELSE Finish(c, "rejected")

-----------------------------------------------------------------------------
(* The read-decide-update of the other commands.                              *)

MayLoad(c) ==
    \/ tx[c].pc = "fenced" /\ tx[c].q.kind \in PolicyKinds
    \/ tx[c].pc = "looked" /\ tx[c].q.kind \in LoanKinds
    \/ tx[c].pc = "eligible"

(* An unchanged aggregate is not updated; only a keyed request still commits, *)
(* to store its receipt.                                                      *)
Load(c, decided) ==
    LET row == table[tx[c].row] IN
    \E next \in decided :
        IF next = row /\ tx[c].q.key = None
        THEN AnswerFrom(c, tx[c].row)
        ELSE Advance(c, [tx[c] EXCEPT
                 !.pc = IF next = row THEN "staged" ELSE "loaded",
                 !.copy = row, !.next = next])

(* Not found, or refused by the aggregate.                                    *)
Decide(c, kind, decided) ==
    /\ MayLoad(c) /\ tx[c].q.kind = kind
    /\ IF decided = {} THEN Finish(c, "rejected") ELSE Load(c, decided)

SuspendPatron(c) == Decide(c, "suspend", Suspended(table[tx[c].row]))
ReinstatePatron(c) == Decide(c, "reinstate", Reinstated(table[tx[c].row]))
UpgradePatronTier(c) == Decide(c, "upgrade", Upgraded(table[tx[c].row], tx[c].q.arg))
ReturnLoan(c) == Decide(c, "return", Returned(table[tx[c].row]))
(* The clock may say that the loan is overdue.                                *)
ExtendLoan(c) ==
    \E overdue \in BOOLEAN :
        Decide(c, "extend", IF overdue THEN {}
                            ELSE Extended(table[tx[c].row], tx[c].q.arg))
CancelLoan(c) == Decide(c, "cancel", Cancelled(table[tx[c].row]))
ReserveBook(c) == Decide(c, "borrow", Reserved(table[tx[c].row]))

(* Mutant: rows are locked when they are read.                                *)
LockedByReader(d, x) == tx[d].pc \in {"loaded", "locked"} /\ tx[d].row = x

(* Another transaction has updated the row and has not ended.                 *)
LockedBy(d, x) == tx[d].pc = "locked" /\ tx[d].row = x

(* Mutant: the UPDATE does not compare versions.                              *)
Unchecked(c) == TRUE

Unmodified(c) == table[tx[c].row].version = tx[c].copy.version

(* UPDATE ... WHERE version = expected: waits for the row lock, then sees the *)
(* committed version.                                                         *)
Update(c) ==
    /\ tx[c].pc = "loaded"
    /\ \A d \in Calls \ {c} : ~LockedBy(d, tx[c].row)
    /\ IF Unmodified(c) THEN Goto(c, "locked") ELSE Finish(c, "rejected")

-----------------------------------------------------------------------------
(* Commit.                                                                    *)

Changes(c) == tx[c].next # tx[c].copy

(* The row a commit leaves behind: repositories set version + 1.              *)
Written(c) ==
    IF Changes(c)
    THEN [tx[c].next EXCEPT !.version = tx[c].copy.version + 1, !.by = c]
    ELSE tx[c].copy

(* Mutant: command_receipts has no primary key.                               *)
KeyNeverTaken(c) == FALSE

(* The primary key of command_receipts.                                       *)
KeyTaken(c) == tx[c].q.key # None /\ ReceiptsFor(tx[c].q) # {}

(* Mutant: there is no index on the outstanding loans of a book.              *)
BookNotIndexed(c) == tx[c].q.kind \in InsertKinds /\ table[tx[c].row].status # "absent"

(* ix_patrons_email, ix_loans_reservation_id_unique and                       *)
(* ix_loans_outstanding_book_unique.                                          *)
UniqueTaken(c) ==
    \/ tx[c].q.kind \in InsertKinds /\ table[tx[c].row].status # "absent"
    \/ tx[c].q.kind = "create" /\ OutstandingForBook(BookOf[tx[c].row]) # {}

Commits(c, end) ==
    /\ tx[c].pc \in {"locked", "staged"}
    /\ ~KeyTaken(c) /\ ~UniqueTaken(c)
    /\ table' = [table EXCEPT ![tx[c].row] = IF Changes(c) THEN Written(c) ELSE @]
    /\ receipts' = IF tx[c].q.key = None THEN receipts
                   ELSE receipts \cup {[kind |-> tx[c].q.kind, key |-> tx[c].q.key,
                                        row |-> tx[c].q.row, arg |-> tx[c].q.arg,
                                        answer |-> Answer(tx[c].row, Written(c))]}
    /\ Close(c, [tx[c] EXCEPT !.pc = end, !.committed = TRUE,
                 !.answer = IF end = "answered" THEN Answer(tx[c].row, Written(c))
                            ELSE None])

Commit(c) == Commits(c, "answered")

(* Postgres commits and the answer never reaches the caller.                  *)
CommitUnheard(c) == Commits(c, "failed")

ReceiptConflict(c) ==
    /\ tx[c].pc \in {"locked", "staged"} /\ KeyTaken(c)
    /\ Finish(c, "retryable")

EmailConflict(c) ==
    /\ tx[c].pc = "staged" /\ tx[c].q.kind = "register" /\ UniqueTaken(c)
    /\ Finish(c, "rejected")

LoanConflict(c) ==
    /\ tx[c].pc = "staged" /\ tx[c].q.kind = "create" /\ UniqueTaken(c)
    /\ Finish(c, "conflicted")

(* The loser of the index race looks for the winner in a new transaction.     *)
FindWinner(c) ==
    /\ tx[c].pc = "conflicted"
    /\ IF table[tx[c].row].status # "absent"
       THEN AnswerFrom(c, tx[c].row)
       ELSE Goto(c, "unmatched")

FindHolder(c) ==
    /\ tx[c].pc = "unmatched"
    /\ Finish(c, IF OutstandingForBook(BookOf[tx[c].row]) # {}
                 THEN "rejected" ELSE "retryable")

(* The process dies, the connection breaks or the statement fails: PostgreSQL *)
(* rolls back.                                                                *)
Abort(c) ==
    /\ tx[c].pc \in Steps \ {"idle"}
    /\ Finish(c, "failed")

-----------------------------------------------------------------------------
Start(c, q) == Begin(c, q) \/ BeginWithReceipt(c, q) \/ BeginReplay(c, q)

Step(c) ==
    \/ AcquireFence(c) \/ CountOutstanding(c) \/ RereadReservation(c)
    \/ ReadPolicy(c) \/ CheckBook(c) \/ RegisterPatron(c) \/ AddBook(c)
    \/ FindBorrower(c) \/ ReserveBook(c) \/ SuspendPatron(c) \/ ReinstatePatron(c)
    \/ UpgradePatronTier(c) \/ ReturnLoan(c) \/ ExtendLoan(c) \/ CancelLoan(c)
    \/ Update(c) \/ Commit(c)
    \/ CommitUnheard(c) \/ ReceiptConflict(c) \/ EmailConflict(c)
    \/ LoanConflict(c) \/ FindWinner(c) \/ FindHolder(c) \/ Abort(c)

Next == \E c \in Calls : Step(c) \/ \E q \in Requests : Start(c, q)

Spec == Init /\ [][Next]_vars

-----------------------------------------------------------------------------
(* Properties.                                                                *)

Requested == Requests \cup {None}
AnswerType == [row : Rows, value : RowType]

(* Every variable keeps its shape. *)
TypeOK ==
    /\ table \in [Rows -> RowType]
    /\ \A r \in receipts : r.key \in Keys /\ r.answer \in AnswerType
    /\ fence \in [Patrons -> Calls \cup {None}]
    /\ DOMAIN tx = Calls
    /\ \A c \in Calls :
           /\ tx[c].pc \in Steps \cup Ends /\ tx[c].q \in Requested
           /\ tx[c].row \in Rows \cup {None}
           /\ tx[c].copy \in RowType /\ tx[c].next \in RowType
           /\ tx[c].count \in Nat /\ tx[c].committed \in BOOLEAN
           /\ tx[c].answer \in AnswerType \cup {None}

SameKey(c, d) ==
    /\ tx[c].q # None /\ tx[d].q # None
    /\ tx[c].q.key # None /\ tx[c].q.key = tx[d].q.key /\ tx[c].q.kind = tx[d].q.kind

(* However often and however concurrently a request is retried, also after a  *)
(* commit whose answer was lost, one key executes once.                       *)
OncePerKey ==
    \A c, d \in Calls :
        c # d /\ SameKey(c, d) => ~(tx[c].committed /\ tx[d].committed)

(* Every call that is answered under a key gets the answer of the one commit  *)
(* of that key, and only for the facts that commit was asked for: a replayed  *)
(* receipt never answers another request or outlives its own rollback.        *)
AnswersAgree ==
    \A d \in Calls :
        tx[d].pc = "answered" /\ tx[d].q.key # None =>
            \E c \in Calls : /\ SameKey(c, d) /\ tx[c].committed
                             /\ tx[c].q.row = tx[d].q.row /\ tx[c].q.arg = tx[d].q.arg
                             /\ tx[d].answer = Answer(tx[c].row, Written(c))

(* No commit overwrites another: two commits that change a row were decided   *)
(* on different versions of it.  Extensions add up, a return is not undone.   *)
NoLostUpdate ==
    \A c, d \in Calls :
        (/\ c # d /\ tx[c].committed /\ tx[d].committed
         /\ Changes(c) /\ Changes(d) /\ tx[c].row = tx[d].row)
            => tx[c].copy.version # tx[d].copy.version

(* A loan is created only while, in the committed state, the patron may       *)
(* borrow and is below the limit of the tier: no suspension and no other loan *)
(* slips between the checks of create_loan and its commit.                    *)
LoanUnderPolicy(l) ==
    LET p == PatronOf[l] IN
    /\ table[p].status = "eligible"
    /\ Cardinality(OutstandingFor(p)) < MaxOutstanding[table[p].n]

AdmittedUnderPolicy ==
    [][\A l \in Loans : table[l].status = "absent" /\ table'[l].status # "absent"
           => LoanUnderPolicy(l)]_vars

(* The rejections that make the worker release the reservation, decided under *)
(* the fence, never hit a reservation whose loan exists: a duplicate delivery *)
(* that waited behind the original is a replay.                               *)
RejectionFindsNoLoan ==
    [][\A c \in Calls :
           tx[c].pc \in {"rechecked", "admitted"} /\ tx'[c].pc = "rejected"
               => table[tx[c].row].status = "absent"]_vars

(* d holds the lock that c waits for.                                         *)
WaitsFor(c, d) ==
    \/ /\ tx[c].pc = "looked" /\ tx[c].q.kind \in PolicyKinds \cup {"create"}
       /\ fence[FencedPatron(tx[c].q)] = d
    \/ tx[c].pc = "loaded" /\ c # d /\ LockedBy(d, tx[c].row)

(* Whoever waits, waits for a call that is under way and does not itself      *)
(* wait: fence and row locks cannot deadlock and are never orphaned.          *)
NobodyWaitsInACircle ==
    \A c, d \in Calls : WaitsFor(c, d) =>
        /\ tx[d].pc \in Steps \ {"idle"}
        /\ \A e \in Calls : ~WaitsFor(d, e)

(* What a call has effected, or been answered, as far as its caller can tell. *)
Replies ==
    {[call |-> c, q |-> tx[c].q, answer |-> tx[c].answer] :
        c \in {d \in Calls : tx[d].committed \/ tx[d].pc = "answered"}}

Atomic == INSTANCE AtomicCommands WITH replies <- Replies

(* Statement by statement, in any interleaving and through aborts, every      *)
(* command that commits does what it would have done alone at the moment of   *)
(* its commit, on the rows as they are then, and every answer is that of such *)
(* a step, of its receipt or of the loan that exists.                         *)
ImplementsAtomicCommands == Atomic!Spec
=============================================================================
