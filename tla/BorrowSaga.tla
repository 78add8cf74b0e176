----------------------------- MODULE BorrowSaga -----------------------------
(***************************************************************************)
(* The borrow workflow of the library: Catalog reserves a book, Lending    *)
(* opens a loan for the reservation, Catalog confirms it, and the loan is  *)
(* later returned; every rejection and every stale message is compensated. *)
(* The three contexts (Catalog, Lending, Patron) share no transaction:     *)
(* they are driven by domain events that are staged in the transaction of  *)
(* the aggregate (outbox), published per aggregate in commit order and     *)
(* delivered at least once to the workflow worker.                         *)
(*                                                                         *)
(* One action is one committed database transaction, together with the     *)
(* outbox rows it stages.  A transaction that loses a version check or a   *)
(* unique index rolls back and changes nothing, so it is a stuttering      *)
(* step here; a handler that raises leaves its event unacknowledged and    *)
(* the event is delivered again.                                           *)
(***************************************************************************)
EXTENDS Integers, FiniteSets

CONSTANTS
    Books,            \* catalog books (all added before the model starts)
    Patrons,          \* registered patrons
    ReservationIds,   \* supply of reservation uuids, one per reserve()
    LoanIds,          \* supply of loan uuids, one per Loan.create()
    Tiers,            \* membership tiers, numbered by their progression
    MaxOutstanding,   \* Tiers -> outstanding loans LendingPolicy allows
    LoanDays,         \* Tiers -> loan duration LendingPolicy grants
    ExtensionDays,    \* the extensions a request may ask for
    BatchSize,        \* reservations one reaper transaction may release
    MaxDue,           \* bound: no due date beyond it (caps ExtendLoan)
    MaxCrashes,       \* bound: worker crashes between two transactions
    None              \* an absent value

ASSUME TiersAssumption == Tiers \subseteq Nat
ASSUME PolicyAssumption ==
    /\ MaxOutstanding \in [Tiers -> Nat]
    /\ \A t, u \in Tiers : t < u => MaxOutstanding[t] <= MaxOutstanding[u]
ASSUME DaysAssumption ==
    /\ LoanDays \in [Tiers -> Nat \ {0}]
    /\ ExtensionDays \subseteq Nat \ {0}
ASSUME BoundsAssumption == BatchSize \in Nat /\ MaxDue \in Nat /\ MaxCrashes \in Nat
ASSUME NoneAssumption ==
    None \notin Books \cup Patrons \cup ReservationIds \cup LoanIds

VARIABLES
    books,      \* Catalog: the Book aggregates
    ops,        \* Catalog: the borrow_operations rows, one per reservation
    loans,      \* Lending: the Loan aggregates
    patrons,    \* Patron: tier and suspension
    preflight,  \* patrons of borrow requests that passed the directory check
    events,     \* every outbox row ever committed
    acked,      \* the events the workflow worker has finished with
    comps,      \* events whose handler is between its two transactions
    emailed,    \* loans whose confirmation email was sent
    crashes     \* worker crashes so far

vars == <<books, ops, loans, patrons, preflight, events, acked, comps,
          emailed, crashes>>

-----------------------------------------------------------------------------
(* The facts every message of one reservation carries.                     *)
Correlations == [book : Books, rid : ReservationIds, gen : Nat \ {0},
                 patron : Patrons]

BookStatus == {"available", "reserved", "borrowed"}
OperationStatus == {"none", "reserved", "borrowed", "released", "returned"}
LoanStatus == {"none", "active", "returned", "cancelled"}
EventKinds == {"CatalogBookReserved", "CatalogBookBorrowed",
               "CatalogBookReleased", "CatalogBookReturned",
               "LoanCreated", "LoanCompleted", "LoanCancelled", "LoanExtended"}

(* An event: its kind, the correlation, and the loan and due date it       *)
(* carries (None and 0 where the class has no such field).                 *)
Event(kind, c, l, due) == [kind |-> kind, c |-> c, loan |-> l, due |-> due]

Events == [kind : EventKinds, c : Correlations, loan : LoanIds \cup {None},
           due : Nat]

Init ==
    /\ books = [b \in Books |->
                  [status |-> "available", rid |-> None, gen |-> 0,
                   patron |-> None, loan |-> None, last |-> None, due |-> 0]]
    /\ ops = [r \in ReservationIds |-> [status |-> "none", c |-> None]]
    /\ loans = [l \in LoanIds |-> [status |-> "none", c |-> None, due |-> 0]]
    /\ patrons \in [Patrons -> [tier : Tiers, suspended : BOOLEAN]]
    /\ preflight = {}
    /\ events = {}
    /\ acked = {}
    /\ comps = {}
    /\ emailed = {}
    /\ crashes = 0

-----------------------------------------------------------------------------
(* Catalog *)

(* The correlation the book currently records. *)
Correlation(b) == [book |-> b, rid |-> books[b].rid, gen |-> books[b].gen,
                   patron |-> books[b].patron]

(* Book._require_matching_reservation: reservation, generation and patron. *)
MatchesReservation(c) ==
    /\ books[c.book].rid = c.rid
    /\ books[c.book].gen = c.gen
    /\ books[c.book].patron = c.patron

(* borrow_operations.transition finds a row to update; otherwise it raises *)
(* and the whole transaction rolls back.                                   *)
TransitionAllowed(c, source) == ops[c.rid].c = c /\ ops[c.rid].status = source

Available(b) == books[b].status = "available"

SameGeneration(b) == IF books[b].gen = 0 THEN 1 ELSE books[b].gen

(* Each reservation of a book has a generation of its own. *)
NextGeneration(b) == books[b].gen + 1

(* A borrow request reads the patron in a session of its own before it     *)
(* touches the book: the eligibility it saw may be stale when it commits.  *)
PreflightBorrow(p) ==
    /\ ~patrons[p].suspended
    /\ preflight' = preflight \cup {p}
    /\ UNCHANGED <<books, ops, loans, patrons, events, acked, comps, emailed,
                   crashes>>

(* Book.reserve refuses a book that is not available: the request fails.   *)
RejectBorrow(b, p) ==
    /\ p \in preflight
    /\ ~Available(b)
    /\ preflight' = preflight \ {p}
    /\ UNCHANGED <<books, ops, loans, patrons, events, acked, comps, emailed,
                   crashes>>

(* Book.reserve, the operation row and the CatalogBookReserved event, in   *)
(* one transaction.                                                        *)
BorrowBook(b, p, r) ==
    LET c == [book |-> b, rid |-> r, gen |-> NextGeneration(b), patron |-> p]
    IN  /\ p \in preflight
        /\ Available(b)
        /\ ops[r].status = "none"
        /\ books' = [books EXCEPT ![b] =
                       [status |-> "reserved", rid |-> r, gen |-> c.gen,
                        patron |-> p, loan |-> None, last |-> @.last,
                        due |-> 0]]
        /\ ops' = [ops EXCEPT ![r] = [status |-> "reserved", c |-> c]]
        /\ preflight' = preflight \ {p}
        /\ events' = events \cup {Event("CatalogBookReserved", c, None, 0)}
        /\ UNCHANGED <<loans, patrons, acked, comps, emailed, crashes>>

ReleaseKeepingBook(S) == UNCHANGED books

(* The rows Book.release writes for a set of reserved books. *)
ReleasedBooks(S) ==
    books' = [b \in Books |-> IF b \in S
                              THEN [books[b] EXCEPT !.status = "available",
                                                    !.due = 0]
                              ELSE books[b]]

(* Release every book of S in one transaction: aggregate, operation row    *)
(* and event.                                                              *)
ReleaseBooks(S) ==
    /\ \A b \in S : /\ books[b].status = "reserved"
                    /\ TransitionAllowed(Correlation(b), "reserved")
    /\ ReleasedBooks(S)
    /\ ops' = [r \in ReservationIds |->
                 IF \E b \in S : books[b].rid = r
                 THEN [ops[r] EXCEPT !.status = "released"]
                 ELSE ops[r]]
    /\ events' = events \cup
                 {Event("CatalogBookReleased", Correlation(b), None, 0) : b \in S}

(* The reaper: one batch of reservations past their ttl.  Which rows are   *)
(* old enough is up to the clock, and SKIP LOCKED may pass over any row.   *)
ReleaseExpiredReservations(S) ==
    /\ S # {}
    /\ Cardinality(S) <= BatchSize
    /\ ReleaseBooks(S)
    /\ UNCHANGED <<loans, patrons, preflight, acked, comps, emailed, crashes>>

-----------------------------------------------------------------------------
(* Delivery *)

(* Both topics are keyed by the aggregate, so f reaches the worker before  *)
(* e when both belong to one book or to one loan and f committed first.    *)
Precedes(f, e) ==
    \/ /\ {f.kind, e.kind} \subseteq {"CatalogBookReserved", "CatalogBookReleased"}
       /\ f.c.book = e.c.book
       /\ \/ f.c.gen < e.c.gen
          \/ /\ f.c.gen = e.c.gen
             /\ f.kind = "CatalogBookReserved"
             /\ e.kind = "CatalogBookReleased"
    \/ /\ f.kind = "LoanCreated"
       /\ e.kind = "LoanCompleted"
       /\ f.loan = e.loan

DeliverInAnyOrder(e) == TRUE

(* The offset of a durable topic advances only past handled events, so an  *)
(* event is first handled after all its predecessors.  A handled event may *)
(* be handled again at any time: a redelivery after a lost offset commit,  *)
(* or a worker that stalled past its lease and resumes.                    *)
InOrder(e) == e \in acked \/ \A f \in events : Precedes(f, e) => f \in acked

Delivered(e, kind) == e \in events /\ e.kind = kind /\ InOrder(e)

(* The handler returns: inbox row and offset are committed. *)
Acknowledge(e) == acked' = acked \cup {e}

-----------------------------------------------------------------------------
(* Lending: CreateLoanOnBookReserved *)

Outstanding(l) == loans[l].status = "active"

OutstandingFor(p) == {l \in LoanIds : Outstanding(l) /\ loans[l].c.patron = p}

(* loans.get_by_reservation_id *)
LoanFor(c, l) == loans[l].status # "none" /\ loans[l].c.rid = c.rid

EligibleUpToLimit(c) ==
    /\ ~patrons[c.patron].suspended
    /\ Cardinality(OutstandingFor(c.patron)) <= MaxOutstanding[patrons[c.patron].tier]
    /\ \A l \in LoanIds : Outstanding(l) => loans[l].c.book # c.book

(* Admission under the patron fence: eligible, below the limit of the      *)
(* tier, and the book has no outstanding loan.                             *)
Admitted(c) ==
    /\ ~patrons[c.patron].suspended
    /\ Cardinality(OutstandingFor(c.patron)) < MaxOutstanding[patrons[c.patron].tier]
    /\ \A l \in LoanIds : Outstanding(l) => loans[l].c.book # c.book

(* The reservation already has its loan: an exact replay is success, facts *)
(* that differ raise.                                                      *)
ReplayCreateLoan(e) ==
    /\ Delivered(e, "CatalogBookReserved")
    /\ \E l \in LoanIds : LoanFor(e.c, l) /\ loans[l].c = e.c
    /\ Acknowledge(e)
    /\ UNCHANGED <<books, ops, loans, patrons, preflight, events, comps,
                   emailed, crashes>>

CreateLoan(e, l) ==
    LET due == LoanDays[patrons[e.c.patron].tier]
    IN  /\ Delivered(e, "CatalogBookReserved")
        /\ ~ \E k \in LoanIds : LoanFor(e.c, k)
        /\ Admitted(e.c)
        /\ loans[l].status = "none"
        /\ loans' = [loans EXCEPT ![l] =
                       [status |-> "active", c |-> e.c, due |-> due]]
        /\ events' = events \cup {Event("LoanCreated", e.c, l, due)}
        /\ Acknowledge(e)
        /\ UNCHANGED <<books, ops, patrons, preflight, comps, emailed, crashes>>

RejectByAcknowledging(e) ==
    /\ Delivered(e, "CatalogBookReserved")
    /\ ~ \E l \in LoanIds : LoanFor(e.c, l)
    /\ ~Admitted(e.c)
    /\ Acknowledge(e)
    /\ UNCHANGED <<books, ops, loans, patrons, preflight, events, comps,
                   emailed, crashes>>

(* A deterministic rejection: the handler goes on to release the           *)
(* reservation, in a second transaction.                                   *)
RejectLoan(e) ==
    /\ Delivered(e, "CatalogBookReserved")
    /\ ~ \E l \in LoanIds : LoanFor(e.c, l)
    /\ ~Admitted(e.c)
    /\ comps' = comps \cup {e}
    /\ UNCHANGED <<books, ops, loans, patrons, preflight, events, acked,
                   emailed, crashes>>

(* _compensate: release exactly this reservation.  Released before, or     *)
(* stale (confirmed or superseded): nothing changes and the event is done. *)
CompensateByRelease(e) ==
    /\ e \in comps
    /\ e.kind = "CatalogBookReserved"
    /\ IF MatchesReservation(e.c) /\ books[e.c.book].status = "reserved"
       THEN ReleaseBooks({e.c.book})
       ELSE UNCHANGED <<books, ops, events>>
    /\ comps' = comps \ {e}
    /\ Acknowledge(e)
    /\ UNCHANGED <<loans, patrons, preflight, emailed, crashes>>

-----------------------------------------------------------------------------
(* Catalog: ConfirmBorrowOnLoanCreated *)

(* Book.confirm_borrow applies. *)
ConfirmApplies(e) ==
    /\ MatchesReservation(e.c)
    /\ books[e.c.book].status = "reserved"
    /\ books[e.c.book].loan = None

ConfirmNeverReplayed(e) == FALSE

ConfirmReplayedByLoanRow(e) ==
    /\ MatchesReservation(e.c)
    /\ books[e.c.book].status = "borrowed"
    /\ books[e.c.book].loan = e.loan
    /\ books[e.c.book].due = loans[e.loan].due

(* Book.confirm_borrow returns False: the same confirmation was applied.   *)
ConfirmReplayed(e) ==
    /\ MatchesReservation(e.c)
    /\ books[e.c.book].status = "borrowed"
    /\ books[e.c.book].loan = e.loan
    /\ books[e.c.book].due = e.due

ConfirmBorrow(e) ==
    LET b == e.c.book
    IN  /\ Delivered(e, "LoanCreated")
        /\ ConfirmApplies(e)
        /\ TransitionAllowed(e.c, "reserved")
        /\ books' = [books EXCEPT ![b] =
                       [@ EXCEPT !.status = "borrowed", !.loan = e.loan,
                                 !.due = e.due]]
        /\ ops' = [ops EXCEPT ![e.c.rid].status = "borrowed"]
        /\ events' = events \cup
                     {Event("CatalogBookBorrowed", e.c, e.loan, e.due)}
        /\ Acknowledge(e)
        /\ UNCHANGED <<loans, patrons, preflight, comps, emailed, crashes>>

ReplayConfirm(e) ==
    /\ Delivered(e, "LoanCreated")
    /\ ConfirmReplayed(e)
    /\ Acknowledge(e)
    /\ UNCHANGED <<books, ops, loans, patrons, preflight, events, comps,
                   emailed, crashes>>

IgnoreStaleConfirm(e) ==
    /\ Delivered(e, "LoanCreated")
    /\ ~ConfirmApplies(e)
    /\ ~ConfirmReplayed(e)
    /\ Acknowledge(e)
    /\ UNCHANGED <<books, ops, loans, patrons, preflight, events, comps,
                   emailed, crashes>>

(* StaleReservationException: the handler goes on to cancel its own        *)
(* tentative loan, in a second transaction.                                *)
StaleConfirm(e) ==
    /\ Delivered(e, "LoanCreated")
    /\ ~ConfirmApplies(e)
    /\ ~ConfirmReplayed(e)
    /\ comps' = comps \cup {e}
    /\ UNCHANGED <<books, ops, loans, patrons, preflight, events, acked,
                   emailed, crashes>>

(* CancelLoanHandler: no loan and a loan in a terminal state are no-ops, a *)
(* loan whose facts differ raises (no disjunct), else the loan is          *)
(* cancelled.  l is the expected loan, or None.                            *)
CancelLoan(c, expected) ==
    \/ /\ \A l \in LoanIds : LoanFor(c, l) => /\ loans[l].c = c
                                              /\ expected \in {l, None}
                                              /\ ~Outstanding(l)
       /\ UNCHANGED <<loans, events>>
    \/ \E l \in LoanIds :
         /\ LoanFor(c, l)
         /\ loans[l].c = c
         /\ expected \in {l, None}
         /\ Outstanding(l)
         /\ loans' = [loans EXCEPT ![l].status = "cancelled"]
         /\ events' = events \cup
                      {Event("LoanCancelled", c, l, 0)}

CompensateByCancel(e) ==
    /\ e \in comps
    /\ e.kind = "LoanCreated"
    /\ CancelLoan(e.c, e.loan)
    /\ comps' = comps \ {e}
    /\ Acknowledge(e)
    /\ UNCHANGED <<books, ops, patrons, preflight, emailed, crashes>>

(* Lending: CancelLoanOnBookReleased *)
CancelLoanOnBookReleased(e) ==
    /\ Delivered(e, "CatalogBookReleased")
    /\ CancelLoan(e.c, None)
    /\ Acknowledge(e)
    /\ UNCHANGED <<books, ops, patrons, preflight, comps, emailed, crashes>>

-----------------------------------------------------------------------------
(* Returning, extending *)

ReturnUnannounced(l) ==
    /\ Outstanding(l)
    /\ loans' = [loans EXCEPT ![l].status = "returned"]
    /\ UNCHANGED events

(* Loan.return_book and its LoanCompleted event. *)
CompleteLoan(l) ==
    /\ Outstanding(l)
    /\ loans' = [loans EXCEPT ![l].status = "returned"]
    /\ events' = events \cup {Event("LoanCompleted", loans[l].c, l, 0)}

(* POST /loans/{id}/return: also before Catalog has confirmed the borrow.  *)
(* A loan returned before is answered without a change.                    *)
ReturnLoan(l) ==
    /\ CompleteLoan(l)
    /\ UNCHANGED <<books, ops, patrons, preflight, acked, comps, emailed,
                   crashes>>

(* Loan.extend moves the due date of the loan only: Catalog keeps the date *)
(* it confirmed.  Whether the loan is overdue is up to the clock.          *)
ExtendLoan(l, days) ==
    /\ Outstanding(l)
    /\ loans[l].due + days <= MaxDue
    /\ loans' = [loans EXCEPT ![l].due = @ + days]
    /\ events' = events \cup
                 {Event("LoanExtended", loans[l].c, l, loans[l].due + days)}
    /\ UNCHANGED <<books, ops, patrons, preflight, acked, comps, emailed,
                   crashes>>

(* Book.return_book applies to the exact loan Catalog recorded. *)
ReturnApplies(e) ==
    /\ books[e.c.book].status = "borrowed"
    /\ books[e.c.book].loan = e.loan

(* LoanCorrelationMismatchException: the loan is the book's current one,   *)
(* or its last completed one and no newer reservation exists, but the      *)
(* other facts differ.                                                     *)
ReturnRaises(e) ==
    /\ \/ ReturnApplies(e)
       \/ /\ books[e.c.book].status = "available"
          /\ books[e.c.book].last = e.loan
          /\ books[e.c.book].gen <= e.c.gen
    /\ ~MatchesReservation(e.c)

(* ReturnBookOnLoanCompleted: apply the return, or acknowledge a duplicate *)
(* or stale completion.  A correlation mismatch raises (no step).          *)
ReturnBookOnLoanCompleted(e) ==
    LET b == e.c.book
    IN  /\ Delivered(e, "LoanCompleted")
        /\ ~ReturnRaises(e)
        /\ IF ReturnApplies(e)
           THEN /\ TransitionAllowed(e.c, "borrowed")
                /\ books' = [books EXCEPT ![b] =
                               [@ EXCEPT !.status = "available", !.loan = None,
                                         !.last = e.loan, !.due = 0]]
                /\ ops' = [ops EXCEPT ![e.c.rid].status = "returned"]
                /\ events' = events \cup
                             {Event("CatalogBookReturned", e.c, e.loan, 0)}
           ELSE UNCHANGED <<books, ops, events>>
        /\ Acknowledge(e)
        /\ UNCHANGED <<loans, patrons, preflight, comps, emailed, crashes>>

-----------------------------------------------------------------------------
(* Notification worker, patron policy, crashes *)

EmailOnLoanCreated(e) ==
    /\ e \in events
    /\ e.kind = "LoanCreated"
    /\ emailed' = emailed \cup {e.loan}
    /\ UNCHANGED <<books, ops, loans, patrons, preflight, events, acked, comps,
                   crashes>>

(* SendLoanConfirmationEmail runs in its own consumer group, so its        *)
(* delivery is not ordered with the workflow worker's.                     *)
SendLoanConfirmationEmail(e) ==
    /\ e \in events
    /\ e.kind = "CatalogBookBorrowed"
    /\ emailed' = emailed \cup {e.loan}
    /\ UNCHANGED <<books, ops, loans, patrons, preflight, events, acked, comps,
                   crashes>>

SuspendPatron(p) ==
    /\ ~patrons[p].suspended
    /\ patrons' = [patrons EXCEPT ![p].suspended = TRUE]
    /\ UNCHANGED <<books, ops, loans, preflight, events, acked, comps, emailed,
                   crashes>>

ReinstatePatron(p) ==
    /\ patrons[p].suspended
    /\ patrons' = [patrons EXCEPT ![p].suspended = FALSE]
    /\ UNCHANGED <<books, ops, loans, preflight, events, acked, comps, emailed,
                   crashes>>

(* Patron.upgrade_tier only moves up the progression. *)
UpgradeTier(p, tier) ==
    /\ tier > patrons[p].tier
    /\ patrons' = [patrons EXCEPT ![p].tier = tier]
    /\ UNCHANGED <<books, ops, loans, preflight, events, acked, comps, emailed,
                   crashes>>

(* The worker dies between the two transactions of a handler; its event is *)
(* delivered again.                                                        *)
Crash(e) ==
    /\ e \in comps
    /\ crashes < MaxCrashes
    /\ crashes' = crashes + 1
    /\ comps' = comps \ {e}
    /\ UNCHANGED <<books, ops, loans, patrons, preflight, events, acked,
                   emailed>>

(* One handler attempt of the workflow worker up to its first commit. *)
Handle(e) ==
    \/ ReplayCreateLoan(e)
    \/ \E l \in LoanIds : CreateLoan(e, l)
    \/ RejectLoan(e)
    \/ ConfirmBorrow(e)
    \/ ReplayConfirm(e)
    \/ StaleConfirm(e)
    \/ CancelLoanOnBookReleased(e)
    \/ ReturnBookOnLoanCompleted(e)

Compensate(e) == CompensateByRelease(e) \/ CompensateByCancel(e)

Next ==
    \/ \E p \in Patrons : \/ PreflightBorrow(p)
                          \/ SuspendPatron(p)
                          \/ ReinstatePatron(p)
                          \/ \E t \in Tiers : UpgradeTier(p, t)
    \/ \E b \in Books, p \in Patrons : RejectBorrow(b, p)
    \/ \E b \in Books, p \in Patrons, r \in ReservationIds : BorrowBook(b, p, r)
    \/ \E S \in SUBSET Books : ReleaseExpiredReservations(S)
    \/ \E l \in LoanIds : ReturnLoan(l)
    \/ \E l \in LoanIds, d \in ExtensionDays : ExtendLoan(l, d)
    \/ \E e \in events : Handle(e) \/ SendLoanConfirmationEmail(e)
    \/ \E e \in comps : Compensate(e) \/ Crash(e)

Spec == Init /\ [][Next]_vars

(* The workflow worker keeps polling and retrying: each event of a         *)
(* reservation that is not acknowledged is attempted again, and a handler  *)
(* that stays alive reaches its second transaction.  The reaper is not     *)
(* needed for progress and gets no fairness.                               *)
Attempt(r, kind) ==
    \E e \in events \ acked : e.kind = kind /\ e.c.rid = r /\ Handle(e)

Finish(r, kind) ==
    \E e \in comps : e.kind = kind /\ e.c.rid = r /\ Compensate(e)

Fairness ==
    \A r \in ReservationIds :
      /\ \A kind \in {"CatalogBookReserved", "CatalogBookReleased",
                      "LoanCreated", "LoanCompleted"} :
           WF_vars(Attempt(r, kind))
      /\ \A kind \in {"CatalogBookReserved", "LoanCreated"} :
           WF_vars(Finish(r, kind))

FairSpec == Spec /\ Fairness

-----------------------------------------------------------------------------
(* Properties *)

Optional(S) == S \cup {None}

BookRows == [status : BookStatus, rid : Optional(ReservationIds), gen : Nat,
             patron : Optional(Patrons), loan : Optional(LoanIds),
             last : Optional(LoanIds), due : Nat]
OperationRows == [status : OperationStatus, c : Optional(Correlations)]
LoanRows == [status : LoanStatus, c : Optional(Correlations), due : Nat]

(* Every variable keeps its shape. *)
TypeOK ==
    /\ books \in [Books -> BookRows]
    /\ ops \in [ReservationIds -> OperationRows]
    /\ loans \in [LoanIds -> LoanRows]
    /\ patrons \in [Patrons -> [tier : Tiers, suspended : BOOLEAN]]
    /\ preflight \subseteq Patrons
    /\ events \subseteq Events
    /\ acked \subseteq events
    /\ comps \subseteq events
    /\ emailed \subseteq LoanIds
    /\ crashes \in Nat

(* A book that Catalog shows as borrowed is backed by exactly the loan of  *)
(* its current reservation, and that loan was never cancelled: no late or  *)
(* repeated LoanCreated, release or cancellation can separate the two      *)
(* contexts (Book.confirm_borrow, CancelLoanHandler).                      *)
BorrowedIsBacked ==
    \A b \in Books : books[b].status = "borrowed" =>
       \E l \in LoanIds : /\ books[b].loan = l
                          /\ loans[l].c = Correlation(b)
                          /\ loans[l].status \in {"active", "returned"}

(* The borrow_operations row a client polls tells the state of the book    *)
(* for the current reservation, and a superseded reservation is settled:   *)
(* at most one reservation of a book is ever open.                         *)
OperationTracksBook ==
    /\ \A b \in Books :
         /\ books[b].status \in {"reserved", "borrowed"} =>
              \E r \in ReservationIds :
                /\ books[b].rid = r
                /\ ops[r] = [status |-> books[b].status, c |-> Correlation(b)]
    /\ \A r \in ReservationIds : ops[r].status \in {"reserved", "borrowed"} =>
         ops[r].c = Correlation(ops[r].c.book)

(* Handling e would raise an exception that no retry can cure: the worker  *)
(* would retry the event forever and block its partition.                  *)
Wedged(e) ==
    \/ /\ e.kind \in {"CatalogBookReserved", "CatalogBookReleased", "LoanCreated"}
       /\ \E l \in LoanIds : LoanFor(e.c, l) /\ loans[l].c # e.c
    \/ /\ e.kind = "LoanCreated"
       /\ \E l \in LoanIds : LoanFor(e.c, l) /\ l # e.loan
    \/ /\ e.kind = "CatalogBookReserved"
       /\ MatchesReservation(e.c)
       /\ books[e.c.book].status = "reserved"
       /\ ~TransitionAllowed(e.c, "reserved")
    \/ /\ e.kind = "LoanCreated"
       /\ ConfirmApplies(e)
       /\ ~TransitionAllowed(e.c, "reserved")
    \/ /\ e.kind = "LoanCompleted"
       /\ \/ ReturnRaises(e)
          \/ ReturnApplies(e) /\ ~TransitionAllowed(e.c, "borrowed")

(* No committed event can ever wedge its partition: the correlation and    *)
(* transition exceptions of the handlers are unreachable, whatever was     *)
(* redelivered, reaped, returned early or extended before.                 *)
NoEventWedges == \A e \in events : ~Wedged(e)

Unacked(kind, r) == \E e \in events \ acked : e.kind = kind /\ e.c.rid = r

(* A reservation that is still open always has an unacknowledged event     *)
(* that will settle it; it never depends on the reaper alone.              *)
OpenReservationIsDriven ==
    \A r \in ReservationIds : ops[r].status = "reserved" =>
       \/ Unacked("CatalogBookReserved", r)
       \/ Unacked("LoanCreated", r)

(* An outstanding loan whose reservation was released still has an event   *)
(* that will cancel it: no loan is left counting against a patron's limit  *)
(* for a book the patron does not hold.                                    *)
StaleLoanIsDriven ==
    \A l \in LoanIds : Outstanding(l) =>
       LET r == loans[l].c.rid
       IN  \/ ops[r].status \in {"reserved", "borrowed"}
           \/ Unacked("CatalogBookReleased", r)
           \/ Unacked("LoanCreated", r)

(* A book shown as borrowed although its loan was returned still has the   *)
(* completion coming: LoanCompleted is never consumed before the borrow it *)
(* ends was confirmed.                                                     *)
ReturnIsDriven ==
    \A b \in Books : \A l \in LoanIds :
       /\ books[b].status = "borrowed"
       /\ books[b].loan = l
       /\ loans[l].status = "returned"
       => Unacked("LoanCompleted", loans[l].c.rid)

(* Whatever is unfinished has an event ahead that finishes it: no crash,   *)
(* redelivery or early return strands an open reservation, the loan of a   *)
(* released one or a returned loan.                                        *)
NothingIsStranded == OpenReservationIsDriven /\ StaleLoanIsDriven /\ ReturnIsDriven

(* No patron holds more outstanding loans than the tier allows. *)
LimitRespected ==
    \A p \in Patrons :
       Cardinality(OutstandingFor(p)) <= MaxOutstanding[patrons[p].tier]

(* A reservation has one loan and a book one outstanding loan. *)
LoansAreUnique ==
    \A k, l \in LoanIds :
       /\ loans[k].status # "none"
       /\ loans[l].status # "none"
       /\ \/ loans[k].c.rid = loans[l].c.rid
          \/ Outstanding(k) /\ Outstanding(l) /\ loans[k].c.book = loans[l].c.book
       => k = l

(* A borrow that was cancelled never sent a confirmation email, and a loan *)
(* whose email went out is never cancelled afterwards.                     *)
EmailedIsFinal == \A l \in emailed : loans[l].status \in {"active", "returned"}

(* Every open reservation is settled, without the reaper. *)
ReservationSettles ==
    \A r \in ReservationIds :
       ops[r].status = "reserved" ~> ops[r].status # "reserved"

(* A loan whose reservation was released is eventually closed. *)
StaleLoanCloses ==
    \A l \in LoanIds :
       (Outstanding(l) /\ ops[loans[l].c.rid].status = "released")
          ~> loans[l].status \in {"returned", "cancelled"}

(* A returned loan eventually frees its book for good. *)
ReturnFreesBook ==
    \A l \in LoanIds :
       loans[l].status = "returned"
          ~> [](\A b \in Books : books[b].loan # l)

-----------------------------------------------------------------------------
(* The workflow as an implementation of Circulation: Catalog's side of a   *)
(* reservation is its operation row, Lending's side the loan that carries  *)
(* the reservation id.                                                     *)
HasLoan(r) == \E l \in LoanIds : loans[l].status # "none" /\ loans[l].c.rid = r

LoanOf(r) == CHOOSE l \in LoanIds : loans[l].status # "none" /\ loans[l].c.rid = r

PhaseOf == [r \in ReservationIds |-> ops[r].status]

TitleOf == [r \in ReservationIds |-> IF ops[r].status = "none" THEN None
                                                          ELSE ops[r].c.book]

FateOf == [r \in ReservationIds |-> IF HasLoan(r) THEN loans[LoanOf(r)].status
                                                  ELSE "none"]

Desk == INSTANCE Circulation WITH phase <- PhaseOf, title <- TitleOf,
                                  fate <- FateOf

(* Every step of the workflow, redeliveries and compensations included, is *)
(* a step of Circulation or invisible there: Catalog and Lending can only  *)
(* settle a reservation the same way.                                      *)
ImplementsCirculation == Desk!Spec
=============================================================================
