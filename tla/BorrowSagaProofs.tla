-------------------------- MODULE BorrowSagaProofs --------------------------
(***************************************************************************)
(* Proofs about the borrow workflow, for any number of books, patrons,     *)
(* reservations and loans.                                                 *)
(***************************************************************************)
EXTENDS BorrowSaga, FiniteSetTheorems, TLAPS

(* The operation rows: each carries the facts of its own reservation, the  *)
(* generation of a book only grows, and a superseded row is settled.       *)
OpsInv ==
    \A r \in ReservationIds : ops[r].status # "none" =>
      /\ ops[r].c \in Correlations
      /\ ops[r].c.rid = r
      /\ ops[r].c.gen <= books[ops[r].c.book].gen
      /\ ops[r].c.gen = books[ops[r].c.book].gen =>
           books[ops[r].c.book].rid = r
      /\ books[ops[r].c.book].rid # r =>
           ops[r].status \in {"released", "returned"}
      /\ ops[r].status \in {"borrowed", "returned"} => HasLoan(r)

(* A book and the operation row of its current reservation agree. *)
BooksInv ==
    \A b \in Books :
      /\ books[b].rid = None => books[b].status = "available"
      /\ books[b].rid # None =>
           /\ ops[books[b].rid].status # "none"
           /\ ops[books[b].rid].c = Correlation(b)
           /\ books[b].status = "reserved" <=> ops[books[b].rid].status = "reserved"
           /\ books[b].status = "borrowed" <=> ops[books[b].rid].status = "borrowed"
      /\ books[b].status # "borrowed" => books[b].loan = None
      /\ books[b].status = "borrowed" =>
           /\ books[b].loan \in LoanIds
           /\ loans[books[b].loan].status # "none"
           /\ loans[books[b].loan].c = Correlation(b)

(* A loan carries the facts of its reservation and settles like it. *)
LoansInv ==
    \A l \in LoanIds : loans[l].status # "none" =>
      /\ loans[l].c \in Correlations
      /\ ops[loans[l].c.rid].status # "none"
      /\ ops[loans[l].c.rid].c = loans[l].c
      /\ loans[l].status = "cancelled" => ops[loans[l].c.rid].status = "released"
      /\ ops[loans[l].c.rid].status = "returned" => loans[l].status = "returned"
      /\ \E e \in events : e.kind = "LoanCreated" /\ e.loan = l
      /\ loans[l].status = "returned" =>
           \E e \in events : e.kind = "LoanCompleted" /\ e.loan = l

(* Every event states facts of its reservation, and of its loan. *)
EventsInv ==
    \A e \in events :
      /\ ops[e.c.rid].status # "none"
      /\ ops[e.c.rid].c = e.c
      /\ e.kind = "CatalogBookReleased" => ops[e.c.rid].status = "released"
      /\ e.kind = "CatalogBookBorrowed" =>
           ops[e.c.rid].status \in {"borrowed", "returned"}
      /\ e.kind \in {"LoanCreated", "LoanCompleted", "CatalogBookBorrowed"} =>
           /\ e.loan \in LoanIds
           /\ loans[e.loan].status # "none"
           /\ loans[e.loan].c = e.c
      /\ e.kind = "LoanCompleted" => loans[e.loan].status = "returned"

(* The due date Catalog confirmed is the one every LoanCreated of the loan *)
(* carries, however often the loan was extended.                           *)
DueInv ==
    \A e \in events : e.kind = "LoanCreated" =>
      /\ \A f \in events :
           f.kind = "LoanCreated" /\ f.loan = e.loan => f.due = e.due
      /\ books[e.c.book].status = "borrowed" /\ books[e.c.book].loan = e.loan =>
           books[e.c.book].due = e.due

(* What an acknowledgement or a pending compensation implies. *)
DeliveryInv ==
    /\ \A r \in ReservationIds : ops[r].status = "reserved" =>
         \E e \in events : e.kind = "CatalogBookReserved" /\ e.c.rid = r
    /\ \A e \in acked :
         /\ e.kind = "CatalogBookReserved" =>
              ops[e.c.rid].status # "reserved" \/ HasLoan(e.c.rid)
         /\ e.kind = "LoanCreated" =>
              /\ ops[e.c.rid].status # "reserved"
              /\ ops[e.c.rid].status = "released" => ~Outstanding(e.loan)
         /\ e.kind = "LoanCompleted" =>
              ops[e.c.rid].status \notin {"reserved", "borrowed"}
    /\ \A e \in comps :
         /\ e.kind \in {"CatalogBookReserved", "LoanCreated"}
         /\ e.kind = "LoanCreated" =>
              ops[e.c.rid].status \in {"released", "returned"}

EmailInv ==
    \A l \in emailed :
      /\ loans[l].status # "none"
      /\ ops[loans[l].c.rid].status \in {"borrowed", "returned"}

LimitInv ==
    \A p \in Patrons :
      /\ IsFiniteSet(OutstandingFor(p))
      /\ Cardinality(OutstandingFor(p)) <= MaxOutstanding[patrons[p].tier]

(* The inductive invariant. *)
SagaInv ==
    /\ TypeOK
    /\ OpsInv
    /\ BooksInv
    /\ LoansInv
    /\ LoansAreUnique
    /\ EventsInv
    /\ DueInv
    /\ DeliveryInv
    /\ EmailInv
    /\ LimitInv

-----------------------------------------------------------------------------
USE DEF BookRows, OperationRows, LoanRows

(* The initial states satisfy the invariant: nothing exists yet. *)
LEMMA SagaInit == Init => SagaInv
<1> SUFFICES ASSUME Init PROVE SagaInv
  OBVIOUS
<1>1. TypeOK
  BY DEF Init, TypeOK, BookStatus, OperationStatus, LoanStatus, Optional
<1>2. OpsInv /\ BooksInv /\ LoansInv
  BY DEF Init, OpsInv, BooksInv, LoansInv
<1>3. LoansAreUnique
  BY DEF Init, LoansAreUnique
<1>4. EventsInv /\ DueInv /\ DeliveryInv /\ EmailInv
  BY DEF Init, EventsInv, DueInv, DeliveryInv, EmailInv
<1>5. LimitInv
  <2> SUFFICES ASSUME NEW p \in Patrons
               PROVE  /\ IsFiniteSet(OutstandingFor(p))
                      /\ Cardinality(OutstandingFor(p)) <= MaxOutstanding[patrons[p].tier]
    BY DEF LimitInv
  <2>1. OutstandingFor(p) = {}
    BY DEF Init, OutstandingFor, Outstanding
  <2>2. MaxOutstanding[patrons[p].tier] \in Nat
    BY PolicyAssumption DEF Init
  <2> QED
    BY <2>1, <2>2, FS_EmptySet
<1> QED
  BY <1>1, <1>2, <1>3, <1>4, <1>5 DEF SagaInv

(* Reserving a book (BorrowBookHandler) preserves the invariant. *)
LEMMA BorrowBookStep ==
  ASSUME SagaInv, NEW b \in Books, NEW p \in Patrons, NEW r \in ReservationIds,
         BorrowBook(b, p, r)
  PROVE  SagaInv'
<1> DEFINE c == [book |-> b, rid |-> r, gen |-> books[b].gen + 1, patron |-> p]
<1> DEFINE e == Event("CatalogBookReserved", c, None, 0)
<1>1. c \in Correlations /\ e \in Events /\ e.kind = "CatalogBookReserved" /\ e.c = c
  BY DEF SagaInv, TypeOK, Correlations, Event, Events, EventKinds
<1>2. /\ books[b].status = "available"
      /\ ops[r].status = "none"
      /\ books' = [books EXCEPT ![b] =
                     [status |-> "reserved", rid |-> r, gen |-> c.gen,
                      patron |-> p, loan |-> None, last |-> books[b].last,
                      due |-> 0]]
      /\ ops' = [ops EXCEPT ![r] = [status |-> "reserved", c |-> c]]
      /\ preflight' = preflight \ {p}
      /\ events' = events \cup {e}
      /\ UNCHANGED <<loans, patrons, acked, comps, emailed, crashes>>
  BY DEF BorrowBook, Available, NextGeneration
<1> HIDE DEF e, c
<1>3. TypeOK'
  BY <1>1, <1>2 DEF SagaInv, TypeOK, BookStatus, OperationStatus, Optional, Correlations
<1>4. OpsInv'
  BY <1>1, <1>2, NoneAssumption DEF SagaInv, TypeOK, OpsInv, BooksInv, Correlations, c, Optional,
     OperationStatus, HasLoan
<1>5. BooksInv'
  BY <1>1, <1>2, NoneAssumption DEF SagaInv, TypeOK, OpsInv, BooksInv, LoansInv, Correlation, Correlations, c, Optional
<1>6. LoansInv'
  BY <1>1, <1>2 DEF SagaInv, TypeOK, LoansInv, Correlations
<1>7. LoansAreUnique'
  BY <1>2 DEF SagaInv, LoansAreUnique, Outstanding
<1>8. EventsInv'
  BY <1>1, <1>2 DEF SagaInv, TypeOK, EventsInv, Correlations, c, Events
<1>9. DueInv'
  BY <1>1, <1>2 DEF SagaInv, TypeOK, EventsInv, DueInv, Events, Correlations
<1>10. DeliveryInv'
  BY <1>1, <1>2 DEF SagaInv, TypeOK, EventsInv, DeliveryInv, Events, Correlations, HasLoan, Outstanding, c
<1>11. EmailInv'
  BY <1>1, <1>2 DEF SagaInv, TypeOK, EmailInv, LoansInv, Correlations
<1>12. LimitInv'
  BY <1>2 DEF SagaInv, LimitInv, OutstandingFor, Outstanding
<1> QED
  BY <1>3, <1>4, <1>5, <1>6, <1>7, <1>8, <1>9, <1>10, <1>11, <1>12 DEF SagaInv

(* A higher tier never has a lower limit, the same tier included. *)
LEMMA TierMonotone ==
  ASSUME NEW t \in Tiers, NEW u \in Tiers, u >= t
  PROVE  MaxOutstanding[t] <= MaxOutstanding[u]
<1>1. t \in Nat /\ u \in Nat
  BY TiersAssumption
<1>2. MaxOutstanding[t] \in Nat
  BY PolicyAssumption
<1>3. CASE t = u
  BY <1>2, <1>3
<1>4. CASE t < u
  BY <1>4, PolicyAssumption
<1> QED
  BY <1>1, <1>3, <1>4

(* The operation row of a book's current reservation moves on, the book    *)
(* keeping its reservation and generation: OpsInv needs only the loan.     *)
LEMMA OperationMoves ==
  ASSUME OpsInv, NEW r \in ReservationIds, UNCHANGED loans,
         \A s \in ReservationIds : /\ ops'[s].c = ops[s].c
                                   /\ s # r => ops'[s] = ops[s],
         \A a \in Books : /\ books'[a].rid = books[a].rid
                          /\ books'[a].gen = books[a].gen,
         ops[r].status # "none", books[ops[r].c.book].rid = r, HasLoan(r)
  PROVE  OpsInv'
<1> SUFFICES ASSUME NEW s \in ReservationIds, ops'[s].status # "none"
             PROVE  OpsInv!(s)!2'
  BY DEF OpsInv
<1>1. ops[s].status # "none"
  OBVIOUS
<1>2. OpsInv!(s)!2
  BY <1>1 DEF OpsInv
<1>3. ops[s].c.book \in Books
  BY <1>2 DEF Correlations
<1>4. /\ books'[ops[s].c.book].rid = books[ops[s].c.book].rid
      /\ books'[ops[s].c.book].gen = books[ops[s].c.book].gen
      /\ ops'[s].c = ops[s].c
  BY <1>3
<1>5. HasLoan(s)' <=> HasLoan(s)
  BY DEF HasLoan
<1>6. CASE s = r
  BY <1>2, <1>4, <1>5, <1>6
<1>7. CASE s # r
  BY <1>2, <1>4, <1>5, <1>7
<1> QED
  BY <1>6, <1>7

(* A loan changes status or due date: books and operation rows only look   *)
(* at whether the loan exists and at its facts.                            *)
LEMMA LoanMoves ==
  ASSUME SagaInv, UNCHANGED <<books, ops>>,
         \A l \in LoanIds : loans'[l].c = loans[l].c,
         \A l \in LoanIds : loans'[l].status # "none" <=> loans[l].status # "none"
  PROVE  OpsInv' /\ BooksInv'
<1>1. \A r \in ReservationIds : HasLoan(r)' <=> HasLoan(r)
  BY DEF HasLoan
<1>2. OpsInv'
  BY <1>1 DEF SagaInv, OpsInv
<1>3. BooksInv'
  <2>1. \A b \in Books : Correlation(b)' = Correlation(b)
    BY DEF Correlation
  <2> QED
    BY <2>1 DEF SagaInv, BooksInv
<1> QED
  BY <1>2, <1>3

(* Nothing but deliveries, emails and patron policy changes. *)
LEMMA RowsKept ==
  ASSUME SagaInv, UNCHANGED <<books, ops, loans, events>>
  PROVE  OpsInv' /\ BooksInv' /\ LoansInv' /\ LoansAreUnique' /\ EventsInv' /\ DueInv'
<1>1. OpsInv' /\ BooksInv'
  BY LoanMoves
<1>2. LoansInv'
  BY DEF SagaInv, LoansInv
<1>3. LoansAreUnique'
  BY DEF SagaInv, LoansAreUnique, Outstanding
<1>4. EventsInv'
  BY DEF SagaInv, EventsInv
<1>5. DueInv'
  BY DEF SagaInv, DueInv
<1> QED
  BY <1>1, <1>2, <1>3, <1>4, <1>5

(* Steps that leave books, operations, loans and events alone, and neither *)
(* acknowledge an event nor start a compensation: requests, patron policy, *)
(* crashes.                                                                *)
LEMMA QuietStep ==
  ASSUME SagaInv, UNCHANGED <<books, ops, loans, events, acked, emailed>>,
         comps' \subseteq comps, preflight' \subseteq Patrons, crashes' \in Nat,
         patrons' \in [Patrons -> [tier : Tiers, suspended : BOOLEAN]],
         \A p \in Patrons : patrons'[p].tier >= patrons[p].tier
  PROVE  SagaInv'
<1>1. TypeOK'
  BY DEF SagaInv, TypeOK
<1>2. OpsInv' /\ BooksInv' /\ LoansInv' /\ LoansAreUnique' /\ EventsInv' /\ DueInv'
  BY RowsKept
<1>3. DeliveryInv' /\ EmailInv'
  BY DEF SagaInv, DeliveryInv, EmailInv, HasLoan, Outstanding
<1>4. LimitInv'
  <2> SUFFICES ASSUME NEW p \in Patrons
               PROVE  /\ IsFiniteSet(OutstandingFor(p)')
                      /\ Cardinality(OutstandingFor(p)') <= MaxOutstanding[patrons'[p].tier]
    BY DEF LimitInv
  <2>1. OutstandingFor(p)' = OutstandingFor(p)
    BY DEF OutstandingFor, Outstanding
  <2>2. /\ IsFiniteSet(OutstandingFor(p))
        /\ Cardinality(OutstandingFor(p)) <= MaxOutstanding[patrons[p].tier]
    BY DEF SagaInv, LimitInv
  <2>3. Cardinality(OutstandingFor(p)) \in Nat
    BY <2>2, FS_CardinalityType
  <2>4. patrons[p].tier \in Tiers /\ patrons'[p].tier \in Tiers
    BY DEF SagaInv, TypeOK
  <2>5. MaxOutstanding[patrons[p].tier] <= MaxOutstanding[patrons'[p].tier]
    BY <2>4, TierMonotone
  <2> QED
    BY <2>1, <2>2, <2>3, <2>4, <2>5, PolicyAssumption
<1> QED
  BY <1>1, <1>2, <1>3, <1>4 DEF SagaInv

(* The confirmation email goes out for a confirmed borrow. *)
LEMMA EmailStep ==
  ASSUME SagaInv, NEW e \in events, SendLoanConfirmationEmail(e)
  PROVE  SagaInv'
<1> USE DEF SendLoanConfirmationEmail
<1>1. TypeOK'
  BY DEF SagaInv, TypeOK, EventsInv
<1>2. OpsInv' /\ BooksInv' /\ LoansInv' /\ LoansAreUnique' /\ EventsInv' /\ DueInv'
  BY RowsKept
<1>3. DeliveryInv' /\ LimitInv'
  BY DEF SagaInv, DeliveryInv, LimitInv, HasLoan, Outstanding, OutstandingFor
<1>4. EmailInv'
  BY DEF SagaInv, EmailInv, EventsInv
<1> QED
  BY <1>1, <1>2, <1>3, <1>4 DEF SagaInv

(* Acknowledging an event, or starting its compensation, without another   *)
(* change.                                                                 *)
LEMMA AckStep ==
  ASSUME SagaInv, UNCHANGED <<books, ops, loans, patrons, preflight, events,
                              emailed, crashes>>,
         acked' \subseteq events, comps' \subseteq events, DeliveryInv'
  PROVE  SagaInv'
<1>1. TypeOK'
  BY DEF SagaInv, TypeOK
<1>2. OpsInv' /\ BooksInv' /\ LoansInv' /\ LoansAreUnique' /\ EventsInv' /\ DueInv'
  BY RowsKept
<1>3. EmailInv' /\ LimitInv'
  BY DEF SagaInv, EmailInv, LimitInv, Outstanding, OutstandingFor
<1> QED
  BY <1>1, <1>2, <1>3 DEF SagaInv

(* A redelivered reservation finds the loan it opened. *)
LEMMA ReplayCreateLoanStep ==
  ASSUME SagaInv, NEW e \in events, ReplayCreateLoan(e)
  PROVE  SagaInv'
<1>1. DeliveryInv'
  BY DEF SagaInv, DeliveryInv, ReplayCreateLoan, Delivered, LoanFor, HasLoan,
         Acknowledge, Outstanding
<1> QED
  BY <1>1, AckStep DEF ReplayCreateLoan, Acknowledge, SagaInv, TypeOK

(* A rejection only starts the compensation of its event. *)
LEMMA RejectLoanStep ==
  ASSUME SagaInv, NEW e \in events, RejectLoan(e)
  PROVE  SagaInv'
<1>1. DeliveryInv'
  BY DEF SagaInv, DeliveryInv, RejectLoan, Delivered, HasLoan, Outstanding
<1> QED
  BY <1>1, AckStep DEF RejectLoan, SagaInv, TypeOK

(* An exact replay of a confirmation finds the book borrowed. *)
LEMMA ReplayConfirmStep ==
  ASSUME SagaInv, NEW e \in events, ReplayConfirm(e)
  PROVE  SagaInv'
<1>1. e.c \in Correlations
  BY DEF SagaInv, TypeOK, Events
<1>2. ops[e.c.rid].status = "borrowed"
  BY <1>1, NoneAssumption DEF ReplayConfirm, ConfirmReplayed, MatchesReservation, SagaInv, BooksInv,
            Correlations
<1>3. DeliveryInv'
  BY <1>2 DEF SagaInv, DeliveryInv, ReplayConfirm, Delivered, HasLoan,
              Acknowledge, Outstanding
<1> QED
  BY <1>3, AckStep DEF ReplayConfirm, Acknowledge, SagaInv, TypeOK

(* A confirmation is stale only when the reservation was released or the   *)
(* book returned: being stale is final.                                    *)
LEMMA StaleIsFinal ==
  ASSUME SagaInv, NEW e \in events, e.kind = "LoanCreated",
         ~ConfirmApplies(e), ~ConfirmReplayed(e)
  PROVE  ops[e.c.rid].status \in {"released", "returned"}
<1> DEFINE r == e.c.rid
<1> DEFINE b == e.c.book
<1>1. /\ e.c \in Correlations /\ r \in ReservationIds /\ b \in Books
      /\ ops[r].status # "none" /\ ops[r].c = e.c
      /\ e.loan \in LoanIds /\ loans[e.loan].status # "none" /\ loans[e.loan].c = e.c
  BY DEF SagaInv, TypeOK, Events, EventsInv, Correlations
<1>2. ops[r].status # "reserved"
  <2>1. SUFFICES ASSUME ops[r].status = "reserved" PROVE FALSE
    OBVIOUS
  <2>2. books[b].rid = r
    BY <1>1, <2>1 DEF SagaInv, OpsInv
  <2>3. books[b].status = "reserved" /\ Correlation(b) = e.c /\ books[b].loan = None
    BY <1>1, <2>1, <2>2, NoneAssumption DEF SagaInv, BooksInv
  <2> QED
    BY <2>3 DEF Correlation, Correlations, ConfirmApplies, MatchesReservation
<1>3. ops[r].status # "borrowed"
  <2>1. SUFFICES ASSUME ops[r].status = "borrowed" PROVE FALSE
    OBVIOUS
  <2>2. books[b].rid = r
    BY <1>1, <2>1 DEF SagaInv, OpsInv
  <2>3. /\ books[b].status = "borrowed" /\ Correlation(b) = e.c
        /\ books[b].loan \in LoanIds /\ loans[books[b].loan].status # "none"
        /\ loans[books[b].loan].c = e.c
    BY <1>1, <2>1, <2>2, NoneAssumption DEF SagaInv, BooksInv
  <2>4. books[b].loan = e.loan
    BY <1>1, <2>3 DEF SagaInv, LoansAreUnique
  <2>5. books[b].due = e.due
    BY <2>3, <2>4 DEF SagaInv, DueInv
  <2> QED
    BY <2>3, <2>4, <2>5 DEF Correlation, ConfirmReplayed, MatchesReservation
<1> QED
  BY <1>1, <1>2, <1>3 DEF SagaInv, TypeOK, OperationStatus

(* A stale confirmation only starts the compensation of its event. *)
LEMMA StaleConfirmStep ==
  ASSUME SagaInv, NEW e \in events, StaleConfirm(e)
  PROVE  SagaInv'
<1>1. ops[e.c.rid].status \in {"released", "returned"}
  BY StaleIsFinal DEF StaleConfirm, Delivered
<1>2. DeliveryInv'
  BY <1>1 DEF SagaInv, DeliveryInv, StaleConfirm, Delivered, HasLoan, Outstanding
<1> QED
  BY <1>2, AckStep DEF StaleConfirm, SagaInv, TypeOK

(* Opening the loan of a reservation (CreateLoanHandler): the limit holds  *)
(* afterwards because the patron was strictly below it.                    *)
LEMMA CreateLoanStep ==
  ASSUME SagaInv, NEW e \in events, NEW l \in LoanIds, CreateLoan(e, l)
  PROVE  SagaInv'
<1> DEFINE due == LoanDays[patrons[e.c.patron].tier]
<1> DEFINE f == Event("LoanCreated", e.c, l, due)
<1>1. /\ e.kind = "CatalogBookReserved"
      /\ e.c \in Correlations /\ e.c.rid \in ReservationIds /\ e.c.book \in Books
      /\ e.c.patron \in Patrons
      /\ ops[e.c.rid].status # "none" /\ ops[e.c.rid].c = e.c
  BY DEF SagaInv, TypeOK, Events, EventsInv, Correlations, CreateLoan, Delivered
<1>2. due \in Nat /\ f \in Events
  BY <1>1, DaysAssumption DEF SagaInv, TypeOK, Event, Events, EventKinds
<1>3. f.kind = "LoanCreated" /\ f.c = e.c /\ f.loan = l /\ f.due = due
  BY DEF Event
<1>4. /\ \A k \in LoanIds : loans[k].status # "none" => loans[k].c.rid # e.c.rid
      /\ \A k \in LoanIds : Outstanding(k) => loans[k].c.book # e.c.book
      /\ Cardinality(OutstandingFor(e.c.patron)) < MaxOutstanding[patrons[e.c.patron].tier]
      /\ loans[l].status = "none"
      /\ loans' = [loans EXCEPT ![l] = [status |-> "active", c |-> e.c, due |-> due]]
      /\ events' = events \cup {f}
      /\ acked' = acked \cup {e}
      /\ UNCHANGED <<books, ops, patrons, preflight, comps, emailed, crashes>>
  BY DEF CreateLoan, LoanFor, Admitted, Acknowledge
<1> HIDE DEF f, due
<1>5. TypeOK'
  BY <1>1, <1>2, <1>4 DEF SagaInv, TypeOK, LoanStatus, Optional
<1>6. OpsInv'
  BY <1>4 DEF SagaInv, TypeOK, OpsInv, HasLoan
<1>7. BooksInv'
  BY <1>4 DEF SagaInv, TypeOK, BooksInv, Correlation
<1>8. ops[e.c.rid].status # "returned" /\ ops[e.c.rid].status # "borrowed"
  BY <1>1, <1>4 DEF SagaInv, OpsInv, HasLoan
<1>9. LoansInv'
  BY <1>1, <1>3, <1>4, <1>8 DEF SagaInv, TypeOK, LoansInv
<1>10. LoansAreUnique'
  BY <1>1, <1>4 DEF SagaInv, TypeOK, LoansAreUnique, Outstanding
<1>11. EventsInv'
  BY <1>1, <1>3, <1>4 DEF SagaInv, TypeOK, EventsInv
<1>12. DueInv'
  BY <1>1, <1>3, <1>4 DEF SagaInv, TypeOK, EventsInv, DueInv, BooksInv
<1>13. DeliveryInv'
  BY <1>1, <1>3, <1>4 DEF SagaInv, TypeOK, EventsInv, DeliveryInv, HasLoan, Outstanding
<1>14. EmailInv'
  BY <1>4 DEF SagaInv, TypeOK, EmailInv
<1>15. LimitInv'
  <2> SUFFICES ASSUME NEW p \in Patrons
               PROVE  /\ IsFiniteSet(OutstandingFor(p)')
                      /\ Cardinality(OutstandingFor(p)') <= MaxOutstanding[patrons[p].tier]
    BY <1>4 DEF LimitInv
  <2>1. /\ IsFiniteSet(OutstandingFor(p))
        /\ Cardinality(OutstandingFor(p)) <= MaxOutstanding[patrons[p].tier]
        /\ Cardinality(OutstandingFor(p)) \in Nat
        /\ MaxOutstanding[patrons[p].tier] \in Nat
    BY FS_CardinalityType, PolicyAssumption DEF SagaInv, LimitInv, TypeOK
  <2>2. CASE p = e.c.patron
    <3>1. OutstandingFor(p)' = OutstandingFor(p) \cup {l} /\ l \notin OutstandingFor(p)
      BY <1>1, <1>4, <2>2 DEF SagaInv, TypeOK, OutstandingFor, Outstanding
    <3>2. /\ IsFiniteSet(OutstandingFor(p) \cup {l})
          /\ Cardinality(OutstandingFor(p) \cup {l}) = Cardinality(OutstandingFor(p)) + 1
      BY <2>1, <3>1, FS_AddElement
    <3>3. Cardinality(OutstandingFor(p)) < MaxOutstanding[patrons[p].tier]
      BY <1>4, <2>2
    <3> QED
      BY <2>1, <3>1, <3>2, <3>3
  <2>3. CASE p # e.c.patron
    <3>1. OutstandingFor(p)' = OutstandingFor(p)
      BY <1>1, <1>4, <2>3 DEF SagaInv, TypeOK, OutstandingFor, Outstanding
    <3> QED
      BY <2>1, <3>1
  <2> QED
    BY <2>2, <2>3
<1> QED
  BY <1>5, <1>6, <1>7, <1>9, <1>10, <1>11, <1>12, <1>13, <1>14, <1>15 DEF SagaInv

(* Closing loans never raises the number of outstanding ones. *)
LEMMA LimitKept ==
  ASSUME SagaInv, UNCHANGED patrons,
         \A p \in Patrons : OutstandingFor(p)' \subseteq OutstandingFor(p)
  PROVE  LimitInv'
<1> SUFFICES ASSUME NEW p \in Patrons
             PROVE  /\ IsFiniteSet(OutstandingFor(p)')
                    /\ Cardinality(OutstandingFor(p)') <= MaxOutstanding[patrons[p].tier]
  BY DEF LimitInv
<1>1. /\ IsFiniteSet(OutstandingFor(p))
      /\ Cardinality(OutstandingFor(p)) <= MaxOutstanding[patrons[p].tier]
      /\ Cardinality(OutstandingFor(p)) \in Nat
      /\ MaxOutstanding[patrons[p].tier] \in Nat
  BY FS_CardinalityType, PolicyAssumption DEF SagaInv, LimitInv, TypeOK
<1>2. /\ IsFiniteSet(OutstandingFor(p)')
      /\ Cardinality(OutstandingFor(p)') <= Cardinality(OutstandingFor(p))
  BY <1>1, FS_Subset
<1>3. Cardinality(OutstandingFor(p)') \in Nat
  BY <1>2, FS_CardinalityType
<1> QED
  BY <1>1, <1>2, <1>3

(* Releasing a set of reservations, by a compensation or by the reaper.    *)
LEMMA ReleaseStep ==
  ASSUME SagaInv, NEW S, S \subseteq Books, ReleaseBooks(S),
         UNCHANGED <<loans, patrons, preflight, emailed, crashes>>,
         comps' \subseteq comps, acked \subseteq acked', acked' \subseteq events,
         \A e \in acked' : e \in acked \/ /\ e.kind = "CatalogBookReserved"
                                           /\ ops'[e.c.rid].status # "reserved"
  PROVE  SagaInv'
<1> DEFINE E(b) == Event("CatalogBookReleased", Correlation(b), None, 0)
<1> DEFINE R == {books[b].rid : b \in S}
<1>1. \A b \in S : /\ books[b].status = "reserved"
                   /\ books[b].rid \in ReservationIds
                   /\ Correlation(b) \in Correlations
                   /\ ops[books[b].rid].c = Correlation(b)
                   /\ ops[books[b].rid].status = "reserved"
  BY DEF SagaInv, TypeOK, BooksInv, OpsInv, Optional, ReleaseBooks
<1>2. \A b \in S : /\ E(b) \in Events /\ E(b).kind = "CatalogBookReleased"
                   /\ E(b).c = Correlation(b) /\ E(b).c.rid = books[b].rid
  BY <1>1 DEF Event, Events, EventKinds, Correlation
<1>3. /\ books' = [b \in Books |-> IF b \in S
                                   THEN [books[b] EXCEPT !.status = "available",
                                                         !.due = 0]
                                   ELSE books[b]]
      /\ ops' = [r \in ReservationIds |-> IF r \in R
                   THEN [ops[r] EXCEPT !.status = "released"] ELSE ops[r]]
      /\ events' = events \cup {E(b) : b \in S}
  BY DEF ReleaseBooks, ReleasedBooks
<1>4. \A r \in R : r \in ReservationIds /\ ops[r].status = "reserved"
  BY <1>1
<1>5. \A b \in Books : books[b].rid \in R => b \in S
  <2> SUFFICES ASSUME NEW b \in Books, NEW a \in S, books[b].rid = books[a].rid
               PROVE  b = a
    OBVIOUS
  <2>1. ops[books[b].rid].c = Correlation(b)
    BY <1>1, NoneAssumption DEF SagaInv, BooksInv
  <2>2. Correlation(b).book = b /\ Correlation(a).book = a
    BY DEF Correlation
  <2> QED
    BY <1>1, <2>1, <2>2
<1>6. \A r \in ReservationIds :
         /\ ops'[r].c = ops[r].c
         /\ r \in R => ops'[r].status = "released"
         /\ r \notin R => ops'[r].status = ops[r].status
         /\ ops'[r].status # "none" <=> ops[r].status # "none"
  <2> SUFFICES ASSUME NEW r \in ReservationIds
               PROVE  /\ ops'[r].c = ops[r].c
                      /\ r \in R => ops'[r].status = "released"
                      /\ r \notin R => ops'[r].status = ops[r].status
                      /\ ops'[r].status # "none" <=> ops[r].status # "none"
    OBVIOUS
  <2> HIDE DEF R
  <2>1. ops[r] \in OperationRows
    BY DEF SagaInv, TypeOK
  <2>2. CASE r \in R
    BY <1>3, <1>4, <2>1, <2>2
  <2>3. CASE r \notin R
    BY <1>3, <2>3
  <2> QED
    BY <2>2, <2>3
<1>7. \A b \in Books :
         /\ books'[b].rid = books[b].rid /\ books'[b].gen = books[b].gen
         /\ books'[b].patron = books[b].patron /\ books'[b].loan = books[b].loan
         /\ b \in S => books'[b].status = "available"
         /\ b \notin S => books'[b] = books[b]
         /\ Correlation(b)' = Correlation(b)
  <2> SUFFICES ASSUME NEW b \in Books
               PROVE  /\ books'[b].rid = books[b].rid /\ books'[b].gen = books[b].gen
                      /\ books'[b].patron = books[b].patron
                      /\ books'[b].loan = books[b].loan
                      /\ b \in S => books'[b].status = "available"
                      /\ b \notin S => books'[b] = books[b]
    BY DEF Correlation
  <2>1. books[b] \in BookRows
    BY DEF SagaInv, TypeOK
  <2>2. CASE b \in S
    BY <1>3, <2>1, <2>2
  <2>3. CASE b \notin S
    BY <1>3, <2>3
  <2> QED
    BY <2>2, <2>3
<1>8. \A e \in events' : e \in events \/ /\ e.kind = "CatalogBookReleased"
                                         /\ e.c \in Correlations
                                         /\ e.c.rid \in R
                                         /\ ops[e.c.rid].c = e.c
  <2> SUFFICES ASSUME NEW b \in S
               PROVE  /\ E(b).kind = "CatalogBookReleased"
                      /\ E(b).c \in Correlations
                      /\ E(b).c.rid \in R
                      /\ ops[E(b).c.rid].c = E(b).c
    BY <1>3
  <2> QED
    BY <1>1, <1>2
<1>9. events \subseteq events' /\ events' \subseteq Events
  BY <1>2, <1>3 DEF SagaInv, TypeOK
<1>10. TypeOK'
  <2>1. books' \in [Books -> BookRows]
    <3>1. \A b \in Books : books[b] \in BookRows
      BY DEF SagaInv, TypeOK
    <3>2. \A b \in Books : [books[b] EXCEPT !.status = "available", !.due = 0] \in BookRows
      BY <3>1 DEF BookStatus
    <3> QED
      BY <1>3, <3>1, <3>2
  <2>2. ops' \in [ReservationIds -> OperationRows]
    <3>1. \A r \in ReservationIds : ops[r] \in OperationRows
      BY DEF SagaInv, TypeOK
    <3>2. \A r \in ReservationIds : [ops[r] EXCEPT !.status = "released"] \in OperationRows
      BY <3>1 DEF OperationStatus
    <3> HIDE DEF R
    <3> QED
      BY <1>3, <3>1, <3>2
  <2> QED
    BY <1>9, <2>1, <2>2 DEF SagaInv, TypeOK
<1> HIDE DEF E, R
<1>11. OpsInv'
  BY <1>6, <1>7 DEF SagaInv, OpsInv, HasLoan, Correlations
<1>12. BooksInv'
  <2> SUFFICES ASSUME NEW b \in Books
               PROVE  BooksInv!(b)'
    BY DEF BooksInv
  <2>1. CASE b \in S
    BY <1>1, <1>6, <1>7, <2>1, NoneAssumption DEF SagaInv, BooksInv, R
  <2>2. CASE b \notin S
    <3>1. books[b].rid \notin R /\ books[b].rid \in ReservationIds \cup {None}
      BY <1>5, <2>2 DEF SagaInv, TypeOK, Optional
    <3> QED
      BY <1>6, <1>7, <2>2, <3>1 DEF SagaInv, BooksInv
  <2> QED
    BY <2>1, <2>2
<1>13. LoansInv'
  BY <1>4, <1>6, <1>9 DEF SagaInv, TypeOK, LoansInv, Correlations
<1>14. LoansAreUnique'
  BY DEF SagaInv, LoansAreUnique, Outstanding
<1>15. EventsInv'
  BY <1>4, <1>6, <1>8 DEF SagaInv, TypeOK, EventsInv, Correlations, Events
<1>16. DueInv'
  <2>1. \A e \in events' : e.kind = "LoanCreated" => e \in events /\ e.c.book \in Books
    BY <1>8 DEF SagaInv, TypeOK, Events, Correlations
  <2> QED
    BY <1>7, <2>1 DEF SagaInv, DueInv
<1>17. DeliveryInv'
  <2>1. \A e \in events : e.c.rid \in ReservationIds
    BY DEF SagaInv, TypeOK, Events, Correlations
  <2>2. \A r \in ReservationIds : ops'[r].status = "reserved" =>
            \E e \in events' : e.kind = "CatalogBookReserved" /\ e.c.rid = r
    BY <1>6, <1>9 DEF SagaInv, DeliveryInv
  <2>3. \A e \in acked' : e \in events /\ e.c.rid \in ReservationIds
    BY <2>1 DEF SagaInv, TypeOK
  <2>4. \A e \in acked' : e.kind = "LoanCreated" =>
            /\ ops'[e.c.rid].status # "reserved"
            /\ ops'[e.c.rid].status = "released" => ~Outstanding(e.loan)
    BY <1>4, <1>6, <2>3 DEF SagaInv, DeliveryInv
  <2>5. \A e \in acked' : e.kind = "LoanCompleted" =>
            ops'[e.c.rid].status \notin {"reserved", "borrowed"}
    BY <1>4, <1>6, <2>3 DEF SagaInv, DeliveryInv
  <2>6. \A e \in acked' : e.kind = "CatalogBookReserved" =>
            ops'[e.c.rid].status # "reserved" \/ HasLoan(e.c.rid)
    BY <1>4, <1>6, <2>3 DEF SagaInv, DeliveryInv
  <2>7. \A e \in comps' :
         /\ e.kind \in {"CatalogBookReserved", "LoanCreated"}
         /\ e.kind = "LoanCreated" =>
              ops'[e.c.rid].status \in {"released", "returned"}
    BY <1>4, <1>6, <2>1 DEF SagaInv, TypeOK, DeliveryInv
  <2> QED
    BY <2>2, <2>4, <2>5, <2>6, <2>7 DEF DeliveryInv, HasLoan, Outstanding
<1>18. EmailInv'
  BY <1>4, <1>6 DEF SagaInv, TypeOK, EmailInv, LoansInv, Correlations
<1>19. LimitInv'
  BY LimitKept DEF OutstandingFor, Outstanding
<1> QED
  BY <1>10, <1>11, <1>12, <1>13, <1>14, <1>15, <1>16, <1>17, <1>18, <1>19 DEF SagaInv

(* The compensating release of a rejected loan: whatever it finds, the     *)
(* reservation is not open afterwards.                                     *)
LEMMA CompensateByReleaseStep ==
  ASSUME SagaInv, NEW e \in comps, CompensateByRelease(e)
  PROVE  SagaInv'
<1>1. /\ e \in events /\ e.c \in Correlations /\ e.c.rid \in ReservationIds
      /\ e.c.book \in Books /\ e.kind = "CatalogBookReserved"
      /\ ops[e.c.rid].status # "none" /\ ops[e.c.rid].c = e.c
  BY DEF SagaInv, TypeOK, EventsInv, Events, Correlations, CompensateByRelease
<1>2. CASE MatchesReservation(e.c) /\ books[e.c.book].status = "reserved"
  <2>1. ReleaseBooks({e.c.book}) /\ books[e.c.book].rid = e.c.rid
    BY <1>2 DEF CompensateByRelease, MatchesReservation
  <2>2. ops'[e.c.rid].status # "reserved"
    BY <1>1, <2>1 DEF ReleaseBooks, SagaInv, TypeOK
  <2> QED
    BY <1>1, <2>1, <2>2, ReleaseStep DEF CompensateByRelease, Acknowledge, SagaInv, TypeOK
<1>3. CASE ~(MatchesReservation(e.c) /\ books[e.c.book].status = "reserved")
  <2>1. ops[e.c.rid].status # "reserved"
    <3>1. SUFFICES ASSUME ops[e.c.rid].status = "reserved" PROVE FALSE
      OBVIOUS
    <3>2. books[e.c.book].rid = e.c.rid
      BY <1>1, <3>1 DEF SagaInv, OpsInv
    <3>3. books[e.c.book].status = "reserved" /\ Correlation(e.c.book) = e.c
      BY <1>1, <3>1, <3>2, NoneAssumption DEF SagaInv, BooksInv
    <3> QED
      BY <1>3, <3>3 DEF Correlation, MatchesReservation
  <2>2. DeliveryInv'
    BY <1>1, <1>3, <2>1 DEF SagaInv, DeliveryInv, HasLoan, Outstanding,
       CompensateByRelease, Acknowledge
  <2> QED
    BY <1>1, <1>3, <2>2, AckStep DEF CompensateByRelease, Acknowledge, SagaInv, TypeOK
<1> QED
  BY <1>2, <1>3

(* Confirming the borrow of a reserved book. *)
LEMMA ConfirmBorrowStep ==
  ASSUME SagaInv, NEW e \in events, ConfirmBorrow(e)
  PROVE  SagaInv'
<1> DEFINE b == e.c.book
<1> DEFINE r == e.c.rid
<1> DEFINE f == Event("CatalogBookBorrowed", e.c, e.loan, e.due)
<1>1. /\ e.kind = "LoanCreated" /\ e \in Events
      /\ e.c \in Correlations /\ r \in ReservationIds /\ b \in Books
      /\ ops[r].c = e.c /\ ops[r].status = "reserved"
      /\ e.loan \in LoanIds /\ loans[e.loan].status # "none" /\ loans[e.loan].c = e.c
      /\ e.due \in Nat
  BY DEF SagaInv, TypeOK, Events, EventsInv, Correlations, ConfirmBorrow, Delivered,
         TransitionAllowed
<1>2. f \in Events /\ f.kind = "CatalogBookBorrowed" /\ f.c = e.c /\ f.loan = e.loan
  BY <1>1 DEF Event, Events, EventKinds
<1>3. /\ books[b].rid = r /\ books[b].status = "reserved" /\ books[b].loan = None
      /\ books' = [books EXCEPT ![b] = [books[b] EXCEPT !.status = "borrowed",
                                            !.loan = e.loan, !.due = e.due]]
      /\ ops' = [ops EXCEPT ![r].status = "borrowed"]
      /\ events' = events \cup {f}
      /\ acked' = acked \cup {e}
      /\ UNCHANGED <<loans, patrons, preflight, comps, emailed, crashes>>
  BY DEF ConfirmBorrow, ConfirmApplies, MatchesReservation, Acknowledge
<1>4. Correlation(b) = e.c
  BY <1>1, <1>3, NoneAssumption DEF SagaInv, BooksInv
<1>5. TypeOK'
  <2>1. books[b] \in BookRows
    BY <1>1 DEF SagaInv, TypeOK
  <2>2. [books[b] EXCEPT !.status = "borrowed", !.loan = e.loan, !.due = e.due] \in BookRows
    BY <1>1, <2>1 DEF BookStatus, Optional
  <2> QED
    BY <1>1, <1>2, <1>3, <2>2 DEF SagaInv, TypeOK, OperationStatus
<1>6. /\ \A s \in ReservationIds : /\ ops'[s].c = ops[s].c
                                   /\ s # r => ops'[s] = ops[s]
      /\ ops'[r].status = "borrowed"
  BY <1>1, <1>3 DEF SagaInv, TypeOK
<1>7. /\ \A a \in Books : /\ books'[a].rid = books[a].rid
                          /\ books'[a].gen = books[a].gen
                          /\ Correlation(a)' = Correlation(a)
                          /\ a # b => books'[a] = books[a]
      /\ books'[b].status = "borrowed" /\ books'[b].loan = e.loan
      /\ books'[b].due = e.due
  BY <1>1, <1>3 DEF SagaInv, TypeOK, Correlation
<1>8. \A a \in Books : books[a].rid = r => a = b
  <2> SUFFICES ASSUME NEW a \in Books, books[a].rid = r PROVE a = b
    OBVIOUS
  <2>1. Correlation(a) = e.c
    BY <1>1, NoneAssumption DEF SagaInv, BooksInv
  <2> QED
    BY <2>1 DEF Correlation
<1> HIDE DEF f, r, b
<1>9. OpsInv'
  <2>1. HasLoan(r)
    BY <1>1 DEF HasLoan, r
  <2>2. r \in ReservationIds /\ books[ops[r].c.book].rid = r /\ ops[r].status # "none"
    BY <1>1, <1>3 DEF r, b
  <2> QED
    BY <1>3, <1>6, <1>7, <2>1, <2>2, OperationMoves DEF SagaInv
<1>10. BooksInv'
  <2> SUFFICES ASSUME NEW a \in Books PROVE BooksInv!(a)'
    BY DEF BooksInv
  <2>1. CASE a = b
    BY <1>1, <1>3, <1>4, <1>6, <1>7, <2>1, NoneAssumption
  <2>2. CASE a # b
    <3>1. books[a].rid # r /\ books[a].rid \in ReservationIds \cup {None}
      BY <1>8, <2>2 DEF SagaInv, TypeOK, Optional
    <3> QED
      BY <1>3, <1>6, <1>7, <2>2, <3>1 DEF SagaInv, BooksInv
  <2> QED
    BY <2>1, <2>2
<1>11. LoansInv'
  BY <1>1, <1>3, <1>6 DEF SagaInv, LoansInv, Correlations
<1>12. LoansAreUnique'
  BY <1>3 DEF SagaInv, LoansAreUnique, Outstanding
<1>13. EventsInv'
  BY <1>1, <1>2, <1>3, <1>6 DEF SagaInv, TypeOK, EventsInv, Events, Correlations, r
<1>14. DueInv'
  <2>1. \A g \in events' : g.kind = "LoanCreated" => g \in events /\ g.c.book \in Books
    BY <1>2, <1>3 DEF SagaInv, TypeOK, Events, Correlations
  <2>2. \A g \in events : g.kind = "LoanCreated" /\ g.loan = e.loan => g.due = e.due
    BY <1>1 DEF SagaInv, DueInv
  <2> QED
    BY <1>7, <2>1, <2>2 DEF SagaInv, DueInv
<1>15. DeliveryInv'
  <2>1. \A g \in events : g.c.rid \in ReservationIds
    BY DEF SagaInv, TypeOK, Events, Correlations
  <2>2. acked \subseteq events /\ comps \subseteq events
    BY DEF SagaInv, TypeOK
  <2> QED
    BY <1>1, <1>3, <1>6, <2>1, <2>2 DEF SagaInv, DeliveryInv, HasLoan, Outstanding, r
<1>16. EmailInv'
  BY <1>1, <1>3, <1>6 DEF SagaInv, TypeOK, EmailInv, LoansInv, Correlations
<1>17. LimitInv'
  BY <1>3, LimitKept DEF OutstandingFor, Outstanding
<1> QED
  BY <1>5, <1>9, <1>10, <1>11, <1>12, <1>13, <1>14, <1>15, <1>16, <1>17 DEF SagaInv

(* Cancelling the loan of a reservation that is settled (CancelLoanHandler) *)
LEMMA CancelStep ==
  ASSUME SagaInv, NEW c \in Correlations, NEW x, CancelLoan(c, x),
         ops[c.rid].status \in {"released", "returned"},
         ops[c.rid].c = c,
         UNCHANGED <<books, ops, patrons, preflight, emailed, crashes>>,
         comps' \subseteq comps, acked' \subseteq events,
         \A e \in acked' :
            \/ e \in acked
            \/ e.kind = "CatalogBookReleased"
            \/ /\ e.kind = "LoanCreated"
               /\ ops[e.c.rid].status # "reserved"
               /\ loans'[e.loan].status # "active"
  PROVE  SagaInv'
<1>1. CASE UNCHANGED <<loans, events>>
  <2>1. DeliveryInv'
    BY <1>1 DEF SagaInv, DeliveryInv, HasLoan, Outstanding
  <2> QED
    BY <1>1, <2>1, AckStep DEF SagaInv, TypeOK
<1>2. CASE \E l \in LoanIds :
             /\ LoanFor(c, l) /\ loans[l].c = c /\ Outstanding(l)
             /\ loans' = [loans EXCEPT ![l].status = "cancelled"]
             /\ events' = events \cup {Event("LoanCancelled", c, l, 0)}
  <2>1. PICK l \in LoanIds :
             /\ loans[l].c = c /\ loans[l].status = "active"
             /\ loans' = [loans EXCEPT ![l].status = "cancelled"]
             /\ events' = events \cup {Event("LoanCancelled", c, l, 0)}
    BY <1>2 DEF Outstanding
  <2> DEFINE f == Event("LoanCancelled", c, l, 0)
  <2>2. f \in Events /\ f.kind = "LoanCancelled" /\ f.c = c
    BY DEF Event, Events, EventKinds
  <2>3. ops[c.rid].status = "released"
    BY <2>1 DEF SagaInv, LoansInv
  <2>4. /\ \A k \in LoanIds : /\ loans'[k].c = loans[k].c
                              /\ k # l => loans'[k] = loans[k]
        /\ loans'[l].status = "cancelled"
    BY <2>1 DEF SagaInv, TypeOK
  <2>5. events' = events \cup {f}
    BY <2>1
  <2> HIDE DEF f
  <2>6. TypeOK'
    BY <2>1, <2>2, <2>5 DEF SagaInv, TypeOK, LoanStatus
  <2>7. OpsInv' /\ BooksInv'
    BY <2>1, <2>4 DEF SagaInv, OpsInv, BooksInv, HasLoan, Correlation
  <2>8. LoansInv'
    BY <2>1, <2>3, <2>4, <2>5 DEF SagaInv, LoansInv
  <2>9. LoansAreUnique'
    BY <2>1, <2>4 DEF SagaInv, LoansAreUnique, Outstanding
  <2>10. EventsInv'
    BY <2>1, <2>2, <2>3, <2>4, <2>5 DEF SagaInv, EventsInv
  <2>11. DueInv'
    BY <2>2, <2>5 DEF SagaInv, DueInv
  <2>12. DeliveryInv'
    <3>1. \A e \in acked : e.kind = "LoanCreated" => e.loan \in LoanIds
      BY DEF SagaInv, TypeOK, EventsInv
    <3>2. HasLoan(c.rid)' /\ \A r \in ReservationIds : HasLoan(r) => HasLoan(r)'
      BY <2>1, <2>4 DEF HasLoan
    <3>3. \A e \in events : e.c.rid \in ReservationIds
      BY DEF SagaInv, TypeOK, Events, Correlations
    <3>4. acked \subseteq events
      BY DEF SagaInv, TypeOK
    <3> QED
      BY <2>2, <2>4, <2>5, <3>1, <3>2, <3>3, <3>4 DEF SagaInv, DeliveryInv, Outstanding
  <2>13. EmailInv'
    BY <2>1, <2>3, <2>4 DEF SagaInv, TypeOK, EmailInv
  <2>14. LimitInv'
    BY <2>4, LimitKept DEF OutstandingFor, Outstanding
  <2> QED
    BY <2>6, <2>7, <2>8, <2>9, <2>10, <2>11, <2>12, <2>13, <2>14 DEF SagaInv
<1> QED
  BY <1>1, <1>2 DEF CancelLoan

(* A released reservation's loan may be cancelled: it is settled. *)
LEMMA CancelLoanOnBookReleasedStep ==
  ASSUME SagaInv, NEW e \in events, CancelLoanOnBookReleased(e)
  PROVE  SagaInv'
<1>1. /\ e.kind = "CatalogBookReleased" /\ e.c \in Correlations
      /\ ops[e.c.rid].status = "released" /\ ops[e.c.rid].c = e.c
  BY DEF CancelLoanOnBookReleased, Delivered, SagaInv, TypeOK, Events, EventsInv
<1> QED
  BY <1>1, CancelStep DEF CancelLoanOnBookReleased, Acknowledge, SagaInv, TypeOK

(* The handler that found its confirmation stale cancels its own loan. *)
LEMMA CompensateByCancelStep ==
  ASSUME SagaInv, NEW e \in comps, CompensateByCancel(e)
  PROVE  SagaInv'
<1>1. /\ e \in events /\ e.kind = "LoanCreated" /\ e.c \in Correlations
      /\ ops[e.c.rid].status \in {"released", "returned"} /\ ops[e.c.rid].c = e.c
      /\ e.loan \in LoanIds /\ loans[e.loan].status # "none" /\ loans[e.loan].c = e.c
  BY DEF CompensateByCancel, SagaInv, TypeOK, Events, EventsInv, DeliveryInv
<1>2. loans'[e.loan].status # "active"
  <2>1. \A l \in LoanIds : LoanFor(e.c, l) <=> l = e.loan
    BY <1>1 DEF LoanFor, SagaInv, LoansAreUnique
  <2> QED
    BY <1>1, <2>1 DEF CompensateByCancel, CancelLoan, Outstanding, SagaInv, TypeOK
<1> QED
  BY <1>1, <1>2, CancelStep DEF CompensateByCancel, Acknowledge, SagaInv, TypeOK

(* Returning a loan, possibly before Catalog confirmed the borrow. *)
LEMMA ReturnLoanStep ==
  ASSUME SagaInv, NEW l \in LoanIds, ReturnLoan(l)
  PROVE  SagaInv'
<1> DEFINE f == Event("LoanCompleted", loans[l].c, l, 0)
<1>1. /\ loans[l].status = "active" /\ loans[l].c \in Correlations
      /\ ops[loans[l].c.rid].c = loans[l].c /\ ops[loans[l].c.rid].status # "none"
      /\ loans' = [loans EXCEPT ![l].status = "returned"]
      /\ events' = events \cup {f}
      /\ UNCHANGED <<books, ops, patrons, preflight, acked, comps, emailed, crashes>>
  BY DEF ReturnLoan, CompleteLoan, Outstanding, SagaInv, LoansInv
<1>2. f \in Events /\ f.kind = "LoanCompleted" /\ f.c = loans[l].c /\ f.loan = l
  BY <1>1 DEF Event, Events, EventKinds
<1>3. /\ \A k \in LoanIds : /\ loans'[k].c = loans[k].c
                            /\ k # l => loans'[k] = loans[k]
      /\ loans'[l].status = "returned"
  BY <1>1 DEF SagaInv, TypeOK
<1> HIDE DEF f
<1>4. TypeOK'
  BY <1>1, <1>2 DEF SagaInv, TypeOK, LoanStatus
<1>5. OpsInv' /\ BooksInv'
  <2>1. \A k \in LoanIds : loans'[k].status # "none" <=> loans[k].status # "none"
    BY <1>1, <1>3
  <2> QED
    BY <1>1, <1>3, <2>1, LoanMoves
<1>6. LoansInv'
  BY <1>1, <1>2, <1>3 DEF SagaInv, LoansInv
<1>7. LoansAreUnique'
  BY <1>1, <1>3 DEF SagaInv, LoansAreUnique, Outstanding
<1>8. EventsInv'
  BY <1>1, <1>2, <1>3 DEF SagaInv, EventsInv
<1>9. DueInv'
  BY <1>1, <1>2 DEF SagaInv, DueInv
<1>10. DeliveryInv'
  <2>1. \A e \in acked : e.kind = "LoanCreated" => e.loan \in LoanIds
    BY DEF SagaInv, TypeOK, EventsInv
  <2>2. \A r \in ReservationIds : HasLoan(r) => HasLoan(r)'
    BY <1>1, <1>3 DEF HasLoan
  <2>3. \A e \in acked : e.c.rid \in ReservationIds
    BY DEF SagaInv, TypeOK, Events, Correlations
  <2> QED
    BY <1>1, <1>2, <1>3, <2>1, <2>2, <2>3 DEF SagaInv, DeliveryInv, Outstanding
<1>11. EmailInv'
  BY <1>1, <1>3 DEF SagaInv, TypeOK, EmailInv
<1>12. LimitInv'
  BY <1>1, <1>3, LimitKept DEF OutstandingFor, Outstanding
<1> QED
  BY <1>4, <1>5, <1>6, <1>7, <1>8, <1>9, <1>10, <1>11, <1>12 DEF SagaInv

(* Extending a loan moves only its due date. *)
LEMMA ExtendLoanStep ==
  ASSUME SagaInv, NEW l \in LoanIds, NEW d \in ExtensionDays, ExtendLoan(l, d)
  PROVE  SagaInv'
<1> DEFINE f == Event("LoanExtended", loans[l].c, l, loans[l].due + d)
<1>1. /\ loans[l].status = "active" /\ loans[l].c \in Correlations
      /\ ops[loans[l].c.rid].c = loans[l].c /\ ops[loans[l].c.rid].status # "none"
      /\ loans' = [loans EXCEPT ![l].due = loans[l].due + d]
      /\ events' = events \cup {f}
      /\ UNCHANGED <<books, ops, patrons, preflight, acked, comps, emailed, crashes>>
  BY DEF ExtendLoan, Outstanding, SagaInv, LoansInv
<1>2. loans[l].due + d \in Nat
  BY DaysAssumption DEF SagaInv, TypeOK
<1>3. f \in Events /\ f.kind = "LoanExtended" /\ f.c = loans[l].c
  BY <1>1, <1>2 DEF Event, Events, EventKinds
<1>4. \A k \in LoanIds : loans'[k].c = loans[k].c /\ loans'[k].status = loans[k].status
  BY <1>1 DEF SagaInv, TypeOK
<1> HIDE DEF f
<1>5. TypeOK'
  BY <1>1, <1>2, <1>3 DEF SagaInv, TypeOK
<1>6. OpsInv' /\ BooksInv'
  BY <1>1, <1>4, LoanMoves
<1>7. LoansInv' /\ LoansAreUnique'
  <2>1. LoansInv'
    BY <1>1, <1>4 DEF SagaInv, LoansInv
  <2>2. LoansAreUnique'
    BY <1>4 DEF SagaInv, LoansAreUnique, Outstanding
  <2> QED
    BY <2>1, <2>2
<1>8. EventsInv' /\ DueInv'
  BY <1>1, <1>3, <1>4 DEF SagaInv, EventsInv, DueInv
<1>9. DeliveryInv'
  <2>1. \A e \in acked : e.kind = "LoanCreated" => e.loan \in LoanIds
    BY DEF SagaInv, TypeOK, EventsInv
  <2>2. \A r \in ReservationIds : HasLoan(r) => HasLoan(r)'
    BY <1>4 DEF HasLoan
  <2>3. \A e \in acked : e.c.rid \in ReservationIds
    BY DEF SagaInv, TypeOK, Events, Correlations
  <2> QED
    BY <1>1, <1>3, <1>4, <2>1, <2>2, <2>3 DEF SagaInv, DeliveryInv, Outstanding
<1>10. EmailInv'
  BY <1>1, <1>4 DEF SagaInv, TypeOK, EmailInv
<1>11. LimitInv'
  BY <1>1, <1>4, LimitKept DEF OutstandingFor, Outstanding
<1> QED
  BY <1>5, <1>6, <1>7, <1>8, <1>9, <1>10, <1>11 DEF SagaInv

(* A completion is handled after the LoanCreated of its loan, hence after  *)
(* the borrow was confirmed or found stale; so a borrowed book of this     *)
(* loan is always given back.                                              *)
LEMMA ReturnBookStep ==
  ASSUME SagaInv, NEW e \in events, ReturnBookOnLoanCompleted(e)
  PROVE  SagaInv'
<1> DEFINE b == e.c.book
<1> DEFINE r == e.c.rid
<1> DEFINE f == Event("CatalogBookReturned", e.c, e.loan, 0)
<1>1. /\ e.kind = "LoanCompleted" /\ e \in Events
      /\ e.c \in Correlations /\ r \in ReservationIds /\ b \in Books
      /\ ops[r].c = e.c /\ ops[r].status # "none"
      /\ e.loan \in LoanIds /\ loans[e.loan].status = "returned"
      /\ loans[e.loan].c = e.c
      /\ InOrder(e) /\ acked' = acked \cup {e}
      /\ UNCHANGED <<loans, patrons, preflight, comps, emailed, crashes>>
  BY DEF SagaInv, TypeOK, Events, EventsInv, Correlations, ReturnBookOnLoanCompleted,
         Delivered, Acknowledge
<1>2. ops[r].status # "reserved"
  <2>1. CASE e \in acked
    BY <1>1, <2>1 DEF SagaInv, DeliveryInv
  <2>2. CASE e \notin acked
    <3>1. PICK g \in events : g.kind = "LoanCreated" /\ g.loan = e.loan
      BY <1>1 DEF SagaInv, LoansInv
    <3>2. g \in acked
      BY <1>1, <2>2, <3>1 DEF InOrder, Precedes
    <3>3. g.c = e.c
      BY <1>1, <3>1 DEF SagaInv, EventsInv
    <3> QED
      BY <3>1, <3>2, <3>3 DEF SagaInv, DeliveryInv
  <2> QED
    BY <2>1, <2>2
<1>3. ops[r].status = "borrowed" => /\ books[b].status = "borrowed"
                                    /\ books[b].loan = e.loan
  <2> SUFFICES ASSUME ops[r].status = "borrowed"
               PROVE  books[b].status = "borrowed" /\ books[b].loan = e.loan
    OBVIOUS
  <2>1. books[b].rid = r
    BY <1>1 DEF SagaInv, OpsInv
  <2>2. /\ books[b].status = "borrowed" /\ books[b].loan \in LoanIds
        /\ loans[books[b].loan].status # "none"
        /\ loans[books[b].loan].c = Correlation(b) /\ Correlation(b) = e.c
    BY <1>1, <2>1, NoneAssumption DEF SagaInv, BooksInv
  <2> QED
    BY <1>1, <2>2 DEF SagaInv, LoansAreUnique
<1>4. CASE ~ReturnApplies(e)
  <2>1. UNCHANGED <<books, ops, events>>
    BY <1>4 DEF ReturnBookOnLoanCompleted
  <2>2. ops[r].status # "borrowed"
    BY <1>3, <1>4 DEF ReturnApplies
  <2>3. DeliveryInv'
    BY <1>1, <1>2, <2>1, <2>2 DEF SagaInv, DeliveryInv, HasLoan, Outstanding
  <2> QED
    BY <1>1, <2>1, <2>3, AckStep DEF SagaInv, TypeOK
<1>5. CASE ReturnApplies(e)
  <2>1. /\ books[b].status = "borrowed" /\ books[b].loan = e.loan /\ books[b].rid = r
        /\ ops[r].status = "borrowed"
        /\ books' = [books EXCEPT ![b] = [books[b] EXCEPT !.status = "available",
                                            !.loan = None, !.last = e.loan, !.due = 0]]
        /\ ops' = [ops EXCEPT ![r].status = "returned"]
        /\ events' = events \cup {f}
    BY <1>5 DEF ReturnApplies, ReturnRaises, MatchesReservation, TransitionAllowed,
                ReturnBookOnLoanCompleted
  <2>2. f \in Events /\ f.kind = "CatalogBookReturned" /\ f.c = e.c
    BY <1>1 DEF Event, Events, EventKinds
  <2>3. TypeOK'
    <3>1. books[b] \in BookRows
      BY <1>1 DEF SagaInv, TypeOK
    <3>2. [books[b] EXCEPT !.status = "available", !.loan = None, !.last = e.loan,
                           !.due = 0] \in BookRows
      BY <1>1, <3>1 DEF BookStatus, Optional
    <3> QED
      BY <1>1, <2>1, <2>2, <3>2 DEF SagaInv, TypeOK, OperationStatus
  <2>4. /\ \A s \in ReservationIds : /\ ops'[s].c = ops[s].c
                                     /\ s # r => ops'[s] = ops[s]
        /\ ops'[r].status = "returned"
    BY <1>1, <2>1 DEF SagaInv, TypeOK
  <2>5. /\ \A a \in Books : /\ books'[a].rid = books[a].rid
                            /\ books'[a].gen = books[a].gen
                            /\ Correlation(a)' = Correlation(a)
                            /\ a # b => books'[a] = books[a]
        /\ books'[b].status = "available" /\ books'[b].loan = None
    BY <1>1, <2>1 DEF SagaInv, TypeOK, Correlation
  <2>6. \A a \in Books : books[a].rid = r => a = b
    <3> SUFFICES ASSUME NEW a \in Books, books[a].rid = r PROVE a = b
      OBVIOUS
    <3>1. Correlation(a) = e.c
      BY <1>1, NoneAssumption DEF SagaInv, BooksInv
    <3> QED
      BY <3>1 DEF Correlation
  <2>7. \A k \in LoanIds : loans[k].status # "none" /\ loans[k].c.rid = r => k = e.loan
    BY <1>1 DEF SagaInv, LoansAreUnique
  <2> HIDE DEF f, r, b
  <2>8. OpsInv'
    <3>1. HasLoan(r)
      BY <1>1 DEF HasLoan, r
    <3>2. r \in ReservationIds /\ books[ops[r].c.book].rid = r /\ ops[r].status # "none"
      BY <1>1, <2>1 DEF r, b
    <3> QED
      BY <1>1, <2>4, <2>5, <3>1, <3>2, OperationMoves DEF SagaInv
  <2>9. BooksInv'
    <3> SUFFICES ASSUME NEW a \in Books PROVE BooksInv!(a)'
      BY DEF BooksInv
    <3>1. CASE a = b
      BY <1>1, <2>1, <2>4, <2>5, <3>1, NoneAssumption DEF SagaInv, BooksInv
    <3>2. CASE a # b
      <4>1. books[a].rid # r /\ books[a].rid \in ReservationIds \cup {None}
        BY <2>6, <3>2 DEF SagaInv, TypeOK, Optional
      <4> QED
        BY <1>1, <2>4, <2>5, <3>2, <4>1 DEF SagaInv, BooksInv
    <3> QED
      BY <3>1, <3>2
  <2>10. LoansInv'
    BY <1>1, <2>1, <2>4, <2>7 DEF SagaInv, LoansInv, Correlations
  <2>11. LoansAreUnique'
    BY <1>1 DEF SagaInv, LoansAreUnique, Outstanding
  <2>12. EventsInv'
    BY <1>1, <2>1, <2>2, <2>4 DEF SagaInv, TypeOK, EventsInv, Events, Correlations, r
  <2>13. DueInv'
    <3>1. \A g \in events' : g.kind = "LoanCreated" => g \in events /\ g.c.book \in Books
      BY <2>1, <2>2 DEF SagaInv, TypeOK, Events, Correlations
    <3> QED
      BY <2>5, <3>1 DEF SagaInv, DueInv
  <2>14. DeliveryInv'
    <3>1. \A g \in events : g.c.rid \in ReservationIds
      BY DEF SagaInv, TypeOK, Events, Correlations
    <3>2. acked \subseteq events /\ comps \subseteq events
      BY DEF SagaInv, TypeOK
    <3>3. /\ e.c.rid = r /\ events \subseteq events'
      BY <2>1 DEF r
    <3> QED
      BY <1>1, <2>1, <2>4, <3>1, <3>2, <3>3 DEF SagaInv, DeliveryInv, HasLoan, Outstanding
  <2>15. EmailInv'
    BY <1>1, <2>1, <2>4 DEF SagaInv, TypeOK, EmailInv, LoansInv, Correlations
  <2>16. LimitInv'
    BY <1>1, LimitKept DEF OutstandingFor, Outstanding
  <2> QED
    BY <2>3, <2>8, <2>9, <2>10, <2>11, <2>12, <2>13, <2>14, <2>15, <2>16 DEF SagaInv
<1> QED
  BY <1>4, <1>5

-----------------------------------------------------------------------------
(* Every step of the workflow preserves the invariant. *)
LEMMA SagaStep == SagaInv /\ [Next]_vars => SagaInv'
<1> SUFFICES ASSUME SagaInv, [Next]_vars PROVE SagaInv'
  OBVIOUS
<1>0. /\ \A p \in Patrons : patrons[p].tier \in Nat
      /\ patrons \in [Patrons -> [tier : Tiers, suspended : BOOLEAN]]
      /\ preflight \subseteq Patrons /\ crashes \in Nat
  BY TiersAssumption DEF SagaInv, TypeOK
<1>1. CASE UNCHANGED vars
  BY <1>0, <1>1, QuietStep DEF vars
<1>2. ASSUME NEW p \in Patrons, PreflightBorrow(p) PROVE SagaInv'
  BY <1>0, <1>2, QuietStep DEF PreflightBorrow
<1>3. ASSUME NEW p \in Patrons, SuspendPatron(p) PROVE SagaInv'
  <2>1. patrons' \in [Patrons -> [tier : Tiers, suspended : BOOLEAN]]
    BY <1>0, <1>3 DEF SuspendPatron
  <2>2. \A q \in Patrons : patrons'[q].tier >= patrons[q].tier
    BY <1>0, <1>3 DEF SuspendPatron
  <2> QED
    BY <1>0, <1>3, <2>1, <2>2, QuietStep DEF SuspendPatron
<1>4. ASSUME NEW p \in Patrons, ReinstatePatron(p) PROVE SagaInv'
  <2>1. patrons' \in [Patrons -> [tier : Tiers, suspended : BOOLEAN]]
    BY <1>0, <1>4 DEF ReinstatePatron
  <2>2. \A q \in Patrons : patrons'[q].tier >= patrons[q].tier
    BY <1>0, <1>4 DEF ReinstatePatron
  <2> QED
    BY <1>0, <1>4, <2>1, <2>2, QuietStep DEF ReinstatePatron
<1>5. ASSUME NEW p \in Patrons, NEW t \in Tiers, UpgradeTier(p, t) PROVE SagaInv'
  <2>1. patrons' \in [Patrons -> [tier : Tiers, suspended : BOOLEAN]]
    BY <1>0, <1>5 DEF UpgradeTier
  <2>2. \A q \in Patrons : patrons'[q].tier >= patrons[q].tier
    BY <1>0, <1>5, TiersAssumption DEF UpgradeTier
  <2> QED
    BY <1>0, <1>5, <2>1, <2>2, QuietStep DEF UpgradeTier
<1>6. ASSUME NEW b \in Books, NEW p \in Patrons, RejectBorrow(b, p) PROVE SagaInv'
  BY <1>0, <1>6, QuietStep DEF RejectBorrow
<1>7. ASSUME NEW b \in Books, NEW p \in Patrons, NEW r \in ReservationIds,
             BorrowBook(b, p, r)
      PROVE  SagaInv'
  BY <1>7, BorrowBookStep
<1>8. ASSUME NEW S \in SUBSET Books, ReleaseExpiredReservations(S) PROVE SagaInv'
  <2>1. acked \subseteq events
    BY DEF SagaInv, TypeOK
  <2> QED
    BY <1>8, <2>1, ReleaseStep DEF ReleaseExpiredReservations
<1>9. ASSUME NEW l \in LoanIds, ReturnLoan(l) PROVE SagaInv'
  BY <1>9, ReturnLoanStep
<1>10. ASSUME NEW l \in LoanIds, NEW d \in ExtensionDays, ExtendLoan(l, d) PROVE SagaInv'
  BY <1>10, ExtendLoanStep
<1>11. ASSUME NEW e \in events, Handle(e) PROVE SagaInv'
  BY <1>11, ReplayCreateLoanStep, CreateLoanStep, RejectLoanStep, ConfirmBorrowStep,
     ReplayConfirmStep, StaleConfirmStep, CancelLoanOnBookReleasedStep,
     ReturnBookStep DEF Handle
<1>12. ASSUME NEW e \in events, SendLoanConfirmationEmail(e) PROVE SagaInv'
  BY <1>12, EmailStep
<1>13. ASSUME NEW e \in comps, Compensate(e) PROVE SagaInv'
  BY <1>13, CompensateByReleaseStep, CompensateByCancelStep DEF Compensate
<1>14. ASSUME NEW e \in comps, Crash(e) PROVE SagaInv'
  BY <1>0, <1>14, QuietStep DEF Crash
<1> QED
  BY <1>1, <1>2, <1>3, <1>4, <1>5, <1>6, <1>7, <1>8, <1>9, <1>10, <1>11, <1>12,
     <1>13, <1>14 DEF Next

(* The invariant holds in every reachable state. *)
THEOREM SagaInvariant == Spec => []SagaInv
BY SagaInit, SagaStep, PTL DEF Spec

(* Every variable keeps its shape. *)
THEOREM TypeCorrect == Spec => []TypeOK
<1>1. SagaInv => TypeOK
  BY DEF SagaInv
<1> QED
  BY <1>1, SagaInvariant, PTL

(* A borrowed book is backed by its own, never cancelled, loan. *)
THEOREM BorrowedBacked == Spec => []BorrowedIsBacked
<1>1. SagaInv => BorrowedIsBacked
  <2> SUFFICES ASSUME SagaInv, NEW b \in Books, books[b].status = "borrowed"
               PROVE  \E l \in LoanIds : /\ books[b].loan = l
                                         /\ loans[l].c = Correlation(b)
                                         /\ loans[l].status \in {"active", "returned"}
    BY DEF BorrowedIsBacked
  <2> DEFINE l == books[b].loan
  <2>1. /\ l \in LoanIds /\ loans[l].status # "none" /\ loans[l].c = Correlation(b)
        /\ books[b].rid # None /\ ops[books[b].rid].status = "borrowed"
    BY DEF SagaInv, BooksInv
  <2>2. loans[l].c.rid = books[b].rid
    BY <2>1 DEF Correlation
  <2>3. loans[l].status # "cancelled"
    BY <2>1, <2>2 DEF SagaInv, LoansInv
  <2> QED
    BY <2>1, <2>3 DEF SagaInv, TypeOK, LoanStatus
<1> QED
  BY <1>1, SagaInvariant, PTL

(* The operation row a client polls and the book agree, and superseded     *)
(* reservations are settled.                                               *)
THEOREM OperationsTrackBooks == Spec => []OperationTracksBook
<1>1. SagaInv => OperationTracksBook
  <2> SUFFICES ASSUME SagaInv PROVE OperationTracksBook
    OBVIOUS
  <2>1. ASSUME NEW b \in Books, books[b].status \in {"reserved", "borrowed"}
        PROVE  \E r \in ReservationIds :
                 /\ books[b].rid = r
                 /\ ops[r] = [status |-> books[b].status, c |-> Correlation(b)]
    <3>1. /\ books[b].rid \in ReservationIds
          /\ ops[books[b].rid].c = Correlation(b)
          /\ ops[books[b].rid].status = books[b].status
      BY <2>1 DEF SagaInv, TypeOK, Optional, BooksInv
    <3>2. ops[books[b].rid] \in OperationRows
      BY <3>1 DEF SagaInv, TypeOK
    <3> QED
      BY <3>1, <3>2
  <2>2. ASSUME NEW r \in ReservationIds, ops[r].status \in {"reserved", "borrowed"}
        PROVE  ops[r].c = Correlation(ops[r].c.book)
    <3>1. ops[r].c.book \in Books /\ books[ops[r].c.book].rid = r
      BY <2>2 DEF SagaInv, OpsInv, Correlations
    <3> QED
      BY <3>1, NoneAssumption DEF SagaInv, BooksInv
  <2> QED
    BY <2>1, <2>2 DEF OperationTracksBook
<1> QED
  BY <1>1, SagaInvariant, PTL

(* No committed event can wedge its partition. *)
THEOREM NothingWedges == Spec => []NoEventWedges
<1>1. SagaInv => NoEventWedges
  <2> SUFFICES ASSUME SagaInv, NEW e \in events PROVE ~Wedged(e)
    BY DEF NoEventWedges
  <2>1. /\ e.c \in Correlations /\ e.c.rid \in ReservationIds /\ e.c.book \in Books
        /\ ops[e.c.rid].status # "none" /\ ops[e.c.rid].c = e.c
    BY DEF SagaInv, TypeOK, Events, Correlations, EventsInv
  <2>2. \A l \in LoanIds : LoanFor(e.c, l) => loans[l].c = e.c
    BY <2>1 DEF LoanFor, SagaInv, LoansInv
  <2>3. e.kind = "LoanCreated" => \A l \in LoanIds : LoanFor(e.c, l) => l = e.loan
    BY <2>1 DEF LoanFor, SagaInv, EventsInv, LoansAreUnique
  <2>4. MatchesReservation(e.c) /\ books[e.c.book].status = "reserved" =>
           TransitionAllowed(e.c, "reserved")
    BY <2>1, NoneAssumption DEF MatchesReservation, TransitionAllowed, SagaInv, BooksInv
  <2>5. ASSUME e.kind = "LoanCompleted", ReturnApplies(e)
        PROVE  MatchesReservation(e.c) /\ TransitionAllowed(e.c, "borrowed")
    <3>1. loans[e.loan].c = e.c
      BY <2>5 DEF SagaInv, EventsInv
    <3>2. Correlation(e.c.book) = e.c /\ books[e.c.book].rid # None
      BY <2>1, <2>5, <3>1 DEF ReturnApplies, SagaInv, BooksInv
    <3>3. books[e.c.book].rid = e.c.rid
      BY <3>2 DEF Correlation
    <3>4. ops[e.c.rid].status = "borrowed"
      BY <2>1, <2>5, <3>2, <3>3 DEF ReturnApplies, SagaInv, BooksInv
    <3> QED
      BY <2>1, <3>2, <3>4 DEF Correlation, MatchesReservation, TransitionAllowed
  <2>6. books[e.c.book].gen <= e.c.gen => MatchesReservation(e.c)
    <3>1. SUFFICES ASSUME books[e.c.book].gen <= e.c.gen PROVE MatchesReservation(e.c)
      OBVIOUS
    <3>2. e.c.gen = books[e.c.book].gen
      <4>1. e.c.gen \in Nat /\ books[e.c.book].gen \in Nat
        BY <2>1 DEF SagaInv, TypeOK, Correlations
      <4>2. e.c.gen <= books[e.c.book].gen
        BY <2>1 DEF SagaInv, OpsInv
      <4> QED
        BY <3>1, <4>1, <4>2
    <3>3. books[e.c.book].rid = e.c.rid
      BY <2>1, <3>2 DEF SagaInv, OpsInv
    <3>4. Correlation(e.c.book) = e.c
      BY <2>1, <3>3, NoneAssumption DEF SagaInv, BooksInv
    <3> QED
      BY <3>4 DEF Correlation, MatchesReservation
  <2>7. e.kind = "LoanCompleted" => ~ReturnRaises(e)
    BY <2>5, <2>6 DEF ReturnRaises
  <2> QED
    BY <2>2, <2>3, <2>4, <2>5, <2>7 DEF Wedged, ConfirmApplies
<1> QED
  BY <1>1, SagaInvariant, PTL

(* An open reservation always has an event that settles it. *)
THEOREM OpenReservationsDriven == Spec => []OpenReservationIsDriven
<1>1. SagaInv => OpenReservationIsDriven
  <2> SUFFICES ASSUME SagaInv, NEW r \in ReservationIds, ops[r].status = "reserved",
                      ~Unacked("CatalogBookReserved", r)
               PROVE  Unacked("LoanCreated", r)
    BY DEF OpenReservationIsDriven
  <2>1. PICK e \in acked : e.kind = "CatalogBookReserved" /\ e.c.rid = r
    BY DEF SagaInv, DeliveryInv, Unacked
  <2>2. PICK l \in LoanIds : loans[l].status # "none" /\ loans[l].c.rid = r
    BY <2>1 DEF SagaInv, DeliveryInv, HasLoan
  <2>3. PICK g \in events : g.kind = "LoanCreated" /\ g.loan = l
    BY <2>2 DEF SagaInv, LoansInv
  <2>4. g.c.rid = r
    BY <2>2, <2>3 DEF SagaInv, EventsInv
  <2>5. g \notin acked
    BY <2>3, <2>4 DEF SagaInv, DeliveryInv
  <2> QED
    BY <2>3, <2>4, <2>5 DEF Unacked
<1> QED
  BY <1>1, SagaInvariant, PTL

(* An outstanding loan of a released reservation has an event that cancels *)
(* it.                                                                     *)
THEOREM StaleLoansDriven == Spec => []StaleLoanIsDriven
<1>1. SagaInv => StaleLoanIsDriven
  <2> SUFFICES ASSUME SagaInv, NEW l \in LoanIds, Outstanding(l),
                      ops[loans[l].c.rid].status \notin {"reserved", "borrowed"}
               PROVE  Unacked("LoanCreated", loans[l].c.rid)
    BY DEF StaleLoanIsDriven
  <2>1. /\ loans[l].status = "active" /\ loans[l].c \in Correlations
        /\ ops[loans[l].c.rid].status # "none" /\ ops[loans[l].c.rid].status # "returned"
    BY DEF Outstanding, SagaInv, LoansInv
  <2>2. ops[loans[l].c.rid].status = "released"
    BY <2>1 DEF SagaInv, TypeOK, OperationStatus, Correlations
  <2>3. PICK g \in events : g.kind = "LoanCreated" /\ g.loan = l
    BY <2>1 DEF SagaInv, LoansInv
  <2>4. g.c = loans[l].c
    BY <2>3 DEF SagaInv, EventsInv
  <2>5. g \notin acked
    BY <2>2, <2>3, <2>4 DEF SagaInv, DeliveryInv
  <2> QED
    BY <2>3, <2>4, <2>5 DEF Unacked
<1> QED
  BY <1>1, SagaInvariant, PTL

(* A borrowed book whose loan was returned still has its completion ahead. *)
THEOREM ReturnsDriven == Spec => []ReturnIsDriven
<1>1. SagaInv => ReturnIsDriven
  <2> SUFFICES ASSUME SagaInv, NEW b \in Books, NEW l \in LoanIds,
                      books[b].status = "borrowed", books[b].loan = l,
                      loans[l].status = "returned"
               PROVE  Unacked("LoanCompleted", loans[l].c.rid)
    BY DEF ReturnIsDriven
  <2>1. /\ loans[l].c = Correlation(b) /\ books[b].rid # None
        /\ ops[books[b].rid].status = "borrowed"
    BY DEF SagaInv, BooksInv
  <2>2. ops[loans[l].c.rid].status = "borrowed"
    BY <2>1 DEF Correlation
  <2>3. PICK g \in events : g.kind = "LoanCompleted" /\ g.loan = l
    BY DEF SagaInv, LoansInv
  <2>4. g.c = loans[l].c
    BY <2>3 DEF SagaInv, EventsInv
  <2>5. g \notin acked
    BY <2>2, <2>3, <2>4 DEF SagaInv, DeliveryInv
  <2> QED
    BY <2>3, <2>4, <2>5 DEF Unacked
<1> QED
  BY <1>1, SagaInvariant, PTL

(* No open reservation, stale loan or return is ever left without an event *)
(* that finishes it.                                                       *)
THEOREM NothingStranded == Spec => []NothingIsStranded
<1>1. OpenReservationIsDriven /\ StaleLoanIsDriven /\ ReturnIsDriven => NothingIsStranded
  BY DEF NothingIsStranded
<1> QED
  BY <1>1, OpenReservationsDriven, StaleLoansDriven, ReturnsDriven, PTL

(* No patron exceeds the limit of the tier. *)
THEOREM LimitHolds == Spec => []LimitRespected
<1>1. SagaInv => LimitRespected
  BY DEF SagaInv, LimitInv, LimitRespected
<1> QED
  BY <1>1, SagaInvariant, PTL

(* A reservation has one loan, and a book one outstanding loan. *)
THEOREM LoansUnique == Spec => []LoansAreUnique
<1>1. SagaInv => LoansAreUnique
  BY DEF SagaInv
<1> QED
  BY <1>1, SagaInvariant, PTL

(* A loan whose confirmation email was sent is never cancelled. *)
THEOREM EmailsFinal == Spec => []EmailedIsFinal
<1>1. SagaInv => EmailedIsFinal
  <2> SUFFICES ASSUME SagaInv, NEW l \in emailed
               PROVE  loans[l].status \in {"active", "returned"}
    BY DEF EmailedIsFinal
  <2>1. l \in LoanIds /\ loans[l].status # "none"
    BY DEF SagaInv, TypeOK, EmailInv
  <2>2. loans[l].status # "cancelled"
    BY <2>1 DEF SagaInv, EmailInv, LoansInv
  <2> QED
    BY <2>1, <2>2 DEF SagaInv, TypeOK, LoanStatus
<1> QED
  BY <1>1, SagaInvariant, PTL
=============================================================================
