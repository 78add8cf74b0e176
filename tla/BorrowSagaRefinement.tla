------------------------ MODULE BorrowSagaRefinement ------------------------
(***************************************************************************)
(* The borrow workflow implements Circulation, for any number of books,    *)
(* patrons, reservations and loans.  The mapping reads Lending's side of a *)
(* reservation through CHOOSE; the proof rests on there being one loan per *)
(* reservation (LoansAreUnique, part of SagaInv).                          *)
(***************************************************************************)
EXTENDS BorrowSagaProofs

USE DEF BookRows, OperationRows, LoanRows

(* The loan the mapping chooses is the loan of the reservation. *)
FateIs(l) == FateOf[loans[l].c.rid] = loans[l].status

FateFacts ==
    /\ \A l \in LoanIds : loans[l].status # "none" => FateIs(l)
    /\ \A r \in ReservationIds : ~HasLoan(r) => FateOf[r] = "none"

(* A reservation has at most one loan, so LoanOf picks the only one. *)
LEMMA FateDetermined == SagaInv => FateFacts
<1> SUFFICES ASSUME SagaInv PROVE FateFacts
  OBVIOUS
<1>1. ASSUME NEW l \in LoanIds, loans[l].status # "none"
      PROVE  FateIs(l)
  <2>1. loans[l].c.rid \in ReservationIds /\ HasLoan(loans[l].c.rid)
    BY <1>1 DEF SagaInv, LoansInv, Correlations, HasLoan
  <2>2. LoanOf(loans[l].c.rid) = l
    BY <1>1 DEF LoanOf, SagaInv, LoansAreUnique
  <2> QED
    BY <2>1, <2>2 DEF FateOf, FateIs
<1>2. \A r \in ReservationIds : ~HasLoan(r) => FateOf[r] = "none"
  BY DEF FateOf
<1> QED
  BY <1>1, <1>2 DEF FateFacts

(* A step that leaves the operation rows and the statuses of the loans     *)
(* alone is invisible.                                                     *)
LEMMA Invisible ==
  ASSUME UNCHANGED ops,
         \A l \in LoanIds : /\ loans'[l].status = loans[l].status
                            /\ loans[l].status # "none" => loans'[l].c = loans[l].c
  PROVE  UNCHANGED <<PhaseOf, TitleOf, FateOf>>
<1>1. PhaseOf' = PhaseOf /\ TitleOf' = TitleOf
  BY DEF PhaseOf, TitleOf
<1>2. \A r : HasLoan(r)' <=> HasLoan(r)
  BY DEF HasLoan
<1>3. \A r : LoanOf(r)' = LoanOf(r)
  BY DEF LoanOf
<1>4. ASSUME NEW r \in ReservationIds
      PROVE  (IF HasLoan(r) THEN loans[LoanOf(r)].status ELSE "none")'
                = (IF HasLoan(r) THEN loans[LoanOf(r)].status ELSE "none")
  <2>1. CASE HasLoan(r)
    <3>1. LoanOf(r) \in LoanIds
      BY <2>1 DEF HasLoan, LoanOf
    <3> QED
      BY <1>2, <1>3, <2>1, <3>1
  <2> QED
    BY <1>2, <2>1
<1>5. FateOf' = FateOf
  BY <1>4 DEF FateOf
<1> QED
  BY <1>1, <1>5

(* The statuses of all loans but l are kept, and l is the loan of r: the   *)
(* mapping changes at r alone.                                             *)
LEMMA FateStep ==
  ASSUME FateFacts, FateFacts', SagaInv, SagaInv', NEW l \in LoanIds, NEW r \in ReservationIds,
         loans'[l].status # "none", loans'[l].c.rid = r,
         loans[l].status # "none" => loans[l].c.rid = r,
         \A k \in LoanIds : k # l => loans'[k] = loans[k]
  PROVE  FateOf' = [FateOf EXCEPT ![r] = loans'[l].status]
<1> SUFFICES ASSUME NEW s \in ReservationIds
             PROVE  FateOf'[s] = IF s = r THEN loans'[l].status ELSE FateOf[s]
  BY DEF FateOf
<1>1. CASE s = r
  BY <1>1 DEF FateFacts, FateIs
<1>2. CASE s # r /\ ~HasLoan(s)
  <2>1. ~HasLoan(s)'
    BY <1>2 DEF HasLoan
  <2> QED
    BY <1>2, <2>1 DEF FateFacts
<1>3. CASE s # r /\ HasLoan(s)
  <2>1. PICK k \in LoanIds : loans[k].status # "none" /\ loans[k].c.rid = s
    BY <1>3 DEF HasLoan
  <2>2. k # l
    BY <1>3, <2>1
  <2>3. FateOf[s] = loans[k].status
    BY <2>1 DEF FateFacts, FateIs
  <2>4. loans'[k] = loans[k]
    BY <2>2
  <2>5. FateOf'[s] = loans'[k].status
    BY <2>1, <2>4 DEF FateFacts, FateIs
  <2> QED
    BY <1>3, <2>3, <2>4, <2>5
<1> QED
  BY <1>1, <1>2, <1>3

(* Releasing reserved books is Release of their reservations. *)
LEMMA ReleaseImplements ==
  ASSUME SagaInv, NEW S \in SUBSET Books, ReleaseBooks(S), UNCHANGED loans
  PROVE  Desk!Next
<1> DEFINE R == {books[b].rid : b \in S}
<1>1. ASSUME NEW b \in S
      PROVE  books[b].rid \in ReservationIds /\ ops[books[b].rid].status = "reserved"
  <2>1. books[b].status = "reserved"
    BY DEF ReleaseBooks
  <2>2. books[b].rid # None
    BY <2>1 DEF SagaInv, BooksInv
  <2>3. books[b].rid \in ReservationIds
    <3>1. books[b].rid \in Optional(ReservationIds)
      BY DEF SagaInv, TypeOK
    <3> QED
      BY <2>2, <3>1 DEF Optional
  <2>4. ops[books[b].rid].status = "reserved"
    BY <2>1, <2>2 DEF SagaInv, BooksInv
  <2> QED
    BY <2>3, <2>4
<1>2. R \in SUBSET ReservationIds
  BY <1>1
<1>3. \A r \in R : PhaseOf[r] = "reserved"
  BY <1>1 DEF PhaseOf
<1>4. ops' = [r \in ReservationIds |-> IF r \in R THEN [ops[r] EXCEPT !.status = "released"]
                                                ELSE ops[r]]
  BY DEF ReleaseBooks
<1>5. PhaseOf' = [r \in ReservationIds |-> IF r \in R THEN "released" ELSE PhaseOf[r]]
  <2>1. \A r \in ReservationIds : ops'[r].status = IF r \in R THEN "released" ELSE ops[r].status
    BY <1>4 DEF SagaInv, TypeOK
  <2> QED
    BY <2>1 DEF PhaseOf
<1>6. TitleOf' = TitleOf
  <2>1. \A r \in ReservationIds : /\ ops'[r].c = ops[r].c
                                  /\ ops'[r].status = "none" <=> ops[r].status = "none"
    <3> SUFFICES ASSUME NEW r \in ReservationIds
                 PROVE  /\ ops'[r].c = ops[r].c
                        /\ ops'[r].status = "none" <=> ops[r].status = "none"
      OBVIOUS
    <3>1. CASE r \in R
      BY <1>1, <1>4, <3>1 DEF SagaInv, TypeOK
    <3>2. CASE r \notin R
      BY <1>4, <3>2
    <3> QED
      BY <3>1, <3>2
  <2> QED
    BY <2>1 DEF TitleOf
<1>7. FateOf' = FateOf
  BY DEF FateOf, HasLoan, LoanOf
<1> HIDE DEF R
<1>8. Desk!Release(R)
  BY <1>3, <1>5, <1>6, <1>7 DEF Desk!Release
<1> QED
  BY <1>2, <1>8 DEF Desk!Next

(* Cancelling the loan of a released reservation is Cancel, or invisible.  *)
LEMMA CancelImplements ==
  ASSUME SagaInv, SagaInv', FateFacts, FateFacts', NEW c \in Correlations,
         NEW expected, CancelLoan(c, expected), UNCHANGED ops,
         ops[c.rid].status \in {"released", "returned"}
  PROVE  Desk!Next \/ UNCHANGED <<PhaseOf, TitleOf, FateOf>>
<1>1. CASE UNCHANGED loans
  BY <1>1, Invisible
<1>2. ASSUME NEW l \in LoanIds, LoanFor(c, l), loans[l].c = c, Outstanding(l),
             loans' = [loans EXCEPT ![l].status = "cancelled"]
      PROVE  Desk!Cancel(c.rid)
  <2>1. c.rid \in ReservationIds
    BY DEF Correlations
  <2>2. loans[l].status = "active" /\ ops[c.rid].status = "released"
    BY <1>2 DEF Outstanding, SagaInv, LoansInv
  <2>3. /\ loans'[l].status = "cancelled" /\ loans'[l].c = c
        /\ \A k \in LoanIds : k # l => loans'[k] = loans[k]
    BY <1>2 DEF SagaInv, TypeOK
  <2>4. FateOf' = [FateOf EXCEPT ![c.rid] = "cancelled"]
    BY <1>2, <2>1, <2>3, FateStep
  <2>5. FateOf[c.rid] = "active"
    BY <1>2, <2>2 DEF FateFacts, FateIs
  <2>6. PhaseOf[c.rid] = "released" /\ UNCHANGED <<PhaseOf, TitleOf>>
    BY <2>1, <2>2 DEF PhaseOf, TitleOf
  <2> QED
    BY <2>4, <2>5, <2>6 DEF Desk!Cancel
<1> QED
  BY <1>1, <1>2 DEF CancelLoan, Desk!Next, Correlations

(* Every step of the workflow is a step of Circulation or invisible. *)
LEMMA StepImplements ==
  ASSUME SagaInv, SagaInv', FateFacts, FateFacts', Next
  PROVE  Desk!Next \/ UNCHANGED <<PhaseOf, TitleOf, FateOf>>
<1>1. CASE UNCHANGED <<ops, loans>>
  BY <1>1, Invisible
<1>2. ASSUME NEW b \in Books, NEW p \in Patrons, NEW r \in ReservationIds,
             BorrowBook(b, p, r)
      PROVE  Desk!Reserve(r, b)
  <2>1. /\ ops[r].status = "none" /\ books[b].status = "available"
        /\ ops'[r].status = "reserved" /\ ops'[r].c.book = b
        /\ \A s \in ReservationIds : s # r => ops'[s] = ops[s]
        /\ UNCHANGED loans
    BY <1>2 DEF BorrowBook, Available, NextGeneration, SagaInv, TypeOK
  <2>2. FateOf' = FateOf
    BY <2>1 DEF FateOf, HasLoan, LoanOf
  <2>3. PhaseOf[r] = "none" /\ PhaseOf' = [PhaseOf EXCEPT ![r] = "reserved"]
    BY <2>1 DEF PhaseOf
  <2>4. TitleOf' = [TitleOf EXCEPT ![r] = b]
    BY <2>1 DEF TitleOf
  <2>5. ASSUME NEW s \in ReservationIds, PhaseOf[s] \in {"reserved", "borrowed"}
        PROVE  TitleOf[s] # b
    <3>1. ops[s].status \in {"reserved", "borrowed"} /\ TitleOf[s] = ops[s].c.book
      BY <2>5 DEF PhaseOf, TitleOf
    <3>2. ops[s].c.book = b => books[b].rid = s
      BY <3>1 DEF SagaInv, OpsInv
    <3>3. books[b].rid = s => books[b].status # "available"
      BY <3>1, NoneAssumption DEF SagaInv, BooksInv
    <3> QED
      BY <2>1, <3>1, <3>2, <3>3
  <2> QED
    BY <2>2, <2>3, <2>4, <2>5 DEF Desk!Reserve, Desk!Open
<1>3. ASSUME NEW S \in SUBSET Books, ReleaseExpiredReservations(S)
      PROVE  Desk!Next
  BY <1>3, ReleaseImplements DEF ReleaseExpiredReservations
<1>4. ASSUME NEW e \in events, NEW l \in LoanIds, CreateLoan(e, l)
      PROVE  Desk!Lend(e.c.rid)
  <2>1. e.c.rid \in ReservationIds /\ ops[e.c.rid].status # "none"
    BY DEF SagaInv, TypeOK, Events, Correlations, EventsInv
  <2>2. /\ loans'[l].status = "active" /\ loans'[l].c = e.c /\ loans[l].status = "none"
        /\ \A k \in LoanIds : k # l => loans'[k] = loans[k]
        /\ UNCHANGED ops
        /\ ~HasLoan(e.c.rid)
    BY <1>4 DEF CreateLoan, LoanFor, HasLoan, SagaInv, TypeOK
  <2>3. FateOf' = [FateOf EXCEPT ![e.c.rid] = "active"]
    BY <2>1, <2>2, FateStep
  <2>4. FateOf[e.c.rid] = "none" /\ PhaseOf[e.c.rid] # "none"
    BY <2>1, <2>2 DEF FateFacts, PhaseOf
  <2>5. UNCHANGED <<PhaseOf, TitleOf>>
    BY <2>2 DEF PhaseOf, TitleOf
  <2> QED
    BY <2>3, <2>4, <2>5 DEF Desk!Lend
<1>5. ASSUME NEW e \in comps, CompensateByRelease(e)
      PROVE  Desk!Next \/ UNCHANGED <<PhaseOf, TitleOf, FateOf>>
  <2>1. e.c.book \in Books
    BY DEF SagaInv, TypeOK, Events, Correlations
  <2>2. CASE UNCHANGED ops
    BY <1>1, <1>5, <2>2 DEF CompensateByRelease
  <2>3. CASE ReleaseBooks({e.c.book})
    BY <1>5, <2>1, <2>3, ReleaseImplements DEF CompensateByRelease
  <2> QED
    BY <1>5, <2>2, <2>3 DEF CompensateByRelease
<1>6. ASSUME NEW e \in events, ConfirmBorrow(e)
      PROVE  Desk!Confirm(e.c.rid)
  <2> DEFINE r == e.c.rid
  <2>1. /\ r \in ReservationIds /\ e.loan \in LoanIds /\ loans[e.loan].status # "none"
        /\ loans[e.loan].c = e.c
    BY <1>6 DEF ConfirmBorrow, Delivered, SagaInv, TypeOK, Events, Correlations, EventsInv
  <2>2. /\ ops[r].status = "reserved" /\ UNCHANGED loans
        /\ ops'[r].status = "borrowed" /\ ops'[r].c = ops[r].c
        /\ \A s \in ReservationIds : s # r => ops'[s] = ops[s]
    BY <1>6, <2>1 DEF ConfirmBorrow, TransitionAllowed, SagaInv, TypeOK
  <2>3. loans[e.loan].status \in {"active", "returned"}
    <3>1. loans[e.loan].status \in LoanStatus
      BY <2>1 DEF SagaInv, TypeOK
    <3>2. loans[e.loan].status # "cancelled"
      BY <2>1, <2>2 DEF SagaInv, LoansInv
    <3> QED
      BY <2>1, <3>1, <3>2 DEF LoanStatus
  <2>4. FateOf[r] = loans[e.loan].status
    BY <2>1 DEF FateFacts, FateIs
  <2>5. FateOf' = FateOf
    BY <2>2 DEF FateOf, HasLoan, LoanOf
  <2>6. PhaseOf[r] = "reserved" /\ PhaseOf' = [PhaseOf EXCEPT ![r] = "borrowed"]
    BY <2>1, <2>2 DEF PhaseOf
  <2>7. TitleOf' = TitleOf
    BY <2>1, <2>2 DEF TitleOf
  <2> QED
    BY <2>3, <2>4, <2>5, <2>6, <2>7 DEF Desk!Confirm
<1>7. ASSUME NEW e \in comps, CompensateByCancel(e)
      PROVE  Desk!Next \/ UNCHANGED <<PhaseOf, TitleOf, FateOf>>
  <2>1. e.c \in Correlations /\ ops[e.c.rid].status \in {"released", "returned"}
    BY <1>7 DEF CompensateByCancel, SagaInv, TypeOK, Events, DeliveryInv
  <2> QED
    BY <1>7, <2>1, CancelImplements DEF CompensateByCancel
<1>8. ASSUME NEW e \in events, CancelLoanOnBookReleased(e)
      PROVE  Desk!Next \/ UNCHANGED <<PhaseOf, TitleOf, FateOf>>
  <2>1. e.c \in Correlations /\ ops[e.c.rid].status \in {"released", "returned"}
    BY <1>8 DEF CancelLoanOnBookReleased, Delivered, SagaInv, TypeOK, Events, EventsInv
  <2> QED
    BY <1>8, <2>1, CancelImplements DEF CancelLoanOnBookReleased
<1>9. ASSUME NEW l \in LoanIds, ReturnLoan(l)
      PROVE  Desk!Next
  <2> DEFINE r == loans[l].c.rid
  <2>1. loans[l].status = "active" /\ r \in ReservationIds
    BY <1>9 DEF ReturnLoan, CompleteLoan, Outstanding, SagaInv, LoansInv, Correlations
  <2>2. /\ loans'[l].status = "returned" /\ loans'[l].c.rid = r /\ UNCHANGED ops
        /\ \A k \in LoanIds : k # l => loans'[k] = loans[k]
    BY <1>9 DEF ReturnLoan, CompleteLoan, SagaInv, TypeOK
  <2>3. FateOf' = [FateOf EXCEPT ![r] = "returned"]
    BY <2>1, <2>2, FateStep
  <2>4. FateOf[r] = "active"
    BY <2>1 DEF FateFacts, FateIs
  <2>5. UNCHANGED <<PhaseOf, TitleOf>>
    BY <2>2 DEF PhaseOf, TitleOf
  <2> QED
    BY <2>1, <2>3, <2>4, <2>5 DEF Desk!GiveBack, Desk!Next
<1>10. ASSUME NEW l \in LoanIds, NEW d \in ExtensionDays, ExtendLoan(l, d)
       PROVE  UNCHANGED <<PhaseOf, TitleOf, FateOf>>
  BY <1>10, Invisible DEF ExtendLoan, SagaInv, TypeOK
<1>11. ASSUME NEW e \in events, ReturnBookOnLoanCompleted(e)
       PROVE  Desk!Next \/ UNCHANGED <<PhaseOf, TitleOf, FateOf>>
  <2>1. CASE UNCHANGED ops
    BY <1>1, <1>11, <2>1 DEF ReturnBookOnLoanCompleted
  <2>2. CASE ReturnApplies(e)
    <3> DEFINE r == e.c.rid
    <3>1. /\ r \in ReservationIds /\ e.loan \in LoanIds
          /\ loans[e.loan].status = "returned" /\ loans[e.loan].c = e.c
      BY <1>11 DEF ReturnBookOnLoanCompleted, Delivered, SagaInv, TypeOK, Events,
                   Correlations, EventsInv
    <3>2. /\ ops[r].status = "borrowed" /\ UNCHANGED loans
          /\ ops'[r].status = "returned" /\ ops'[r].c = ops[r].c
          /\ \A s \in ReservationIds : s # r => ops'[s] = ops[s]
      <4>1. /\ ops[r].status = "borrowed" /\ UNCHANGED loans
            /\ ops' = [ops EXCEPT ![r].status = "returned"]
        BY <1>11, <2>2 DEF ReturnBookOnLoanCompleted, TransitionAllowed
      <4>2. ops \in [ReservationIds -> OperationRows]
        BY DEF SagaInv, TypeOK
      <4> QED
        BY <3>1, <4>1, <4>2
    <3>3. FateOf[r] = "returned"
      BY <3>1 DEF FateFacts, FateIs
    <3>4. FateOf' = FateOf
      BY <3>2 DEF FateOf, HasLoan, LoanOf
    <3>5. PhaseOf[r] = "borrowed" /\ PhaseOf' = [PhaseOf EXCEPT ![r] = "returned"]
      BY <3>1, <3>2 DEF PhaseOf
    <3>6. TitleOf' = TitleOf
      BY <3>1, <3>2 DEF TitleOf
    <3> QED
      BY <3>1, <3>3, <3>4, <3>5, <3>6 DEF Desk!Reshelve, Desk!Next
  <2> QED
    BY <1>11, <2>1, <2>2 DEF ReturnBookOnLoanCompleted
<1>12. \A e \in events \cup comps : e.c.rid \in ReservationIds
  BY DEF SagaInv, TypeOK, Events, Correlations
<1>13. CASE \E e \in events : Handle(e)
  <2>1. PICK e \in events : Handle(e)
    BY <1>13
  <2>2. CASE ReplayCreateLoan(e) \/ RejectLoan(e) \/ ReplayConfirm(e) \/ StaleConfirm(e)
    BY <1>1, <2>2 DEF ReplayCreateLoan, RejectLoan, ReplayConfirm, StaleConfirm
  <2>3. CASE (\E l \in LoanIds : CreateLoan(e, l)) \/ ConfirmBorrow(e)
    BY <1>4, <1>6, <1>12, <2>3 DEF Desk!Next
  <2>4. CASE CancelLoanOnBookReleased(e) \/ ReturnBookOnLoanCompleted(e)
    BY <1>8, <1>11, <2>4
  <2> QED
    BY <2>1, <2>2, <2>3, <2>4 DEF Handle
<1>14. CASE \E e \in comps : Compensate(e) \/ Crash(e)
  <2>1. PICK e \in comps : Compensate(e) \/ Crash(e)
    BY <1>14
  <2>2. CASE Crash(e)
    BY <1>1, <2>2 DEF Crash
  <2> QED
    BY <1>5, <1>7, <2>1, <2>2 DEF Compensate
<1>15. CASE \E b \in Books, p \in Patrons, r \in ReservationIds : BorrowBook(b, p, r)
  BY <1>2, <1>15 DEF Desk!Next
<1>16. CASE \/ \E p \in Patrons : PreflightBorrow(p) \/ SuspendPatron(p) \/ ReinstatePatron(p)
            \/ \E p \in Patrons, t \in Tiers : UpgradeTier(p, t)
            \/ \E b \in Books, p \in Patrons : RejectBorrow(b, p)
            \/ \E e \in events : SendLoanConfirmationEmail(e)
  BY <1>1, <1>16 DEF PreflightBorrow, SuspendPatron, ReinstatePatron, UpgradeTier,
                     RejectBorrow, SendLoanConfirmationEmail
<1> QED
  BY <1>3, <1>9, <1>10, <1>13, <1>14, <1>15, <1>16 DEF Next

(* The borrow workflow implements Circulation: through redelivery, crashes *)
(* between two transactions, the reaper and early returns, Catalog and     *)
(* Lending settle every reservation the same way (ConfirmBorrowOnLoan-     *)
(* Created, CancelLoanOnBookReleased, ReturnBookOnLoanCompleted).          *)
THEOREM Refinement == Spec => ImplementsCirculation
<1>1. Init => Desk!Init
  BY DEF Init, Desk!Init, PhaseOf, TitleOf, FateOf, HasLoan
<1>2. /\ SagaInv /\ SagaInv' /\ FateFacts /\ FateFacts' /\ [Next]_vars
      => [Desk!Next]_(Desk!circulation)
  <2> SUFFICES ASSUME SagaInv, SagaInv', FateFacts, FateFacts', [Next]_vars
               PROVE  Desk!Next \/ UNCHANGED <<PhaseOf, TitleOf, FateOf>>
    BY DEF Desk!circulation
  <2>1. CASE Next
    BY <2>1, StepImplements
  <2>2. CASE UNCHANGED vars
    BY <2>2, Invisible DEF vars
  <2> QED
    BY <2>1, <2>2
<1> QED
  BY <1>1, <1>2, FateDetermined, SagaInvariant, PTL DEF Spec, Desk!Spec, ImplementsCirculation
=============================================================================
