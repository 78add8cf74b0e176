---------------------------- MODULE MCBorrowSaga ----------------------------
(* Instances of the borrow workflow for TLC. *)
EXTENDS BorrowSaga, TLC

MCMaxOutstanding == [t \in Tiers |-> t + 1]
MCLoanDays == [t \in Tiers |-> t + 1]

(* The identities are interchangeable. *)
Symmetry == Permutations(Books) \cup Permutations(Patrons)
            \cup Permutations(ReservationIds) \cup Permutations(LoanIds)
=============================================================================
