----------------------------- MODULE Aggregates -----------------------------
(* What the commands are asked and what the aggregates decide: the requests,  *)
(* the rows of the three contexts and the transitions of Book, Loan and       *)
(* Patron.  How a transaction reads and writes the rows is left to Commands.  *)
EXTENDS Integers, FiniteSets

CONSTANTS
    Calls,           \* executions of a command handler, retries included
    Requests,        \* what clients and workers ask for, see RequestType
    Patrons,         \* e-mail addresses, each the identity of one patron
    Loans,           \* reservation ids, each the identity of one loan
    Books,           \* book ids
    Keys,            \* idempotency keys
    PatronOf,        \* the patron of a reservation
    BookOf,          \* the book of a reservation
    Tiers,           \* membership tiers, in the order of the progression
    MaxOutstanding,  \* the loan limit of a tier
    Seeds,           \* sets of rows that may exist when the calls start
    None

Rows == Patrons \cup Loans \cup Books

PolicyKinds == {"suspend", "reinstate", "upgrade"}
LoanKinds == {"return", "extend", "cancel"}
InsertKinds == {"register", "add", "create"}

(* What a caller sends.  The kind is the receipt's scope; row and arg are the *)
(* facts the fingerprint covers.  Only HTTP requests carry a key.             *)
RequestType ==
    [kind : PolicyKinds, row : Patrons, arg : Int, key : Keys \cup {None}]
    \cup [kind : {"register"}, row : Patrons, arg : Int, key : Keys \cup {None}]
    \cup [kind : {"return", "extend"}, row : Loans, arg : Int, key : Keys \cup {None}]
    \cup [kind : {"create", "cancel"}, row : Loans, arg : Int, key : {None}]
    \cup [kind : {"borrow"}, row : Books, arg : Patrons, key : Keys \cup {None}]
    \cup [kind : {"add"}, row : {None}, arg : Int, key : Keys \cup {None}]

ASSUME CommandsAssumption ==
    /\ Requests \subseteq RequestType
    /\ Patrons \cap Loans = {} /\ Patrons \cap Books = {} /\ Loans \cap Books = {}
    /\ None \notin Rows \cup Keys \cup Calls \cup Requests /\ IsFiniteSet(Loans)
    /\ PatronOf \in [Loans -> Patrons] /\ BookOf \in [Loans -> Books]
    /\ Tiers \subseteq Nat /\ 0 \in Tiers
    /\ MaxOutstanding \in [Tiers -> Nat]
    /\ \A q \in Requests : q.kind \in {"upgrade", "register"} => q.arg \in Tiers
    /\ Seeds \subseteq SUBSET Rows
    /\ \A s \in Seeds : \A l \in s \cap Loans :
           PatronOf[l] \in s /\ \A k \in (s \cap Loans) \ {l} : BookOf[k] # BookOf[l]

-----------------------------------------------------------------------------
Statuses == {"absent", "eligible", "suspended", "active", "returned",
             "cancelled", "available", "reserved"}

(* n is the tier of a patron, the due date of a loan or the reservation       *)
(* generation of a book; by is the call whose commit wrote the row and stands *)
(* for what that call generated (identifiers, returned_at).  A row that does  *)
(* not exist has version 0.                                                   *)
RowType == [status : Statuses, n : Nat, version : Nat, by : Calls \cup {None}]
Absent == [status |-> "absent", n |-> 0, version |-> 0, by |-> None]

Answer(x, row) == [row |-> x, value |-> row]

(* A row as its first commit left it. *)
Fresh(x) ==
    [status |-> IF x \in Patrons THEN "eligible"
                ELSE IF x \in Loans THEN "active" ELSE "available",
     n |-> 0, version |-> 1, by |-> None]

-----------------------------------------------------------------------------
(* What the aggregates decide: the set of rows a transition may lead to,      *)
(* empty when the aggregate raises, the row itself when nothing changes.      *)

Suspended(row) ==
    IF row.status = "eligible" THEN {[row EXCEPT !.status = "suspended"]} ELSE {}

Reinstated(row) ==
    IF row.status = "suspended" THEN {[row EXCEPT !.status = "eligible"]} ELSE {}

Upgraded(row, tier) ==
    IF row.status # "absent" /\ tier > row.n THEN {[row EXCEPT !.n = tier]} ELSE {}

Returned(row) ==
    CASE row.status = "active"   -> {[row EXCEPT !.status = "returned"]}
      [] row.status = "returned" -> {row}
      [] OTHER                   -> {}

(* An active loan may be overdue when the clock is read, see ExtendLoan.       *)
Extended(row, days) ==
    IF row.status = "active" /\ days > 0 THEN {[row EXCEPT !.n = @ + days]} ELSE {}

(* A loan that was never created, or is already closed, is left alone.        *)
Cancelled(row) ==
    IF row.status = "active" THEN {[row EXCEPT !.status = "cancelled"]} ELSE {row}

Reserved(row) ==
    IF row.status = "available"
    THEN {[row EXCEPT !.status = "reserved", !.n = @ + 1]}
    ELSE {}

(* The decision a request asks for, on the row it is about.                   *)
Decisions(q, row) ==
    CASE q.kind = "suspend"   -> Suspended(row)
      [] q.kind = "reinstate" -> Reinstated(row)
      [] q.kind = "upgrade"   -> Upgraded(row, q.arg)
      [] q.kind = "return"    -> Returned(row)
      [] q.kind = "extend"    -> Extended(row, q.arg)
      [] q.kind = "cancel"    -> Cancelled(row)
      [] q.kind = "borrow"    -> Reserved(row)
=============================================================================
