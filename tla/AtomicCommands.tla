--------------------------- MODULE AtomicCommands ---------------------------
(* What the command transactions promise, with no statements, locks, versions *)
(* to compare or indexes in it.  A command that takes effect does so in one   *)
(* step, decided on the rows as they are committed at that moment, and stores *)
(* its receipt in the same step.  A caller is answered with what this step    *)
(* did, with the receipt of an earlier one, or with the loan as it is now.  A *)
(* command that is refused or fails leaves nothing behind; that it is refused *)
(* only for a good reason is not promised, it may just have lost a race.      *)
EXTENDS Aggregates

VARIABLES
    table,     \* the rows
    receipts,  \* the receipts
    replies    \* which calls have taken effect or been answered, and how

atomic == <<table, receipts, replies>>

Init ==
    /\ \E present \in Seeds :
           table = [x \in Rows |-> IF x \in present THEN Fresh(x) ELSE Absent]
    /\ receipts = {}
    /\ replies = {}

Open(l) == table[l].status \notin {"absent", "returned", "cancelled"}

(* The borrowing policy at the moment a loan is created. *)
MayBorrow(l) ==
    LET p == PatronOf[l] IN
    /\ table[p].status = "eligible"
    /\ Cardinality({k \in Loans : PatronOf[k] = p /\ Open(k)}) < MaxOutstanding[table[p].n]
    /\ \A k \in Loans : BookOf[k] = BookOf[l] => ~Open(k)

Created(row, status, n) ==
    IF row.status = "absent" THEN {[Absent EXCEPT !.status = status, !.n = n]} ELSE {}

(* What a request may make of a row, as the row is. *)
Outcomes(q, x) ==
    CASE q.kind = "register" -> Created(table[x], "eligible", q.arg)
      [] q.kind = "add"      -> Created(table[x], "available", 0)
      [] q.kind = "create"   -> IF MayBorrow(x) THEN Created(table[x], "active", 0) ELSE {}
      [] OTHER               -> Decisions(q, table[x])

Targets(q) == IF q.kind = "add" THEN Books ELSE {q.row}

Reply(c, q, answer) ==
    replies' = replies \cup {[call |-> c, q |-> q, answer |-> answer]}

(* The whole command, on an unused key; the answer may be lost. *)
Execute(c, q) ==
    /\ \A r \in receipts : ~(r.kind = q.kind /\ r.key = q.key)
    /\ \E x \in Targets(q) : \E next \in Outcomes(q, x) :
           LET row == IF next = table[x] THEN next
                      ELSE [next EXCEPT !.version = @ + 1, !.by = c]
               answer == Answer(x, row)
           IN  /\ table' = [table EXCEPT ![x] = row]
               /\ receipts' = IF q.key = None THEN receipts
                              ELSE receipts \cup {[kind |-> q.kind, key |-> q.key,
                                     row |-> q.row, arg |-> q.arg, answer |-> answer]}
               /\ Reply(c, q, answer) \/ Reply(c, q, None)

(* A key that was used for the same facts is answered again. *)
AnswerAgain(c, q) ==
    /\ \E r \in receipts :
           /\ r.kind = q.kind /\ r.key = q.key /\ r.row = q.row /\ r.arg = q.arg
           /\ Reply(c, q, r.answer)
    /\ UNCHANGED <<table, receipts>>

(* A reservation that has its loan is answered with it. *)
AnswerWithLoan(c, q) ==
    /\ q.kind = "create" /\ table[q.row].status # "absent"
    /\ Reply(c, q, Answer(q.row, table[q.row]))
    /\ UNCHANGED <<table, receipts>>

Replied(c) == \E r \in replies : r.call = c

(* A step is the one reply of one call. *)
Next ==
    \E c \in Calls :
        /\ ~Replied(c) /\ Replied(c)'
        /\ \E q \in Requests : Execute(c, q) \/ AnswerAgain(c, q) \/ AnswerWithLoan(c, q)

Spec == Init /\ [][Next]_atomic
=============================================================================
