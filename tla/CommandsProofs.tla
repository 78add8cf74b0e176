--------------------------- MODULE CommandsProofs ---------------------------
(* Proofs about the command transactions, for any number of calls, requests,  *)
(* rows and keys.                                                             *)
EXTENDS Commands, FiniteSetTheorems, TLAPS

TxType == [pc : Steps \cup Ends, q : Requested, row : Rows \cup {None},
           copy : RowType, next : RowType, count : Nat, committed : BOOLEAN,
           answer : AnswerType \cup {None}]

Kinds == PolicyKinds \cup LoanKinds \cup InsertKinds \cup {"borrow"}

ReceiptType == [kind : Kinds, key : Keys, row : Rows \cup {None},
                arg : Int \cup Patrons, answer : AnswerType]

TypeInv ==
    /\ table \in [Rows -> RowType]
    /\ receipts \subseteq ReceiptType
    /\ fence \in [Patrons -> Calls \cup {None}]
    /\ tx \in [Calls -> TxType]

Closed == {"absent", "returned", "cancelled"}

(* OutstandingFor, of a given table.                                          *)
OpenLoans(t, p) == {l \in Loans : PatronOf[l] = p /\ t[l].status \notin Closed}

(* What the program counter of a call says of what it has read and staged.    *)
Shape(t) ==
    /\ t.pc = "idle" => t.q = None
    /\ t.pc # "idle" => t.q \in Requests /\ (t.q.kind # "add" => t.row = t.q.row)
    /\ t.pc = "fenced" => t.q.kind \in PolicyKinds \cup {"create"}
    /\ t.pc \in {"counted", "rechecked", "admitted", "conflicted", "unmatched"}
           => t.q.kind = "create"
    /\ t.pc = "eligible" => t.q.kind = "borrow"
    /\ t.pc \in {"idle", "looked", "fenced", "counted", "rechecked", "admitted", "eligible"}
           => t.copy = Absent
    /\ t.pc \in {"loaded", "locked"} =>
           /\ t.q.kind \notin InsertKinds /\ t.row \in Rows
           /\ t.next # t.copy /\ t.next.status # "absent" /\ t.copy.version >= 1
           /\ t.row \in Loans => t.copy.status \notin Closed
    /\ t.pc = "staged" =>
           /\ t.q.kind \notin PolicyKinds /\ t.row \in Rows
           /\ t.q.kind \in InsertKinds => t.copy = Absent /\ t.next.status # "absent"
           /\ t.q.kind = "add" => t.row \in Books
           /\ t.q.kind \notin InsertKinds => t.next = t.copy
    /\ t.committed => t.pc \in {"answered", "failed"} /\ t.row \in Rows

(* The steps at which a call holds the borrowing fence of its patron.         *)
Fencing(t) ==
    \/ t.pc \in {"fenced", "counted", "rechecked", "admitted"}
    \/ t.pc \in {"loaded", "locked"} /\ t.q.kind \in PolicyKinds
    \/ t.pc = "staged" /\ t.q.kind = "create"

Counting(t) == t.pc \in {"counted", "rechecked", "admitted"}
               \/ (t.pc = "staged" /\ t.q.kind = "create")
Admitted(t) == t.pc = "admitted" \/ (t.pc = "staged" /\ t.q.kind = "create")

(* What a call may rely on of the committed rows.                             *)
ReadsHold(c) ==
    LET t == tx[c] IN
    /\ Fencing(t) => fence[FencedPatron(t.q)] = c
    /\ t.pc = "loaded" => /\ table[t.row].version >= t.copy.version
                          /\ table[t.row].version = t.copy.version => table[t.row] = t.copy
    /\ t.pc = "locked" => table[t.row] = t.copy
    /\ Counting(t) => Cardinality(OpenLoans(table, PatronOf[t.row])) <= t.count
    /\ Admitted(t) => /\ table[PatronOf[t.row]].status = "eligible"
                      /\ t.count < MaxOutstanding[table[PatronOf[t.row]].n]
    /\ t.pc \in {"rechecked", "admitted"} => table[t.row].status = "absent"

(* What a commit leaves behind for good.                                      *)
Receipt(t, r) ==
    /\ r.kind = t.q.kind /\ r.key = t.q.key /\ r.row = t.q.row /\ r.arg = t.q.arg

CommitHolds(c) ==
    tx[c].committed =>
        /\ Changes(c) => table[tx[c].row].version > tx[c].copy.version
        /\ tx[c].q.key # None => \E r \in receipts : Receipt(tx[c], r)

CallInv(c) == Shape(tx[c]) /\ ReadsHold(c) /\ CommitHolds(c)

VersionInv == \A x \in Rows : table[x].status = "absent" <=> table[x].version = 0

FenceInv ==
    \A p \in Patrons : fence[p] # None =>
        Fencing(tx[fence[p]]) /\ FencedPatron(tx[fence[p]].q) = p

LockInv ==
    \A c, d \in Calls :
        tx[c].pc = "locked" /\ tx[d].pc = "locked" /\ tx[c].row = tx[d].row => c = d

ReceiptInv ==
    \A r \in receipts : \E c \in Calls :
        /\ tx[c].committed /\ Receipt(tx[c], r)
        /\ r.answer = Answer(tx[c].row, Written(c))

CommandsInv ==
    /\ TypeInv
    /\ \A c \in Calls : CallInv(c)
    /\ VersionInv
    /\ FenceInv
    /\ LockInv
    /\ ReceiptInv
    /\ OncePerKey
    /\ AnswersAgree
    /\ NoLostUpdate

-----------------------------------------------------------------------------
(* Facts about the constants.                                                 *)

(* A request names a row of the table its kind belongs to, and only HTTP      *)
(* requests carry a key.                                                      *)
LEMMA RequestFacts ==
  ASSUME NEW q \in Requests
  PROVE  /\ q.key \in Keys \cup {None} /\ q.row \in Rows \cup {None}
         /\ q.kind \in Kinds /\ q.arg \in Int \cup Patrons
         /\ q.kind \in PolicyKinds \cup {"register"} => q.row \in Patrons
         /\ q.kind \in LoanKinds \cup {"create"} => q.row \in Loans
         /\ q.kind = "borrow" => q.row \in Books /\ q.arg \in Patrons
         /\ q.kind \in {"create", "cancel"} => q.key = None
         /\ q.kind \in {"upgrade", "register"} => q.arg \in Nat /\ q.arg \in Tiers
         /\ q.kind = "extend" => q.arg \in Int
<1> USE DEF Kinds, PolicyKinds, LoanKinds, InsertKinds, Rows
<1>1. q \in RequestType
  BY CommandsAssumption
<1>2. q.kind \in {"upgrade", "register"} => q.arg \in Tiers /\ q.arg \in Nat
  BY CommandsAssumption
<1>4. CASE q \in [kind : PolicyKinds, row : Patrons, arg : Int, key : Keys \cup {None}]
  BY <1>2, <1>4
<1>5. CASE q \in [kind : {"register"}, row : Patrons, arg : Int, key : Keys \cup {None}]
  BY <1>2, <1>5
<1>6. CASE q \in [kind : {"return", "extend"}, row : Loans, arg : Int, key : Keys \cup {None}]
  BY <1>2, <1>6
<1>7. CASE q \in [kind : {"create", "cancel"}, row : Loans, arg : Int, key : {None}]
  BY <1>2, <1>7
<1>8. CASE q \in [kind : {"borrow"}, row : Books, arg : Patrons, key : Keys \cup {None}]
  BY <1>2, <1>8
<1>9. CASE q \in [kind : {"add"}, row : {None}, arg : Int, key : Keys \cup {None}]
  BY <1>2, <1>9
<1> QED
  BY <1>1, <1>4, <1>5, <1>6, <1>7, <1>8, <1>9 DEF RequestType

(* The patron whose fence a policy command or an admission takes.             *)
LEMMA FencedPatronType ==
  ASSUME NEW q \in Requests, q.kind \in PolicyKinds \cup {"create"}
  PROVE  FencedPatron(q) \in Patrons
  BY RequestFacts, CommandsAssumption DEF FencedPatron

(* Rows of the three tables are different.                                    *)
LEMMA RowsDisjoint ==
  /\ \A x \in Patrons : x \notin Loans /\ x \notin Books /\ x \in Rows /\ x # None
  /\ \A x \in Loans : x \notin Patrons /\ x \notin Books /\ x \in Rows /\ x # None
  /\ \A x \in Books : x \notin Patrons /\ x \notin Loans /\ x \in Rows /\ x # None
  /\ None \notin Keys /\ None \notin Calls /\ None \notin Requests
  BY CommandsAssumption DEF Rows

(* Outstanding loans are finitely many, and fewer rows count no more.         *)
LEMMA OutstandingFinite ==
  ASSUME NEW S \in SUBSET Loans
  PROVE  IsFiniteSet(S) /\ Cardinality(S) \in Nat
  BY FS_Subset, FS_CardinalityType, CommandsAssumption

(* The rows a count sees are those of the committed table.                    *)
LEMMA OpenLoansCounted ==
  ASSUME NEW p
  PROVE  OutstandingFor(p) = OpenLoans(table, p)
  BY DEF OutstandingFor, Outstanding, OpenLoans, Closed

-----------------------------------------------------------------------------
(* A step of one call that writes no row.                                     *)

(* A step that changes only call c, and gives up or takes fences that were    *)
(* its own or free, preserves the invariant if c itself is left in order.     *)
LEMMA LocalStep ==
  ASSUME CommandsInv, NEW c \in Calls,
         UNCHANGED <<table, receipts>>,
         tx' \in [Calls -> TxType],
         \A d \in Calls \ {c} : tx'[d] = tx[d],
         fence' \in [Patrons -> Calls \cup {None}],
         \A p \in Patrons : fence'[p] # fence[p] => fence[p] \in {c, None} /\ fence'[p] \in {c, None},
         \A p \in Patrons : fence'[p] = c =>
             Fencing(tx'[c]) /\ FencedPatron(tx'[c].q) = p,
         Shape(tx'[c]), ReadsHold(c)', ~tx[c].committed, ~tx'[c].committed,
         tx'[c].pc = "locked" =>
             \A d \in Calls \ {c} : ~(tx[d].pc = "locked" /\ tx[d].row = tx'[c].row),
         tx'[c].pc = "answered" /\ tx'[c].q.key # None =>
             \E r \in receipts : Receipt(tx'[c], r) /\ tx'[c].answer = r.answer
  PROVE  CommandsInv'
<1>1. TypeInv'
  BY DEF CommandsInv, TypeInv
<1>2. ASSUME NEW d \in Calls PROVE CallInv(d)'
  <2>1. CASE d = c
    BY <2>1 DEF CallInv, CommitHolds
  <2>2. CASE d # c
    <3>1. tx'[d] = tx[d] /\ CallInv(d)
      BY <2>2 DEF CommandsInv
    <3>2. Shape(tx'[d])
      BY <3>1 DEF CallInv
    <3>3. CommitHolds(d)'
      BY <3>1 DEF CallInv, CommitHolds, Changes
    <3>4. Fencing(tx[d]) => tx[d].q \in Requests /\ tx[d].q.kind \in PolicyKinds \cup {"create"}
      BY <3>1 DEF CallInv, Shape, Fencing
    <3>5. Fencing(tx[d]) => fence'[FencedPatron(tx[d].q)] = d
      BY <2>2, <3>1, <3>4, FencedPatronType, RowsDisjoint DEF CallInv, ReadsHold
    <3>6. ReadsHold(d)'
      BY <3>1, <3>5 DEF CallInv, ReadsHold
    <3> QED
      BY <3>2, <3>3, <3>6 DEF CallInv
  <2> QED
    BY <2>1, <2>2
<1>3. VersionInv'
  BY DEF CommandsInv, VersionInv
<1>4. FenceInv'
  <2> SUFFICES ASSUME NEW p \in Patrons, fence'[p] # None
               PROVE  Fencing(tx'[fence'[p]]) /\ FencedPatron(tx'[fence'[p]].q) = p
    BY DEF FenceInv
  <2>1. CASE fence'[p] = c
    BY <2>1
  <2>2. CASE fence'[p] # c
    <3>1. fence'[p] = fence[p] /\ fence[p] \in Calls \ {c}
      BY <2>2
    <3> QED
      BY <3>1 DEF CommandsInv, FenceInv
  <2> QED
    BY <2>1, <2>2
<1>5. LockInv'
  BY DEF CommandsInv, LockInv
<1>6. ASSUME NEW d \in Calls PROVE tx'[d].committed <=> tx[d].committed
  BY <1>6
<1>7. ASSUME NEW d \in Calls, tx[d].committed PROVE tx'[d] = tx[d] /\ Written(d)' = Written(d) /\ Changes(d)' = Changes(d)
  BY <1>7 DEF Written, Changes
<1>8. ReceiptInv'
  BY <1>6, <1>7 DEF CommandsInv, ReceiptInv
<1>9. OncePerKey'
  BY <1>6, <1>7 DEF CommandsInv, OncePerKey, SameKey
<1>10. NoLostUpdate'
  BY <1>6, <1>7 DEF CommandsInv, NoLostUpdate
<1>11. AnswersAgree'
  <2> SUFFICES ASSUME NEW d \in Calls, tx'[d].pc = "answered", tx'[d].q.key # None
               PROVE  \E e \in Calls : /\ SameKey(e, d)' /\ tx'[e].committed
                                       /\ tx'[e].q.row = tx'[d].q.row /\ tx'[e].q.arg = tx'[d].q.arg
                                       /\ tx'[d].answer = Answer(tx'[e].row, Written(e)')
    BY DEF AnswersAgree, Answer
  <2>1. CASE d = c
    <3>1. PICK r \in receipts : Receipt(tx'[c], r) /\ tx'[c].answer = r.answer
      BY <2>1
    <3>2. PICK e \in Calls : /\ tx[e].committed /\ Receipt(tx[e], r)
                             /\ r.answer = Answer(tx[e].row, Written(e))
      BY DEF CommandsInv, ReceiptInv
    <3>3. tx[e].q \in Requests /\ tx'[c].q \in Requests
      BY <2>1, <3>2 DEF CommandsInv, CallInv, Shape
    <3> QED
      BY <1>7, <2>1, <3>1, <3>2, <3>3, RowsDisjoint DEF Receipt, SameKey
  <2>2. CASE d # c
    <3>1. PICK e \in Calls : /\ SameKey(e, d) /\ tx[e].committed
                             /\ tx[e].q.row = tx[d].q.row /\ tx[e].q.arg = tx[d].q.arg
                             /\ tx[d].answer = Answer(tx[e].row, Written(e))
      BY <2>2 DEF CommandsInv, AnswersAgree
    <3> QED
      BY <1>7, <2>2, <3>1 DEF SameKey
  <2> QED
    BY <2>1, <2>2
<1> QED
  BY <1>1, <1>2, <1>3, <1>4, <1>5, <1>8, <1>9, <1>10, <1>11 DEF CommandsInv

(* A call under way has a request and has not committed.                      *)
LEMMA UnderWay ==
  ASSUME CommandsInv, NEW c \in Calls, tx[c].pc \in Steps \ {"idle"}
  PROVE  /\ tx[c] \in TxType /\ tx[c].q \in Requests /\ ~tx[c].committed /\ Shape(tx[c])
         /\ ReadsHold(c)
         /\ tx[c].q.kind # "add" => tx[c].row = tx[c].q.row
  BY DEF CommandsInv, TypeInv, CallInv, Shape, Steps

(* A step inside the transaction that takes and gives up no lock.             *)
LEMMA AdvanceStep ==
  ASSUME CommandsInv, NEW c \in Calls,
         UNCHANGED <<table, receipts, fence>>,
         tx' = [tx EXCEPT ![c] = tx'[c]], tx'[c] \in TxType,
         ~tx[c].committed, ~tx'[c].committed, Shape(tx'[c]), ReadsHold(c)',
         Fencing(tx[c]) => Fencing(tx'[c]) /\ tx'[c].q = tx[c].q,
         tx'[c].pc = "locked" =>
             \A d \in Calls \ {c} : ~(tx[d].pc = "locked" /\ tx[d].row = tx'[c].row),
         tx'[c].pc = "answered" /\ tx'[c].q.key # None =>
             \E r \in receipts : Receipt(tx'[c], r) /\ tx'[c].answer = r.answer
  PROVE  CommandsInv'
<1>1. tx' \in [Calls -> TxType] /\ \A d \in Calls \ {c} : tx'[d] = tx[d]
  BY DEF CommandsInv, TypeInv
<1>2. fence' \in [Patrons -> Calls \cup {None}]
  BY DEF CommandsInv, TypeInv
<1>3. \A p \in Patrons : fence'[p] = c => Fencing(tx'[c]) /\ FencedPatron(tx'[c].q) = p
  BY RowsDisjoint DEF CommandsInv, FenceInv
<1> QED
  BY <1>1, <1>2, <1>3, LocalStep

(* The end of a transaction without effect.                                   *)
LEMMA CloseStep ==
  ASSUME CommandsInv, NEW c \in Calls, tx[c].pc \in Steps \ {"idle"},
         UNCHANGED <<table, receipts>>, fence' = Released(c),
         tx' = [tx EXCEPT ![c] = tx'[c]], tx'[c] \in TxType,
         tx'[c].q = tx[c].q, tx'[c].row = tx[c].row, ~tx'[c].committed,
         \/ tx'[c].pc \in Ends
         \/ tx'[c].pc = "conflicted" /\ tx[c].q.kind = "create",
         tx'[c].pc = "answered" => tx[c].q.key = None
  PROVE  CommandsInv'
<1>1. tx' \in [Calls -> TxType] /\ \A d \in Calls \ {c} : tx'[d] = tx[d]
  BY DEF CommandsInv, TypeInv
<1>2. /\ fence' \in [Patrons -> Calls \cup {None}]
      /\ \A p \in Patrons : fence'[p] # c
      /\ \A p \in Patrons : fence'[p] # fence[p] => fence[p] = c /\ fence'[p] = None
  BY RowsDisjoint DEF CommandsInv, TypeInv, Released
<1>3. Shape(tx'[c])
  BY UnderWay DEF Shape, Ends
<1>4. ~Fencing(tx'[c]) /\ ReadsHold(c)'
  BY DEF Fencing, ReadsHold, Counting, Admitted, Ends
<1>5. tx'[c].pc # "locked"
  BY DEF Ends
<1> QED
  BY <1>1, <1>2, <1>3, <1>4, <1>5, UnderWay, LocalStep

(* A call that ends without an answer, or meets a unique index, gives up its  *)
(* locks and nothing else.                                                    *)
LEMMA FinishStep ==
  ASSUME CommandsInv, NEW c \in Calls, tx[c].pc \in Steps \ {"idle"},
         NEW end \in Ends \cup {"conflicted"}, end # "answered",
         end = "conflicted" => tx[c].q.kind = "create",
         Finish(c, end)
  PROVE  CommandsInv'
<1>1. tx[c] \in TxType /\ ~tx[c].committed
  BY UnderWay
<1>2. tx'[c] = [tx[c] EXCEPT !.pc = end] /\ tx' = [tx EXCEPT ![c] = tx'[c]]
  BY DEF Finish, Close, CommandsInv, TypeInv
<1>3. end \in Steps \cup Ends
  BY DEF Steps
<1>4. tx'[c] \in TxType /\ tx'[c].q = tx[c].q /\ tx'[c].row = tx[c].row /\ ~tx'[c].committed
      /\ tx'[c].pc = end
  BY <1>1, <1>2, <1>3 DEF TxType
<1> QED
  BY <1>2, <1>4, CloseStep DEF Finish, Close

(* An answer read from a committed row, for a request without a key.          *)
LEMMA AnswerStep ==
  ASSUME CommandsInv, NEW c \in Calls, tx[c].pc \in Steps \ {"idle"},
         tx[c].row \in Rows, tx[c].q.key = None, AnswerFrom(c, tx[c].row)
  PROVE  CommandsInv'
<1>1. tx[c] \in TxType /\ ~tx[c].committed
  BY UnderWay
<1>2. Answer(tx[c].row, table[tx[c].row]) \in AnswerType
  BY DEF CommandsInv, TypeInv, Answer, AnswerType
<1>3. /\ tx'[c] = [tx[c] EXCEPT !.pc = "answered", !.answer = Answer(tx[c].row, table[tx[c].row])]
      /\ tx' = [tx EXCEPT ![c] = tx'[c]]
  BY DEF AnswerFrom, Close, CommandsInv, TypeInv
<1>4. tx'[c] \in TxType /\ tx'[c].q = tx[c].q /\ tx'[c].row = tx[c].row /\ ~tx'[c].committed
      /\ tx'[c].pc = "answered"
  BY <1>1, <1>2, <1>3 DEF TxType, Ends
<1> QED
  BY <1>3, <1>4, CloseStep DEF AnswerFrom, Close, Ends

-----------------------------------------------------------------------------
(* The start of a handler.                                                    *)

(* The lookup that opens a command: a missing receipt or loan, a receipt that *)
(* answers or contradicts, or an existing loan.                               *)
LEMMA StartStep ==
  ASSUME CommandsInv, NEW c \in Calls, NEW q \in Requests, Start(c, q)
  PROVE  CommandsInv'
<1>1. tx[c] \in TxType /\ ~tx[c].committed /\ tx[c].copy = Absent /\ tx[c].pc = "idle"
  BY DEF Start, Begin, BeginWithReceipt, BeginReplay, CommandsInv, TypeInv, CallInv, Shape
<1>2. q.row \in Rows \cup {None} /\ q \in Requested /\ q # None
  BY RequestFacts, RowsDisjoint DEF Requested
<1>3. ~Fencing(tx[c])
  BY <1>1 DEF Fencing
<1>4. CASE Begin(c, q)
  <2>1. /\ tx'[c] = [tx[c] EXCEPT !.pc = "looked", !.q = q, !.row = q.row]
        /\ tx' = [tx EXCEPT ![c] = tx'[c]] /\ UNCHANGED <<table, receipts, fence>>
    BY <1>4 DEF Begin, Advance, CommandsInv, TypeInv
  <2>2. tx'[c] \in TxType /\ tx'[c].pc = "looked" /\ tx'[c].q = q /\ tx'[c].row = q.row
        /\ tx'[c].copy = Absent /\ ~tx'[c].committed
    BY <1>1, <1>2, <2>1 DEF TxType, Steps
  <2>3. Shape(tx'[c]) /\ ReadsHold(c)'
    BY <2>2 DEF Shape, ReadsHold, Fencing, Counting, Admitted
  <2> QED
    BY <1>1, <1>3, <2>1, <2>2, <2>3, AdvanceStep
<1>5. CASE BeginWithReceipt(c, q)
  <2>1. PICK r \in ReceiptsFor(q) :
          Advance(c, [tx[c] EXCEPT
               !.pc = IF SameFacts(q, r) THEN "answered" ELSE "mismatched",
               !.q = q, !.row = q.row,
               !.answer = IF SameFacts(q, r) THEN r.answer ELSE None])
    BY <1>5 DEF BeginWithReceipt
  <2>2. r \in receipts /\ r.kind = q.kind /\ r.key = q.key /\ r.answer \in AnswerType
    BY <2>1 DEF ReceiptsFor, CommandsInv, TypeInv, ReceiptType
  <2>3. /\ tx'[c] = [tx[c] EXCEPT
               !.pc = IF SameFacts(q, r) THEN "answered" ELSE "mismatched",
               !.q = q, !.row = q.row,
               !.answer = IF SameFacts(q, r) THEN r.answer ELSE None]
        /\ tx' = [tx EXCEPT ![c] = tx'[c]] /\ UNCHANGED <<table, receipts, fence>>
    BY <2>1 DEF Advance, CommandsInv, TypeInv
  <2>4. /\ tx'[c] \in TxType /\ tx'[c].pc \in {"answered", "mismatched"}
        /\ tx'[c].q = q /\ tx'[c].row = q.row /\ ~tx'[c].committed
        /\ tx'[c].pc = "answered" => SameFacts(q, r) /\ tx'[c].answer = r.answer
    BY <1>1, <1>2, <2>2, <2>3 DEF TxType, Ends
  <2>5. Shape(tx'[c]) /\ ReadsHold(c)'
    BY <2>4 DEF Shape, ReadsHold, Fencing, Counting, Admitted
  <2>6. tx'[c].pc = "answered" => Receipt(tx'[c], r)
    BY <2>2, <2>4 DEF Receipt, SameFacts
  <2> QED
    BY <1>1, <1>3, <2>2, <2>3, <2>4, <2>5, <2>6, AdvanceStep
<1>6. CASE BeginReplay(c, q)
  <2>1. q.key = None /\ q.row \in Rows /\ Answer(q.row, table[q.row]) \in AnswerType
    BY <1>6, RequestFacts DEF BeginReplay, Rows, CommandsInv, TypeInv, Answer, AnswerType
  <2>2. /\ tx'[c] = [tx[c] EXCEPT !.pc = "answered", !.q = q, !.row = q.row,
                                  !.answer = Answer(q.row, table[q.row])]
        /\ tx' = [tx EXCEPT ![c] = tx'[c]] /\ UNCHANGED <<table, receipts, fence>>
    BY <1>6 DEF BeginReplay, Advance, CommandsInv, TypeInv
  <2>3. /\ tx'[c] \in TxType /\ tx'[c].pc = "answered" /\ tx'[c].q = q /\ tx'[c].row = q.row
        /\ ~tx'[c].committed
    BY <1>1, <1>2, <2>1, <2>2 DEF TxType, Ends
  <2>4. Shape(tx'[c]) /\ ReadsHold(c)'
    BY <2>3 DEF Shape, ReadsHold, Fencing, Counting, Admitted
  <2> QED
    BY <1>1, <1>3, <2>1, <2>2, <2>3, <2>4, AdvanceStep
<1> QED
  BY <1>4, <1>5, <1>6 DEF Start

-----------------------------------------------------------------------------
(* Admission.                                                                 *)

(* The fence goes to one call at a time.                                      *)
LEMMA AcquireFenceStep ==
  ASSUME CommandsInv, NEW c \in Calls, AcquireFence(c)
  PROVE  CommandsInv'
<1> DEFINE p == FencedPatron(tx[c].q)
<1>1. /\ tx[c].pc = "looked" /\ tx[c] \in TxType /\ tx[c].q \in Requests /\ ~tx[c].committed
      /\ Shape(tx[c]) /\ tx[c].q.kind \in PolicyKinds \cup {"create"}
  BY UnderWay DEF AcquireFence, Steps
<1>2. p \in Patrons /\ fence[p] = None
  BY <1>1, FencedPatronType DEF AcquireFence
<1>3. /\ tx'[c] = [tx[c] EXCEPT !.pc = "fenced"] /\ tx' = [tx EXCEPT ![c] = tx'[c]]
      /\ fence' = [fence EXCEPT ![p] = c] /\ UNCHANGED <<table, receipts>>
  BY DEF AcquireFence, CommandsInv, TypeInv
<1>4. tx'[c] \in TxType /\ tx'[c].pc = "fenced" /\ tx'[c].q = tx[c].q /\ tx'[c].row = tx[c].row
      /\ tx'[c].copy = tx[c].copy /\ ~tx'[c].committed
  BY <1>1, <1>3 DEF TxType, Steps
<1>5. tx' \in [Calls -> TxType] /\ \A d \in Calls \ {c} : tx'[d] = tx[d]
  BY <1>3, <1>4 DEF CommandsInv, TypeInv
<1>6. /\ fence' \in [Patrons -> Calls \cup {None}] /\ fence'[p] = c
      /\ \A x \in Patrons : x # p => fence'[x] = fence[x]
  BY <1>2, <1>3 DEF CommandsInv, TypeInv
<1>7. \A x \in Patrons : fence[x] # c
  BY <1>1, RowsDisjoint DEF CommandsInv, FenceInv, Fencing
<1>8. Shape(tx'[c])
  BY <1>1, <1>4 DEF Shape
<1>9. ReadsHold(c)' /\ Fencing(tx'[c])
  BY <1>4, <1>6 DEF ReadsHold, Fencing, Counting, Admitted
<1>10. \A x \in Patrons : fence'[x] # fence[x] => fence[x] \in {c, None} /\ fence'[x] \in {c, None}
  BY <1>2, <1>6
<1>11. \A x \in Patrons : fence'[x] = c => Fencing(tx'[c]) /\ FencedPatron(tx'[c].q) = x
  BY <1>4, <1>6, <1>7, <1>9
<1> HIDE DEF p
<1> QED
  BY <1>1, <1>3, <1>4, <1>5, <1>6, <1>8, <1>9, <1>10, <1>11, LocalStep

(* A patron has loans and a reservation a patron.                             *)
LEMMA CreateRow ==
  ASSUME CommandsInv, NEW c \in Calls, tx[c].pc \in Steps \ {"idle"}, tx[c].q.kind = "create"
  PROVE  /\ tx[c].row = tx[c].q.row /\ tx[c].row \in Loans /\ tx[c].row \in Rows
         /\ PatronOf[tx[c].row] \in Patrons /\ PatronOf[tx[c].row] = FencedPatron(tx[c].q)
         /\ BookOf[tx[c].row] \in Books /\ tx[c].q.key = None
  BY UnderWay, RequestFacts, CommandsAssumption DEF FencedPatron, Rows

(* Under the fence, the count of outstanding loans bounds what is committed.  *)
LEMMA CountStep ==
  ASSUME CommandsInv, NEW c \in Calls, CountOutstanding(c)
  PROVE  CommandsInv'
<1> DEFINE n == Cardinality(OpenLoans(table, PatronOf[tx[c].row]))
<1>1. /\ tx[c].pc = "fenced" /\ tx[c].pc \in Steps \ {"idle"} /\ tx[c] \in TxType
      /\ tx[c].q \in Requests /\ ~tx[c].committed /\ Shape(tx[c]) /\ ReadsHold(c)
      /\ tx[c].q.kind = "create"
  BY UnderWay DEF CountOutstanding, Steps
<1>2. n \in Nat
  BY OutstandingFinite DEF OpenLoans
<1>3. /\ tx'[c] = [tx[c] EXCEPT !.pc = "counted", !.count = n] /\ tx' = [tx EXCEPT ![c] = tx'[c]]
      /\ UNCHANGED <<table, receipts, fence>>
  BY OpenLoansCounted DEF CountOutstanding, Advance, CommandsInv, TypeInv
<1> HIDE DEF n
<1>4. tx'[c] \in TxType /\ tx'[c].pc = "counted" /\ tx'[c].q = tx[c].q /\ tx'[c].row = tx[c].row
      /\ tx'[c].copy = tx[c].copy /\ tx'[c].count = n /\ ~tx'[c].committed
  BY <1>1, <1>2, <1>3 DEF TxType, Steps
<1>5. Shape(tx'[c])
  BY <1>1, <1>4 DEF Shape
<1>7. Cardinality(OpenLoans(table', PatronOf[tx'[c].row])) <= tx'[c].count
  BY <1>2, <1>3, <1>4 DEF n
<1>8. ReadsHold(c)'
  BY <1>1, <1>3, <1>4, <1>7 DEF ReadsHold, Fencing, Counting, Admitted
<1>9. Fencing(tx'[c])
  BY <1>4 DEF Fencing
<1> QED
  BY <1>1, <1>3, <1>4, <1>5, <1>8, <1>9, AdvanceStep

(* A call that holds the fence moves to the next check of its admission.      *)
LEMMA AdmissionGoto ==
  ASSUME CommandsInv, NEW c \in Calls, NEW next \in {"rechecked", "admitted"},
         Goto(c, next),
         \/ tx[c].pc = "counted" /\ next = "rechecked"
         \/ tx[c].pc = "rechecked" /\ next = "admitted",
         table[tx[c].row].status = "absent",
         next = "admitted" => Admits(c, PatronOf[tx[c].row])
  PROVE  CommandsInv'
<1>1. /\ tx[c].pc \in Steps \ {"idle"} /\ tx[c] \in TxType
      /\ tx[c].q \in Requests /\ ~tx[c].committed /\ Shape(tx[c]) /\ ReadsHold(c)
      /\ tx[c].q.kind = "create"
  BY UnderWay DEF Steps, Shape
<1>2. /\ tx'[c] = [tx[c] EXCEPT !.pc = next] /\ tx' = [tx EXCEPT ![c] = tx'[c]]
      /\ UNCHANGED <<table, receipts, fence>>
  BY DEF Goto, Advance, CommandsInv, TypeInv
<1>3. tx'[c] \in TxType /\ tx'[c].pc = next /\ tx'[c].q = tx[c].q /\ tx'[c].row = tx[c].row
      /\ tx'[c].copy = tx[c].copy /\ tx'[c].count = tx[c].count /\ ~tx'[c].committed
  BY <1>1, <1>2 DEF TxType, Steps
<1>4. Shape(tx'[c])
  BY <1>1, <1>3 DEF Shape
<1>6. Cardinality(OpenLoans(table', PatronOf[tx'[c].row])) <= tx'[c].count
  BY <1>1, <1>2, <1>3 DEF ReadsHold, Counting
<1>7. fence'[FencedPatron(tx'[c].q)] = c
  BY <1>1, <1>2, <1>3 DEF ReadsHold, Fencing
<1>8. ReadsHold(c)'
  BY <1>2, <1>3, <1>6, <1>7 DEF ReadsHold, Counting, Admitted, Admits
<1>9. Fencing(tx'[c])
  BY <1>3 DEF Fencing
<1> QED
  BY <1>1, <1>2, <1>3, <1>4, <1>8, <1>9, AdvanceStep

(* The second read of the reservation: a replay, or a row known to be         *)
(* missing.                                                                   *)
LEMMA RereadStep ==
  ASSUME CommandsInv, NEW c \in Calls, RereadReservation(c)
  PROVE  CommandsInv'
<1>1. tx[c].pc = "counted" /\ tx[c].pc \in Steps \ {"idle"} /\ tx[c].q.kind = "create"
  BY UnderWay DEF RereadReservation, Steps, Shape
<1>2. CASE table[tx[c].row].status # "absent"
  BY <1>1, <1>2, CreateRow, AnswerStep DEF RereadReservation
<1>3. CASE table[tx[c].row].status = "absent"
  BY <1>1, <1>3, AdmissionGoto DEF RereadReservation
<1> QED
  BY <1>2, <1>3

(* The patron's policy, read under the fence, holds or rejects.               *)
LEMMA ReadPolicyStep ==
  ASSUME CommandsInv, NEW c \in Calls, ReadPolicy(c)
  PROVE  CommandsInv'
<1>1. tx[c].pc = "rechecked" /\ tx[c].pc \in Steps \ {"idle"} /\ ReadsHold(c)
  BY UnderWay DEF ReadPolicy, Steps
<1>2. CASE Admits(c, PatronOf[tx[c].row])
  BY <1>1, <1>2, AdmissionGoto DEF ReadPolicy, ReadsHold
<1>3. CASE ~Admits(c, PatronOf[tx[c].row])
  BY <1>1, <1>3, FinishStep DEF ReadPolicy, Ends
<1> QED
  BY <1>2, <1>3

(* The check of the book stages the loan or rejects.                          *)
LEMMA CheckBookStep ==
  ASSUME CommandsInv, NEW c \in Calls, CheckBook(c)
  PROVE  CommandsInv'
<1>1. /\ tx[c].pc = "admitted" /\ tx[c].pc \in Steps \ {"idle"} /\ tx[c] \in TxType
      /\ tx[c].q \in Requests /\ ~tx[c].committed /\ Shape(tx[c]) /\ ReadsHold(c)
      /\ tx[c].q.kind = "create"
  BY UnderWay DEF CheckBook, Steps, Shape
<1>2. CASE OutstandingForBook(BookOf[tx[c].row]) # {}
  BY <1>1, <1>2, FinishStep DEF CheckBook, Ends
<1>3. CASE OutstandingForBook(BookOf[tx[c].row]) = {}
  <2> DEFINE new == [Absent EXCEPT !.status = "active"]
  <2>1. new \in RowType /\ new.status = "active"
    BY DEF Absent, RowType, Statuses
  <2>2. /\ tx'[c] = [tx[c] EXCEPT !.pc = "staged", !.next = new] /\ tx' = [tx EXCEPT ![c] = tx'[c]]
        /\ UNCHANGED <<table, receipts, fence>>
    BY <1>3 DEF CheckBook, Advance, CommandsInv, TypeInv
  <2> HIDE DEF new
  <2>3. tx'[c] \in TxType /\ tx'[c].pc = "staged" /\ tx'[c].q = tx[c].q /\ tx'[c].row = tx[c].row
        /\ tx'[c].copy = tx[c].copy /\ tx'[c].count = tx[c].count /\ ~tx'[c].committed
        /\ tx'[c].next = new
    BY <1>1, <2>1, <2>2 DEF TxType, Steps
  <2>4. Shape(tx'[c])
    BY <1>1, <2>1, <2>3, CreateRow DEF Shape, InsertKinds, PolicyKinds
  <2>6. Cardinality(OpenLoans(table', PatronOf[tx'[c].row])) <= tx'[c].count
    BY <1>1, <2>2, <2>3 DEF ReadsHold, Counting
  <2>7. fence'[FencedPatron(tx'[c].q)] = c
    BY <1>1, <2>2, <2>3 DEF ReadsHold, Fencing
  <2>8. ReadsHold(c)'
    BY <1>1, <2>2, <2>3, <2>6, <2>7 DEF ReadsHold, Counting, Admitted
  <2>9. Fencing(tx'[c])
    BY <1>1, <2>3 DEF Fencing
  <2> QED
    BY <1>1, <2>2, <2>3, <2>4, <2>8, <2>9, AdvanceStep
<1> QED
  BY <1>2, <1>3

-----------------------------------------------------------------------------
(* The other inserts, and the preflight of borrow_book.                       *)

(* A registration stages a new patron or finds the address taken.             *)
LEMMA RegisterStep ==
  ASSUME CommandsInv, NEW c \in Calls, RegisterPatron(c)
  PROVE  CommandsInv'
<1>1. /\ tx[c].pc = "looked" /\ tx[c].pc \in Steps \ {"idle"} /\ tx[c] \in TxType
      /\ tx[c].q \in Requests /\ ~tx[c].committed /\ Shape(tx[c])
      /\ tx[c].q.kind = "register" /\ tx[c].row \in Rows
  BY UnderWay, RequestFacts, RowsDisjoint DEF RegisterPatron, Steps, Shape
<1>2. CASE table[tx[c].row].status # "absent"
  BY <1>1, <1>2, FinishStep DEF RegisterPatron, Ends
<1>3. CASE table[tx[c].row].status = "absent"
  <2> DEFINE new == [Absent EXCEPT !.status = "eligible", !.n = tx[c].q.arg]
  <2>1. new \in RowType /\ new.status = "eligible"
    BY <1>1, RequestFacts DEF Absent, RowType, Statuses
  <2>2. /\ tx'[c] = [tx[c] EXCEPT !.pc = "staged", !.next = new] /\ tx' = [tx EXCEPT ![c] = tx'[c]]
        /\ UNCHANGED <<table, receipts, fence>>
    BY <1>3 DEF RegisterPatron, Advance, CommandsInv, TypeInv
  <2> HIDE DEF new
  <2>3. tx'[c] \in TxType /\ tx'[c].pc = "staged" /\ tx'[c].q = tx[c].q /\ tx'[c].row = tx[c].row
        /\ tx'[c].copy = tx[c].copy /\ ~tx'[c].committed /\ tx'[c].next = new
    BY <1>1, <2>1, <2>2 DEF TxType, Steps
  <2>4. Shape(tx'[c])
    BY <1>1, <2>1, <2>3 DEF Shape, InsertKinds, PolicyKinds
  <2>5. ~Fencing(tx[c]) /\ ReadsHold(c)'
    BY <1>1, <2>3 DEF ReadsHold, Fencing, Counting, Admitted
  <2> QED
    BY <1>1, <2>2, <2>3, <2>4, <2>5, AdvanceStep
<1> QED
  BY <1>2, <1>3

(* A new book has an identifier of its own.                                   *)
LEMMA AddBookStep ==
  ASSUME CommandsInv, NEW c \in Calls, AddBook(c)
  PROVE  CommandsInv'
<1> DEFINE new == [Absent EXCEPT !.status = "available"]
<1>1. /\ tx[c].pc = "looked" /\ tx[c].pc \in Steps \ {"idle"} /\ tx[c] \in TxType
      /\ tx[c].q \in Requests /\ ~tx[c].committed /\ Shape(tx[c])
      /\ tx[c].q.kind = "add"
  BY UnderWay DEF AddBook, Steps
<1>2. PICK b \in Books : Advance(c, [tx[c] EXCEPT !.pc = "staged", !.row = b, !.next = new])
  BY DEF AddBook
<1>3. new \in RowType /\ new.status = "available" /\ b \in Rows
  BY RowsDisjoint DEF Absent, RowType, Statuses
<1>4. /\ tx'[c] = [tx[c] EXCEPT !.pc = "staged", !.row = b, !.next = new]
      /\ tx' = [tx EXCEPT ![c] = tx'[c]] /\ UNCHANGED <<table, receipts, fence>>
  BY <1>2 DEF Advance, CommandsInv, TypeInv
<1> HIDE DEF new
<1>5. tx'[c] \in TxType /\ tx'[c].pc = "staged" /\ tx'[c].q = tx[c].q /\ tx'[c].row = b
      /\ tx'[c].copy = tx[c].copy /\ ~tx'[c].committed /\ tx'[c].next = new
  BY <1>1, <1>3, <1>4 DEF TxType, Steps
<1>6. Shape(tx'[c])
  BY <1>1, <1>3, <1>5 DEF Shape, InsertKinds, PolicyKinds
<1>7. ~Fencing(tx[c]) /\ ReadsHold(c)'
  BY <1>1, <1>5 DEF ReadsHold, Fencing, Counting, Admitted
<1> QED
  BY <1>1, <1>4, <1>5, <1>6, <1>7, AdvanceStep

(* The preflight of borrow_book reads the borrower and holds nothing.         *)
LEMMA FindBorrowerStep ==
  ASSUME CommandsInv, NEW c \in Calls, FindBorrower(c)
  PROVE  CommandsInv'
<1>1. /\ tx[c].pc = "looked" /\ tx[c].pc \in Steps \ {"idle"} /\ tx[c] \in TxType
      /\ tx[c].q \in Requests /\ ~tx[c].committed /\ Shape(tx[c])
      /\ tx[c].q.kind = "borrow"
  BY UnderWay DEF FindBorrower, Steps
<1>2. CASE table[tx[c].q.arg].status # "eligible"
  BY <1>1, <1>2, FinishStep DEF FindBorrower, Ends
<1>3. CASE table[tx[c].q.arg].status = "eligible"
  <2>1. /\ tx'[c] = [tx[c] EXCEPT !.pc = "eligible"] /\ tx' = [tx EXCEPT ![c] = tx'[c]]
        /\ UNCHANGED <<table, receipts, fence>>
    BY <1>3 DEF FindBorrower, Goto, Advance, CommandsInv, TypeInv
  <2>2. tx'[c] \in TxType /\ tx'[c].pc = "eligible" /\ tx'[c].q = tx[c].q /\ tx'[c].row = tx[c].row
        /\ tx'[c].copy = tx[c].copy /\ ~tx'[c].committed
    BY <1>1, <2>1 DEF TxType, Steps
  <2>3. Shape(tx'[c])
    BY <1>1, <2>2 DEF Shape
  <2>4. ~Fencing(tx[c]) /\ ReadsHold(c)'
    BY <1>1, <2>2 DEF ReadsHold, Fencing, Counting, Admitted
  <2> QED
    BY <1>1, <2>1, <2>2, <2>3, <2>4, AdvanceStep
<1> QED
  BY <1>2, <1>3

-----------------------------------------------------------------------------
(* Read, decide, update.                                                      *)

(* A call about to load its aggregate asks for an existing kind of row and    *)
(* has staged nothing.                                                        *)
LEMMA MayLoadFacts ==
  ASSUME CommandsInv, NEW c \in Calls, MayLoad(c)
  PROVE  /\ tx[c].pc \in Steps \ {"idle"} /\ tx[c] \in TxType /\ tx[c].q \in Requests
         /\ ~tx[c].committed /\ Shape(tx[c]) /\ ReadsHold(c)
         /\ tx[c].q.kind \notin InsertKinds /\ tx[c].row = tx[c].q.row /\ tx[c].row \in Rows
         /\ table[tx[c].row] \in RowType
         /\ tx[c].q.kind \in PolicyKinds => Fencing(tx[c])
         /\ tx[c].q.kind \notin PolicyKinds => ~Fencing(tx[c])
<1>1. /\ tx[c].pc \in Steps \ {"idle"} /\ tx[c] \in TxType /\ tx[c].q \in Requests
      /\ ~tx[c].committed /\ Shape(tx[c]) /\ ReadsHold(c)
      /\ tx[c].q.kind # "add" => tx[c].row = tx[c].q.row
  BY UnderWay DEF MayLoad, Steps
<1>2. tx[c].q.kind \in PolicyKinds \cup LoanKinds \cup {"borrow"}
  BY <1>1 DEF MayLoad, Shape
<1>3. tx[c].q.kind \notin InsertKinds /\ tx[c].q.kind # "add"
  BY <1>2 DEF PolicyKinds, LoanKinds, InsertKinds
<1>4. tx[c].row \in Rows
  BY <1>1, <1>2, <1>3, RequestFacts, RowsDisjoint
<1>5. table[tx[c].row] \in RowType
  BY <1>4 DEF CommandsInv, TypeInv
<1>6. /\ tx[c].q.kind \in PolicyKinds => Fencing(tx[c])
      /\ tx[c].q.kind \notin PolicyKinds => ~Fencing(tx[c])
  BY <1>1 DEF MayLoad, Fencing, Shape, PolicyKinds, LoanKinds
<1> QED
  BY <1>1, <1>3, <1>4, <1>5, <1>6

(* The read of an aggregate and what was decided on it: the copy is the       *)
(* committed row.                                                             *)
LEMMA LoadStep ==
  ASSUME CommandsInv, NEW c \in Calls, MayLoad(c),
         NEW next \in RowType,
         next = table[tx[c].row] => tx[c].q.kind \notin PolicyKinds,
         next # table[tx[c].row] => /\ table[tx[c].row].status # "absent"
                                    /\ next.status # "absent"
                                    /\ tx[c].row \in Loans => table[tx[c].row].status \notin Closed,
         IF next = table[tx[c].row] /\ tx[c].q.key = None
         THEN AnswerFrom(c, tx[c].row)
         ELSE Advance(c, [tx[c] EXCEPT
                 !.pc = IF next = table[tx[c].row] THEN "staged" ELSE "loaded",
                 !.copy = table[tx[c].row], !.next = next])
  PROVE  CommandsInv'
<1> DEFINE row == table[tx[c].row]
<1>1. CASE next = row /\ tx[c].q.key = None
  BY <1>1, MayLoadFacts, AnswerStep
<1>2. CASE ~(next = row /\ tx[c].q.key = None)
  <2>1. /\ tx'[c] = [tx[c] EXCEPT !.pc = IF next = row THEN "staged" ELSE "loaded",
                                  !.copy = row, !.next = next]
        /\ tx' = [tx EXCEPT ![c] = tx'[c]] /\ UNCHANGED <<table, receipts, fence>>
    BY <1>2 DEF Advance, CommandsInv, TypeInv
  <2>2. row \in RowType
    BY MayLoadFacts
  <2>3. row.status # "absent" => row.version >= 1
    BY <2>2, MayLoadFacts DEF CommandsInv, VersionInv, RowType
  <2>4. row = table'[tx[c].row]
    BY <2>1
  <2>5. next # row => row.status # "absent" /\ next.status # "absent" /\ (tx[c].row \in Loans => row.status \notin Closed)
    OBVIOUS
  <2> HIDE DEF row
  <2>6. /\ tx'[c] \in TxType /\ tx'[c].pc = (IF next = row THEN "staged" ELSE "loaded")
        /\ tx'[c].q = tx[c].q /\ tx'[c].row = tx[c].row
        /\ tx'[c].copy = row /\ tx'[c].next = next /\ ~tx'[c].committed
    BY <2>1, <2>2, MayLoadFacts DEF TxType, Steps
  <2>7. Shape(tx'[c])
    <3>1. CASE next = row
      <4>1. tx'[c].pc = "staged" /\ tx[c].q.kind \notin PolicyKinds
        BY <2>6, <3>1 DEF row
      <4>2. /\ tx[c].q.kind \notin InsertKinds /\ tx[c].q.kind # "add" /\ tx[c].row = tx[c].q.row
            /\ tx[c].row \in Rows /\ tx[c].q \in Requests
        BY MayLoadFacts DEF InsertKinds
      <4> QED
        BY <2>6, <3>1, <4>1, <4>2 DEF Shape
    <3>2. CASE next # row
      <4>1. tx'[c].pc = "loaded"
        BY <2>6, <3>2
      <4>2. /\ tx[c].q.kind \notin InsertKinds /\ tx[c].q.kind # "add" /\ tx[c].row = tx[c].q.row
            /\ tx[c].row \in Rows /\ tx[c].q \in Requests
        BY MayLoadFacts DEF InsertKinds
      <4> QED
        BY <2>3, <2>5, <2>6, <3>2, <4>1, <4>2 DEF Shape
    <3> QED
      BY <3>1, <3>2
  <2>8. Fencing(tx[c]) => Fencing(tx'[c])
    BY <2>6, MayLoadFacts DEF Fencing, row
  <2>9. Fencing(tx'[c]) => Fencing(tx[c])
    BY <2>6, MayLoadFacts DEF Fencing, InsertKinds
  <2>10. Fencing(tx'[c]) => fence'[FencedPatron(tx'[c].q)] = c
    BY <2>1, <2>6, <2>9, MayLoadFacts DEF ReadsHold
  <2>11. ~Counting(tx'[c]) /\ ~Admitted(tx'[c])
    BY <2>6, MayLoadFacts DEF Counting, Admitted, InsertKinds
  <2>12. ReadsHold(c)'
    BY <2>2, <2>4, <2>6, <2>10, <2>11 DEF ReadsHold, RowType
  <2> QED
    BY <2>1, <2>6, <2>7, <2>8, <2>12, MayLoadFacts, AdvanceStep
<1> QED
  BY <1>1, <1>2

(* What the aggregates decide keeps the type of the row and leaves closed     *)
(* loans and missing rows alone.                                              *)
LEMMA PolicyDecisions ==
  ASSUME NEW row \in RowType, NEW next, NEW tier \in Nat
  PROVE  next \in Suspended(row) \cup Reinstated(row) \cup Upgraded(row, tier) =>
             next \in RowType /\ next # row /\ row.status # "absent" /\ next.status # "absent"
<1>1. next \in Suspended(row) => next \in RowType /\ next # row /\ row.status # "absent" /\ next.status # "absent"
  BY DEF Suspended, RowType, Statuses
<1>2. next \in Reinstated(row) => next \in RowType /\ next # row /\ row.status # "absent" /\ next.status # "absent"
  BY DEF Reinstated, RowType, Statuses
<1>3. next \in Upgraded(row, tier) => next \in RowType /\ next # row /\ row.status # "absent" /\ next.status # "absent"
  BY DEF Upgraded, RowType, Statuses
<1> QED
  BY <1>1, <1>2, <1>3

LEMMA LoanDecisions ==
  ASSUME NEW row \in RowType, NEW next, NEW days \in Int
  PROVE  next \in Returned(row) \cup Extended(row, days) \cup Cancelled(row) =>
             next \in RowType /\ (next # row => row.status \notin Closed /\ next.status # "absent")
<1>1. next \in Returned(row) => next \in RowType /\ (next # row => row.status \notin Closed /\ next.status # "absent")
  BY DEF Returned, RowType, Statuses, Closed
<1>2. next \in Extended(row, days) => next \in RowType /\ (next # row => row.status \notin Closed /\ next.status # "absent")
  BY DEF Extended, RowType, Statuses, Closed
<1>3. next \in Cancelled(row) => next \in RowType /\ (next # row => row.status \notin Closed /\ next.status # "absent")
  BY DEF Cancelled, RowType, Statuses, Closed
<1> QED
  BY <1>1, <1>2, <1>3

LEMMA BookDecisions ==
  ASSUME NEW row \in RowType, NEW next \in Reserved(row)
  PROVE  next \in RowType /\ next # row /\ row.status # "absent" /\ next.status # "absent"
<1>1. row.status = "available" /\ next = [row EXCEPT !.status = "reserved", !.n = row.n + 1]
  BY DEF Reserved
<1>2. row.n + 1 \in Nat
  BY DEF RowType
<1> QED
  BY <1>1, <1>2 DEF RowType, Statuses

(* Suspend, reinstate and upgrade, between the fence and the UPDATE.          *)
LEMMA PolicyStep ==
  ASSUME CommandsInv, NEW c \in Calls,
         SuspendPatron(c) \/ ReinstatePatron(c) \/ UpgradePatronTier(c)
  PROVE  CommandsInv'
<1> DEFINE row == table[tx[c].row]
<1>1. MayLoad(c) /\ tx[c].q.kind \in PolicyKinds
  BY DEF SuspendPatron, ReinstatePatron, UpgradePatronTier, Decide, PolicyKinds
<1>2. row \in RowType /\ tx[c].pc \in Steps \ {"idle"} /\ tx[c].q \in Requests
      /\ tx[c].row = tx[c].q.row
  BY <1>1, MayLoadFacts
<1>3. tx[c].row \notin Loans
  BY <1>1, <1>2, RequestFacts, RowsDisjoint
<1>4. CASE Finish(c, "rejected")
  BY <1>2, <1>4, FinishStep DEF Ends
<1>5. CASE ~Finish(c, "rejected")
  <2>1. PICK next : /\ next \in RowType /\ next # row /\ row.status # "absent" /\ next.status # "absent"
                    /\ Advance(c, [tx[c] EXCEPT
                           !.pc = IF next = row THEN "staged" ELSE "loaded",
                           !.copy = row, !.next = next])
    <3>1. CASE SuspendPatron(c)
      <4>1. PICK next \in Suspended(row) : ~(next = row /\ tx[c].q.key = None) =>
                Advance(c, [tx[c] EXCEPT !.pc = IF next = row THEN "staged" ELSE "loaded",
                                         !.copy = row, !.next = next])
        BY <1>5, <3>1 DEF SuspendPatron, Decide, Load
      <4> QED
        BY <1>2, <4>1, PolicyDecisions
    <3>2. CASE ReinstatePatron(c)
      <4>1. PICK next \in Reinstated(row) : ~(next = row /\ tx[c].q.key = None) =>
                Advance(c, [tx[c] EXCEPT !.pc = IF next = row THEN "staged" ELSE "loaded",
                                         !.copy = row, !.next = next])
        BY <1>5, <3>2 DEF ReinstatePatron, Decide, Load
      <4> QED
        BY <1>2, <4>1, PolicyDecisions
    <3>3. CASE UpgradePatronTier(c)
      <4>1. PICK next \in Upgraded(row, tx[c].q.arg) : ~(next = row /\ tx[c].q.key = None) =>
                Advance(c, [tx[c] EXCEPT !.pc = IF next = row THEN "staged" ELSE "loaded",
                                         !.copy = row, !.next = next])
        BY <1>5, <3>3 DEF UpgradePatronTier, Decide, Load
      <4>2. tx[c].q.arg \in Nat
        BY <1>2, <3>3, RequestFacts DEF UpgradePatronTier, Decide
      <4> QED
        BY <1>2, <4>1, <4>2, PolicyDecisions
    <3> QED
      BY <3>1, <3>2, <3>3
  <2> QED
    BY <1>1, <1>3, <2>1, LoadStep
<1> QED
  BY <1>4, <1>5

(* Return, extend and cancel, which take no fence.                            *)
LEMMA LoanStep ==
  ASSUME CommandsInv, NEW c \in Calls,
         ReturnLoan(c) \/ ExtendLoan(c) \/ CancelLoan(c)
  PROVE  CommandsInv'
<1> DEFINE row == table[tx[c].row]
           step(next) == IF next = row /\ tx[c].q.key = None
                         THEN AnswerFrom(c, tx[c].row)
                         ELSE Advance(c, [tx[c] EXCEPT
                                  !.pc = IF next = row THEN "staged" ELSE "loaded",
                                  !.copy = row, !.next = next])
<1>1. MayLoad(c) /\ tx[c].q.kind \in LoanKinds
  BY DEF ReturnLoan, ExtendLoan, CancelLoan, Decide, LoanKinds
<1>2. row \in RowType /\ tx[c].pc \in Steps \ {"idle"} /\ tx[c].q \in Requests
      /\ tx[c].row = tx[c].q.row
  BY <1>1, MayLoadFacts
<1>3. tx[c].q.kind \notin PolicyKinds
  BY <1>1 DEF LoanKinds, PolicyKinds
<1>4. CASE Finish(c, "rejected")
  BY <1>2, <1>4, FinishStep DEF Ends
<1>5. CASE ~Finish(c, "rejected")
  <2>1. PICK next : /\ next \in RowType /\ (next # row => row.status \notin Closed /\ next.status # "absent")
                    /\ step(next)
    <3>1. CASE ReturnLoan(c)
      <4>1. PICK next \in Returned(row) : step(next)
        BY <1>5, <3>1 DEF ReturnLoan, Decide, Load
      <4> HIDE DEF step
      <4> QED
        BY <1>2, <4>1, LoanDecisions
    <3>2. CASE ExtendLoan(c)
      <4>1. PICK next \in Extended(row, tx[c].q.arg) : step(next)
        BY <1>5, <3>2 DEF ExtendLoan, Decide, Load
      <4>2. tx[c].q.arg \in Int
        BY <1>2, <3>2, RequestFacts DEF ExtendLoan, Decide
      <4> HIDE DEF step
      <4> QED
        BY <1>2, <4>1, <4>2, LoanDecisions
    <3>3. CASE CancelLoan(c)
      <4>1. PICK next \in Cancelled(row) : step(next)
        BY <1>5, <3>3 DEF CancelLoan, Decide, Load
      <4> HIDE DEF step
      <4> QED
        BY <1>2, <4>1, LoanDecisions
    <3> QED
      BY <3>1, <3>2, <3>3
  <2>2. next # row => row.status # "absent" /\ row.status \notin Closed /\ next.status # "absent"
    BY <2>1 DEF Closed
  <2> QED
    BY <1>1, <1>3, <2>1, <2>2, LoadStep
<1> QED
  BY <1>4, <1>5

(* The reservation of a book.                                                 *)
LEMMA ReserveStep ==
  ASSUME CommandsInv, NEW c \in Calls, ReserveBook(c)
  PROVE  CommandsInv'
<1> DEFINE row == table[tx[c].row]
<1>1. MayLoad(c) /\ tx[c].q.kind = "borrow" /\ tx[c].q.kind \notin PolicyKinds
  BY DEF ReserveBook, Decide, PolicyKinds
<1>2. row \in RowType /\ tx[c].pc \in Steps \ {"idle"} /\ tx[c].q \in Requests
      /\ tx[c].row = tx[c].q.row
  BY <1>1, MayLoadFacts
<1>3. tx[c].row \notin Loans
  BY <1>1, <1>2, RequestFacts, RowsDisjoint
<1>4. CASE Finish(c, "rejected")
  BY <1>2, <1>4, FinishStep DEF Ends
<1>5. CASE ~Finish(c, "rejected")
  <2>1. PICK next \in Reserved(row) :
            IF next = row /\ tx[c].q.key = None
            THEN AnswerFrom(c, tx[c].row)
            ELSE Advance(c, [tx[c] EXCEPT !.pc = IF next = row THEN "staged" ELSE "loaded",
                                          !.copy = row, !.next = next])
    BY <1>5 DEF ReserveBook, Decide, Load
  <2>2. next \in RowType /\ row.status # "absent" /\ next.status # "absent"
    BY <1>2, BookDecisions
  <2> QED
    BY <1>1, <1>3, <2>1, <2>2, LoadStep
<1> QED
  BY <1>4, <1>5

(* The guarded UPDATE: the row lock is exclusive, and the copy it matches is  *)
(* the committed row.                                                         *)
LEMMA UpdateStep ==
  ASSUME CommandsInv, NEW c \in Calls, Update(c)
  PROVE  CommandsInv'
<1>1. /\ tx[c].pc = "loaded" /\ tx[c].pc \in Steps \ {"idle"} /\ tx[c] \in TxType
      /\ tx[c].q \in Requests /\ ~tx[c].committed /\ Shape(tx[c]) /\ ReadsHold(c)
  BY UnderWay DEF Update, Steps
<1>2. CASE ~Unmodified(c)
  BY <1>1, <1>2, FinishStep DEF Update, Ends
<1>3. CASE Unmodified(c)
  <2>1. /\ tx'[c] = [tx[c] EXCEPT !.pc = "locked"] /\ tx' = [tx EXCEPT ![c] = tx'[c]]
        /\ UNCHANGED <<table, receipts, fence>>
    BY <1>3 DEF Update, Goto, Advance, CommandsInv, TypeInv
  <2>2. /\ tx'[c] \in TxType /\ tx'[c].pc = "locked" /\ tx'[c].q = tx[c].q
        /\ tx'[c].row = tx[c].row /\ tx'[c].copy = tx[c].copy /\ tx'[c].next = tx[c].next
        /\ ~tx'[c].committed
    BY <1>1, <2>1 DEF TxType, Steps
  <2>3. Shape(tx'[c])
    BY <1>1, <2>2 DEF Shape
  <2>4. Fencing(tx[c]) <=> Fencing(tx'[c])
    BY <1>1, <2>2 DEF Fencing
  <2>5. table[tx[c].row] = tx[c].copy
    BY <1>1, <1>3 DEF ReadsHold, Unmodified
  <2>6. ReadsHold(c)'
    BY <1>1, <2>1, <2>2, <2>4, <2>5 DEF ReadsHold, Counting, Admitted
  <2>7. \A d \in Calls \ {c} : ~(tx[d].pc = "locked" /\ tx[d].row = tx'[c].row)
    BY <2>2 DEF Update, LockedBy
  <2> QED
    BY <1>1, <2>1, <2>2, <2>3, <2>4, <2>6, <2>7, AdvanceStep
<1> QED
  BY <1>2, <1>3

-----------------------------------------------------------------------------
(* The ends of a transaction that does not commit.                            *)

(* The conflicts at commit, the search for their winner, and a rollback.      *)
LEMMA EndStep ==
  ASSUME CommandsInv, NEW c \in Calls,
         \/ ReceiptConflict(c) \/ EmailConflict(c) \/ LoanConflict(c)
         \/ FindWinner(c) \/ FindHolder(c) \/ Abort(c)
  PROVE  CommandsInv'
<1>1. CASE ReceiptConflict(c)
  BY <1>1, FinishStep DEF ReceiptConflict, Ends, Steps
<1>2. CASE EmailConflict(c)
  BY <1>2, FinishStep DEF EmailConflict, Ends, Steps
<1>3. CASE LoanConflict(c)
  BY <1>3, FinishStep DEF LoanConflict, Ends, Steps
<1>4. CASE FindWinner(c)
  <2>1. /\ tx[c].pc = "conflicted" /\ tx[c].pc \in Steps \ {"idle"} /\ tx[c] \in TxType
        /\ tx[c].q \in Requests /\ ~tx[c].committed /\ Shape(tx[c]) /\ tx[c].q.kind = "create"
    BY <1>4, UnderWay DEF FindWinner, Steps, Shape
  <2>2. CASE table[tx[c].row].status # "absent"
    BY <1>4, <2>1, <2>2, CreateRow, AnswerStep DEF FindWinner
  <2>3. CASE table[tx[c].row].status = "absent"
    <3>1. /\ tx'[c] = [tx[c] EXCEPT !.pc = "unmatched"] /\ tx' = [tx EXCEPT ![c] = tx'[c]]
          /\ UNCHANGED <<table, receipts, fence>>
      BY <1>4, <2>3 DEF FindWinner, Goto, Advance, CommandsInv, TypeInv
    <3>2. tx'[c] \in TxType /\ tx'[c].pc = "unmatched" /\ tx'[c].q = tx[c].q
          /\ tx'[c].row = tx[c].row /\ ~tx'[c].committed
      BY <2>1, <3>1 DEF TxType, Steps
    <3>3. Shape(tx'[c])
      BY <2>1, <3>2 DEF Shape
    <3>4. ~Fencing(tx[c]) /\ ReadsHold(c)'
      BY <2>1, <3>2 DEF ReadsHold, Fencing, Counting, Admitted
    <3> QED
      BY <2>1, <3>1, <3>2, <3>3, <3>4, AdvanceStep
  <2> QED
    BY <2>2, <2>3
<1>5. CASE FindHolder(c)
  <2>1. tx[c].pc \in Steps \ {"idle"} /\ (Finish(c, "rejected") \/ Finish(c, "retryable"))
    BY <1>5 DEF FindHolder, Steps
  <2> QED
    BY <2>1, FinishStep DEF Ends
<1>6. CASE Abort(c)
  BY <1>6, FinishStep DEF Abort, Ends
<1> QED
  BY <1>1, <1>2, <1>3, <1>4, <1>5, <1>6

-----------------------------------------------------------------------------
(* Commit.                                                                    *)

(* What a committing call knows of the row it writes and of the others.       *)
LEMMA CommitFacts ==
  ASSUME CommandsInv, NEW c \in Calls, NEW end \in {"answered", "failed"}, Commits(c, end)
  PROVE  /\ tx[c].pc \in Steps \ {"idle"} /\ tx[c].row \in Rows /\ Written(c) \in RowType
         /\ Changes(c) => /\ table[tx[c].row].version = tx[c].copy.version
                          /\ Written(c).version = tx[c].copy.version + 1
                          /\ Written(c).status = tx[c].next.status
                          /\ tx[c].next.status # "absent"
         /\ Changes(c) /\ tx[c].row \in Loans /\ tx[c].q.kind # "create" =>
                table[tx[c].row].status \notin Closed
         /\ Changes(c) /\ tx[c].row \in Patrons /\ tx[c].q.kind \notin PolicyKinds =>
                table[tx[c].row].status = "absent"
<1>1. /\ tx[c].pc \in {"locked", "staged"} /\ tx[c].pc \in Steps \ {"idle"} /\ tx[c] \in TxType
      /\ tx[c].q \in Requests /\ Shape(tx[c]) /\ ReadsHold(c)
      /\ tx[c].q.kind # "add" => tx[c].row = tx[c].q.row
  BY UnderWay DEF Commits, Steps
<1>2. tx[c].row \in Rows /\ tx[c].copy \in RowType /\ tx[c].next \in RowType
  BY <1>1 DEF Shape, TxType
<1>3. Written(c) \in RowType
  <2>1. tx[c].copy.version + 1 \in Nat
    BY <1>2 DEF RowType
  <2>2. [tx[c].next EXCEPT !.version = tx[c].copy.version + 1, !.by = c] \in RowType
    BY <1>2, <2>1 DEF RowType
  <2> QED
    BY <1>2, <2>2 DEF Written
<1>4. ASSUME Changes(c), tx[c].pc = "staged"
      PROVE  /\ tx[c].q.kind \in InsertKinds /\ table[tx[c].row].status = "absent"
             /\ table[tx[c].row].version = 0 /\ tx[c].copy.version = 0
             /\ tx[c].next.status # "absent"
  <2>1. tx[c].q.kind \in InsertKinds /\ tx[c].copy = Absent /\ tx[c].next.status # "absent"
    BY <1>1, <1>4 DEF Shape, Changes
  <2>2. table[tx[c].row].status = "absent"
    BY <2>1 DEF Commits, UniqueTaken
  <2> QED
    BY <1>2, <2>1, <2>2 DEF CommandsInv, VersionInv, Absent
<1>5. ASSUME tx[c].pc = "locked"
      PROVE  /\ tx[c].q.kind \notin InsertKinds /\ table[tx[c].row] = tx[c].copy
             /\ tx[c].next.status # "absent"
             /\ tx[c].row \in Loans => tx[c].copy.status \notin Closed
  BY <1>1, <1>5 DEF Shape, ReadsHold
<1>6. Changes(c) => /\ table[tx[c].row].version = tx[c].copy.version
                    /\ tx[c].next.status # "absent"
  BY <1>1, <1>4, <1>5
<1>7. Changes(c) => /\ Written(c).version = tx[c].copy.version + 1
                    /\ Written(c).status = tx[c].next.status
  BY <1>2 DEF Written, RowType
<1>8. Changes(c) /\ tx[c].row \in Loans /\ tx[c].q.kind # "create" =>
          table[tx[c].row].status \notin Closed
  <2> SUFFICES ASSUME Changes(c), tx[c].row \in Loans, tx[c].q.kind # "create"
               PROVE  tx[c].pc # "staged"
    BY <1>1, <1>5
  <2>1. tx[c].q.kind = "register" => tx[c].row \in Patrons
    BY <1>1, RequestFacts
  <2>2. tx[c].q.kind = "add" /\ tx[c].pc = "staged" => tx[c].row \in Books
    BY <1>1 DEF Shape
  <2> QED
    BY <1>4, <2>1, <2>2, RowsDisjoint DEF InsertKinds
<1>9. Changes(c) /\ tx[c].row \in Patrons /\ tx[c].q.kind \notin PolicyKinds =>
          table[tx[c].row].status = "absent"
  <2> SUFFICES ASSUME Changes(c), tx[c].row \in Patrons, tx[c].q.kind \notin PolicyKinds
               PROVE  tx[c].pc # "locked"
    BY <1>1, <1>4
  <2>1. tx[c].q.kind \in LoanKinds => tx[c].row \in Loans
    BY <1>1, RequestFacts DEF LoanKinds
  <2>2. tx[c].q.kind = "borrow" => tx[c].row \in Books
    BY <1>1, RequestFacts
  <2> QED
    BY <1>1, <1>5, <2>1, <2>2, RequestFacts, RowsDisjoint DEF Kinds
<1> QED
  BY <1>1, <1>2, <1>3, <1>6, <1>7, <1>8, <1>9

(* A commit takes no lock that another call relies on: what other calls have  *)
(* read under the fence or the row lock stays true.                           *)
LEMMA CommitKeepsReads ==
  ASSUME CommandsInv, NEW c \in Calls, NEW end \in {"answered", "failed"}, Commits(c, end),
         NEW d \in Calls, d # c
  PROVE  ReadsHold(d)'
<1>1. /\ tx[c].pc \in {"locked", "staged"} /\ tx[c].q \in Requests /\ Shape(tx[c]) /\ ReadsHold(c)
      /\ tx[c].q.kind # "add" => tx[c].row = tx[c].q.row
  BY UnderWay DEF Commits, Steps
<1>2. tx'[d] = tx[d] /\ ReadsHold(d) /\ Shape(tx[d]) /\ tx[d] \in TxType
  BY DEF Commits, Close, CommandsInv, TypeInv, CallInv
<1>3. \A x \in Rows : table'[x] # table[x] => x = tx[c].row /\ Changes(c) /\ table'[x] = Written(c)
  BY DEF Commits, CommandsInv, TypeInv
<1>4. Fencing(tx[d]) => tx[d].q \in Requests /\ tx[d].q.kind \in PolicyKinds \cup {"create"}
  BY <1>2 DEF Shape, Fencing
<1>5. Fencing(tx'[d]) => fence'[FencedPatron(tx'[d].q)] = d
  BY <1>2, <1>4, FencedPatronType DEF Commits, Close, Released, ReadsHold
<1>6. tx[d].row \in Rows /\ tx[d].pc = "loaded" =>
          /\ table'[tx[d].row].version >= tx[d].copy.version
          /\ table'[tx[d].row].version = tx[d].copy.version => table'[tx[d].row] = tx[d].copy
  <2> SUFFICES ASSUME tx[d].row \in Rows, tx[d].pc = "loaded"
               PROVE  /\ table'[tx[d].row].version >= tx[d].copy.version
                      /\ table'[tx[d].row].version = tx[d].copy.version => table'[tx[d].row] = tx[d].copy
    OBVIOUS
  <2>1. CASE table'[tx[d].row] = table[tx[d].row]
    BY <1>2, <2>1 DEF ReadsHold
  <2>2. CASE table'[tx[d].row] # table[tx[d].row]
    <3>1. tx[d].row = tx[c].row /\ Changes(c) /\ table'[tx[d].row] = Written(c)
      BY <1>3, <2>2
    <3>2. table[tx[d].row].version >= tx[d].copy.version
      BY <1>2 DEF ReadsHold
    <3>3. table'[tx[d].row].version = table[tx[d].row].version + 1
      BY <3>1, CommitFacts
    <3>4. table[tx[d].row].version \in Nat /\ tx[d].copy.version \in Nat
      BY <1>2 DEF CommandsInv, TypeInv, RowType, TxType
    <3> QED
      BY <3>2, <3>3, <3>4
  <2> QED
    BY <2>1, <2>2
<1>7. ASSUME tx[d].pc = "locked" PROVE table'[tx[d].row] = tx[d].copy
  <2>1. tx[d].row \in Rows /\ table[tx[d].row] = tx[d].copy /\ tx[d].copy.version >= 1
    BY <1>2, <1>7 DEF ReadsHold, Shape
  <2>2. ~(tx[d].row = tx[c].row /\ Changes(c))
    <3> SUFFICES ASSUME tx[d].row = tx[c].row, Changes(c) PROVE FALSE
      OBVIOUS
    <3>1. tx[c].pc = "staged"
      BY <1>1, <1>7 DEF CommandsInv, LockInv
    <3>2. tx[c].q.kind \in InsertKinds /\ table[tx[c].row].status = "absent"
      BY <1>1, <3>1 DEF Shape, Changes, Commits, UniqueTaken
    <3>3. table[tx[c].row].version = 0
      BY <2>1, <3>2 DEF CommandsInv, VersionInv
    <3> QED
      BY <2>1, <3>3
  <2> QED
    BY <1>3, <2>1, <2>2
<1>8. ASSUME Counting(tx[d]) \/ Admitted(tx[d]) \/ tx[d].pc \in {"rechecked", "admitted"}
      PROVE  /\ tx[d].q.kind = "create" /\ tx[d].row \in Loans /\ PatronOf[tx[d].row] \in Patrons
             /\ fence[PatronOf[tx[d].row]] = d
  <2>1. tx[d].pc \in Steps \ {"idle"} /\ tx[d].q.kind = "create" /\ Fencing(tx[d])
    BY <1>2, <1>8 DEF Counting, Admitted, Fencing, Shape, Steps
  <2> QED
    BY <1>2, <2>1, CreateRow DEF ReadsHold
<1>9. ASSUME NEW p \in Patrons, fence[p] = d
      PROVE  /\ tx[c].q.kind = "create" /\ tx[c].pc = "staged" => PatronOf[tx[c].row] # p
             /\ tx[c].q.kind \in PolicyKinds => tx[c].row # p
  <2>1. ~(Fencing(tx[c]) /\ FencedPatron(tx[c].q) = p)
    BY <1>1, <1>9 DEF ReadsHold
  <2>2. tx[c].q.kind \in PolicyKinds => Fencing(tx[c]) /\ FencedPatron(tx[c].q) = tx[c].row
    BY <1>1 DEF Fencing, FencedPatron, Shape, PolicyKinds
  <2>3. tx[c].q.kind = "create" /\ tx[c].pc = "staged" =>
            Fencing(tx[c]) /\ FencedPatron(tx[c].q) = PatronOf[tx[c].row]
    BY <1>1 DEF Fencing, FencedPatron
  <2> QED
    BY <2>1, <2>2, <2>3
<1>10. tx[c].q.kind = "create" => tx[c].pc = "staged"
  BY <1>1 DEF Shape, InsertKinds
<1>11. ASSUME Counting(tx[d]) PROVE Cardinality(OpenLoans(table', PatronOf[tx[d].row])) <= tx[d].count
  <2> DEFINE p == PatronOf[tx[d].row]
  <2>1. OpenLoans(table', p) \subseteq OpenLoans(table, p)
    <3> SUFFICES ASSUME NEW l \in Loans, PatronOf[l] = p, table'[l].status \notin Closed,
                        table[l].status \in Closed
                 PROVE  FALSE
      BY DEF OpenLoans
    <3>1. l \in Rows /\ l = tx[c].row /\ Changes(c)
      BY <1>3, RowsDisjoint
    <3>2. tx[c].q.kind = "create"
      BY <3>1, CommitFacts
    <3> QED
      BY <1>8, <1>9, <1>10, <1>11, <3>1, <3>2
  <2>2. /\ IsFiniteSet(OpenLoans(table, p)) /\ Cardinality(OpenLoans(table, p)) \in Nat
        /\ Cardinality(OpenLoans(table', p)) \in Nat
    BY OutstandingFinite DEF OpenLoans
  <2>3. Cardinality(OpenLoans(table', p)) <= Cardinality(OpenLoans(table, p))
    BY <2>1, <2>2, FS_Subset
  <2>4. Cardinality(OpenLoans(table, p)) <= tx[d].count /\ tx[d].count \in Nat
    BY <1>2, <1>11 DEF ReadsHold, TxType
  <2> QED
    BY <2>2, <2>3, <2>4
<1>12. ASSUME Admitted(tx[d]) PROVE table'[PatronOf[tx[d].row]] = table[PatronOf[tx[d].row]]
  <2> DEFINE p == PatronOf[tx[d].row]
  <2>1. p \in Patrons /\ fence[p] = d /\ p \in Rows
    BY <1>8, <1>12, RowsDisjoint
  <2> SUFFICES ASSUME table'[p] # table[p] PROVE FALSE
    OBVIOUS
  <2>2. p = tx[c].row /\ Changes(c)
    BY <1>3, <2>1
  <2>3. table[p].status = "eligible"
    BY <1>2, <1>12 DEF ReadsHold
  <2>4. tx[c].q.kind \in PolicyKinds
    BY <2>1, <2>2, <2>3, CommitFacts
  <2> QED
    BY <1>9, <2>1, <2>2, <2>4
<1>13. ASSUME tx[d].pc \in {"rechecked", "admitted"} PROVE table'[tx[d].row].status = "absent"
  <2>1. tx[d].row \in Loans /\ tx[d].row \in Rows /\ table[tx[d].row].status = "absent"
    BY <1>2, <1>8, <1>13, RowsDisjoint DEF ReadsHold
  <2>2. ~(tx[d].row = tx[c].row /\ Changes(c))
    <3> SUFFICES ASSUME tx[d].row = tx[c].row, Changes(c) PROVE FALSE
      OBVIOUS
    <3>1. tx[c].q.kind = "create"
      BY <2>1, CommitFacts DEF Closed
    <3> QED
      BY <1>8, <1>9, <1>10, <1>13, <3>1
  <2> QED
    BY <1>3, <2>1, <2>2
<1>14. tx[d].pc = "loaded" => tx[d].row \in Rows
  BY <1>2 DEF Shape
<1> QED
  BY <1>2, <1>5, <1>6, <1>7, <1>11, <1>12, <1>13, <1>14 DEF ReadsHold

(* A commit keeps the invariant: it writes one row over the version it was    *)
(* decided on, and one receipt under a key no other commit has used.          *)
LEMMA CommitStep ==
  ASSUME CommandsInv, NEW c \in Calls, NEW end \in {"answered", "failed"}, Commits(c, end)
  PROVE  CommandsInv'
<1> DEFINE x == tx[c].row
           answer == Answer(x, Written(c))
           receipt == [kind |-> tx[c].q.kind, key |-> tx[c].q.key,
                       row |-> tx[c].q.row, arg |-> tx[c].q.arg, answer |-> answer]
<1>1. /\ tx[c].pc \in {"locked", "staged"} /\ tx[c] \in TxType /\ tx[c].q \in Requests
      /\ ~tx[c].committed
      /\ tx[c].q.kind # "add" => tx[c].row = tx[c].q.row
  BY UnderWay DEF Commits, Steps
<1>2. /\ tx[c].q.kind # "add" => tx[c].row = tx[c].q.row
      /\ x \in Rows /\ Written(c) \in RowType /\ answer \in AnswerType
  BY CommitFacts, <1>1, UnderWay DEF Answer, AnswerType, Steps
<1>3. /\ tx'[c] = [tx[c] EXCEPT !.pc = end, !.committed = TRUE,
                                !.answer = IF end = "answered" THEN answer ELSE None]
      /\ tx' = [tx EXCEPT ![c] = tx'[c]]
  BY DEF Commits, Close, CommandsInv, TypeInv
<1>4. /\ tx'[c] \in TxType /\ tx'[c].pc = end /\ tx'[c].q = tx[c].q /\ tx'[c].row = x
      /\ tx'[c].copy = tx[c].copy /\ tx'[c].next = tx[c].next /\ tx'[c].committed
      /\ end = "answered" => tx'[c].answer = answer
  <2> HIDE DEF answer
  <2> QED
    BY <1>1, <1>2, <1>3 DEF TxType, Ends
<1>5. tx' \in [Calls -> TxType] /\ \A d \in Calls \ {c} : tx'[d] = tx[d]
  BY <1>3, <1>4 DEF CommandsInv, TypeInv
<1>6. \A d \in Calls : (Written(d)' = Written(d)) /\ (Changes(d)' <=> Changes(d))
  <2> TAKE d \in Calls
  <2>1. tx'[d].copy = tx[d].copy /\ tx'[d].next = tx[d].next
    BY <1>4, <1>5
  <2> QED
    BY <2>1 DEF Written, Changes
<1>7. /\ receipts \subseteq receipts'
      /\ tx[c].q.key = None => receipts' = receipts
      /\ tx[c].q.key # None => receipts' = receipts \cup {receipt}
  BY DEF Commits
<1>8. tx[c].q.key # None => receipt \in ReceiptType
  <2> HIDE DEF answer
  <2> QED
    BY <1>1, <1>2, RequestFacts DEF ReceiptType
<1>9. /\ \A y \in Rows : y # x => table'[y] = table[y]
      /\ ~Changes(c) => table'[x] = table[x]
      /\ Changes(c) => table'[x] = Written(c)
  BY <1>2 DEF Commits, CommandsInv, TypeInv
<1>10. table' \in [Rows -> RowType]
  BY <1>2 DEF Commits, CommandsInv, TypeInv
<1>11. /\ fence' \in [Patrons -> Calls \cup {None}]
       /\ \A p \in Patrons : fence'[p] # None => fence'[p] = fence[p] /\ fence[p] # c
  BY RowsDisjoint DEF Commits, Close, Released, CommandsInv, TypeInv
<1>12. receipts' \subseteq ReceiptType
  BY <1>7, <1>8 DEF CommandsInv, TypeInv
<1>13. Changes(c) => table'[x].version = table[x].version + 1 /\ table'[x].status # "absent"
                     /\ table[x].version = tx[c].copy.version
  BY <1>9, CommitFacts
<1>14. \A y \in Rows : table'[y].version >= table[y].version
  BY <1>9, <1>13 DEF CommandsInv, TypeInv, RowType
<1> HIDE DEF receipt, answer
<1>15. TypeInv'
  BY <1>5, <1>10, <1>11, <1>12 DEF TypeInv
<1>16. ASSUME NEW d \in Calls, d # c PROVE CallInv(d)'
  <2>1. tx'[d] = tx[d] /\ Shape(tx[d]) /\ CommitHolds(d) /\ tx[d] \in TxType
    BY <1>5, <1>16 DEF CommandsInv, TypeInv, CallInv
  <2>2. CommitHolds(d)'
    <3> SUFFICES ASSUME tx[d].committed
                 PROVE  /\ Changes(d) => table'[tx[d].row].version > tx[d].copy.version
                        /\ tx[d].q.key # None => \E r \in receipts' : Receipt(tx[d], r)
      BY <1>6, <2>1 DEF CommitHolds
    <3>1. tx[d].row \in Rows
      BY <2>1 DEF Shape
    <3>2. table'[tx[d].row].version \in Nat /\ table[tx[d].row].version \in Nat
          /\ tx[d].copy.version \in Nat
      BY <1>10, <2>1, <3>1 DEF CommandsInv, TypeInv, RowType, TxType
    <3>3. Changes(d) => table[tx[d].row].version > tx[d].copy.version
      BY <2>1 DEF CommitHolds
    <3>4. tx[d].q.key # None => \E r \in receipts' : Receipt(tx[d], r)
      BY <1>7, <2>1 DEF CommitHolds
    <3> QED
      BY <1>14, <3>1, <3>2, <3>3, <3>4
  <2>3. Shape(tx'[d])
    BY <2>1
  <2>4. ReadsHold(d)'
    BY <1>16, CommitKeepsReads
  <2> QED
    BY <2>2, <2>3, <2>4 DEF CallInv
<1>17. CallInv(c)'
  <2>1. Shape(tx'[c])
    BY <1>1, <1>2, <1>4 DEF Shape
  <2>2. ReadsHold(c)'
    BY <1>4 DEF ReadsHold, Fencing, Counting, Admitted
  <2>3. Changes(c) => table'[tx'[c].row].version > tx'[c].copy.version
    BY <1>1, <1>4, <1>13 DEF TxType, RowType
  <2>4. tx'[c].q.key # None => \E r \in receipts' : Receipt(tx'[c], r)
    <3>1. Receipt(tx'[c], receipt)
      BY <1>4 DEF Receipt, receipt
    <3> QED
      BY <1>4, <1>7, <3>1
  <2>5. CommitHolds(c)'
    BY <1>6, <2>3, <2>4 DEF CommitHolds
  <2> QED
    BY <2>1, <2>2, <2>5 DEF CallInv
<1>18. VersionInv'
  <2> SUFFICES ASSUME NEW y \in Rows
               PROVE  table'[y].status = "absent" <=> table'[y].version = 0
    BY DEF VersionInv
  <2>1. table[y].version \in Nat
    BY DEF CommandsInv, TypeInv, RowType
  <2>2. table[y].status = "absent" <=> table[y].version = 0
    BY DEF CommandsInv, VersionInv
  <2> QED
    BY <1>9, <1>13, <2>1, <2>2
<1>19. FenceInv'
  BY <1>5, <1>11 DEF CommandsInv, FenceInv, TypeInv
<1>20. LockInv'
  BY <1>4, <1>5 DEF CommandsInv, LockInv
<1>21. ReceiptInv'
  <2> SUFFICES ASSUME NEW r \in receipts'
               PROVE  \E d \in Calls : /\ tx'[d].committed /\ Receipt(tx'[d], r)
                                       /\ r.answer = Answer(tx'[d].row, Written(d)')
    BY DEF ReceiptInv, Answer
  <2>1. CASE r \in receipts
    <3>1. PICK d \in Calls : /\ tx[d].committed /\ Receipt(tx[d], r)
                             /\ r.answer = Answer(tx[d].row, Written(d))
      BY <2>1 DEF CommandsInv, ReceiptInv
    <3>2. tx'[d] = tx[d] /\ Written(d)' = Written(d)
      BY <1>1, <1>5, <1>6, <3>1
    <3> QED
      BY <3>1, <3>2
  <2>2. CASE r \notin receipts
    <3>1. r = receipt
      BY <1>7, <2>2
    <3>2. Receipt(tx'[c], r) /\ r.answer = answer
      BY <1>4, <3>1 DEF Receipt, receipt
    <3>3. answer = Answer(tx'[c].row, Written(c)')
      BY <1>4, <1>6 DEF answer
    <3> QED
      BY <1>4, <3>2, <3>3
  <2> QED
    BY <2>1, <2>2
<1>22. ASSUME NEW d \in Calls, d # c, tx[d].committed
       PROVE  ~SameKey(c, d)
  <2> SUFFICES ASSUME SameKey(c, d) PROVE FALSE
    OBVIOUS
  <2>1. PICK r \in receipts : Receipt(tx[d], r)
    BY <1>22 DEF CommandsInv, CallInv, CommitHolds, SameKey
  <2>2. r \in ReceiptsFor(tx[c].q)
    BY <2>1 DEF Receipt, ReceiptsFor, SameKey
  <2> QED
    BY <2>2 DEF Commits, KeyTaken, SameKey
<1>23. OncePerKey'
  <2> SUFFICES ASSUME NEW d \in Calls, NEW e \in Calls, d # e, SameKey(d, e)',
                      tx'[d].committed, tx'[e].committed
               PROVE  FALSE
    BY DEF OncePerKey
  <2>1. SameKey(d, e)
    BY <1>4, <1>5 DEF SameKey
  <2>2. SameKey(e, d)
    BY <2>1 DEF SameKey
  <2>3. CASE d = c
    BY <1>5, <1>22, <2>1, <2>3
  <2>4. CASE e = c
    BY <1>5, <1>22, <2>2, <2>4
  <2>5. CASE d # c /\ e # c
    BY <1>5, <2>1, <2>5 DEF CommandsInv, OncePerKey
  <2> QED
    BY <2>3, <2>4, <2>5
<1>24. AnswersAgree'
  <2> SUFFICES ASSUME NEW d \in Calls, tx'[d].pc = "answered", tx'[d].q.key # None
               PROVE  \E e \in Calls : /\ SameKey(e, d)' /\ tx'[e].committed
                                       /\ tx'[e].q.row = tx'[d].q.row /\ tx'[e].q.arg = tx'[d].q.arg
                                       /\ tx'[d].answer = Answer(tx'[e].row, Written(e)')
    BY DEF AnswersAgree, Answer
  <2>1. CASE d = c
    <3>1. tx'[c].answer = Answer(tx'[c].row, Written(c)')
      BY <1>4, <1>6, <2>1 DEF answer
    <3>2. SameKey(c, c)'
      BY <1>1, <1>4, <2>1, RowsDisjoint DEF SameKey
    <3> QED
      BY <1>4, <2>1, <3>1, <3>2
  <2>2. CASE d # c
    <3>1. PICK e \in Calls : /\ SameKey(e, d) /\ tx[e].committed
                             /\ tx[e].q.row = tx[d].q.row /\ tx[e].q.arg = tx[d].q.arg
                             /\ tx[d].answer = Answer(tx[e].row, Written(e))
      BY <1>5, <2>2 DEF CommandsInv, AnswersAgree
    <3>2. tx'[e] = tx[e] /\ tx'[d] = tx[d] /\ Written(e)' = Written(e)
      BY <1>1, <1>5, <1>6, <2>2, <3>1
    <3>3. SameKey(e, d)'
      BY <3>1, <3>2 DEF SameKey
    <3> QED
      BY <3>1, <3>2, <3>3
  <2> QED
    BY <2>1, <2>2
<1>25. ASSUME NEW d \in Calls, d # c, tx[d].committed, Changes(c), Changes(d), tx[d].row = x
       PROVE  tx[c].copy.version # tx[d].copy.version
  <2>1. table[x].version > tx[d].copy.version
    BY <1>25 DEF CommandsInv, CallInv, CommitHolds
  <2>2. table[x].version \in Nat /\ tx[d].copy.version \in Nat
    BY <1>2, <1>25 DEF CommandsInv, TypeInv, RowType, TxType
  <2> QED
    BY <1>13, <1>25, <2>1, <2>2
<1>26. NoLostUpdate'
  <2> SUFFICES ASSUME NEW d \in Calls, NEW e \in Calls, d # e, tx'[d].committed, tx'[e].committed,
                      Changes(d), Changes(e), tx'[d].row = tx'[e].row
               PROVE  tx'[d].copy.version # tx'[e].copy.version
    BY <1>6 DEF NoLostUpdate
  <2>1. CASE d = c
    BY <1>4, <1>5, <1>25, <2>1
  <2>2. CASE e = c
    BY <1>4, <1>5, <1>25, <2>2
  <2>3. CASE d # c /\ e # c
    BY <1>5, <2>3 DEF CommandsInv, NoLostUpdate
  <2> QED
    BY <2>1, <2>2, <2>3
<1> QED
  BY <1>15, <1>16, <1>17, <1>18, <1>19, <1>20, <1>21, <1>23, <1>24, <1>26 DEF CommandsInv

-----------------------------------------------------------------------------
(* The invariant.                                                             *)

(* The rows of earlier commands and calls that have not started satisfy it.   *)
LEMMA InitInv == Init => CommandsInv
<1> SUFFICES ASSUME Init PROVE CommandsInv
  OBVIOUS
<1>1. /\ receipts = {} /\ fence = [p \in Patrons |-> None]
      /\ tx = [c \in Calls |-> IdleTx]
  BY DEF Init
<1>2. PICK present \in Seeds :
        table = [x \in Rows |-> IF x \in present THEN Fresh(x) ELSE Absent]
  BY DEF Init
<1>3. Absent \in RowType /\ Absent.status = "absent" /\ Absent.version = 0
  BY DEF Absent, RowType, Statuses
<1>4. ASSUME NEW x \in Rows
      PROVE  Fresh(x) \in RowType /\ Fresh(x).status # "absent" /\ Fresh(x).version = 1
  BY DEF Fresh, RowType, Statuses
<1>5. IdleTx \in TxType
  BY <1>3 DEF IdleTx, TxType, Steps, Requested
<1>6. /\ IdleTx.pc = "idle" /\ IdleTx.q = None /\ ~IdleTx.committed
      /\ IdleTx.copy = Absent
  BY DEF IdleTx
<1>7. \A c \in Calls : tx[c] = IdleTx
  BY <1>1
<1>8. table \in [Rows -> RowType] /\ VersionInv
  BY <1>2, <1>3, <1>4 DEF VersionInv
<1>9. TypeInv
  BY <1>1, <1>5, <1>8 DEF TypeInv
<1>10. ASSUME NEW c \in Calls PROVE CallInv(c)
  <2>1. Shape(tx[c])
    BY <1>6, <1>7 DEF Shape
  <2>2. ReadsHold(c)
    BY <1>6, <1>7 DEF ReadsHold, Fencing, Counting, Admitted
  <2>3. CommitHolds(c)
    BY <1>6, <1>7 DEF CommitHolds
  <2> QED
    BY <2>1, <2>2, <2>3 DEF CallInv
<1>11. FenceInv /\ LockInv /\ ReceiptInv
  BY <1>1, <1>6, <1>7 DEF FenceInv, LockInv, ReceiptInv
<1>12. OncePerKey /\ AnswersAgree /\ NoLostUpdate
  BY <1>6, <1>7 DEF OncePerKey, AnswersAgree, NoLostUpdate
<1> QED
  BY <1>8, <1>9, <1>10, <1>11, <1>12 DEF CommandsInv

(* Every statement of every command keeps it.                                 *)
LEMMA NextInv == CommandsInv /\ [Next]_vars => CommandsInv'
<1> SUFFICES ASSUME CommandsInv, [Next]_vars PROVE CommandsInv'
  OBVIOUS
<1>1. CASE UNCHANGED vars
  <2>1. table' = table /\ receipts' = receipts /\ fence' = fence /\ tx' = tx
    BY <1>1 DEF vars
  <2>2. \A c \in Calls : CallInv(c)'
    BY <2>1 DEF CommandsInv, CallInv, ReadsHold, CommitHolds, Changes
  <2>3. TypeInv' /\ VersionInv' /\ FenceInv' /\ LockInv'
    BY <2>1 DEF CommandsInv, TypeInv, VersionInv, FenceInv, LockInv
  <2>4. ReceiptInv' /\ AnswersAgree'
    BY <2>1 DEF CommandsInv, ReceiptInv, AnswersAgree, SameKey, Written, Changes
  <2>5. OncePerKey' /\ NoLostUpdate'
    BY <2>1 DEF CommandsInv, OncePerKey, NoLostUpdate, SameKey, Changes
  <2> QED
    BY <2>2, <2>3, <2>4, <2>5 DEF CommandsInv
<1>2. ASSUME NEW c \in Calls, NEW q \in Requests, Start(c, q) PROVE CommandsInv'
  BY <1>2, StartStep
<1>3. ASSUME NEW c \in Calls, Step(c) PROVE CommandsInv'
  <2>1. CASE AcquireFence(c)
    BY <2>1, AcquireFenceStep
  <2>2. CASE CountOutstanding(c)
    BY <2>2, CountStep
  <2>3. CASE RereadReservation(c)
    BY <2>3, RereadStep
  <2>4. CASE ReadPolicy(c)
    BY <2>4, ReadPolicyStep
  <2>5. CASE CheckBook(c)
    BY <2>5, CheckBookStep
  <2>6. CASE RegisterPatron(c)
    BY <2>6, RegisterStep
  <2>7. CASE AddBook(c)
    BY <2>7, AddBookStep
  <2>8. CASE FindBorrower(c)
    BY <2>8, FindBorrowerStep
  <2>9. CASE ReserveBook(c)
    BY <2>9, ReserveStep
  <2>10. CASE SuspendPatron(c) \/ ReinstatePatron(c) \/ UpgradePatronTier(c)
    BY <2>10, PolicyStep
  <2>11. CASE ReturnLoan(c) \/ ExtendLoan(c) \/ CancelLoan(c)
    BY <2>11, LoanStep
  <2>12. CASE Update(c)
    BY <2>12, UpdateStep
  <2>13. CASE Commit(c)
    BY <2>13, CommitStep DEF Commit
  <2>14. CASE CommitUnheard(c)
    BY <2>14, CommitStep DEF CommitUnheard
  <2>15. CASE \/ ReceiptConflict(c) \/ EmailConflict(c) \/ LoanConflict(c)
              \/ FindWinner(c) \/ FindHolder(c) \/ Abort(c)
    BY <2>15, EndStep
  <2> QED
    BY <1>3, <2>1, <2>2, <2>3, <2>4, <2>5, <2>6, <2>7, <2>8, <2>9, <2>10, <2>11,
       <2>12, <2>13, <2>14, <2>15 DEF Step
<1> QED
  BY <1>1, <1>2, <1>3 DEF Next

(* Whatever the calls do, in any interleaving, the invariant holds.           *)
THEOREM CommandsInvariant == Spec => []CommandsInv
  BY InitInv, NextInv, PTL DEF Spec

-----------------------------------------------------------------------------
(* The properties.                                                            *)

(* The variables keep their shapes.                                           *)
THEOREM CommandsTypeCorrect == Spec => []TypeOK
<1>1. CommandsInv => TypeOK
  BY DEF CommandsInv, TypeInv, TypeOK, TxType, ReceiptType
<1> QED
  BY <1>1, CommandsInvariant, PTL

(* One idempotency key executes once, whatever retries arrive and whichever   *)
(* commits go unheard: the primary key of command_receipts decides.           *)
THEOREM KeysExecuteOnce == Spec => []OncePerKey
<1>1. CommandsInv => OncePerKey
  BY DEF CommandsInv
<1> QED
  BY <1>1, CommandsInvariant, PTL

(* A keyed call is answered by the one commit of its key and its facts.       *)
THEOREM KeyedAnswersAgree == Spec => []AnswersAgree
<1>1. CommandsInv => AnswersAgree
  BY DEF CommandsInv
<1> QED
  BY <1>1, CommandsInvariant, PTL

(* No commit overwrites a change it has not seen: the version of the UPDATE's *)
(* WHERE clause, under the row lock, is the version the decision was made on. *)
THEOREM UpdatesSurvive == Spec => []NoLostUpdate
<1>1. CommandsInv => NoLostUpdate
  BY DEF CommandsInv
<1> QED
  BY <1>1, CommandsInvariant, PTL

(* Fence and row locks never form a circle.  A call takes the fence before    *)
(* the row, and two policy changes of one patron cannot both be past it.      *)
THEOREM LocksNeverCircle == Spec => []NobodyWaitsInACircle
<1>1. ASSUME CommandsInv PROVE NobodyWaitsInACircle
  <2> SUFFICES ASSUME NEW c \in Calls, NEW d \in Calls, WaitsFor(c, d)
               PROVE  /\ tx[d].pc \in Steps \ {"idle"}
                      /\ \A e \in Calls : ~WaitsFor(d, e)
    BY DEF NobodyWaitsInACircle
  <2>1. CASE /\ tx[c].pc = "looked" /\ tx[c].q.kind \in PolicyKinds \cup {"create"}
             /\ fence[FencedPatron(tx[c].q)] = d
    <3> DEFINE p == FencedPatron(tx[c].q)
    <3>1. p \in Patrons
      BY <1>1, <2>1, UnderWay, FencedPatronType DEF Steps
    <3>2. fence[p] = d /\ d # None
      BY <2>1, RowsDisjoint
    <3>3. Fencing(tx[d]) /\ FencedPatron(tx[d].q) = p
      BY <1>1, <3>1, <3>2 DEF CommandsInv, FenceInv
    <3>4. tx[d].pc \in Steps \ {"idle"} /\ tx[d].pc # "looked"
      BY <3>3 DEF Fencing, Steps
    <3>5. ASSUME NEW e \in Calls, WaitsFor(d, e) PROVE FALSE
      <4>1. tx[d].pc = "loaded" /\ d # e /\ LockedBy(e, tx[d].row)
        BY <3>4, <3>5 DEF WaitsFor
      <4>2. tx[d].q.kind \in PolicyKinds
        BY <3>3, <4>1 DEF Fencing
      <4>3. tx[e].pc = "locked" /\ tx[e].row = tx[d].row
        BY <4>1 DEF LockedBy
      <4>4. /\ tx[d].q \in Requests /\ tx[d].row = tx[d].q.row
            /\ tx[d].q.row \in Patrons
        BY <1>1, <4>1, <4>2, UnderWay, RequestFacts DEF Steps, PolicyKinds
      <4>5. /\ tx[e].q \in Requests /\ tx[e].q.kind \notin InsertKinds
            /\ tx[e].row = tx[e].q.row /\ ReadsHold(e)
        BY <1>1, <4>3, UnderWay DEF Steps, Shape, InsertKinds
      <4>6. tx[e].q.kind \in PolicyKinds
        BY <4>3, <4>4, <4>5, RequestFacts, RowsDisjoint DEF Kinds, InsertKinds
      <4>7. fence[tx[e].row] = e /\ fence[tx[d].row] = d
        <5>1. Fencing(tx[e]) /\ FencedPatron(tx[e].q) = tx[e].row
          BY <4>3, <4>5, <4>6 DEF Fencing, FencedPatron, PolicyKinds
        <5>2. FencedPatron(tx[d].q) = tx[d].row
          BY <4>2, <4>4 DEF FencedPatron, PolicyKinds
        <5> QED
          BY <3>2, <3>3, <4>5, <5>1, <5>2 DEF ReadsHold
      <4> QED
        BY <4>1, <4>3, <4>7
    <3> QED
      BY <3>4, <3>5
  <2>2. CASE tx[c].pc = "loaded" /\ c # d /\ LockedBy(d, tx[c].row)
    <3>1. tx[d].pc = "locked"
      BY <2>2 DEF LockedBy
    <3> QED
      BY <3>1 DEF WaitsFor, Steps
  <2> QED
    BY <2>1, <2>2 DEF WaitsFor
<1> QED
  BY <1>1, CommandsInvariant, PTL

(* Every step but a commit leaves the committed rows alone.                   *)
LEMMA OnlyCommitsWrite ==
  ASSUME [Next]_vars, table' # table
  PROVE  \E c \in Calls, end \in {"answered", "failed"} : Commits(c, end)
<1>1. PICK c \in Calls : Step(c) \/ \E q \in Requests : Start(c, q)
  BY DEF Next, vars
<1>2. ASSUME NEW q \in Requests, Start(c, q) PROVE table' = table
  BY <1>2 DEF Start, Begin, BeginWithReceipt, BeginReplay, Advance
<1>3. CASE Step(c) /\ ~Commit(c) /\ ~CommitUnheard(c)
  <2> USE DEF Finish, AnswerFrom, Advance, Goto
  <2>1. \A kind, decided : Decide(c, kind, decided) => table' = table
    BY DEF Decide, Load
  <2>2. \/ ReserveBook(c) \/ SuspendPatron(c) \/ ReinstatePatron(c)
        \/ UpgradePatronTier(c) \/ ReturnLoan(c) \/ ExtendLoan(c) \/ CancelLoan(c)
        => table' = table
    BY <2>1 DEF ReserveBook, SuspendPatron, ReinstatePatron, UpgradePatronTier,
                ReturnLoan, ExtendLoan, CancelLoan
  <2>3. \/ AcquireFence(c) \/ CountOutstanding(c) \/ RereadReservation(c)
        \/ ReadPolicy(c) \/ CheckBook(c)
        => table' = table
    BY DEF AcquireFence, CountOutstanding, RereadReservation, ReadPolicy, CheckBook
  <2>4. \/ RegisterPatron(c) \/ AddBook(c) \/ FindBorrower(c) \/ Update(c)
        => table' = table
    BY DEF RegisterPatron, AddBook, FindBorrower, Update
  <2>5. \/ ReceiptConflict(c) \/ EmailConflict(c) \/ LoanConflict(c)
        \/ FindWinner(c) \/ FindHolder(c) \/ Abort(c)
        => table' = table
    BY DEF ReceiptConflict, EmailConflict, LoanConflict, FindWinner, FindHolder, Abort
  <2> QED
    BY <1>3, <2>2, <2>3, <2>4, <2>5 DEF Step
<1>4. CASE Commit(c) \/ CommitUnheard(c)
  BY <1>4 DEF Commit, CommitUnheard
<1> QED
  BY <1>1, <1>2, <1>3, <1>4

(* A patron's tier is one of the tiers, in the table and in what a call has   *)
(* staged.                                                                    *)
TierOk(t) == t.row \in Patrons /\ t.pc \in {"loaded", "locked", "staged"} => t.next.n \in Tiers

TierInv ==
    /\ \A p \in Patrons : table[p].n \in Tiers
    /\ \A c \in Calls : TierOk(tx[c])

(* What a decision on a patron row stages has a tier of the progression.      *)
LEMMA DecideKeepsTier ==
  ASSUME CommandsInv, TierInv, NEW c \in Calls, NEW kind, NEW decided, Decide(c, kind, decided),
         tx[c].row \in Patrons => \A next \in decided : next.n \in Tiers
  PROVE  /\ tx' = [tx EXCEPT ![c] = tx'[c]] /\ table' = table
         /\ TierOk(tx'[c])
<1>1. tx[c] \in TxType /\ tx \in [Calls -> TxType]
  BY DEF CommandsInv, TypeInv
<1>2. CASE decided = {}
  BY <1>1, <1>2 DEF Decide, Finish, Close, TierOk, TxType
<1>3. ASSUME NEW next \in decided, next = table[tx[c].row], AnswerFrom(c, tx[c].row)
      PROVE  /\ tx' = [tx EXCEPT ![c] = tx'[c]] /\ table' = table /\ TierOk(tx'[c])
  BY <1>1, <1>3 DEF AnswerFrom, Close, TierOk, TxType
<1>4. ASSUME NEW next \in decided,
             Advance(c, [tx[c] EXCEPT
                 !.pc = IF next = table[tx[c].row] THEN "staged" ELSE "loaded",
                 !.copy = table[tx[c].row], !.next = next])
      PROVE  /\ tx' = [tx EXCEPT ![c] = tx'[c]] /\ table' = table /\ TierOk(tx'[c])
  <2>1. /\ tx' = [tx EXCEPT ![c] = tx'[c]] /\ table' = table
        /\ tx'[c].row = tx[c].row /\ tx'[c].next = next
    BY <1>1, <1>4 DEF Advance, TxType
  <2> QED
    BY <2>1 DEF TierOk
<1> QED
  BY <1>2, <1>3, <1>4 DEF Decide, Load

(* The lookup that opens a handler leaves the rows and the other calls.        *)
LEMMA StartAdvances ==
  ASSUME CommandsInv, NEW c \in Calls, NEW q \in Requests, Start(c, q)
  PROVE  /\ tx' = [tx EXCEPT ![c] = tx'[c]] /\ table' = table
         /\ tx'[c].pc \in {"looked", "answered", "mismatched"}
<1>1. tx[c] \in TxType /\ tx \in [Calls -> TxType]
  BY DEF CommandsInv, TypeInv
<1>2. ASSUME NEW t, Advance(c, t), t.pc \in {"looked", "answered", "mismatched"}
      PROVE  /\ tx' = [tx EXCEPT ![c] = tx'[c]] /\ table' = table
             /\ tx'[c].pc \in {"looked", "answered", "mismatched"}
  BY <1>1, <1>2 DEF Advance
<1>3. CASE Begin(c, q)
  <2> DEFINE t == [tx[c] EXCEPT !.pc = "looked", !.q = q, !.row = q.row]
  <2>1. Advance(c, t) /\ t.pc = "looked"
    BY <1>1, <1>3 DEF Begin, TxType
  <2> QED
    BY <1>2, <2>1
<1>4. CASE BeginReplay(c, q)
  <2> DEFINE t == [tx[c] EXCEPT !.pc = "answered", !.q = q, !.row = q.row,
                                !.answer = Answer(q.row, table[q.row])]
  <2>1. Advance(c, t) /\ t.pc = "answered"
    BY <1>1, <1>4 DEF BeginReplay, TxType
  <2> QED
    BY <1>2, <2>1
<1>5. CASE BeginWithReceipt(c, q)
  <2>1. PICK b : \E a \in BOOLEAN : Advance(c, [tx[c] EXCEPT
            !.pc = IF a THEN "answered" ELSE "mismatched", !.q = q, !.row = q.row,
            !.answer = b])
    BY <1>5 DEF BeginWithReceipt, SameFacts
  <2>2. PICK a \in BOOLEAN : Advance(c, [tx[c] EXCEPT
            !.pc = IF a THEN "answered" ELSE "mismatched", !.q = q, !.row = q.row,
            !.answer = b])
    BY <2>1
  <2> DEFINE t == [tx[c] EXCEPT !.pc = IF a THEN "answered" ELSE "mismatched",
                                !.q = q, !.row = q.row, !.answer = b]
  <2>3. t.pc \in {"answered", "mismatched"}
    BY <1>1 DEF TxType
  <2> QED
    BY <1>2, <2>2, <2>3
<1> QED
  BY <1>3, <1>4, <1>5 DEF Start

(* Every step keeps it: a tier comes from a registration or an upgrade.       *)
LEMMA TierStep == CommandsInv /\ TierInv /\ [Next]_vars => TierInv'
<1> SUFFICES ASSUME CommandsInv, TierInv, [Next]_vars PROVE TierInv'
  OBVIOUS
<1> DEFINE Kept(c) == /\ tx' = [tx EXCEPT ![c] = tx'[c]] /\ table' = table
                      /\ TierOk(tx'[c])
<1>1. CASE UNCHANGED vars
  BY <1>1 DEF vars, TierInv
<1>2. ASSUME NEW c \in Calls, Kept(c) PROVE TierInv'
  <2>1. \A d \in Calls : d # c => tx'[d] = tx[d]
    BY <1>2 DEF CommandsInv, TypeInv
  <2> QED
    BY <1>2, <2>1 DEF TierInv
<1>3. ASSUME NEW c \in Calls, NEW q \in Requests, Start(c, q) PROVE Kept(c)
  BY <1>3, StartAdvances DEF TierOk
<1>4. ASSUME NEW c \in Calls, Step(c), ~Commit(c), ~CommitUnheard(c) PROVE Kept(c)
  <2>1. tx[c] \in TxType /\ tx \in [Calls -> TxType] /\ TierOk(tx[c])
    BY DEF CommandsInv, TypeInv, TierInv
  <2>2. ASSUME tx[c].row \in Patrons
        PROVE  table[tx[c].row] \in RowType /\ table[tx[c].row].n \in Tiers
    BY <2>2, RowsDisjoint DEF TierInv, CommandsInv, TypeInv
  <2>3. CASE SuspendPatron(c) \/ ReinstatePatron(c) \/ ReserveBook(c)
    <3>1. tx[c].row \in Patrons =>
            \A next \in Suspended(table[tx[c].row]) \cup Reinstated(table[tx[c].row]) :
                next.n \in Tiers
      BY <2>2 DEF Suspended, Reinstated, RowType
    <3>2. ReserveBook(c) => tx[c].row \notin Patrons
      BY MayLoadFacts, RequestFacts, RowsDisjoint DEF ReserveBook, Decide
    <3> QED
      BY <2>3, <3>1, <3>2, DecideKeepsTier DEF SuspendPatron, ReinstatePatron, ReserveBook
  <2>4. CASE UpgradePatronTier(c)
    <3>1. tx[c].q \in Requests /\ tx[c].q.kind = "upgrade"
      BY <2>4, MayLoadFacts DEF UpgradePatronTier, Decide
    <3>2. tx[c].q.arg \in Tiers
      BY <3>1, RequestFacts
    <3>3. tx[c].row \in Patrons =>
            \A next \in Upgraded(table[tx[c].row], tx[c].q.arg) : next.n \in Tiers
      BY <2>2, <3>2 DEF Upgraded, RowType
    <3> QED
      BY <2>4, <3>3, DecideKeepsTier DEF UpgradePatronTier
  <2>5. CASE ReturnLoan(c) \/ ExtendLoan(c) \/ CancelLoan(c)
    <3>1. tx[c].row \notin Patrons
      BY <2>5, MayLoadFacts, RequestFacts, RowsDisjoint
         DEF ReturnLoan, ExtendLoan, CancelLoan, Decide, LoanKinds
    <3> QED
      BY <2>5, <3>1, DecideKeepsTier DEF ReturnLoan, ExtendLoan, CancelLoan
  <2>6. ASSUME NEW end \in Ends \cup {"conflicted"}, Finish(c, end) PROVE Kept(c)
    <3>1. /\ tx' = [tx EXCEPT ![c] = tx'[c]] /\ table' = table /\ tx'[c].pc = end
      BY <2>1, <2>6 DEF Finish, Close, TxType
    <3> QED
      BY <3>1 DEF TierOk, Ends
  <2>7. ASSUME AnswerFrom(c, tx[c].row) PROVE Kept(c)
    <3>1. /\ tx' = [tx EXCEPT ![c] = tx'[c]] /\ table' = table /\ tx'[c].pc = "answered"
      BY <2>1, <2>7 DEF AnswerFrom, Close, TxType
    <3> QED
      BY <3>1 DEF TierOk
  <2>8. ASSUME NEW pc, Goto(c, pc), pc = "locked" => tx[c].pc = "loaded", pc \notin {"loaded", "staged"}
        PROVE  Kept(c)
    <3>1. /\ tx' = [tx EXCEPT ![c] = tx'[c]] /\ table' = table /\ tx'[c].pc = pc
          /\ tx'[c].row = tx[c].row /\ tx'[c].next = tx[c].next
      BY <2>1, <2>8 DEF Goto, Advance, TxType
    <3> QED
      BY <2>1, <2>8, <3>1 DEF TierOk
  <2>9. CASE AcquireFence(c) \/ CountOutstanding(c)
    <3>1. /\ tx' = [tx EXCEPT ![c] = tx'[c]] /\ table' = table
          /\ tx'[c].pc \in {"fenced", "counted"}
      BY <2>1, <2>9 DEF AcquireFence, CountOutstanding, Advance, TxType
    <3> QED
      BY <3>1 DEF TierOk
  <2>10. CASE RereadReservation(c) \/ ReadPolicy(c) \/ FindBorrower(c) \/ Update(c)
    BY <2>6, <2>7, <2>8, <2>10 DEF RereadReservation, ReadPolicy, FindBorrower, Update, Ends
  <2>11. CASE CheckBook(c)
    <3>1. tx[c].pc = "admitted" /\ tx[c].row \notin Patrons
      BY <2>11, UnderWay, CreateRow, RowsDisjoint DEF CheckBook, Steps, Shape
    <3>2. ASSUME NEW n, Advance(c, [tx[c] EXCEPT !.pc = "staged", !.next = n]) PROVE Kept(c)
      BY <2>1, <3>1, <3>2 DEF Advance, TierOk, TxType
    <3> QED
      BY <2>6, <2>11, <3>2 DEF CheckBook, Ends
  <2>12. CASE RegisterPatron(c)
    <3>1. tx[c].q \in Requests /\ tx[c].q.kind = "register"
      BY <2>12, UnderWay DEF RegisterPatron, Steps
    <3>2. tx[c].q.arg \in Tiers
      BY <3>1, RequestFacts
    <3>3. ASSUME NEW n, n.n \in Tiers, Advance(c, [tx[c] EXCEPT !.pc = "staged", !.next = n])
          PROVE Kept(c)
      BY <2>1, <3>3 DEF Advance, TierOk, TxType
    <3>4. [Absent EXCEPT !.status = "eligible", !.n = tx[c].q.arg].n = tx[c].q.arg
      BY DEF Absent
    <3> QED
      BY <2>6, <2>12, <3>2, <3>3, <3>4 DEF RegisterPatron, Ends
  <2>13. CASE AddBook(c)
    <3>1. PICK b \in Books : Advance(c, [tx[c] EXCEPT !.pc = "staged", !.row = b,
                                         !.next = [Absent EXCEPT !.status = "available"]])
      BY <2>13 DEF AddBook
    <3>2. /\ tx' = [tx EXCEPT ![c] = tx'[c]] /\ table' = table /\ tx'[c].row = b
      BY <2>1, <3>1 DEF Advance, TxType
    <3> QED
      BY <3>2, RowsDisjoint DEF TierOk
  <2>14. CASE \/ ReceiptConflict(c) \/ EmailConflict(c) \/ LoanConflict(c)
              \/ FindWinner(c) \/ FindHolder(c) \/ Abort(c)
    BY <2>6, <2>7, <2>8, <2>14
       DEF ReceiptConflict, EmailConflict, LoanConflict, FindWinner, FindHolder, Abort, Ends
  <2> QED
    BY <1>4, <2>3, <2>4, <2>5, <2>9, <2>10, <2>11, <2>12, <2>13, <2>14 DEF Step
<1>5. ASSUME NEW c \in Calls, NEW end \in {"answered", "failed"}, Commits(c, end) PROVE TierInv'
  <2>1. /\ tx[c].pc \in {"locked", "staged"} /\ tx[c] \in TxType /\ TierOk(tx[c])
        /\ tx[c].row \in Rows /\ table \in [Rows -> RowType] /\ tx \in [Calls -> TxType]
    BY <1>5, CommitFacts DEF Commits, CommandsInv, TypeInv, TierInv
  <2>2. ASSUME NEW y \in Rows, table'[y] # table[y]
        PROVE  y = tx[c].row /\ Changes(c) /\ table'[y] = Written(c)
    <3>1. table' = [table EXCEPT ![tx[c].row] = IF Changes(c) THEN Written(c) ELSE table[tx[c].row]]
      BY <1>5 DEF Commits
    <3> QED
      BY <2>1, <2>2, <3>1
  <2>3. Changes(c) => Written(c).n = tx[c].next.n
    BY <2>1 DEF Written, TxType, RowType
  <2>4. \A p \in Patrons : table'[p].n \in Tiers
    BY <2>1, <2>2, <2>3, RowsDisjoint DEF TierOk, TierInv
  <2>5. \A d \in Calls : tx'[d] = tx[d] \/ tx'[d].pc \in {"answered", "failed"}
    BY <1>5, <2>1 DEF Commits, Close, TxType
  <2> QED
    BY <2>4, <2>5 DEF TierInv, TierOk
<1> QED
  BY <1>1, <1>2, <1>3, <1>4, <1>5 DEF Next, Commit, CommitUnheard

(* Tiers in the rows of earlier commands: a patron starts at the lowest.      *)
LEMMA TierInit == Init => TierInv
<1> SUFFICES ASSUME Init PROVE TierInv
  OBVIOUS
<1>1. PICK present \in Seeds :
        table = [x \in Rows |-> IF x \in present THEN Fresh(x) ELSE Absent]
  BY DEF Init
<1>2. \A p \in Patrons : table[p].n = 0
  BY <1>1, RowsDisjoint DEF Fresh, Absent
<1>3. \A c \in Calls : TierOk(tx[c])
  BY DEF Init, IdleTx, TierOk
<1> QED
  BY <1>2, <1>3, CommandsAssumption DEF TierInv

(* What create_loan has checked under the fence is still so when it commits.  *)
LEMMA AdmissionHolds ==
  ASSUME CommandsInv, TierInv, NEW c \in Calls, tx[c].pc = "staged", tx[c].q.kind = "create"
  PROVE  LoanUnderPolicy(tx[c].row)
<1> DEFINE p == PatronOf[tx[c].row]
<1>1. /\ tx[c] \in TxType /\ ReadsHold(c) /\ tx[c].pc \in Steps \ {"idle"}
  BY UnderWay DEF Steps
<1>2. p \in Patrons
  BY <1>1, CreateRow
<1>3. /\ Cardinality(OpenLoans(table, p)) <= tx[c].count
      /\ table[p].status = "eligible" /\ tx[c].count < MaxOutstanding[table[p].n]
  BY <1>1 DEF ReadsHold, Counting, Admitted
<1>4. MaxOutstanding[table[p].n] \in Nat /\ tx[c].count \in Nat
  <2>1. table[p].n \in Tiers
    BY <1>2 DEF TierInv
  <2>2. tx[c].count \in Nat
    BY <1>1 DEF TxType
  <2>3. MaxOutstanding \in [Tiers -> Nat]
    BY CommandsAssumption
  <2> QED
    BY <2>1, <2>2, <2>3
<1>5. Cardinality(OpenLoans(table, p)) \in Nat
  BY OutstandingFinite DEF OpenLoans
<1>6. Cardinality(OpenLoans(table, p)) < MaxOutstanding[table[p].n]
  BY <1>3, <1>4, <1>5
<1> QED
  BY <1>3, <1>6, OpenLoansCounted DEF LoanUnderPolicy

(* A loan row appears only by the commit of a create_loan that still holds    *)
(* the fence: the status, the tier and the count it checked are still those   *)
(* of the committed rows.                                                     *)
THEOREM LoansAdmittedUnderPolicy == Spec => AdmittedUnderPolicy
<1> DEFINE Admission == \A l \in Loans :
             table[l].status = "absent" /\ table'[l].status # "absent" => LoanUnderPolicy(l)
<1>1. ASSUME CommandsInv, TierInv, [Next]_vars PROVE Admission
  <2> SUFFICES ASSUME NEW l \in Loans, table[l].status = "absent", table'[l].status # "absent"
               PROVE  LoanUnderPolicy(l)
    OBVIOUS
  <2>1. PICK c \in Calls, end \in {"answered", "failed"} : Commits(c, end)
    BY <1>1, OnlyCommitsWrite
  <2>2. /\ tx[c].pc \in {"locked", "staged"} /\ tx[c].pc \in Steps \ {"idle"}
        /\ l \in Rows /\ table \in [Rows -> RowType]
    BY <1>1, <2>1, RowsDisjoint DEF Commits, CommandsInv, TypeInv, Steps
  <2>3. tx[c].row = l /\ Changes(c)
    BY <2>1, <2>2 DEF Commits
  <2>4. /\ tx[c] \in TxType /\ tx[c].q \in Requests /\ Shape(tx[c]) /\ ReadsHold(c)
        /\ tx[c].q.kind # "add" => tx[c].row = tx[c].q.row
    BY <1>1, <2>2, UnderWay
  <2>5. table[l].version = 0 /\ table[l].version = tx[c].copy.version
    BY <1>1, <2>1, <2>2, <2>3, CommitFacts DEF CommandsInv, VersionInv
  <2>6. tx[c].pc = "staged"
    BY <2>2, <2>4, <2>5 DEF Shape
  <2>7. tx[c].q.kind \in InsertKinds
    BY <2>3, <2>4, <2>6 DEF Shape, Changes
  <2>8. tx[c].q.kind = "create"
    BY <2>3, <2>4, <2>6, <2>7, RequestFacts, RowsDisjoint DEF Shape, InsertKinds
  <2> QED
    BY <1>1, <2>3, <2>6, <2>8, AdmissionHolds
<1>2. ASSUME UNCHANGED vars PROVE Admission
  BY <1>2 DEF vars
<1> HIDE DEF Admission
<1>3. CommandsInv /\ TierInv /\ [Next]_vars => [Admission]_vars
  BY <1>1
<1>4. Spec => []TierInv
  BY TierInit, TierStep, CommandsInvariant, PTL DEF Spec
<1>5. Spec => [][Admission]_vars
  BY <1>3, <1>4, CommandsInvariant, PTL DEF Spec
<1> QED
  BY <1>5 DEF AdmittedUnderPolicy, Admission

(* create_loan never rejects, on the checks it makes under the fence, a       *)
(* reservation whose loan exists: the row it saw missing is still missing.    *)
THEOREM FencedRejectionsAreSound == Spec => RejectionFindsNoLoan
<1> DEFINE Sound == \A c \in Calls :
             tx[c].pc \in {"rechecked", "admitted"} /\ tx'[c].pc = "rejected"
                 => table[tx[c].row].status = "absent"
<1>1. ASSUME CommandsInv PROVE Sound
  BY <1>1 DEF CommandsInv, CallInv, ReadsHold
<1> QED
  BY <1>1, CommandsInvariant, PTL DEF Spec, RejectionFindsNoLoan

-----------------------------------------------------------------------------
(* Commands implements AtomicCommands.                                        *)

(* What a call has staged is what its request decides on the copy it has      *)
(* read; what it stages without changing it can no longer change.             *)
StagedAs(t, row) ==
    /\ t.pc \in {"loaded", "locked"} => t.next \in Decisions(t.q, t.copy)
    /\ t.pc = "staged" =>
           \/ t.q.kind = "register" /\ t.next = [Absent EXCEPT !.status = "eligible", !.n = t.q.arg]
           \/ t.q.kind = "add" /\ t.next = [Absent EXCEPT !.status = "available"]
           \/ t.q.kind = "create" /\ t.next = [Absent EXCEPT !.status = "active"]
           \/ /\ t.q.kind = "return" /\ t.next = t.copy
              /\ t.copy = row /\ t.copy.status = "returned"

StagedOk(c) == StagedAs(tx[c], table[tx[c].row])
StagedInv == \A c \in Calls : StagedOk(c)

(* The decision of each kind of request.                                      *)
LEMMA DecisionOfKind ==
  ASSUME NEW q, NEW row
  PROVE  /\ q.kind = "suspend" => Decisions(q, row) = Suspended(row)
         /\ q.kind = "reinstate" => Decisions(q, row) = Reinstated(row)
         /\ q.kind = "upgrade" => Decisions(q, row) = Upgraded(row, q.arg)
         /\ q.kind = "return" => Decisions(q, row) = Returned(row)
         /\ q.kind = "extend" => Decisions(q, row) = Extended(row, q.arg)
         /\ q.kind = "cancel" => Decisions(q, row) = Cancelled(row)
         /\ q.kind = "borrow" => Decisions(q, row) = Reserved(row)
<1> DEFINE S == Suspended(row)  R == Reinstated(row)  U == Upgraded(row, q.arg)
           T == Returned(row)   E == Extended(row, q.arg)  C == Cancelled(row)  B == Reserved(row)
<1>1. Decisions(q, row) = CASE q.kind = "suspend" -> S [] q.kind = "reinstate" -> R
                            [] q.kind = "upgrade" -> U [] q.kind = "return" -> T
                            [] q.kind = "extend" -> E [] q.kind = "cancel" -> C
                            [] q.kind = "borrow" -> B
  BY DEF Decisions
<1> HIDE DEF S, R, U, T, E, C, B
<1>2. /\ q.kind = "suspend" => Decisions(q, row) = S
      /\ q.kind = "reinstate" => Decisions(q, row) = R
      /\ q.kind = "upgrade" => Decisions(q, row) = U
      /\ q.kind = "return" => Decisions(q, row) = T
      /\ q.kind = "extend" => Decisions(q, row) = E
      /\ q.kind = "cancel" => Decisions(q, row) = C
      /\ q.kind = "borrow" => Decisions(q, row) = B
  BY <1>1
<1> QED
  BY <1>2 DEF S, R, U, T, E, C, B

(* The only decisions that change nothing: cancelling what is closed, and     *)
(* returning what was returned.                                               *)
LEMMA UnchangedDecision ==
  ASSUME NEW q \in Requests, NEW row \in RowType,
         q.kind \in PolicyKinds \cup LoanKinds \cup {"borrow"}, row \in Decisions(q, row)
  PROVE  q.kind = "cancel" \/ (q.kind = "return" /\ row.status = "returned")
<1>1. CASE q.kind \in PolicyKinds
  <2>1. row \notin Suspended(row) /\ row \notin Reinstated(row) /\ row \notin Upgraded(row, 0)
    BY PolicyDecisions
  <2>2. q.kind = "upgrade" => row \notin Upgraded(row, q.arg)
    BY RequestFacts, PolicyDecisions
  <2> QED
    BY <1>1, <2>1, <2>2, DecisionOfKind DEF PolicyKinds
<1>2. CASE q.kind = "extend"
  <2>1. row \in Extended(row, q.arg) /\ q.arg \in Int
    BY <1>2, DecisionOfKind, RequestFacts
  <2>2. q.arg > 0 /\ row = [row EXCEPT !.n = row.n + q.arg]
    BY <2>1 DEF Extended
  <2>3. row.n = row.n + q.arg /\ row.n \in Nat
    BY <2>2 DEF RowType
  <2> QED
    BY <2>1, <2>2, <2>3
<1>3. CASE q.kind = "return"
  <2>1. row \in Returned(row)
    BY <1>3, DecisionOfKind
  <2>2. CASE row.status = "active"
    BY <2>1, <2>2 DEF Returned, RowType
  <2> QED
    BY <1>3, <2>1, <2>2 DEF Returned
<1>4. CASE q.kind = "borrow"
  BY <1>4, DecisionOfKind, BookDecisions
<1> QED
  BY <1>1, <1>2, <1>3, <1>4 DEF LoanKinds

(* A step of c alone that leaves the rows: the other calls keep what they have *)
(* staged.                                                                    *)
LEMMA OthersStaged ==
  ASSUME CommandsInv, StagedInv, NEW c \in Calls, UNCHANGED table,
         tx' = [tx EXCEPT ![c] = tx'[c]], StagedOk(c)'
  PROVE  StagedInv'
<1>1. \A d \in Calls : d # c => tx'[d] = tx[d]
  BY DEF CommandsInv, TypeInv
<1>2. ASSUME NEW d \in Calls, d # c PROVE StagedOk(d)'
  BY <1>1, <1>2 DEF StagedInv, StagedOk
<1> QED
  BY <1>2 DEF StagedInv

(* Reading the row and deciding.                                              *)
LEMMA DecideStaged ==
  ASSUME CommandsInv, StagedInv, NEW c \in Calls, NEW kind, NEW decided, Decide(c, kind, decided),
         decided \subseteq Decisions(tx[c].q, table[tx[c].row])
  PROVE  StagedInv'
<1>1. /\ tx[c] \in TxType /\ tx \in [Calls -> TxType] /\ MayLoad(c) /\ tx[c].q \in Requests
      /\ table[tx[c].row] \in RowType /\ tx[c].row = tx[c].q.row
      /\ tx[c].q.kind \in PolicyKinds \cup LoanKinds \cup {"borrow"}
  <2>1. MayLoad(c)
    BY DEF Decide
  <2>2. tx[c].q.kind \in PolicyKinds \cup LoanKinds \cup {"borrow"}
    BY <2>1, MayLoadFacts DEF MayLoad, Shape
  <2> QED
    BY <2>1, <2>2, MayLoadFacts DEF CommandsInv, TypeInv
<1>2. CASE Finish(c, "rejected")
  <2>1. tx' = [tx EXCEPT ![c] = tx'[c]] /\ table' = table /\ tx'[c].pc = "rejected"
    BY <1>1, <1>2 DEF Finish, Close, TxType
  <2> QED
    BY <2>1, OthersStaged DEF StagedOk, StagedAs
<1>3. CASE AnswerFrom(c, tx[c].row)
  <2>1. tx' = [tx EXCEPT ![c] = tx'[c]] /\ table' = table /\ tx'[c].pc = "answered"
    BY <1>1, <1>3 DEF AnswerFrom, Close, TxType
  <2> QED
    BY <2>1, OthersStaged DEF StagedOk, StagedAs
<1>4. ASSUME NEW next \in decided, ~(next = table[tx[c].row] /\ tx[c].q.key = None),
             Advance(c, [tx[c] EXCEPT
                 !.pc = IF next = table[tx[c].row] THEN "staged" ELSE "loaded",
                 !.copy = table[tx[c].row], !.next = next])
      PROVE  StagedInv'
  <2>1. /\ tx' = [tx EXCEPT ![c] = tx'[c]] /\ table' = table
        /\ tx'[c].row = tx[c].row /\ tx'[c].next = next /\ tx'[c].copy = table[tx[c].row]
        /\ tx'[c].q = tx[c].q
        /\ tx'[c].pc = IF next = table[tx[c].row] THEN "staged" ELSE "loaded"
    BY <1>1, <1>4 DEF Advance, TxType
  <2>2. next \in Decisions(tx[c].q, table[tx[c].row])
    BY <1>4
  <2>3. CASE next = table[tx[c].row]
    <3>1. tx[c].q.kind # "cancel"
      BY <1>1, <1>4, <2>3, RequestFacts
    <3>2. tx[c].q.kind = "return" /\ next.status = "returned"
      BY <1>1, <2>2, <2>3, <3>1, UnchangedDecision
    <3>3. StagedOk(c)'
      BY <2>1, <2>3, <3>2 DEF StagedOk, StagedAs
    <3> QED
      BY <2>1, <3>3, OthersStaged
  <2>4. CASE next # table[tx[c].row]
    <3>1. StagedOk(c)'
      BY <2>1, <2>2, <2>4 DEF StagedOk, StagedAs
    <3> QED
      BY <2>1, <3>1, OthersStaged
  <2> QED
    BY <2>3, <2>4
<1> QED
  BY <1>2, <1>3, <1>4 DEF Decide, Load

(* Every step keeps what the calls have staged.                               *)
LEMMA StagedStep == CommandsInv /\ StagedInv /\ [Next]_vars => StagedInv'
<1> SUFFICES ASSUME CommandsInv, StagedInv, [Next]_vars PROVE StagedInv'
  OBVIOUS
<1>1. CASE UNCHANGED vars
  <2>1. table' = table /\ tx' = tx
    BY <1>1 DEF vars
  <2> QED
    BY <2>1 DEF StagedInv, StagedOk
<1>2. ASSUME NEW c \in Calls PROVE tx[c] \in TxType /\ tx \in [Calls -> TxType] /\ StagedOk(c)
  BY DEF CommandsInv, TypeInv, StagedInv
<1>3. ASSUME NEW c \in Calls, NEW q \in Requests, Start(c, q) PROVE StagedInv'
  <2>1. /\ tx' = [tx EXCEPT ![c] = tx'[c]] /\ table' = table
        /\ tx'[c].pc \in {"looked", "answered", "mismatched"}
    BY <1>3, StartAdvances
  <2> QED
    BY <2>1, OthersStaged DEF StagedOk, StagedAs
<1>4. ASSUME NEW c \in Calls, Step(c), ~Commit(c), ~CommitUnheard(c) PROVE StagedInv'
  <2>1. tx[c] \in TxType /\ tx \in [Calls -> TxType] /\ StagedOk(c)
    BY <1>2
  <2>2. CASE SuspendPatron(c) \/ ReinstatePatron(c) \/ UpgradePatronTier(c) \/ ReserveBook(c)
    BY <2>2, DecideStaged, DecisionOfKind
       DEF SuspendPatron, ReinstatePatron, UpgradePatronTier, ReserveBook, Decide
  <2>3. CASE ReturnLoan(c) \/ CancelLoan(c)
    BY <2>3, DecideStaged, DecisionOfKind DEF ReturnLoan, CancelLoan, Decide
  <2>4. CASE ExtendLoan(c)
    <3>1. PICK overdue \in BOOLEAN :
            Decide(c, "extend", IF overdue THEN {} ELSE Extended(table[tx[c].row], tx[c].q.arg))
      BY <2>4 DEF ExtendLoan
    <3>2. (IF overdue THEN {} ELSE Extended(table[tx[c].row], tx[c].q.arg))
            \subseteq Decisions(tx[c].q, table[tx[c].row])
      BY <3>1, DecisionOfKind DEF Decide
    <3> QED
      BY <3>1, <3>2, DecideStaged
  <2>5. ASSUME NEW end \in Ends \cup {"conflicted"}, Finish(c, end) PROVE StagedInv'
    <3>1. /\ tx' = [tx EXCEPT ![c] = tx'[c]] /\ table' = table /\ tx'[c].pc = end
      BY <2>1, <2>5 DEF Finish, Close, TxType
    <3> QED
      BY <3>1, OthersStaged DEF StagedOk, StagedAs, Ends
  <2>6. ASSUME AnswerFrom(c, tx[c].row) PROVE StagedInv'
    <3>1. /\ tx' = [tx EXCEPT ![c] = tx'[c]] /\ table' = table /\ tx'[c].pc = "answered"
      BY <2>1, <2>6 DEF AnswerFrom, Close, TxType
    <3> QED
      BY <3>1, OthersStaged DEF StagedOk, StagedAs
  <2>7. ASSUME NEW pc, Goto(c, pc), pc = "locked" => tx[c].pc = "loaded", pc \notin {"loaded", "staged"}
        PROVE  StagedInv'
    <3>1. /\ tx' = [tx EXCEPT ![c] = tx'[c]] /\ table' = table /\ tx'[c].pc = pc
          /\ tx'[c].q = tx[c].q /\ tx'[c].copy = tx[c].copy /\ tx'[c].next = tx[c].next
      BY <2>1, <2>7 DEF Goto, Advance, TxType
    <3>2. StagedOk(c)'
      BY <2>1, <2>7, <3>1 DEF StagedOk, StagedAs
    <3> QED
      BY <3>1, <3>2, OthersStaged
  <2>8. CASE AcquireFence(c) \/ CountOutstanding(c)
    <3>1. /\ tx' = [tx EXCEPT ![c] = tx'[c]] /\ table' = table
          /\ tx'[c].pc \in {"fenced", "counted"}
      BY <2>1, <2>8 DEF AcquireFence, CountOutstanding, Advance, TxType
    <3> QED
      BY <3>1, OthersStaged DEF StagedOk, StagedAs
  <2>9. CASE RereadReservation(c) \/ ReadPolicy(c) \/ FindBorrower(c) \/ Update(c)
    BY <2>5, <2>6, <2>7, <2>9 DEF RereadReservation, ReadPolicy, FindBorrower, Update, Ends
  <2>10. ASSUME NEW n, Advance(c, [tx[c] EXCEPT !.pc = "staged", !.next = n]),
                \/ tx[c].q.kind = "create" /\ n = [Absent EXCEPT !.status = "active"]
                \/ tx[c].q.kind = "register" /\ n = [Absent EXCEPT !.status = "eligible", !.n = tx[c].q.arg]
         PROVE  StagedInv'
    <3>1. /\ tx' = [tx EXCEPT ![c] = tx'[c]] /\ table' = table
          /\ tx'[c].pc = "staged" /\ tx'[c].next = n /\ tx'[c].q = tx[c].q
      BY <2>1, <2>10 DEF Advance, TxType
    <3> QED
      BY <2>10, <3>1, OthersStaged DEF StagedOk, StagedAs
  <2>11. CASE CheckBook(c)
    <3>1. tx[c].q.kind = "create"
      BY <2>11, UnderWay DEF CheckBook, Steps, Shape
    <3> QED
      BY <2>5, <2>10, <2>11, <3>1 DEF CheckBook, Ends
  <2>12. CASE RegisterPatron(c)
    BY <2>5, <2>10, <2>12 DEF RegisterPatron, Ends
  <2>13. CASE AddBook(c)
    <3>1. PICK b \in Books : Advance(c, [tx[c] EXCEPT !.pc = "staged", !.row = b,
                                         !.next = [Absent EXCEPT !.status = "available"]])
      BY <2>13 DEF AddBook
    <3>2. /\ tx' = [tx EXCEPT ![c] = tx'[c]] /\ table' = table /\ tx'[c].q = tx[c].q
          /\ tx'[c].pc = "staged" /\ tx'[c].next = [Absent EXCEPT !.status = "available"]
      BY <2>1, <3>1 DEF Advance, TxType
    <3>3. tx[c].q.kind = "add"
      BY <2>13 DEF AddBook
    <3> QED
      BY <3>2, <3>3, OthersStaged DEF StagedOk, StagedAs
  <2>14. CASE \/ ReceiptConflict(c) \/ EmailConflict(c) \/ LoanConflict(c)
              \/ FindWinner(c) \/ FindHolder(c) \/ Abort(c)
    BY <2>5, <2>6, <2>7, <2>14
       DEF ReceiptConflict, EmailConflict, LoanConflict, FindWinner, FindHolder, Abort, Ends
  <2> QED
    BY <1>4, <2>2, <2>3, <2>4, <2>8, <2>9, <2>11, <2>12, <2>13, <2>14 DEF Step
<1>5. ASSUME NEW c \in Calls, NEW end \in {"answered", "failed"}, Commits(c, end) PROVE StagedInv'
  <2>1. /\ tx[c] \in TxType /\ tx \in [Calls -> TxType] /\ table \in [Rows -> RowType]
        /\ tx[c].row \in Rows
    BY <1>5, CommitFacts DEF CommandsInv, TypeInv
  <2>2. \A d \in Calls : d # c => tx'[d] = tx[d]
    BY <1>5, <2>1 DEF Commits, Close
  <2>3. tx'[c].pc = end
    BY <1>5, <2>1 DEF Commits, Close, TxType
  <2>4. ASSUME NEW l \in Loans, table[l].status = "returned" PROVE table'[l] = table[l]
    <3>1. l \in Rows
      BY RowsDisjoint
    <3>2. CASE tx[c].row = l /\ Changes(c)
      <4>1. tx[c].q.kind = "create" => table[l].status = "absent"
        BY <1>5, <3>2 DEF Commits, UniqueTaken, InsertKinds
      <4> QED
        BY <1>5, <2>4, <3>2, <4>1, CommitFacts DEF Closed
    <3>3. CASE ~(tx[c].row = l /\ Changes(c))
      BY <1>5, <2>1, <3>1, <3>3 DEF Commits
    <3> QED
      BY <3>2, <3>3
  <2>5. ASSUME NEW d \in Calls, d # c PROVE StagedOk(d)'
    <3>1. tx'[d] = tx[d] /\ StagedOk(d)
      BY <1>2, <2>2, <2>5
    <3>2. ASSUME tx[d].pc = "staged", tx[d].q.kind = "return", tx[d].copy = table[tx[d].row],
                 tx[d].copy.status = "returned"
          PROVE  table'[tx[d].row] = table[tx[d].row]
      <4>1. tx[d].q \in Requests /\ tx[d].row = tx[d].q.row
        BY <3>2, UnderWay DEF Steps
      <4>2. tx[d].row \in Loans
        BY <3>2, <4>1, RequestFacts DEF LoanKinds
      <4> QED
        BY <2>4, <3>2, <4>2
    <3> QED
      BY <3>1, <3>2 DEF StagedOk, StagedAs
  <2>6. StagedOk(c)'
    BY <2>3 DEF StagedOk, StagedAs
  <2> QED
    BY <2>5, <2>6 DEF StagedInv
<1> QED
  BY <1>1, <1>3, <1>4, <1>5 DEF Next, Commit, CommitUnheard

(* The replies after a step of call c alone.                                  *)
LEMMA NoReply ==
  ASSUME CommandsInv, NEW c \in Calls, tx' = [tx EXCEPT ![c] = tx'[c]],
         UNCHANGED <<table, receipts>>,
         ~tx[c].committed, tx[c].pc # "answered", ~tx'[c].committed, tx'[c].pc # "answered"
  PROVE  UNCHANGED Atomic!atomic
<1>1. \A d \in Calls : d # c => tx'[d] = tx[d]
  BY DEF CommandsInv, TypeInv
<1> DEFINE D == {d \in Calls : tx[d].committed \/ tx[d].pc = "answered"}
           F(d) == [call |-> d, q |-> tx[d].q, answer |-> tx[d].answer]
<1>2. D' = D /\ \A d \in D : d # c
  BY <1>1
<1>3. \A d \in D : F(d)' = F(d)
  BY <1>1, <1>2
<1>4. Replies = {F(d) : d \in D} /\ Replies' = {F(d)' : d \in D'}
  BY DEF Replies
<1> HIDE DEF D, F
<1>5. Replies' = Replies
  BY <1>2, <1>3, <1>4
<1> QED
  BY <1>5 DEF Atomic!atomic

LEMMA OneReply ==
  ASSUME CommandsInv, NEW c \in Calls, tx' = [tx EXCEPT ![c] = tx'[c]],
         ~tx[c].committed, tx[c].pc # "answered", tx'[c].committed \/ tx'[c].pc = "answered"
  PROVE  /\ Replies' = Replies \cup {[call |-> c, q |-> tx'[c].q, answer |-> tx'[c].answer]}
         /\ ~Atomic!Replied(c) /\ Atomic!Replied(c)'
<1>1. \A d \in Calls : d # c => tx'[d] = tx[d]
  BY DEF CommandsInv, TypeInv
<1> DEFINE D == {d \in Calls : tx[d].committed \/ tx[d].pc = "answered"}
           F(d) == [call |-> d, q |-> tx[d].q, answer |-> tx[d].answer]
<1>2. D' = D \cup {c} /\ \A d \in D : d # c
  BY <1>1
<1>3. \A d \in D : F(d)' = F(d)
  BY <1>1, <1>2
<1>4. Replies = {F(d) : d \in D} /\ Replies' = {F(d)' : d \in D'}
  BY DEF Replies
<1>5. F(c)' = [call |-> c, q |-> tx'[c].q, answer |-> tx'[c].answer] /\ \A d : F(d).call = d
  OBVIOUS
<1> HIDE DEF D, F
<1>6. Replies' = Replies \cup {F(c)'}
  BY <1>2, <1>3, <1>4
<1>7. \A r \in Replies : r.call # c
  BY <1>2, <1>4, <1>5
<1>8. [call |-> c, q |-> tx'[c].q, answer |-> tx'[c].answer].call = c
  OBVIOUS
<1>9. \E r \in Replies' : r.call = c
  BY <1>5, <1>6, <1>8
<1> QED
  BY <1>5, <1>6, <1>7, <1>9 DEF Atomic!Replied

(* A key of the committed receipts is no None: a request without a key meets  *)
(* no receipt.                                                                *)
LEMMA UnkeyedIsFree ==
  ASSUME CommandsInv, NEW q \in Requests, q.key = None
  PROVE  \A r \in receipts : ~(r.kind = q.kind /\ r.key = q.key)
  BY RowsDisjoint DEF CommandsInv, TypeInv, ReceiptType

(* AtomicCommands decides as the aggregates do.                               *)
LEMMA SameDecisions ==
  ASSUME NEW q, NEW row
  PROVE  Atomic!Decisions(q, row) = Decisions(q, row)
  BY DEF Atomic!Decisions, Atomic!Suspended, Atomic!Reinstated, Atomic!Upgraded, Atomic!Returned,
         Atomic!Extended, Atomic!Cancelled, Atomic!Reserved,
         Decisions, Suspended, Reinstated, Upgraded, Returned, Extended, Cancelled, Reserved

(* A decision leaves the version to the repository.                           *)
LEMMA DecisionKeepsVersion ==
  ASSUME NEW q \in Requests, NEW row \in RowType, NEW next,
         q.kind \in PolicyKinds \cup LoanKinds \cup {"borrow"}, next \in Decisions(q, row)
  PROVE  next.version = row.version
<1>1. CASE q.kind \in PolicyKinds
  BY <1>1, DecisionOfKind DEF PolicyKinds, Suspended, Reinstated, Upgraded, RowType
<1>2. CASE q.kind \in LoanKinds
  BY <1>2, DecisionOfKind DEF LoanKinds, Returned, Extended, Cancelled, RowType
<1>3. CASE q.kind = "borrow"
  <2>1. next = [row EXCEPT !.status = "reserved", !.n = row.n + 1]
    BY <1>3, DecisionOfKind DEF Reserved
  <2> QED
    BY <2>1 DEF RowType
<1> QED
  BY <1>1, <1>2, <1>3

(* A commit finds its row as it decided on it.                                *)
LEMMA CommitDecides ==
  ASSUME CommandsInv, TierInv, StagedInv, NEW c \in Calls, NEW end \in {"answered", "failed"},
         Commits(c, end)
  PROVE  LET x == tx[c].row IN
         /\ tx[c].next \in Atomic!Outcomes(tx[c].q, x)
         /\ Changes(c) <=> tx[c].next # table[x]
         /\ ~Changes(c) => table[x] = tx[c].copy
         /\ Changes(c) => tx[c].next.version = tx[c].copy.version
<1> DEFINE q == tx[c].q  x == tx[c].row  next == tx[c].next
<1>1. /\ tx[c].pc \in {"locked", "staged"} /\ tx[c].pc \in Steps \ {"idle"} /\ tx[c] \in TxType
      /\ q \in Requests /\ Shape(tx[c]) /\ ReadsHold(c) /\ StagedOk(c)
  BY UnderWay DEF Commits, Steps, StagedInv
<1>2. /\ x \in Rows /\ tx[c].copy \in RowType /\ next \in RowType /\ table[x] \in RowType
  BY <1>1, CommitFacts DEF TxType, CommandsInv, TypeInv
<1>3. CASE tx[c].pc = "locked"
  <2>1. /\ table[x] = tx[c].copy /\ next # tx[c].copy /\ next \in Decisions(q, tx[c].copy)
        /\ q.kind \notin InsertKinds
    BY <1>1, <1>3 DEF Shape, ReadsHold, StagedOk, StagedAs
  <2>2. q.kind \in PolicyKinds \cup LoanKinds \cup {"borrow"}
    BY <1>1, <2>1, RequestFacts DEF Kinds
  <2>3. Atomic!Outcomes(q, x) = Decisions(q, table[x])
    <3>1. q.kind \notin {"register", "add", "create"}
      BY <2>1 DEF InsertKinds
    <3>2. Atomic!Outcomes(q, x) = Atomic!Decisions(q, table[x])
      BY <3>1 DEF Atomic!Outcomes
    <3> QED
      BY <3>2, SameDecisions
  <2>4. next.version = tx[c].copy.version
    BY <1>1, <1>2, <2>1, <2>2, DecisionKeepsVersion
  <2> QED
    BY <2>1, <2>3, <2>4 DEF Changes
<1>4. ASSUME tx[c].pc = "staged", q.kind \in InsertKinds,
             NEW status, NEW n, status # "absent", next = [Absent EXCEPT !.status = status, !.n = n]
      PROVE  /\ next \in Atomic!Created(table[x], status, n)
             /\ Changes(c) /\ next # table[x] /\ next.version = tx[c].copy.version
  <2>1. table[x].status = "absent"
    BY <1>4 DEF Commits, UniqueTaken
  <2>2. tx[c].copy = Absent
    BY <1>1, <1>4 DEF Shape
  <2>3. next.status = status /\ next.version = 0 /\ Absent.status = "absent" /\ Absent.version = 0
    BY <1>4 DEF Absent
  <2> QED
    BY <1>4, <2>1, <2>2, <2>3 DEF Changes, Atomic!Created, Atomic!Absent, Absent
<1>5. CASE tx[c].pc = "staged" /\ q.kind = "register"
  <2>1. next = [Absent EXCEPT !.status = "eligible", !.n = q.arg]
    BY <1>1, <1>5 DEF StagedOk, StagedAs
  <2>2. Atomic!Outcomes(q, x) = Atomic!Created(table[x], "eligible", q.arg)
    BY <1>5 DEF Atomic!Outcomes
  <2>3. q.kind \in InsertKinds
    BY <1>5 DEF InsertKinds
  <2>4. /\ next \in Atomic!Created(table[x], "eligible", q.arg)
        /\ Changes(c) /\ next # table[x] /\ next.version = tx[c].copy.version
    BY <1>4, <1>5, <2>1, <2>3
  <2> QED
    BY <2>2, <2>4
<1>6. CASE tx[c].pc = "staged" /\ q.kind = "add"
  <2>1. next = [Absent EXCEPT !.status = "available", !.n = 0]
    BY <1>1, <1>6 DEF StagedOk, StagedAs, Absent
  <2>2. Atomic!Outcomes(q, x) = Atomic!Created(table[x], "available", 0)
    BY <1>6 DEF Atomic!Outcomes
  <2>3. q.kind \in InsertKinds
    BY <1>6 DEF InsertKinds
  <2>4. /\ next \in Atomic!Created(table[x], "available", 0)
        /\ Changes(c) /\ next # table[x] /\ next.version = tx[c].copy.version
    BY <1>4, <1>6, <2>1, <2>3
  <2> QED
    BY <2>2, <2>4
<1>7. CASE tx[c].pc = "staged" /\ q.kind = "create"
  <2>1. next = [Absent EXCEPT !.status = "active", !.n = 0]
    BY <1>1, <1>7 DEF StagedOk, StagedAs, Absent
  <2>2. LoanUnderPolicy(x) /\ OutstandingForBook(BookOf[x]) = {}
    BY <1>7, AdmissionHolds DEF Commits, UniqueTaken
  <2>3. Atomic!MayBorrow(x)
    <3>1. \A k : Atomic!Open(k) = Outstanding(k)
      BY DEF Atomic!Open, Outstanding
    <3>2. {k \in Loans : PatronOf[k] = PatronOf[x] /\ Atomic!Open(k)} = OutstandingFor(PatronOf[x])
      BY <3>1 DEF OutstandingFor
    <3>3. /\ table[PatronOf[x]].status = "eligible"
          /\ Cardinality({k \in Loans : PatronOf[k] = PatronOf[x] /\ Atomic!Open(k)})
                 < MaxOutstanding[table[PatronOf[x]].n]
      BY <2>2, <3>2 DEF LoanUnderPolicy
    <3>4. \A k \in Loans : BookOf[k] = BookOf[x] => ~Atomic!Open(k)
      BY <2>2, <3>1 DEF OutstandingForBook
    <3> QED
      BY <3>3, <3>4 DEF Atomic!MayBorrow, Atomic!Cardinality, Cardinality
  <2>4. Atomic!Outcomes(q, x) = Atomic!Created(table[x], "active", 0)
    BY <1>7, <2>3 DEF Atomic!Outcomes
  <2>5. q.kind \in InsertKinds
    BY <1>7 DEF InsertKinds
  <2>6. /\ next \in Atomic!Created(table[x], "active", 0)
        /\ Changes(c) /\ next # table[x] /\ next.version = tx[c].copy.version
    BY <1>4, <1>7, <2>1, <2>5
  <2> QED
    BY <2>4, <2>6
<1>8. CASE tx[c].pc = "staged" /\ q.kind = "return"
  <2>1. next = tx[c].copy /\ tx[c].copy = table[x] /\ table[x].status = "returned"
    BY <1>1, <1>8 DEF StagedOk, StagedAs
  <2>2. Atomic!Outcomes(q, x) = Atomic!Decisions(q, table[x])
    BY <1>8 DEF Atomic!Outcomes
  <2>3. Atomic!Outcomes(q, x) = Returned(table[x])
    BY <1>8, <2>2, SameDecisions, DecisionOfKind
  <2> QED
    BY <2>1, <2>3 DEF Changes, Returned
<1> QED
  BY <1>1, <1>3, <1>5, <1>6, <1>7, <1>8 DEF StagedOk, StagedAs

(* A commit executes its command at that moment, as a whole.                  *)
LEMMA CommitIsAtomic ==
  ASSUME CommandsInv, TierInv, StagedInv, NEW c \in Calls, NEW end \in {"answered", "failed"},
         Commits(c, end)
  PROVE  Atomic!Next
<1> DEFINE q == tx[c].q  x == tx[c].row  next == tx[c].next
<1>1. /\ tx[c].pc \in {"locked", "staged"} /\ tx[c].pc \in Steps \ {"idle"} /\ tx[c] \in TxType
      /\ q \in Requests /\ ~tx[c].committed /\ Shape(tx[c]) /\ ReadsHold(c)
      /\ (q.kind # "add" => x = q.row) /\ StagedOk(c)
  BY UnderWay DEF Commits, Steps, StagedInv
<1>2. /\ x \in Rows /\ tx[c].copy \in RowType /\ next \in RowType /\ table \in [Rows -> RowType]
      /\ tx \in [Calls -> TxType] /\ table[x] \in RowType
  BY <1>1, CommitFacts DEF TxType, CommandsInv, TypeInv
<1>3. \A r \in receipts : ~(r.kind = q.kind /\ r.key = q.key)
  <2>1. CASE q.key = None
    BY <1>1, <2>1, UnkeyedIsFree
  <2>2. CASE q.key # None
    BY <2>2 DEF Commits, KeyTaken, ReceiptsFor
  <2> QED
    BY <2>1, <2>2
<1>4. x \in Atomic!Targets(q)
  <2>1. q.kind = "add" => x \in Books /\ tx[c].pc = "staged"
    BY <1>1 DEF Shape, InsertKinds
  <2> QED
    BY <1>1, <2>1 DEF Atomic!Targets
<1>5. next \in Atomic!Outcomes(q, x) /\ (Changes(c) <=> next # table[x])
      /\ (~Changes(c) => table[x] = tx[c].copy) /\ (Changes(c) => next.version = tx[c].copy.version)
  BY CommitDecides
<1> DEFINE row == IF next = table[x] THEN next ELSE [next EXCEPT !.version = next.version + 1, !.by = c]
<1>6. row = Written(c) /\ (Changes(c) => row = Written(c)) /\ (~Changes(c) => row = table[x])
  BY <1>2, <1>5 DEF Written, Changes
<1>7. table' = [table EXCEPT ![x] = row]
  BY <1>2, <1>6 DEF Commits
<1>8. receipts' = IF q.key = None THEN receipts
                  ELSE receipts \cup {[kind |-> q.kind, key |-> q.key, row |-> q.row, arg |-> q.arg,
                                       answer |-> Answer(x, row)]}
  BY <1>6 DEF Commits
<1>9. /\ tx' = [tx EXCEPT ![c] = tx'[c]] /\ tx'[c].committed /\ tx'[c].q = q
      /\ tx'[c].answer = IF end = "answered" THEN Answer(x, row) ELSE None
  BY <1>1, <1>2, <1>6 DEF Commits, Close, TxType
<1>10. tx[c].pc # "answered"
  BY <1>1
<1>11. /\ Replies' = Replies \cup {[call |-> c, q |-> q, answer |-> tx'[c].answer]}
       /\ ~Atomic!Replied(c) /\ Atomic!Replied(c)'
  BY <1>1, <1>9, <1>10, OneReply
<1>12. Atomic!Reply(c, q, Answer(x, row)) \/ Atomic!Reply(c, q, None)
  BY <1>9, <1>11 DEF Atomic!Reply
<1> HIDE DEF q, x, next
<1>13. Atomic!Execute(c, q)
  BY <1>3, <1>4, <1>5, <1>7, <1>8, <1>12 DEF Atomic!Execute, Atomic!Answer, Answer
<1> QED
  BY <1>1, <1>11, <1>13 DEF Atomic!Next

(* A duplicate of an existing loan is answered with it.                       *)
LEMMA AnswerIsLoan ==
  ASSUME CommandsInv, NEW c \in Calls, tx[c].pc \in Steps \ {"idle"}, tx[c].q.kind = "create",
         table[tx[c].row].status # "absent", AnswerFrom(c, tx[c].row)
  PROVE  Atomic!Next
<1> DEFINE q == tx[c].q
<1>1. tx[c] \in TxType /\ tx \in [Calls -> TxType] /\ q \in Requests /\ ~tx[c].committed
  BY UnderWay DEF CommandsInv, TypeInv
<1>2. tx[c].row = q.row
  BY UnderWay
<1>3. /\ tx' = [tx EXCEPT ![c] = tx'[c]] /\ tx'[c].pc = "answered" /\ tx'[c].q = q
      /\ tx'[c].answer = Answer(q.row, table[q.row]) /\ UNCHANGED <<table, receipts>>
  BY <1>1, <1>2 DEF AnswerFrom, Close, TxType
<1>4. tx[c].pc # "answered"
  BY DEF Steps
<1>5. /\ Replies' = Replies \cup {[call |-> c, q |-> q, answer |-> tx'[c].answer]}
      /\ ~Atomic!Replied(c) /\ Atomic!Replied(c)'
  BY <1>1, <1>3, <1>4, OneReply
<1>6. Atomic!AnswerWithLoan(c, q)
  BY <1>2, <1>3, <1>5 DEF Atomic!AnswerWithLoan, Atomic!Reply, Atomic!Answer, Answer
<1> QED
  BY <1>1, <1>5, <1>6 DEF Atomic!Next

(* A call that answers without a commit, because its decision changes nothing. *)
LEMMA AnswerIsExecution ==
  ASSUME CommandsInv, NEW c \in Calls, MayLoad(c), tx[c].q.key = None,
         table[tx[c].row] \in Decisions(tx[c].q, table[tx[c].row]), AnswerFrom(c, tx[c].row)
  PROVE  Atomic!Next
<1> DEFINE q == tx[c].q  x == tx[c].row
<1>1. /\ tx[c] \in TxType /\ tx \in [Calls -> TxType] /\ q \in Requests /\ ~tx[c].committed
      /\ x = q.row /\ x \in Rows /\ q.kind \notin InsertKinds /\ tx[c].pc \in Steps \ {"idle"}
      /\ table \in [Rows -> RowType]
  BY MayLoadFacts DEF CommandsInv, TypeInv
<1>2. /\ tx' = [tx EXCEPT ![c] = tx'[c]] /\ tx'[c].pc = "answered" /\ tx'[c].q = q
      /\ tx'[c].answer = Answer(x, table[x]) /\ UNCHANGED <<table, receipts>>
  BY <1>1 DEF AnswerFrom, Close, TxType
<1>3. tx[c].pc # "answered"
  BY <1>1 DEF Steps
<1>4. /\ Replies' = Replies \cup {[call |-> c, q |-> q, answer |-> tx'[c].answer]}
      /\ ~Atomic!Replied(c) /\ Atomic!Replied(c)'
  BY <1>1, <1>2, <1>3, OneReply
<1>5. \A r \in receipts : ~(r.kind = q.kind /\ r.key = q.key)
  BY <1>1, UnkeyedIsFree
<1>6. x \in Atomic!Targets(q)
  BY <1>1 DEF Atomic!Targets, InsertKinds
<1>7. table[x] \in Atomic!Outcomes(q, x)
  <2>1. Atomic!Outcomes(q, x) = Atomic!Decisions(q, table[x])
    BY <1>1 DEF Atomic!Outcomes, InsertKinds
  <2> QED
    BY <2>1, SameDecisions
<1>8. table' = [table EXCEPT ![x] = table[x]]
  BY <1>1, <1>2
<1>9. Atomic!Reply(c, q, Answer(x, table[x]))
  BY <1>2, <1>4 DEF Atomic!Reply
<1>10. Atomic!Execute(c, q)
  <2> HIDE DEF q, x
  <2>1. q.key = None
    BY DEF q
  <2> QED
    BY <1>2, <1>5, <1>6, <1>7, <1>8, <1>9, <2>1 DEF Atomic!Execute, Atomic!Answer, Answer
<1> QED
  BY <1>1, <1>4, <1>10 DEF Atomic!Next

(* A decision that ends the call is refused, or answers what is so already.   *)
LEMMA DecideRefines ==
  ASSUME CommandsInv, NEW c \in Calls, NEW kind, NEW decided, Decide(c, kind, decided),
         decided \subseteq Decisions(tx[c].q, table[tx[c].row])
  PROVE  Atomic!Next \/ UNCHANGED Atomic!atomic
<1>1. /\ MayLoad(c) /\ tx[c] \in TxType /\ tx \in [Calls -> TxType] /\ ~tx[c].committed
      /\ tx[c].pc # "answered"
  BY MayLoadFacts DEF Decide, CommandsInv, TypeInv, Steps
<1>2. CASE Finish(c, "rejected")
  <2>1. /\ tx' = [tx EXCEPT ![c] = tx'[c]] /\ UNCHANGED <<table, receipts>>
        /\ tx'[c].pc # "answered" /\ ~tx'[c].committed
    BY <1>1, <1>2 DEF Finish, Close, TxType
  <2> QED
    BY <1>1, <2>1, NoReply
<1>3. ASSUME NEW next \in decided, next = table[tx[c].row], tx[c].q.key = None, AnswerFrom(c, tx[c].row)
      PROVE  Atomic!Next
  <2>1. table[tx[c].row] \in Decisions(tx[c].q, table[tx[c].row])
    BY <1>3
  <2> QED
    BY <1>1, <1>3, <2>1, AnswerIsExecution
<1>4. ASSUME NEW next, NEW pc \in {"staged", "loaded"},
             Advance(c, [tx[c] EXCEPT !.pc = pc, !.copy = table[tx[c].row], !.next = next])
      PROVE  UNCHANGED Atomic!atomic
  <2>1. /\ tx' = [tx EXCEPT ![c] = tx'[c]] /\ UNCHANGED <<table, receipts>>
        /\ tx'[c].pc # "answered" /\ ~tx'[c].committed
    BY <1>1, <1>4 DEF Advance, TxType
  <2> QED
    BY <1>1, <2>1, NoReply
<1> QED
  BY <1>2, <1>3, <1>4 DEF Decide, Load

(* The lookup that opens a handler is silent, or answers at once.             *)
LEMMA StartRefines ==
  ASSUME CommandsInv, NEW c \in Calls, NEW q \in Requests, Start(c, q)
  PROVE  Atomic!Next \/ UNCHANGED Atomic!atomic
<1>1. tx[c] \in TxType /\ tx \in [Calls -> TxType] /\ ~tx[c].committed /\ tx[c].pc = "idle"
  BY DEF Start, Begin, BeginWithReceipt, BeginReplay, CommandsInv, TypeInv, CallInv, Shape
<1>2. ASSUME NEW pc \in {"looked", "mismatched"}, NEW a,
             Advance(c, [tx[c] EXCEPT !.pc = pc, !.q = q, !.row = q.row, !.answer = a])
      PROVE  UNCHANGED Atomic!atomic
  <2>1. /\ tx' = [tx EXCEPT ![c] = tx'[c]] /\ UNCHANGED <<table, receipts>>
        /\ tx'[c].pc # "answered" /\ ~tx'[c].committed
    BY <1>1, <1>2 DEF Advance, TxType
  <2> QED
    BY <1>1, <2>1, NoReply
<1>3. ASSUME NEW a,
             Advance(c, [tx[c] EXCEPT !.pc = "answered", !.q = q, !.row = q.row, !.answer = a]),
             \/ \E r \in receipts : /\ r.kind = q.kind /\ r.key = q.key /\ r.row = q.row
                                    /\ r.arg = q.arg /\ a = r.answer
             \/ q.kind = "create" /\ table[q.row].status # "absent" /\ a = Answer(q.row, table[q.row])
      PROVE  Atomic!Next
  <2>1. /\ tx' = [tx EXCEPT ![c] = tx'[c]] /\ UNCHANGED <<table, receipts>>
        /\ tx'[c].pc = "answered" /\ tx'[c].q = q /\ tx'[c].answer = a
    BY <1>1, <1>3 DEF Advance, TxType
  <2>2. /\ Replies' = Replies \cup {[call |-> c, q |-> q, answer |-> a]}
        /\ ~Atomic!Replied(c) /\ Atomic!Replied(c)'
    BY <1>1, <2>1, OneReply
  <2>3. Atomic!AnswerAgain(c, q) \/ Atomic!AnswerWithLoan(c, q)
    BY <1>3, <2>1, <2>2
       DEF Atomic!AnswerAgain, Atomic!AnswerWithLoan, Atomic!Reply, Atomic!Answer, Answer
  <2> QED
    BY <2>2, <2>3 DEF Atomic!Next
<1>4. CASE Begin(c, q)
  <2>1. /\ tx' = [tx EXCEPT ![c] = tx'[c]] /\ UNCHANGED <<table, receipts>>
        /\ tx'[c].pc # "answered" /\ ~tx'[c].committed
    BY <1>1, <1>4 DEF Begin, Advance, TxType
  <2> QED
    BY <1>1, <2>1, NoReply
<1>5. CASE BeginWithReceipt(c, q)
  <2>1. PICK r \in ReceiptsFor(q) :
          Advance(c, [tx[c] EXCEPT
               !.pc = IF SameFacts(q, r) THEN "answered" ELSE "mismatched",
               !.q = q, !.row = q.row,
               !.answer = IF SameFacts(q, r) THEN r.answer ELSE None])
    BY <1>5 DEF BeginWithReceipt
  <2>2. CASE SameFacts(q, r)
    <3>1. /\ r \in receipts /\ r.kind = q.kind /\ r.key = q.key /\ r.row = q.row /\ r.arg = q.arg
      BY <2>2 DEF ReceiptsFor, SameFacts
    <3>2. Advance(c, [tx[c] EXCEPT !.pc = "answered", !.q = q, !.row = q.row, !.answer = r.answer])
      BY <2>1, <2>2
    <3> QED
      BY <1>3, <3>1, <3>2
  <2>3. CASE ~SameFacts(q, r)
    <3>1. Advance(c, [tx[c] EXCEPT !.pc = "mismatched", !.q = q, !.row = q.row, !.answer = None])
      BY <2>1, <2>3
    <3> QED
      BY <1>2, <3>1
  <2> QED
    BY <2>2, <2>3
<1>6. CASE BeginReplay(c, q)
  BY <1>3, <1>6 DEF BeginReplay
<1> QED
  BY <1>4, <1>5, <1>6 DEF Start

(* Every step executes one command, answers one call or is silent.            *)
LEMMA StepRefines ==
  CommandsInv /\ TierInv /\ StagedInv /\ [Next]_vars => [Atomic!Next]_(Atomic!atomic)
<1> SUFFICES ASSUME CommandsInv, TierInv, StagedInv, [Next]_vars
             PROVE  Atomic!Next \/ UNCHANGED Atomic!atomic
  OBVIOUS
<1>1. CASE UNCHANGED vars
  <2>1. table' = table /\ receipts' = receipts /\ tx' = tx
    BY <1>1 DEF vars
  <2>2. Replies' = Replies
    BY <2>1 DEF Replies
  <2> QED
    BY <2>1, <2>2 DEF Atomic!atomic
<1>2. ASSUME NEW c \in Calls, NEW q \in Requests, Start(c, q)
      PROVE  Atomic!Next \/ UNCHANGED Atomic!atomic
  BY <1>2, StartRefines
<1>3. ASSUME NEW c \in Calls, Commit(c) \/ CommitUnheard(c) PROVE Atomic!Next
  BY <1>3, CommitIsAtomic DEF Commit, CommitUnheard
<1>4. ASSUME NEW c \in Calls,
             \/ SuspendPatron(c) \/ ReinstatePatron(c) \/ UpgradePatronTier(c) \/ ReserveBook(c)
             \/ ReturnLoan(c) \/ CancelLoan(c) \/ ExtendLoan(c)
      PROVE  Atomic!Next \/ UNCHANGED Atomic!atomic
  <2>1. CASE SuspendPatron(c) \/ ReinstatePatron(c) \/ UpgradePatronTier(c) \/ ReserveBook(c)
    BY <2>1, DecideRefines, DecisionOfKind
       DEF SuspendPatron, ReinstatePatron, UpgradePatronTier, ReserveBook, Decide
  <2>2. CASE ReturnLoan(c) \/ CancelLoan(c)
    BY <2>2, DecideRefines, DecisionOfKind DEF ReturnLoan, CancelLoan, Decide
  <2>3. CASE ExtendLoan(c)
    <3>1. PICK overdue \in BOOLEAN :
            Decide(c, "extend", IF overdue THEN {} ELSE Extended(table[tx[c].row], tx[c].q.arg))
      BY <2>3 DEF ExtendLoan
    <3>2. (IF overdue THEN {} ELSE Extended(table[tx[c].row], tx[c].q.arg))
            \subseteq Decisions(tx[c].q, table[tx[c].row])
      BY <3>1, DecisionOfKind DEF Decide
    <3> QED
      BY <3>1, <3>2, DecideRefines
  <2> QED
    BY <1>4, <2>1, <2>2, <2>3
<1>5. ASSUME NEW c \in Calls, tx[c].pc \in Steps \ {"idle"}
      PROVE  /\ tx[c] \in TxType /\ tx \in [Calls -> TxType] /\ ~tx[c].committed
             /\ tx[c].pc # "answered"
  BY <1>5, UnderWay DEF CommandsInv, TypeInv, Steps
<1>6. ASSUME NEW c \in Calls, tx[c].pc \in Steps \ {"idle"}, NEW end, end # "answered",
             Finish(c, end) \/ Goto(c, end)
      PROVE  UNCHANGED Atomic!atomic
  <2>1. /\ tx' = [tx EXCEPT ![c] = tx'[c]] /\ UNCHANGED <<table, receipts>>
        /\ tx'[c].pc # "answered" /\ ~tx'[c].committed
    BY <1>5, <1>6 DEF Finish, Goto, Advance, Close, TxType
  <2> QED
    BY <1>5, <1>6, <2>1, NoReply
<1>7. ASSUME NEW c \in Calls, AcquireFence(c) \/ CountOutstanding(c)
      PROVE  UNCHANGED Atomic!atomic
  <2>1. tx[c].pc \in Steps \ {"idle"}
    BY <1>7 DEF AcquireFence, CountOutstanding, Steps
  <2>2. /\ tx[c] \in TxType /\ tx \in [Calls -> TxType] /\ ~tx[c].committed
        /\ tx[c].pc # "answered"
    BY <1>5, <2>1
  <2>3. CASE AcquireFence(c)
    <3>1. tx' = [tx EXCEPT ![c] = [tx[c] EXCEPT !.pc = "fenced"]] /\ UNCHANGED <<table, receipts>>
      BY <2>3 DEF AcquireFence
    <3>2. tx' = [tx EXCEPT ![c] = tx'[c]] /\ tx'[c].pc # "answered" /\ ~tx'[c].committed
      BY <2>2, <3>1 DEF TxType
    <3> QED
      BY <2>2, <3>1, <3>2, NoReply
  <2>4. CASE CountOutstanding(c)
    <3>1. PICK n : /\ tx' = [tx EXCEPT ![c] = [tx[c] EXCEPT !.pc = "counted", !.count = n]]
                   /\ UNCHANGED <<table, receipts>>
      BY <2>4 DEF CountOutstanding, Advance
    <3>2. tx' = [tx EXCEPT ![c] = tx'[c]] /\ tx'[c].pc # "answered" /\ ~tx'[c].committed
      BY <2>2, <3>1 DEF TxType
    <3> QED
      BY <2>2, <3>1, <3>2, NoReply
  <2> QED
    BY <1>7, <2>3, <2>4
<1>8. ASSUME NEW c \in Calls, RereadReservation(c) \/ FindWinner(c)
      PROVE  Atomic!Next \/ UNCHANGED Atomic!atomic
  <2>1. tx[c].pc \in {"counted", "conflicted"} /\ tx[c].pc \in Steps \ {"idle"}
    BY <1>8 DEF RereadReservation, FindWinner, Steps
  <2>2. tx[c].q.kind = "create"
    BY <2>1, UnderWay DEF Shape
  <2>3. CASE table[tx[c].row].status # "absent" /\ AnswerFrom(c, tx[c].row)
    BY <2>1, <2>2, <2>3, AnswerIsLoan
  <2>4. CASE Goto(c, "rechecked") \/ Goto(c, "unmatched")
    BY <1>6, <2>1, <2>4
  <2> QED
    BY <1>8, <2>3, <2>4 DEF RereadReservation, FindWinner
<1>9. ASSUME NEW c \in Calls, ReadPolicy(c) \/ FindBorrower(c) \/ Update(c)
      PROVE  UNCHANGED Atomic!atomic
  <2>1. tx[c].pc \in Steps \ {"idle"}
    BY <1>9 DEF ReadPolicy, FindBorrower, Update, Steps
  <2> QED
    BY <1>6, <1>9, <2>1 DEF ReadPolicy, FindBorrower, Update
<1>10. ASSUME NEW c \in Calls, CheckBook(c) \/ RegisterPatron(c) \/ AddBook(c)
       PROVE  UNCHANGED Atomic!atomic
  <2>1. tx[c].pc \in Steps \ {"idle"}
    BY <1>10 DEF CheckBook, RegisterPatron, AddBook, Steps
  <2>2. CASE Finish(c, "rejected")
    BY <1>6, <2>1, <2>2
  <2>3. ASSUME NEW n, NEW x, \/ Advance(c, [tx[c] EXCEPT !.pc = "staged", !.next = n])
                             \/ Advance(c, [tx[c] EXCEPT !.pc = "staged", !.row = x, !.next = n])
        PROVE  UNCHANGED Atomic!atomic
    <3>1. /\ tx[c] \in TxType /\ tx \in [Calls -> TxType] /\ ~tx[c].committed
          /\ tx[c].pc # "answered"
      BY <1>5, <2>1
    <3>2. UNCHANGED <<table, receipts>>
      BY <2>3 DEF Advance
    <3>3. CASE Advance(c, [tx[c] EXCEPT !.pc = "staged", !.next = n])
      <4>1. tx' = [tx EXCEPT ![c] = tx'[c]] /\ tx'[c].pc = "staged" /\ ~tx'[c].committed
        BY <3>1, <3>3 DEF Advance, TxType
      <4> QED
        BY <3>1, <3>2, <4>1, NoReply
    <3>4. CASE Advance(c, [tx[c] EXCEPT !.pc = "staged", !.row = x, !.next = n])
      <4>1. tx' = [tx EXCEPT ![c] = tx'[c]] /\ tx'[c].pc = "staged" /\ ~tx'[c].committed
        BY <3>1, <3>4 DEF Advance, TxType
      <4> QED
        BY <3>1, <3>2, <4>1, NoReply
    <3> QED
      BY <2>3, <3>3, <3>4
  <2> QED
    BY <1>10, <2>2, <2>3 DEF CheckBook, RegisterPatron, AddBook
<1>11. ASSUME NEW c \in Calls,
              ReceiptConflict(c) \/ EmailConflict(c) \/ LoanConflict(c) \/ FindHolder(c) \/ Abort(c)
       PROVE  UNCHANGED Atomic!atomic
  <2>1. tx[c].pc \in Steps \ {"idle"}
    BY <1>11 DEF ReceiptConflict, EmailConflict, LoanConflict, FindHolder, Abort, Steps
  <2> QED
    BY <1>6, <1>11, <2>1 DEF ReceiptConflict, EmailConflict, LoanConflict, FindHolder, Abort
<1>12. ASSUME NEW c \in Calls, Step(c) PROVE Atomic!Next \/ UNCHANGED Atomic!atomic
  BY <1>3, <1>4, <1>7, <1>8, <1>9, <1>10, <1>11, <1>12 DEF Step
<1> QED
  BY <1>1, <1>2, <1>12 DEF Next

(* Nothing is staged and nobody is answered before the first call.            *)
LEMMA InitRefines == Init => StagedInv /\ Atomic!Init
<1> SUFFICES ASSUME Init PROVE StagedInv /\ Atomic!Init
  OBVIOUS
<1>1. \A c \in Calls : tx[c].pc = "idle" /\ ~tx[c].committed
  BY DEF Init, IdleTx
<1>2. StagedInv
  BY <1>1 DEF StagedInv, StagedOk, StagedAs
<1>3. Replies = {}
  BY <1>1 DEF Replies
<1>4. \E present \in Seeds :
        table = [x \in Rows |-> IF x \in present THEN Fresh(x) ELSE Absent]
  BY DEF Init
<1>5. \E present \in Seeds :
        table = [x \in Atomic!Rows |-> IF x \in present THEN Atomic!Fresh(x) ELSE Atomic!Absent]
  BY <1>4 DEF Rows, Fresh, Absent, Atomic!Rows, Atomic!Fresh, Atomic!Absent
<1>6. receipts = {}
  BY DEF Init
<1> QED
  BY <1>2, <1>3, <1>5, <1>6 DEF Atomic!Init

(* The transactions may be taken as atomic steps: whatever reads, locks and   *)
(* aborts come between, a commit does what its whole command would have done  *)
(* alone at that moment.                                                      *)
THEOREM CommandsAreAtomic == Spec => ImplementsAtomicCommands
<1>1. Spec => [](CommandsInv /\ TierInv /\ StagedInv)
  BY InitInv, NextInv, TierInit, TierStep, InitRefines, StagedStep, PTL DEF Spec
<1> QED
  BY <1>1, InitRefines, StepRefines, PTL DEF Spec, Atomic!Spec, ImplementsAtomicCommands
=============================================================================
