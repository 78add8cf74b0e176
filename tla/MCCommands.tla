----------------------------- MODULE MCCommands -----------------------------
(* An instance of the command transactions for TLC. *)
EXTENDS Commands, TLC

CONSTANTS p1, p2, r1, r2, r3, b1, b2, b3, k1, k2

(* r1 and r3 compete for p1's limit, r1 and r2 for the book b1. *)
MCPatronOf == [l \in Loans |-> IF l = r2 THEN p2 ELSE p1]
MCBookOf == [l \in Loans |-> IF l = r3 THEN b2 ELSE b1]
MCMaxOutstanding == [t \in Tiers |-> t + 1]

Ask(kind, row, arg, key) == [kind |-> kind, row |-> row, arg |-> arg, key |-> key]

(* One key is sent with two bodies, one request under two keys and without. *)
MCRequests ==
    {Ask("create", l, 0, None) : l \in Loans}
    \cup {Ask("cancel", r1, 0, None)}
    \cup {Ask("return", r1, 0, k1), Ask("return", r1, 0, k2)}
    \cup {Ask("extend", r1, d, k1) : d \in {1, 2}} \cup {Ask("extend", r1, 1, None)}
    \cup {Ask("suspend", p1, 0, k1), Ask("reinstate", p1, 0, k1)}
    \cup {Ask("upgrade", p1, 1, k1)}
    \cup {Ask("register", p2, 0, k) : k \in {k1, k2}}
    \cup {Ask("borrow", b1, p, k1) : p \in {p1, p2}}
    \cup {Ask("add", None, 0, k1), Ask("add", None, 1, k1)}

(* Before the calls p1 is registered and b1 on the shelf; p2 and r1's loan may exist. *)
MCSeeds == {{p1, b1}, {p1, p2, b1}, {p1, p2, b1, r1}}

Symmetry == Permutations(Calls)
=============================================================================
