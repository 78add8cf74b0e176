--------------------------- MODULE MCSearchReads ---------------------------
(* An instance of the search reads for TLC. *)
EXTENDS SearchReads, TLC

(* PostgreSQL sorts 3, 1, 2, where 1 and 2 have the same title; Elasticsearch  *)
(* sorts 2, 3, 1.  Python's lower case of the title of 3 is behind them all.  *)
MCDbKey == [r \in Rows |-> IF r = 3 THEN 1 ELSE 2]
MCPyKey == [r \in Rows |-> IF r = 3 THEN 3 ELSE 2]
MCEsKey == [r \in Rows |-> IF r = 1 THEN 3 ELSE 2]

(* What every instance has; the rest is given for each. *)
Setup(list, seeds, rows, changes) ==
    [list |-> list, seeds |-> seeds, rows |-> rows, changes |-> changes,
     indices |-> 1, owners |-> 1, scans |-> 1, tags |-> {"in"}, filters |-> {"all"},
     faults |-> TRUE]

MCSetups == {
    \* one row through its life while two instances share the partition
    [Setup("books", 1, 1, 2) EXCEPT !.indices = 2, !.owners = 2, !.scans = 0],
    \* several batches, and a second job after the first
    [Setup("books", 1, 2, 2) EXCEPT !.indices = 2, !.scans = 0],
    [Setup("books", 1, 1, 1) EXCEPT !.indices = 3, !.scans = 0],
    \* a scan across an alias swap; filters; equal sort values; new rows
    [Setup("books", 2, 2, 1) EXCEPT !.indices = 2, !.faults = FALSE],
    [Setup("loans", 2, 2, 1) EXCEPT !.tags = {"in", "out"}, !.filters = Filters, !.faults = FALSE],
    [Setup("patrons", 3, 3, 1) EXCEPT !.filters = Filters],
    Setup("loans", 1, 2, 1),
    Setup("books", 3, 3, 0)}

Symmetry == Permutations(Workers)
=============================================================================
