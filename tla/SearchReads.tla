---------------------------- MODULE SearchReads ----------------------------
(* List queries over the search projection: each page asks the consumer-lag   *)
(* gate whether Elasticsearch may answer, and falls back to PostgreSQL; a     *)
(* client follows the cursor of one page to the next while rows change, the   *)
(* projection lags and a reindex swaps the index.                             *)
EXTENDS Projection

CONSTANTS
    Clients,   \* callers that page through a list
    PageSize,  \* the limit of a page
    DbKey,     \* the first sort value of a row, as PostgreSQL orders it
    EsKey,     \* ... and as the index orders it (another collation)
    PyKey,     \* title.lower() of Python, which a book's cursor carries
    Setups     \* the instances that are explored, see setup

Filters == {"all", "some"}
Backends == {"elasticsearch", "postgresql"}

ASSUME SearchAssumption ==
    /\ IsFiniteSet(Rows) /\ None \notin Backends
    /\ PageSize \in Nat \ {0}
    /\ {DbKey, EsKey, PyKey} \subseteq [Rows -> Nat]

VARIABLES
    setup,    \* the list that is read, and bounds on the rest
    verdict,  \* the cached answer of the gate
    aged,     \* how many records have been in Kafka for cache_seconds
    reader    \* the clients

svars == <<setup, verdict, aged, reader>>
vars == <<pvars, svars>>

(* cursor is the last row of the previous page, under the scope of its filter *)
(* and pinned to the backend that answered; from counts the changes that all  *)
(* pages so far were sure to show.  stamp is the state of the client's own lag*)
(* check: the records in Kafka when it started, and whether that is still     *)
(* less than cache_seconds ago.                                               *)
NoStamp == [base |-> 0, valid |-> FALSE]
IdleReader == [pc |-> "idle", filter |-> "all", cursor |-> None, scope |-> None,
               backend |-> None, seen |-> <<>>, from |-> 0, stamp |-> NoStamp,
               offset |-> 0, fresh |-> FALSE, sure |-> 0]

SearchInit ==
    /\ Init
    /\ setup \in Setups /\ setup.seeds = Len(wal)
    /\ \A n \in DOMAIN wal : wal[n].after.tag \in setup.tags
    /\ verdict = [fresh |-> FALSE, stamp |-> NoStamp]
    /\ aged = shipped
    /\ reader = [c \in Clients |-> IdleReader]

SetReader(c, s) == reader' = [reader EXCEPT ![c] = s]

-----------------------------------------------------------------------------
(* Time.  A record that was in Kafka when a check started is not cache_seconds*)
(* old before that check's verdict expires.                                   *)

Stamps == {verdict.stamp} \cup {reader[c].stamp : c \in Clients}

GrowOld ==
    /\ aged < shipped /\ setup.scans > 0
    /\ \A s \in Stamps : s.valid => aged < s.base
    /\ aged' = aged + 1
    /\ UNCHANGED <<pvars, setup, verdict, reader>>

ExpireVerdict ==
    /\ verdict.stamp.valid
    /\ verdict' = [verdict EXCEPT !.stamp = NoStamp]
    /\ UNCHANGED <<pvars, setup, aged, reader>>

ExpireCheck(c) ==
    /\ reader[c].stamp.valid
    /\ SetReader(c, [reader[c] EXCEPT !.stamp.valid = FALSE])
    /\ UNCHANGED <<pvars, setup, verdict, aged>>

-----------------------------------------------------------------------------
(* The gate.                                                                  *)

Asking(c) == reader[c].pc = "asking"

Judged(c, fresh) == [reader[c] EXCEPT !.pc = "routing", !.fresh = fresh,
                     !.sure = aged, !.stamp = NoStamp, !.offset = 0]

UseVerdict(c) ==
    /\ Asking(c) /\ verdict.stamp.valid
    /\ SetReader(c, Judged(c, verdict.fresh))
    /\ UNCHANGED <<pvars, setup, verdict, aged>>

BeginCheck(c) ==
    /\ Asking(c) /\ ~verdict.stamp.valid
    /\ SetReader(c, [reader[c] EXCEPT !.pc = "checking",
                     !.stamp = [base |-> shipped, valid |-> TRUE]])
    /\ UNCHANGED <<pvars, setup, verdict, aged>>

ReadCommitted(c) ==
    /\ reader[c].pc = "checking"
    /\ SetReader(c, [reader[c] EXCEPT !.pc = "comparing", !.offset = committed])
    /\ UNCHANGED <<pvars, setup, verdict, aged>>

Conclude(c, fresh, stamp) ==
    /\ verdict' = [fresh |-> fresh, stamp |-> IF stamp.valid THEN stamp ELSE NoStamp]
    /\ SetReader(c, Judged(c, fresh))
    /\ UNCHANGED <<pvars, setup, aged>>

(* Mutant: the verdict's second starts when the end offsets are in.           *)
StampVerdictLate(c) ==
    /\ reader[c].pc = "comparing"
    /\ \E end \in {shipped, reader[c].stamp.base} :
           Conclude(c, reader[c].offset >= end, [base |-> shipped, valid |-> TRUE])

(* End offsets are read after the committed ones: lag can be overestimated,   *)
(* never missed.                                                              *)
ReadEndOffsets(c) ==
    /\ reader[c].pc = "comparing"
    /\ Conclude(c, reader[c].offset >= shipped, reader[c].stamp)

CheckFails(c) ==
    /\ reader[c].pc \in {"checking", "comparing"}
    /\ Conclude(c, FALSE, reader[c].stamp)

-----------------------------------------------------------------------------
(* A page.                                                                    *)

Matches(f, x) == x.live /\ (f = "some" => x.tag = "in")

(* Keyset order: the first sort value, then the id.  The value of q can come  *)
(* from elsewhere than that of r.                                             *)
After(key, from, r, q) == key[r] > from[q] \/ (key[r] = from[q] /\ r > q)

(* A patron's loans are sorted newest first, with ids ascending.              *)
AfterNewest(key, from, r, q) == key[r] < from[q] \/ (key[r] = from[q] /\ r > q)

Behind(key, from, r, q) ==
    IF setup.list = "loans" THEN AfterNewest(key, from, r, q) ELSE After(key, from, r, q)

Follows(key, r, q) == Behind(key, key, r, q)

(* The matching rows behind the cursor, the first PageSize of them.           *)
Candidates(view, key, from, f, cursor) ==
    {r \in Rows : Matches(f, view[r]) /\ (cursor # None => Behind(key, from, r, cursor))}

Page(view, key, from, f, cursor) ==
    LET found == Candidates(view, key, from, f, cursor)
    IN  {r \in found : Cardinality({q \in found : Follows(key, r, q)}) < PageSize}

InOrder(key, page) ==
    CHOOSE s \in [1..Cardinality(page) -> page] :
        \A i, j \in DOMAIN s : i < j => Follows(key, s[j], s[i])

Lesser(m, n) == IF m < n THEN m ELSE n

(* A full page carries a cursor, pinned to its backend; a short one is the end.*)
Answered(c, backend, view, key, from, upto) ==
    LET r == reader[c]
        items == InOrder(key, Page(view, key, from, r.filter, r.cursor))
        full == Len(items) = PageSize
    IN  SetReader(c, [r EXCEPT
            !.pc = IF full THEN "paged" ELSE "done",
            !.seen = @ \o items,
            !.from = IF r.cursor = None THEN upto ELSE Lesser(@, upto),
            !.cursor = IF full THEN items[Len(items)] ELSE @,
            !.scope = r.filter, !.backend = IF full THEN backend ELSE @,
            !.fresh = FALSE, !.sure = 0])

(* The cursor of a page of loans or patrons holds the column itself.          *)
CursorKey == IF setup.list = "books" THEN PyKey ELSE DbKey

FromDatabase(c) == Answered(c, "postgresql", pg, DbKey, CursorKey, Len(wal))
FromIndex(c) ==
    Answered(c, "elasticsearch", shown[alias].docs, EsKey, EsKey, shown[alias].upto)

Raise(c) == SetReader(c, [reader[c] EXCEPT !.pc = "failed", !.fresh = FALSE, !.sure = 0])

(* Mutant: a pinned cursor falls back too.                                    *)
FallBackAlways(c) == FromDatabase(c)

(* Elasticsearch cannot answer: a cursor pinned to it fails, any other page   *)
(* comes from PostgreSQL.                                                     *)
FallBack(c) ==
    IF reader[c].backend = "elasticsearch" THEN Raise(c) ELSE FromDatabase(c)

(* The search itself, the breaker around it or a document it returns fails.   *)
FindPage(c) ==
    /\ reader[c].pc = "routing"
    /\ IF reader[c].fresh /\ reader[c].backend # "postgresql"
       THEN FromIndex(c) \/ FallBack(c)
       ELSE FallBack(c)
    /\ UNCHANGED <<pvars, setup, verdict, aged>>

FindBooksPage(c) == setup.list = "books" /\ FindPage(c)
FindPatronLoansPage(c) == setup.list = "loans" /\ FindPage(c)
FindPatronsPage(c) == setup.list = "patrons" /\ FindPage(c)

-----------------------------------------------------------------------------
(* The caller.                                                                *)

Started == {c \in Clients : reader[c].pc # "idle"}

StartScan(c, f) ==
    /\ reader[c].pc = "idle" /\ Cardinality(Started) < setup.scans
    /\ SetReader(c, [reader[c] EXCEPT !.pc = "asking", !.filter = f])
    /\ UNCHANGED <<pvars, setup, verdict, aged>>

InScope(c, f) == reader[c].scope = f

(* The next page, possibly under another filter, which the cursor refuses.    *)
FollowCursor(c, f) ==
    /\ reader[c].pc = "paged"
    /\ IF InScope(c, f)
       THEN SetReader(c, [reader[c] EXCEPT !.pc = "asking", !.filter = f])
       ELSE Raise(c)
    /\ UNCHANGED <<pvars, setup, verdict, aged>>

ListBooks(c, f) == setup.list = "books" /\ (StartScan(c, f) \/ FollowCursor(c, f))
ListPatronLoans(c, f) == setup.list = "loans" /\ (StartScan(c, f) \/ FollowCursor(c, f))
ListPatrons(c, f) == setup.list = "patrons" /\ (StartScan(c, f) \/ FollowCursor(c, f))

-----------------------------------------------------------------------------
(* The bounds of the chosen instance. *)
JobUndisturbed ==
    /\ job'.pc # "cleanup"
    /\ job'.pc = "idle" => JobAt("idle") \/ JobAt("cleared")

RecordUndisturbed ==
    \A w \in Workers : Busy(w) /\ worker'[w].pc = "idle" =>
        worker[w].pc = "writing" /\ worker[w].todo = {}

(* Only a search tells when the index behind the alias was refreshed.         *)
RefreshIsSeen ==
    \A i \in Indices : shown'[i] # shown[i] => job' # job \/ (i = alias /\ setup.scans > 0)

Within ==
    /\ Len(wal') <= setup.seeds + setup.changes /\ job'.new <= setup.indices
    /\ Cardinality(owners') <= setup.owners
    /\ setup.faults \/ (JobUndisturbed /\ RecordUndisturbed)
    /\ RefreshIsSeen
    /\ \A r \in Rows : pg'[r] # NoRow => r <= setup.rows /\ pg'[r].tag \in setup.tags

ClientStep(c) ==
    \/ UseVerdict(c) \/ BeginCheck(c) \/ ReadCommitted(c) \/ ReadEndOffsets(c)
    \/ CheckFails(c) \/ ExpireCheck(c)
    \/ FindBooksPage(c) \/ FindPatronLoansPage(c) \/ FindPatronsPage(c)
    \/ \E f \in setup.filters : ListBooks(c, f) \/ ListPatronLoans(c, f) \/ ListPatrons(c, f)

Next ==
    \/ ProjectionNext /\ Within /\ UNCHANGED svars
    \/ GrowOld \/ ExpireVerdict
    \/ \E c \in Clients : ClientStep(c)

Spec == SearchInit /\ [][Next]_vars

-----------------------------------------------------------------------------
(* Properties.                                                                *)

StampType == [base : Nat, valid : BOOLEAN]

(* Every variable keeps its shape. *)
TypeOK ==
    /\ ProjectionTypeOK
    /\ aged \in 0..shipped
    /\ verdict \in [fresh : BOOLEAN, stamp : StampType]
    /\ \A c \in Clients :
           /\ reader[c].seen \in Seq(Rows) /\ reader[c].from \in 0..Len(wal)
           /\ reader[c].cursor \in Rows \cup {None}
           /\ reader[c].backend \in Backends \cup {None}
           /\ reader[c].stamp \in StampType /\ reader[c].offset \in 0..committed

(* When the gate sends a page to Elasticsearch, every change that had been in *)
(* Kafka for cache_seconds has been written to whichever index the alias then *)
(* names: a cached verdict is never older.  The search shows those of them    *)
(* that were committed by the last refresh of that index; the gate does not   *)
(* know of refreshes, and a page can be older than both intervals if the      *)
(* consumer has only just caught up.                                          *)
FreshReadsAreCurrent ==
    \A c \in Clients : reader[c].pc = "routing" /\ reader[c].fresh =>
        \A n \in 1..reader[c].sure :
            LET r == wal[n].row
                v == ExternalVersion(wal[n].after)
            IN  pg[r].live => /\ docs[alias][r].ver >= v
                              /\ n <= shown[alias].upto => shown[alias].docs[r].ver >= v

(* Rows that match and have not changed since the pages could show them.      *)
Steady(c) ==
    {r \in Rows : /\ Matches(reader[c].filter, pg[r])
                  /\ \A n \in reader[c].from + 1..Len(wal) : wal[n].row # r}

(* PostgreSQL lowers the titles of the books it returned as Python does.      *)
CursorsExact(c) ==
    setup.list = "books" /\ reader[c].backend = "postgresql" =>
        \A i \in DOMAIN reader[c].seen : PyKey[reader[c].seen[i]] = DbKey[reader[c].seen[i]]

(* Following cursors to the end returns every steady row, and no row twice,   *)
(* whatever is written meanwhile and whether or not the backends agree on the *)
(* order: fallback, lag, alias swaps, refreshes and changed filters included. *)
(* A title on whose lower case Python and PostgreSQL differ is outside it: it *)
(* makes the next page start in the wrong place.                              *)
ScanReturnsEachRowOnce ==
    \A c \in Clients : CursorsExact(c) =>
        /\ \A i, j \in DOMAIN reader[c].seen :
               i # j => reader[c].seen[i] # reader[c].seen[j]
        /\ reader[c].pc = "done" => \A r \in Steady(c) :
               \E i \in DOMAIN reader[c].seen : reader[c].seen[i] = r
=============================================================================
