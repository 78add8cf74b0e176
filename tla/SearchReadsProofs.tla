------------------------- MODULE SearchReadsProofs --------------------------
(* Proofs about the search projection, its reindex job and the list queries,  *)
(* for any rows, consumer instances, clients, batch and page sizes.           *)
EXTENDS SearchReads, FiniteSetTheorems, SequenceTheorems, WellFoundedInduction, TLAPS

-----------------------------------------------------------------------------
(* The inductive invariant of the projection.                                 *)

WorkerType == [pc : WorkerSteps, off : Nat, cached : Indices \cup {None},
               valid : BOOLEAN, todo : SUBSET (Indices \cup {Live})]
JobType(b) == [pc : JobSteps, new : Indices, old : Indices, last : Nat, batch : {b}]
RecordType == [row : Rows, after : RowType]

Shape ==
    /\ pg \in [Rows -> RowType \cup {NoRow}]
    /\ wal \in Seq(RecordType)
    /\ shipped \in 0..Len(wal) /\ committed \in 0..shipped
    /\ docs \in [Indices -> [Rows -> DocType]]
    /\ exists \subseteq Indices /\ alias \in Indices
    /\ target \in Indices \cup {None}
    /\ worker \in [Workers -> WorkerType]
    /\ early \subseteq Workers
    /\ job \in JobType(job.batch)
    /\ owners \subseteq Workers

(* A row's versions grow along the WAL, nothing follows its deletion, and the *)
(* table shows its last record.                                               *)
WalInOrder ==
    \A m, n \in 1..Len(wal) : m < n /\ wal[m].row = wal[n].row =>
        /\ wal[m].after.live
        /\ ExternalVersion(wal[m].after) < ExternalVersion(wal[n].after)
TableIsLast ==
    /\ \A n \in 1..Len(wal) :
           /\ pg[wal[n].row] # NoRow
           /\ ExternalVersion(wal[n].after) <= ExternalVersion(pg[wal[n].row])
           /\ ~wal[n].after.live => pg[wal[n].row] = wal[n].after
    /\ \A r \in Rows : pg[r] # NoRow =>
           \E n \in 1..Len(wal) : wal[n].row = r /\ wal[n].after = pg[r]

(* Documents and batches are made of WAL records.  The tombstone of a delete  *)
(* without a version can have any.                                            *)
Made(d, rec) == d = Transform(rec.after) \/ (Unversioned(rec) /\ ~d.live)
DocsFromWal ==
    \A i \in Indices, r \in Rows : docs[i][r] # NoDoc =>
        \E n \in 1..Len(wal) : wal[n].row = r /\ Made(docs[i][r], wal[n])
BatchFromWal ==
    JobAt("bulk") =>
        /\ job.batch \in [DOMAIN job.batch -> RowType] /\ DOMAIN job.batch \subseteq Rows
        /\ \A r \in DOMAIN job.batch :
               \E n \in 1..Len(wal) : wal[n].row = r /\ wal[n].after = job.batch[r]

Registered == job.pc \in {"grace", "scan", "bulk", "copied", "refreshed"}
Scanning == job.pc \in {"scan", "bulk", "copied", "refreshed"}
Building == Registered \/ JobAt("created")

(* Which index serves while the job goes on.                                  *)
Serving ==
    /\ alias <= job.new /\ alias \in exists
    /\ Building => alias = job.old /\ job.old < job.new /\ job.new \in exists
    /\ job.pc \in {"swapped", "cleared"} => alias = job.new /\ job.old < job.new
    /\ JobAt("unserved") => alias # job.new
    /\ Registered => target = job.new
    /\ job.pc \in {"idle", "created", "grace"} => job.last = 0

(* Who still has targets from before the registration.                        *)
Knows(w) ==
    worker[w].valid /\ worker[w].pc # "looking" => worker[w].cached = job.new
Discovery ==
    /\ Registered => \A w \in Workers \ early : Knows(w)
    /\ Scanning => early = {}

OffsetsInOrder ==
    \A w \in Workers :
        /\ Busy(w) => worker[w].off \in 1..shipped /\ worker[w].off <= committed + 1
        /\ ~Busy(w) => worker[w].off = 0

Covers(i, n) == docs[i][wal[n].row].ver >= ExternalVersion(wal[n].after)
Alive(n) == pg[wal[n].row].live

(* Records that no instance has still to write, to the alias or to the new    *)
(* index.                                                                     *)
WrittenBut(n, w, I) ==
    worker[w].pc = "writing" /\ worker[w].off = n /\ worker[w].todo \cap I = {}
Served(n) == n <= committed \/ \E w \in Workers : WrittenBut(n, w, {Live, alias})
Copied(n) == n <= committed \/ \E w \in Workers : WrittenBut(n, w, {job.new})

(* The scan has still to reach the record's row, with this change or a later. *)
Ahead(n) ==
    \/ JobAt("scan") /\ wal[n].row > job.last
    \/ JobAt("bulk") /\ \A q \in DOMAIN job.batch : wal[n].row > q
    \/ /\ JobAt("bulk") /\ wal[n].row \in DOMAIN job.batch
       /\ ExternalVersion(job.batch[wal[n].row]) >= ExternalVersion(wal[n].after)

ServedIsCovered ==
    \A n \in 1..Len(wal) : Served(n) /\ Alive(n) => Covers(alias, n)
CopiedIsReached ==
    Scanning => \A n \in 1..Len(wal) : Copied(n) /\ Alive(n) => Covers(job.new, n) \/ Ahead(n)

ProjectionInv ==
    /\ Shape /\ WalInOrder /\ TableIsLast /\ DocsFromWal /\ BatchFromWal
    /\ Serving /\ Discovery /\ OffsetsInOrder
    /\ ServedIsCovered /\ CopiedIsReached

-----------------------------------------------------------------------------
(* Rows that a delete with a version removed, while one instance owns the     *)
(* partition.                                                                 *)

SoleOwner == \A v, w \in owners : v = w
Gone(n) == ~wal[n].after.live /\ wal[n].row \in FullImage

(* Nothing has been written to an index before it is registered.              *)
Untouched(i) ==
    /\ docs[i] = EmptyIndex /\ target # i
    /\ \A w \in Workers : worker[w].cached # i /\ i \notin worker[w].todo
NewIsUntouched ==
    \A i \in Indices : i > job.new \/ (i = job.new /\ JobAt("created")) => Untouched(i)

OwnersInOrder ==
    /\ \A w \in Workers : Busy(w) \/ worker[w].valid => w \in owners
    /\ SoleOwner => \A w \in Workers : Busy(w) => worker[w].off = committed + 1

ServedIsGone ==
    SoleOwner => \A n \in 1..Len(wal) :
        Served(n) /\ Gone(n) => ~docs[alias][wal[n].row].live
CopiedIsGone ==
    SoleOwner /\ Building => \A n \in 1..Len(wal) : Copied(n) /\ Gone(n) =>
        /\ ~docs[job.new][wal[n].row].live
        /\ JobAt("bulk") /\ wal[n].row \in DOMAIN job.batch => Covers(job.new, n)
UnawareIsUntouched ==
    SoleOwner /\ Registered => \A w \in Workers : ~Knows(w) =>
        docs[job.new] = EmptyIndex /\ job.new \notin worker[w].todo

TombstoneInv ==
    /\ NewIsUntouched /\ OwnersInOrder
    /\ ServedIsGone /\ CopiedIsGone /\ UnawareIsUntouched

-----------------------------------------------------------------------------
(* Versions and shapes.                                                       *)

(* External versions are positive and a document carries that of its row.     *)
LEMMA Versions ==
  /\ \A s \in RowType : /\ ExternalVersion(s) \in Nat /\ ExternalVersion(s) > 0
                        /\ Transform(s) \in DocType /\ Transform(s).ver = ExternalVersion(s)
                        /\ Transform(s).live = s.live /\ Transform(s).tag = s.tag
                        /\ s # NoRow
  /\ NoDoc \in DocType /\ NoDoc.ver = 0 /\ NoDoc.live = FALSE /\ NoRow.live = FALSE
<1>1. \A s \in RowType : /\ ExternalVersion(s) \in Nat /\ ExternalVersion(s) > 0
  BY DEF RowType, ExternalVersion
<1>2. \A s \in RowType : /\ Transform(s) \in DocType /\ Transform(s).ver = ExternalVersion(s)
                         /\ Transform(s).live = s.live /\ Transform(s).tag = s.tag
  BY <1>1 DEF RowType, Transform, DocType
<1>3. \A s \in RowType : s # NoRow
  BY ProjectionAssumption DEF RowType, NoRow
<1> QED
  BY <1>1, <1>2, <1>3 DEF NoDoc, DocType, NoRow

(* A write keeps the newer document.                                          *)
LEMMA UpsertKeepsNewer ==
  ASSUME NEW d \in DocType, NEW e \in DocType
  PROVE  /\ Upsert(d, e) \in DocType /\ Upsert(d, e) \in {d, e}
         /\ Upsert(d, e).ver >= d.ver /\ Upsert(d, e).ver >= e.ver
  BY DEF Upsert, DocType

(* So does the write of a record, unless it is a delete without a version.    *)
LEMMA WrittenGrows ==
  ASSUME NEW d \in DocType, NEW rec \in RecordType
  PROVE  /\ Written(d, rec) \in DocType /\ Written(d, rec).ver >= d.ver
         /\ Written(d, rec) = d \/ Made(Written(d, rec), rec)
         /\ ~Unversioned(rec) => Written(d, rec) = Upsert(d, Transform(rec.after))
<1> DEFINE e == Transform(rec.after)
<1>1. e \in DocType /\ e.live = rec.after.live
  BY Versions DEF RecordType
<1>2. CASE Unversioned(rec)
  <2> HIDE DEF e
  <2>1. e \in DocType /\ ~e.live
    BY <1>1, <1>2 DEF Unversioned
  <2>2. Written(d, rec) = Tombstone(d, e)
    BY <1>2 DEF Written, e
  <2>3. Tombstone(d, e) \in DocType /\ Tombstone(d, e).ver >= d.ver /\ ~Tombstone(d, e).live
    BY <2>1 DEF Tombstone, DocType
  <2> QED
    BY <1>2, <2>2, <2>3 DEF Made
<1>3. CASE ~Unversioned(rec)
  <2>1. Written(d, rec) = Upsert(d, e)
    BY <1>3 DEF Written
  <2> QED
    BY <1>1, <1>3, <2>1, UpsertKeepsNewer DEF Made
<1> QED
  BY <1>2, <1>3

(* What the shapes give.                                                      *)
LEMMA ShapeFacts ==
  ASSUME Shape
  PROVE  /\ Len(wal) \in Nat /\ shipped \in Nat /\ committed \in Nat
         /\ committed <= shipped /\ shipped <= Len(wal)
         /\ \A n \in 1..Len(wal) : /\ wal[n] \in RecordType /\ wal[n].row \in Rows
                                   /\ wal[n].after \in RowType
                                   /\ ExternalVersion(wal[n].after) \in Nat
         /\ \A i \in Indices, r \in Rows : docs[i][r] \in DocType /\ docs[i][r].ver \in Nat
         /\ \A r \in Rows : pg[r] \in RowType \cup {NoRow} /\ pg[r].live \in BOOLEAN
         /\ \A w \in Workers : worker[w] \in WorkerType
         /\ job.pc \in JobSteps /\ job.new \in Indices /\ job.old \in Indices /\ job.last \in Nat
         /\ Indices \subseteq Nat /\ Live \notin Indices /\ None \notin Indices /\ Live # None
<1>1. wal \in Seq(RecordType)
  BY DEF Shape
<1>2. Len(wal) \in Nat /\ \A n \in 1..Len(wal) : wal[n] \in RecordType
  BY <1>1, LenProperties, ElementOfSeq
<1>3. \A n \in 1..Len(wal) : wal[n].row \in Rows /\ wal[n].after \in RowType
  BY <1>2 DEF RecordType
<1>4. \A i \in Indices, r \in Rows : docs[i][r] \in DocType /\ docs[i][r].ver \in Nat
  BY DEF Shape, DocType
<1>5. \A r \in Rows : pg[r] \in RowType \cup {NoRow} /\ pg[r].live \in BOOLEAN
  <2>1. \A s \in RowType : s.live \in BOOLEAN
    BY DEF RowType
  <2> QED
    BY <2>1, Versions DEF Shape
<1>6. job.pc \in JobSteps /\ job.new \in Indices /\ job.old \in Indices /\ job.last \in Nat
  BY DEF Shape, JobType
<1>7. Indices \subseteq Nat /\ Live \notin Indices /\ None \notin Indices /\ Live # None
  BY ProjectionAssumption DEF Indices, Live
<1> QED
  BY <1>2, <1>3, <1>4, <1>5, <1>6, <1>7, Versions DEF Shape

(* What no one writes stays made of the WAL.                                  *)
LEMMA DocsKept ==
  ASSUME DocsFromWal, UNCHANGED <<wal, docs>>
  PROVE  DocsFromWal'
  BY DEF DocsFromWal, Made, Unversioned, Transform, ExternalVersion

(* A document as new as the row, and made of the WAL, is the row's.           *)
LEMMA NewestDocument ==
  ASSUME ProjectionInv, NEW n \in 1..Len(wal), ~Unversioned(wal[n]),
         NEW d, d # NoDoc => \E m \in 1..Len(wal) : wal[m].row = wal[n].row /\ Made(d, wal[m]),
         d.ver >= ExternalVersion(wal[n].after),
         \A m \in 1..Len(wal) : wal[m].row = wal[n].row => m <= n
  PROVE  d = Transform(wal[n].after)
<1> DEFINE r == wal[n].row
<1>1. Shape /\ WalInOrder
  BY DEF ProjectionInv
<1>2. r \in Rows /\ ExternalVersion(wal[n].after) > 0 /\ ExternalVersion(wal[n].after) \in Nat
  BY <1>1, ShapeFacts, Versions
<1>3. d # NoDoc
  BY <1>2, Versions
<1>4. PICK m \in 1..Len(wal) : wal[m].row = r /\ Made(d, wal[m])
  BY <1>3
<1>5. m = n \/ m < n
  BY <1>1, <1>4, ShapeFacts
<1>6. CASE m = n
  BY <1>4, <1>6 DEF Made
<1>7. CASE m < n
  <2>1. /\ wal[m].after.live
        /\ ExternalVersion(wal[m].after) < ExternalVersion(wal[n].after)
    BY <1>1, <1>4, <1>7 DEF WalInOrder
  <2>2. d = Transform(wal[m].after)
    BY <1>4, <2>1 DEF Made, Unversioned
  <2>3. d.ver = ExternalVersion(wal[m].after) /\ ExternalVersion(wal[m].after) \in Nat
    BY <1>1, <2>2, ShapeFacts, Versions
  <2> QED
    BY <1>2, <2>1, <2>3
<1> QED
  BY <1>5, <1>6, <1>7

-----------------------------------------------------------------------------
(* The table.                                                                 *)

(* The WAL records that were there stay, and the new one is no one's yet.     *)
LEMMA ChangeFacts ==
  ASSUME ProjectionInv, NEW r \in Rows, NEW s \in RowType, Change(r, s)
  PROVE  /\ wal' \in Seq(RecordType) /\ Len(wal') = Len(wal) + 1
         /\ wal'[Len(wal) + 1].row = r /\ wal'[Len(wal) + 1].after = s
         /\ \A n \in 1..Len(wal) : wal'[n] = wal[n]
         /\ \A n \in 1..Len(wal') : n \in 1..Len(wal) \/ n = Len(wal) + 1
         /\ pg' \in [Rows -> RowType \cup {NoRow}] /\ pg'[r] = s
         /\ \A q \in Rows \ {r} : pg'[q] = pg[q]
         /\ \A n \in Nat : n > Len(wal) => ~Served(n)' /\ ~Copied(n)'
         /\ \A n \in 1..Len(wal) : (Served(n)' <=> Served(n)) /\ (Copied(n)' <=> Copied(n))
<1>1. Shape /\ OffsetsInOrder
  BY DEF ProjectionInv
<1>2. /\ pg' = [pg EXCEPT ![r] = s] /\ wal' = Append(wal, [row |-> r, after |-> s])
      /\ UNCHANGED <<shipped, committed, alias, worker, job>>
  BY DEF Change
<1>3. [row |-> r, after |-> s] \in RecordType
  BY DEF RecordType
<1>4. /\ wal' \in Seq(RecordType) /\ Len(wal') = Len(wal) + 1 /\ Len(wal) \in Nat
      /\ wal'[Len(wal) + 1] = [row |-> r, after |-> s]
      /\ \A n \in 1..Len(wal) : wal'[n] = wal[n]
  BY <1>1, <1>2, <1>3, AppendProperties, LenProperties DEF Shape
<1>5. /\ pg' \in [Rows -> RowType \cup {NoRow}] /\ pg'[r] = s
      /\ \A q \in Rows \ {r} : pg'[q] = pg[q]
  BY <1>1, <1>2 DEF Shape
<1>6. \A w \in Workers : worker[w].pc = "writing" => worker[w].off \in Nat /\ worker[w].off <= Len(wal)
  BY <1>1, ShapeFacts DEF OffsetsInOrder, Busy
<1>7. committed <= Len(wal) /\ committed \in Nat
  BY <1>1, ShapeFacts
<1>8. \A n \in Nat : n > Len(wal) => ~Served(n)' /\ ~Copied(n)'
  BY <1>2, <1>4, <1>6, <1>7 DEF Served, Copied, WrittenBut
<1>9. \A n \in 1..Len(wal) : (Served(n)' <=> Served(n)) /\ (Copied(n)' <=> Copied(n))
  BY <1>2 DEF Served, Copied, WrittenBut
<1>10. \A n \in 1..Len(wal') : n \in 1..Len(wal) \/ n = Len(wal) + 1
  BY <1>4
<1> QED
  BY <1>4, <1>5, <1>8, <1>9, <1>10

(* A row changes to a newer version of itself, or comes into being.           *)
LEMMA ChangeStep ==
  ASSUME ProjectionInv, NEW r \in Rows, NEW s \in RowType, Change(r, s),
         pg[r] = NoRow \/ (pg[r].live /\ ExternalVersion(pg[r]) < ExternalVersion(s))
  PROVE  ProjectionInv'
<1>1. Shape /\ WalInOrder /\ TableIsLast /\ DocsFromWal /\ BatchFromWal /\ Serving /\ Discovery
      /\ OffsetsInOrder /\ ServedIsCovered /\ CopiedIsReached
  BY DEF ProjectionInv
<1>2. UNCHANGED <<shipped, committed, docs, exists, alias, target, worker, early, job, owners>>
  BY DEF Change
<1> DEFINE N == Len(wal) + 1
<1>3. /\ Len(wal) \in Nat /\ N \in 1..Len(wal') /\ Len(wal') = N
      /\ \A n \in 1..Len(wal) : n \in 1..Len(wal') /\ n # N /\ n \in Nat
  BY <1>1, ShapeFacts, ChangeFacts
<1>4. Shape'
  <2>1. shipped' \in 0..Len(wal') /\ committed' \in 0..shipped'
    BY <1>1, <1>2, <1>3, ShapeFacts
  <2> QED
    BY <1>1, <1>2, <2>1, ChangeFacts DEF Shape
<1> HIDE DEF N
<1>5. \A n \in 1..Len(wal) : wal[n].row = r =>
          /\ wal[n].after.live /\ ExternalVersion(wal[n].after) < ExternalVersion(s)
          /\ pg[r].live
  <2> SUFFICES ASSUME NEW n \in 1..Len(wal), wal[n].row = r
               PROVE  /\ wal[n].after.live /\ ExternalVersion(wal[n].after) < ExternalVersion(s)
                      /\ pg[r].live
    OBVIOUS
  <2>1. pg[r].live /\ ExternalVersion(pg[r]) < ExternalVersion(s) /\ pg[r] \in RowType
    BY <1>1, ShapeFacts DEF TableIsLast
  <2>2. ExternalVersion(wal[n].after) <= ExternalVersion(pg[r])
    BY <1>1 DEF TableIsLast
  <2>3. wal[n].after.live
    BY <1>1, <2>1 DEF TableIsLast
  <2>4. /\ ExternalVersion(wal[n].after) \in Nat /\ ExternalVersion(pg[r]) \in Nat
        /\ ExternalVersion(s) \in Nat
    BY <1>1, <2>1, ShapeFacts, Versions
  <2> QED
    BY <2>1, <2>2, <2>3, <2>4
<1>6. WalInOrder'
  <2> SUFFICES ASSUME NEW m \in 1..Len(wal'), NEW n \in 1..Len(wal'), m < n,
                      wal'[m].row = wal'[n].row
               PROVE  /\ wal'[m].after.live
                      /\ ExternalVersion(wal'[m].after) < ExternalVersion(wal'[n].after)
    BY DEF WalInOrder, ExternalVersion
  <2>1. m \in 1..Len(wal)
    BY <1>3 DEF N
  <2>2. CASE n \in 1..Len(wal)
    BY <1>1, <2>1, <2>2, ChangeFacts DEF WalInOrder
  <2>3. CASE n = N
    BY <1>5, <2>1, <2>3, ChangeFacts DEF N
  <2> QED
    BY <2>2, <2>3, ChangeFacts DEF N
<1>7. TableIsLast'
  <2>1. ASSUME NEW n \in 1..Len(wal')
        PROVE  /\ pg'[wal'[n].row] # NoRow
               /\ ExternalVersion(wal'[n].after) <= ExternalVersion(pg'[wal'[n].row])
               /\ ~wal'[n].after.live => pg'[wal'[n].row] = wal'[n].after
    <3>1. CASE n = N
      <4>1. ExternalVersion(s) \in Nat /\ s # NoRow
        BY Versions
      <4> QED
        BY <3>1, <4>1, ChangeFacts DEF N
    <3>2. CASE n \in 1..Len(wal) /\ wal[n].row = r
      <4>1. ExternalVersion(s) \in Nat /\ s # NoRow /\ ExternalVersion(wal[n].after) \in Nat
        BY <1>1, <3>2, Versions, ShapeFacts
      <4> QED
        BY <1>5, <3>2, <4>1, ChangeFacts
    <3>3. CASE n \in 1..Len(wal) /\ wal[n].row # r
      <4>1. wal[n].row \in Rows \ {r}
        BY <1>1, <3>3, ShapeFacts
      <4> QED
        BY <1>1, <3>3, <4>1, ChangeFacts DEF TableIsLast
    <3> QED
      BY <3>1, <3>2, <3>3, ChangeFacts DEF N
  <2>2. ASSUME NEW q \in Rows, pg'[q] # NoRow
        PROVE  \E n \in 1..Len(wal') : wal'[n].row = q /\ wal'[n].after = pg'[q]
    <3>1. CASE q = r
      BY <1>3, <3>1, ChangeFacts DEF N
    <3>2. CASE q # r
      <4>1. pg'[q] = pg[q]
        BY <3>2, ChangeFacts
      <4>2. PICK n \in 1..Len(wal) : wal[n].row = q /\ wal[n].after = pg[q]
        BY <1>1, <2>2, <4>1 DEF TableIsLast
      <4> QED
        BY <1>3, <4>1, <4>2, ChangeFacts
    <3> QED
      BY <3>1, <3>2
  <2> QED
    BY <2>1, <2>2 DEF TableIsLast, ExternalVersion
<1>8. DocsFromWal'
  <2> SUFFICES ASSUME NEW i \in Indices, NEW q \in Rows, docs[i][q] # NoDoc
               PROVE  \E n \in 1..Len(wal') : wal'[n].row = q /\ Made(docs[i][q], wal'[n])
    <3>1. UNCHANGED docs
      BY <1>2
    <3> QED
      BY <3>1 DEF DocsFromWal, Made, Unversioned, Transform, ExternalVersion
  <2>1. PICK n \in 1..Len(wal) : wal[n].row = q /\ Made(docs[i][q], wal[n])
    BY <1>1 DEF DocsFromWal
  <2> QED
    BY <1>3, <2>1, ChangeFacts
<1>9. BatchFromWal'
  <2> SUFFICES ASSUME JobAt("bulk")
               PROVE  \A q \in DOMAIN job.batch :
                          \E n \in 1..Len(wal') : wal'[n].row = q /\ wal'[n].after = job.batch[q]
    BY <1>1, <1>2 DEF BatchFromWal, JobAt
  <2> SUFFICES ASSUME NEW q \in DOMAIN job.batch
               PROVE  \E n \in 1..Len(wal') : wal'[n].row = q /\ wal'[n].after = job.batch[q]
    OBVIOUS
  <2>1. PICK n \in 1..Len(wal) : wal[n].row = q /\ wal[n].after = job.batch[q]
    BY <1>1 DEF BatchFromWal
  <2> QED
    BY <1>3, <2>1, ChangeFacts
<1>10. Serving' /\ Discovery' /\ OffsetsInOrder'
  BY <1>1, <1>2 DEF Serving, Discovery, OffsetsInOrder, Building, Registered, Scanning, JobAt, Knows,
                    Busy
<1>11. \A n \in 1..Len(wal) : /\ Alive(n)' => Alive(n)
                              /\ Covers(alias, n)' <=> Covers(alias, n)
                              /\ Covers(job.new, n)' <=> Covers(job.new, n)
                              /\ Ahead(n)' <=> Ahead(n)
  <2> SUFFICES ASSUME NEW n \in 1..Len(wal)
               PROVE  /\ Alive(n)' => Alive(n)
                      /\ Covers(alias, n)' <=> Covers(alias, n)
                      /\ Covers(job.new, n)' <=> Covers(job.new, n)
                      /\ Ahead(n)' <=> Ahead(n)
    OBVIOUS
  <2>1. wal'[n] = wal[n] /\ wal[n].row \in Rows
    BY <1>1, ChangeFacts, ShapeFacts
  <2>2. Alive(n)' => Alive(n)
    <3>1. CASE wal[n].row = r
      BY <1>5, <2>1, <3>1 DEF Alive
    <3>2. CASE wal[n].row # r
      BY <2>1, <3>2, ChangeFacts DEF Alive
    <3> QED
      BY <3>1, <3>2
  <2> QED
    BY <1>2, <2>1, <2>2 DEF Covers, Ahead, JobAt, ExternalVersion
<1>12. ServedIsCovered'
  <2> SUFFICES ASSUME NEW n \in 1..Len(wal'), Served(n)', Alive(n)' PROVE Covers(alias, n)'
    BY DEF ServedIsCovered
  <2>1. n \in 1..Len(wal)
    BY <1>3, ChangeFacts DEF N
  <2> QED
    BY <1>1, <1>11, <2>1, ChangeFacts DEF ServedIsCovered
<1>13. CopiedIsReached'
  <2> SUFFICES ASSUME Scanning', NEW n \in 1..Len(wal'), Copied(n)', Alive(n)'
               PROVE  Covers(job.new, n)' \/ Ahead(n)'
    BY DEF CopiedIsReached
  <2>1. Scanning
    BY <1>2 DEF Scanning
  <2>2. n \in 1..Len(wal)
    BY <1>3, ChangeFacts DEF N
  <2> QED
    BY <1>1, <1>11, <2>1, <2>2, ChangeFacts DEF CopiedIsReached
<1> QED
  BY <1>4, <1>6, <1>7, <1>8, <1>9, <1>10, <1>12, <1>13 DEF ProjectionInv

(* Every commit of the table is such a change.                                *)
LEMMA TableChanges ==
  ASSUME ProjectionInv, NEW r \in Rows, InsertRow(r) \/ UpdateRow(r) \/ DeleteRow(r)
  PROVE  \E s \in RowType :
             /\ Change(r, s)
             /\ pg[r] = NoRow \/ (pg[r].live /\ ExternalVersion(pg[r]) < ExternalVersion(s))
<1>1. Shape
  BY DEF ProjectionInv
<1>2. \A t \in Tags : Born(t) \in RowType
  BY DEF Born, RowType
<1>3. CASE InsertRow(r)
  BY <1>2, <1>3 DEF InsertRow
<1>4. CASE UpdateRow(r)
  <2>1. pg[r] \in RowType /\ pg[r].live
    BY <1>1, <1>4, ShapeFacts, Versions DEF UpdateRow
  <2>2. PICK t \in Tags : Change(r, [ver |-> pg[r].ver + 1, live |-> TRUE, tag |-> t])
    BY <1>4 DEF UpdateRow
  <2>3. [ver |-> pg[r].ver + 1, live |-> TRUE, tag |-> t] \in RowType
    BY <2>1 DEF RowType
  <2>4. ExternalVersion(pg[r]) < ExternalVersion([ver |-> pg[r].ver + 1, live |-> TRUE, tag |-> t])
    BY <2>1 DEF RowType, ExternalVersion
  <2> QED
    BY <2>1, <2>2, <2>3, <2>4
<1>5. CASE DeleteRow(r)
  <2>1. pg[r] \in RowType /\ pg[r].live
    BY <1>1, <1>5, ShapeFacts, Versions DEF DeleteRow
  <2>2. [pg[r] EXCEPT !.live = FALSE] \in RowType
    BY <2>1 DEF RowType
  <2>3. ExternalVersion(pg[r]) < ExternalVersion([pg[r] EXCEPT !.live = FALSE])
    BY <2>1 DEF RowType, ExternalVersion
  <2> QED
    BY <1>5, <2>1, <2>2, <2>3 DEF DeleteRow
<1> QED
  BY <1>3, <1>4, <1>5

(* The table's commits and Debezium keep the invariant.                       *)
LEMMA TableSteps ==
  ASSUME ProjectionInv, TableStep
  PROVE  ProjectionInv'
<1>1. Shape
  BY DEF ProjectionInv
<1>3. ASSUME NEW r \in Rows, InsertRow(r) \/ UpdateRow(r) \/ DeleteRow(r) PROVE ProjectionInv'
  BY <1>3, TableChanges, ChangeStep
<1>6. CASE Ship
  <2>1. /\ shipped' = shipped + 1 /\ shipped < Len(wal)
        /\ UNCHANGED <<pg, wal, committed, docs, exists, alias, target, worker, early, job, owners>>
    BY <1>6 DEF Ship
  <2>2. Shape'
    <3>1. shipped' \in 0..Len(wal) /\ committed \in 0..shipped'
      BY <1>1, <2>1, ShapeFacts
    <3> QED
      BY <1>1, <2>1, <3>1 DEF Shape
  <2>3. OffsetsInOrder'
    BY <1>1, <2>1, ShapeFacts DEF ProjectionInv, OffsetsInOrder, Busy
  <2>4. WalInOrder' /\ TableIsLast' /\ DocsFromWal' /\ BatchFromWal'
    BY <2>1, DocsKept DEF ProjectionInv, WalInOrder, TableIsLast, BatchFromWal, JobAt
  <2>5. Serving' /\ Discovery'
    BY <2>1 DEF ProjectionInv, Serving, Discovery, Building, Registered, Scanning, JobAt, Knows
  <2>6. ServedIsCovered'
    BY <2>1 DEF ProjectionInv, ServedIsCovered, Served, Covers, Alive, WrittenBut
  <2>7. CopiedIsReached'
    BY <2>1 DEF ProjectionInv, CopiedIsReached, Scanning, Copied, Covers, Alive, WrittenBut, Ahead, JobAt
  <2> QED
    BY <2>2, <2>3, <2>4, <2>5, <2>6, <2>7 DEF ProjectionInv
<1> QED
  BY <1>3, <1>6 DEF TableStep

-----------------------------------------------------------------------------
(* The consumer.                                                              *)

(* What an instance may do between its writes: take a record whose targets    *)
(* it knows, and commit one it has written.                                   *)
MayBecome(w, s) ==
    /\ s \in WorkerType
    /\ worker' = [worker EXCEPT ![w] = s]
    /\ committed' \in {committed, committed + 1} /\ committed' <= shipped
    /\ early' \subseteq early /\ early \subseteq early' \cup {w}
    /\ owners' \subseteq Workers
    /\ s.pc # "idle" => s.off \in 1..shipped /\ s.off <= committed' + 1
    /\ s.pc = "idle" => s.off = 0
    /\ Registered /\ w \notin early' => (s.valid /\ s.pc # "looking" => s.cached = job.new)
    /\ s.pc = "writing" =>
          /\ s.todo \cap {Live, alias} = {} => WrittenBut(s.off, w, {Live, alias})
          /\ Scanning /\ job.new \notin s.todo => WrittenBut(s.off, w, {job.new})
    /\ committed' # committed =>
          /\ WrittenBut(committed + 1, w, {Live, alias})
          /\ WrittenBut(committed + 1, w, {job.new})

(* ... and what it may remember of the targets and of the partition.          *)
KeepsTo(w, s) ==
    /\ owners \subseteq owners'
    /\ s.pc # "idle" \/ s.valid => w \in owners' \/ Busy(w) \/ worker[w].valid
    /\ s.pc # "idle" => /\ committed' = committed
                        /\ \/ s.off = committed + 1 /\ w \in owners'
                           \/ Busy(w) /\ s.off = worker[w].off
    /\ committed' # committed => Busy(w)
    /\ s.cached \in {None, worker[w].cached, target}
    /\ s.todo \subseteq worker[w].todo \cup Targets(worker[w].cached) \cup Targets(target)
    /\ Registered /\ s.valid /\ s.pc # "looking" /\ s.cached # job.new =>
          /\ ~Knows(w)
          /\ s.todo \subseteq worker[w].todo \cup Targets(worker[w].cached)
    /\ Registered /\ s.pc = "writing" /\ job.new \notin s.todo =>
          ~Knows(w) \/ WrittenBut(s.off, w, {job.new})

(* Such a step writes nothing: what counts as written was written before.     *)
LEMMA ReaderWrites ==
  ASSUME ProjectionInv, NEW w \in Workers, NEW s, MayBecome(w, s),
         UNCHANGED <<wal, shipped, alias, job>>
  PROVE  \A n \in 1..Len(wal) :
             (Served(n)' => Served(n)) /\ (Scanning => (Copied(n)' => Copied(n)))
<1>1. Shape
  BY DEF ProjectionInv
<1>2. worker'[w] = s /\ \A v \in Workers \ {w} : worker'[v] = worker[v]
  BY <1>1 DEF MayBecome, Shape
<1>3. committed' \in Nat /\ committed <= committed' /\ committed' <= committed + 1
      /\ committed' \in 0..shipped /\ committed \in Nat
  BY <1>1, ShapeFacts DEF MayBecome
<1>9. \A n \in 1..Len(wal) : n <= committed' => n <= committed \/ (n = committed + 1 /\ committed' # committed)
  <2>1. Len(wal) \in Nat
    BY <1>1, ShapeFacts
  <2> QED
    BY <1>3, <2>1
<1>10. \A n \in 1..Len(wal) : Served(n)' => Served(n)
  <2> SUFFICES ASSUME NEW n \in 1..Len(wal), Served(n)' PROVE Served(n)
    OBVIOUS
  <2>1. CASE n <= committed'
    BY <1>9, <2>1 DEF Served, MayBecome
  <2>2. ASSUME NEW v \in Workers, WrittenBut(n, v, {Live, alias})' PROVE Served(n)
    <3>1. WrittenBut(n, v, {Live, alias})
      <4>1. CASE v = w
        BY <1>2, <2>2, <4>1 DEF WrittenBut, MayBecome
      <4>2. CASE v # w
        BY <1>2, <2>2, <4>2 DEF WrittenBut
      <4> QED
        BY <4>1, <4>2
    <3> QED
      BY <3>1 DEF Served
  <2> QED
    BY <2>1, <2>2 DEF Served
<1>11. Scanning => \A n \in 1..Len(wal) : Copied(n)' => Copied(n)
  <2> SUFFICES ASSUME Scanning, NEW n \in 1..Len(wal), Copied(n)' PROVE Copied(n)
    OBVIOUS
  <2>1. CASE n <= committed'
    BY <1>9, <2>1 DEF Copied, MayBecome
  <2>2. ASSUME NEW v \in Workers, WrittenBut(n, v, {job.new})' PROVE Copied(n)
    <3>1. WrittenBut(n, v, {job.new})
      <4>1. CASE v = w
        BY <1>2, <2>2, <4>1 DEF WrittenBut, MayBecome
      <4>2. CASE v # w
        BY <1>2, <2>2, <4>2 DEF WrittenBut
      <4> QED
        BY <4>1, <4>2
    <3> QED
      BY <3>1 DEF Copied
  <2> QED
    BY <2>1, <2>2 DEF Copied
<1> QED
  BY <1>10, <1>11

(* Such a step keeps the invariant.                                           *)
LEMMA ReaderStep ==
  ASSUME ProjectionInv, NEW w \in Workers, NEW s, MayBecome(w, s),
         UNCHANGED <<pg, wal, shipped, docs, exists, alias, target, job>>
  PROVE  ProjectionInv'
<1>1. Shape /\ WalInOrder /\ TableIsLast /\ DocsFromWal /\ BatchFromWal /\ Serving /\ Discovery
      /\ OffsetsInOrder /\ ServedIsCovered /\ CopiedIsReached
  BY DEF ProjectionInv
<1>2. /\ worker'[w] = s /\ \A v \in Workers \ {w} : worker'[v] = worker[v]
      /\ worker' \in [Workers -> WorkerType]
  BY <1>1 DEF MayBecome, Shape
<1>3. committed' \in Nat /\ committed <= committed' /\ committed' <= committed + 1
      /\ committed' \in 0..shipped /\ committed \in Nat
  BY <1>1, ShapeFacts DEF MayBecome
<1>4. Shape'
  BY <1>1, <1>2, <1>3 DEF Shape, MayBecome
<1>5. WalInOrder' /\ TableIsLast' /\ DocsFromWal' /\ BatchFromWal'
  BY <1>1, DocsKept DEF WalInOrder, TableIsLast, BatchFromWal, JobAt
<1>6. Serving'
  BY <1>1 DEF Serving, Building, Registered, JobAt
<1>7. Discovery'
  <2>1. Registered' = Registered /\ Scanning' = Scanning
    BY DEF Registered, Scanning
  <2>2. ASSUME Registered, NEW v \in Workers \ early' PROVE Knows(v)'
    <3>1. CASE v = w
      BY <1>2, <2>2, <3>1 DEF Knows, MayBecome
    <3>2. CASE v # w
      <4>1. v \in Workers \ early
        BY <2>2, <3>2 DEF MayBecome
      <4> QED
        BY <1>1, <1>2, <2>2, <3>2, <4>1 DEF Knows, Discovery
    <3> QED
      BY <3>1, <3>2
  <2>3. Scanning => early' = {}
    BY <1>1 DEF Discovery, MayBecome
  <2> QED
    BY <2>1, <2>2, <2>3 DEF Discovery
<1>8. OffsetsInOrder'
  <2> SUFFICES ASSUME NEW v \in Workers
               PROVE  /\ Busy(v)' => worker'[v].off \in 1..shipped /\ worker'[v].off <= committed' + 1
                      /\ ~Busy(v)' => worker'[v].off = 0
    BY DEF OffsetsInOrder
  <2>1. CASE v = w
    BY <1>2, <2>1 DEF MayBecome, Busy
  <2>2. CASE v # w
    <3>1. /\ Busy(v) => worker[v].off \in 1..shipped /\ worker[v].off <= committed + 1
          /\ ~Busy(v) => worker[v].off = 0
          /\ worker'[v] = worker[v]
      BY <1>1, <1>2, <2>2 DEF OffsetsInOrder
    <3> QED
      BY <1>1, <1>3, <3>1, ShapeFacts DEF Busy
  <2> QED
    BY <2>1, <2>2
<1>10. \A n \in 1..Len(wal) : (Served(n)' => Served(n)) /\ (Scanning => (Copied(n)' => Copied(n)))
  BY ReaderWrites
<1>12. ServedIsCovered'
  BY <1>1, <1>10 DEF ServedIsCovered, Alive, Covers
<1>13. CopiedIsReached'
  BY <1>1, <1>10 DEF CopiedIsReached, Alive, Covers, Ahead, Scanning, JobAt
<1> QED
  BY <1>4, <1>5, <1>6, <1>7, <1>8, <1>12, <1>13 DEF ProjectionInv

(* Every step of an instance that writes no document is such a step.          *)
LEMMA ReaderMoves ==
  ASSUME ProjectionInv, NEW w \in Workers,
         \/ FetchAndUseCache(w) \/ FetchAndLookup(w) \/ FinishLookup(w) \/ Expire(w)
         \/ CommitOffset(w) \/ FailRecord(w)
  PROVE  \E s : /\ MayBecome(w, s) /\ KeepsTo(w, s)
                /\ UNCHANGED <<pg, wal, shipped, docs, exists, alias, target, job>>
<1> DEFINE x == worker[w]
<1>1. Shape /\ Serving /\ Discovery /\ OffsetsInOrder
  BY DEF ProjectionInv
<1>2. /\ x \in WorkerType /\ x.pc \in WorkerSteps /\ x.off \in Nat /\ x.cached \in Indices \cup {None}
      /\ x.valid \in BOOLEAN /\ x.todo \subseteq Indices \cup {Live}
      /\ committed \in Nat /\ shipped \in Nat /\ committed <= shipped
      /\ owners \subseteq Workers /\ early \subseteq Workers
  BY <1>1, ShapeFacts DEF WorkerType, Shape
<1>3. /\ x.pc # "idle" => x.off \in 1..shipped /\ x.off <= committed + 1
      /\ x.pc = "idle" => x.off = 0
  BY <1>1 DEF OffsetsInOrder, Busy
<1>4. Registered => target = job.new /\ (w \notin early => Knows(w))
  BY <1>1 DEF Serving, Discovery
<1>5. Scanning => Registered /\ early = {}
  BY <1>1 DEF Scanning, Registered, Discovery
<1>6. \A i \in Indices \cup {None} : /\ Targets(i) \subseteq Indices \cup {Live} /\ Live \in Targets(i)
                                     /\ i # None => i \in Targets(i)
  BY DEF Targets
<1>7. target \in Indices \cup {None} /\ job.new \in Indices /\ None \notin Indices
  BY <1>1, ShapeFacts DEF Shape
<1>8. CASE FetchAndUseCache(w)
  <2> DEFINE s == [x EXCEPT !.pc = "writing", !.todo = Targets(x.cached), !.off = committed + 1]
  <2>1. /\ worker' = [worker EXCEPT ![w] = s] /\ x.valid /\ x.pc = "idle" /\ committed < shipped
        /\ owners' = owners \cup {w} /\ early' = early
        /\ UNCHANGED <<pg, wal, shipped, committed, docs, exists, alias, target, job>>
    BY <1>8, <1>2 DEF FetchAndUseCache, Fetch, SetWorker, Busy, WorkerType
  <2>2. /\ s \in WorkerType /\ s.pc = "writing" /\ s.off = committed + 1 /\ s.todo = Targets(x.cached)
        /\ s.cached = x.cached /\ s.valid
    <3>1. committed + 1 \in Nat /\ Targets(x.cached) \in SUBSET (Indices \cup {Live}) /\ x \in WorkerType
      BY <1>2, <1>6
    <3> HIDE DEF x
    <3> QED
      BY <2>1, <3>1 DEF WorkerType, WorkerSteps
  <2>3. Registered /\ w \notin early => s.cached = job.new
    BY <1>4, <2>1, <2>2 DEF Knows
  <2>4. Scanning => job.new \in s.todo
    BY <1>5, <1>6, <1>7, <2>2, <2>3
  <2>5. s.todo \cap {Live, alias} # {}
    BY <1>2, <1>6, <2>2
  <2>6. committed + 1 \in 1..shipped
    BY <1>2, <2>1
  <2> HIDE DEF s
  <2>7. MayBecome(w, s)
    BY <1>2, <2>1, <2>2, <2>3, <2>4, <2>5, <2>6 DEF MayBecome
  <2>8. KeepsTo(w, s)
    <3>1. owners \subseteq owners' /\ (s.pc # "idle" \/ s.valid => w \in owners' \/ Busy(w) \/ x.valid)
      BY <2>1, <2>2, <2>3, <2>4, <2>5, <2>6 DEF Busy
    <3>2. /\ s.pc # "idle" => /\ committed' = committed
                              /\ \/ s.off = committed + 1 /\ w \in owners'
                                 \/ Busy(w) /\ s.off = x.off
          /\ committed' # committed => Busy(w)
      BY <2>1, <2>2, <2>3, <2>4, <2>5, <2>6 DEF Busy
    <3>3. s.cached \in {None, x.cached, target} /\ s.todo \subseteq x.todo \cup Targets(x.cached) \cup Targets(target)
      BY <2>1, <2>2, <2>3, <2>4, <2>5, <2>6
    <3>4. Registered /\ s.valid /\ s.pc # "looking" /\ s.cached # job.new =>
             ~Knows(w) /\ s.todo \subseteq x.todo \cup Targets(x.cached)
      BY <1>4, <2>1, <2>2, <2>3, <2>4, <2>5, <2>6 DEF Knows
    <3>5. Registered /\ s.pc = "writing" /\ job.new \notin s.todo => ~Knows(w) \/ WrittenBut(s.off, w, {job.new})
      BY <1>2, <1>4, <1>6, <1>7, <2>1, <2>2, <2>3, <2>4, <2>5, <2>6 DEF Knows, WrittenBut
    <3> QED
      BY <3>1, <3>2, <3>3, <3>4, <3>5 DEF KeepsTo
  <2> QED
    BY <2>1, <2>7, <2>8
<1>9. CASE FetchAndLookup(w)
  <2> DEFINE s == [x EXCEPT !.pc = "looking", !.valid = TRUE, !.off = committed + 1]
  <2>1. /\ worker' = [worker EXCEPT ![w] = s] /\ committed < shipped
        /\ owners' = owners \cup {w} /\ early' = early \ {w}
        /\ UNCHANGED <<pg, wal, shipped, committed, docs, exists, alias, target, job>>
    BY <1>9, <1>2 DEF FetchAndLookup, Fetch, SetWorker, Busy, WorkerType
  <2>2. /\ s \in WorkerType /\ s.pc = "looking" /\ s.off = committed + 1
        /\ s.cached = x.cached /\ s.todo = x.todo
    <3>1. committed + 1 \in Nat /\ x \in WorkerType
      BY <1>2
    <3> HIDE DEF x
    <3> QED
      BY <3>1 DEF WorkerType, WorkerSteps
  <2>3. committed + 1 \in 1..shipped
    BY <1>2, <2>1
  <2> HIDE DEF s
  <2>4. MayBecome(w, s)
    BY <1>2, <2>1, <2>2, <2>3 DEF MayBecome
  <2>5. KeepsTo(w, s)
    <3>1. owners \subseteq owners' /\ (s.pc # "idle" \/ s.valid => w \in owners' \/ Busy(w) \/ x.valid)
      BY <2>1, <2>2, <2>3 DEF Busy
    <3>2. /\ s.pc # "idle" => /\ committed' = committed
                              /\ \/ s.off = committed + 1 /\ w \in owners'
                                 \/ Busy(w) /\ s.off = x.off
          /\ committed' # committed => Busy(w)
      BY <2>1, <2>2, <2>3 DEF Busy
    <3>3. s.cached \in {None, x.cached, target} /\ s.todo \subseteq x.todo \cup Targets(x.cached) \cup Targets(target)
      BY <2>1, <2>2, <2>3
    <3>4. Registered /\ s.valid /\ s.pc # "looking" /\ s.cached # job.new =>
             ~Knows(w) /\ s.todo \subseteq x.todo \cup Targets(x.cached)
      BY <1>4, <2>1, <2>2, <2>3 DEF Knows
    <3>5. Registered /\ s.pc = "writing" /\ job.new \notin s.todo => ~Knows(w) \/ WrittenBut(s.off, w, {job.new})
      BY <1>2, <1>4, <1>6, <1>7, <2>1, <2>2, <2>3 DEF Knows, WrittenBut
    <3> QED
      BY <3>1, <3>2, <3>3, <3>4, <3>5 DEF KeepsTo
  <2> QED
    BY <2>1, <2>4, <2>5
<1>10. CASE FinishLookup(w)
  <2> DEFINE s == [x EXCEPT !.pc = "writing", !.todo = Targets(target),
                            !.cached = IF x.valid THEN target ELSE None]
  <2>1. /\ worker' = [worker EXCEPT ![w] = s] /\ x.pc = "looking"
        /\ UNCHANGED <<pg, wal, shipped, committed, docs, exists, alias, target, early, job, owners>>
    BY <1>10 DEF FinishLookup, SetWorker
  <2>2. /\ s \in WorkerType /\ s.pc = "writing" /\ s.off = x.off /\ s.todo = Targets(target)
        /\ s.valid = x.valid /\ (s.valid => s.cached = target) /\ s.cached \in {target, None}
    BY <1>2, <1>6, <1>7 DEF WorkerType, WorkerSteps
  <2>3. Scanning => job.new \in s.todo
    BY <1>4, <1>5, <1>6, <1>7, <2>2
  <2>4. s.todo \cap {Live, alias} # {}
    BY <1>6, <1>7, <2>2
  <2> HIDE DEF s
  <2>5. MayBecome(w, s)
    BY <1>2, <1>3, <1>4, <2>1, <2>2, <2>3, <2>4 DEF MayBecome
  <2>6. KeepsTo(w, s)
    <3>1. owners \subseteq owners' /\ (s.pc # "idle" \/ s.valid => w \in owners' \/ Busy(w) \/ x.valid)
      BY <2>1, <2>2, <2>3, <2>4 DEF Busy
    <3>2. /\ s.pc # "idle" => /\ committed' = committed
                              /\ \/ s.off = committed + 1 /\ w \in owners'
                                 \/ Busy(w) /\ s.off = x.off
          /\ committed' # committed => Busy(w)
      BY <2>1, <2>2, <2>3, <2>4 DEF Busy
    <3>3. s.cached \in {None, x.cached, target} /\ s.todo \subseteq x.todo \cup Targets(x.cached) \cup Targets(target)
      BY <2>1, <2>2, <2>3, <2>4
    <3>4. Registered /\ s.valid /\ s.pc # "looking" /\ s.cached # job.new =>
             ~Knows(w) /\ s.todo \subseteq x.todo \cup Targets(x.cached)
      BY <1>4, <2>1, <2>2, <2>3, <2>4 DEF Knows
    <3>5. Registered /\ s.pc = "writing" /\ job.new \notin s.todo => ~Knows(w) \/ WrittenBut(s.off, w, {job.new})
      BY <1>2, <1>4, <1>6, <1>7, <2>1, <2>2, <2>3, <2>4 DEF Knows, WrittenBut
    <3> QED
      BY <3>1, <3>2, <3>3, <3>4, <3>5 DEF KeepsTo
  <2> QED
    BY <2>1, <2>5, <2>6
<1>11. CASE Expire(w)
  <2> DEFINE s == [x EXCEPT !.valid = FALSE, !.cached = None]
  <2>1. /\ worker' = [worker EXCEPT ![w] = s] /\ early' = early \ {w}
        /\ UNCHANGED <<pg, wal, shipped, committed, docs, exists, alias, target, job, owners>>
    BY <1>11 DEF Expire, SetWorker
  <2>2. /\ s \in WorkerType /\ s.pc = x.pc /\ s.off = x.off /\ s.todo = x.todo /\ ~s.valid
        /\ s.cached = None
    BY <1>2 DEF WorkerType
  <2>3. s.pc = "writing" => /\ s.todo \cap {Live, alias} = {} => WrittenBut(s.off, w, {Live, alias})
                            /\ job.new \notin s.todo => WrittenBut(s.off, w, {job.new})
    BY <2>2 DEF WrittenBut
  <2> HIDE DEF s
  <2>4. MayBecome(w, s)
    BY <1>2, <1>3, <2>1, <2>2, <2>3 DEF MayBecome
  <2>5. KeepsTo(w, s)
    <3>1. owners \subseteq owners' /\ (s.pc # "idle" \/ s.valid => w \in owners' \/ Busy(w) \/ x.valid)
      BY <2>1, <2>2, <2>3 DEF Busy
    <3>2. /\ s.pc # "idle" => /\ committed' = committed
                              /\ \/ s.off = committed + 1 /\ w \in owners'
                                 \/ Busy(w) /\ s.off = x.off
          /\ committed' # committed => Busy(w)
      BY <2>1, <2>2, <2>3 DEF Busy
    <3>3. s.cached \in {None, x.cached, target} /\ s.todo \subseteq x.todo \cup Targets(x.cached) \cup Targets(target)
      BY <2>1, <2>2, <2>3
    <3>4. Registered /\ s.valid /\ s.pc # "looking" /\ s.cached # job.new =>
             ~Knows(w) /\ s.todo \subseteq x.todo \cup Targets(x.cached)
      BY <1>4, <2>1, <2>2, <2>3 DEF Knows
    <3>5. Registered /\ s.pc = "writing" /\ job.new \notin s.todo => ~Knows(w) \/ WrittenBut(s.off, w, {job.new})
      BY <1>2, <1>4, <1>6, <1>7, <2>1, <2>2, <2>3 DEF Knows, WrittenBut
    <3> QED
      BY <3>1, <3>2, <3>3, <3>4, <3>5 DEF KeepsTo
  <2> QED
    BY <2>1, <2>4, <2>5
<1>12. CASE CommitOffset(w)
  <2> DEFINE s == [x EXCEPT !.pc = "idle", !.off = 0]
  <2>1. /\ worker' = [worker EXCEPT ![w] = s] /\ x.pc = "writing" /\ x.todo = {}
        /\ committed' = IF x.off = committed + 1 THEN committed + 1 ELSE committed
        /\ UNCHANGED <<pg, wal, shipped, docs, exists, alias, target, early, job, owners>>
    BY <1>12 DEF CommitOffset, SetWorker
  <2>2. /\ s \in WorkerType /\ s.pc = "idle" /\ s.valid = x.valid /\ s.cached = x.cached
        /\ s.todo = x.todo /\ s.off = 0
    BY <1>2 DEF WorkerType, WorkerSteps
  <2>3. committed' # committed => /\ WrittenBut(committed + 1, w, {Live, alias})
                                  /\ WrittenBut(committed + 1, w, {job.new})
    BY <2>1 DEF WrittenBut
  <2>4. committed' \in {committed, committed + 1} /\ committed' <= shipped
    BY <1>2, <1>3, <2>1
  <2>5. Registered /\ w \notin early => (s.valid => s.cached = job.new)
    BY <1>4, <2>1, <2>2 DEF Knows
  <2> HIDE DEF s
  <2>6. MayBecome(w, s)
    BY <1>2, <2>1, <2>2, <2>3, <2>4, <2>5 DEF MayBecome
  <2>7. KeepsTo(w, s)
    <3>1. owners \subseteq owners' /\ (s.pc # "idle" \/ s.valid => w \in owners' \/ Busy(w) \/ x.valid)
      BY <2>1, <2>2, <2>3, <2>4, <2>5 DEF Busy
    <3>2. /\ s.pc # "idle" => /\ committed' = committed
                              /\ \/ s.off = committed + 1 /\ w \in owners'
                                 \/ Busy(w) /\ s.off = x.off
          /\ committed' # committed => Busy(w)
      BY <2>1, <2>2, <2>3, <2>4, <2>5 DEF Busy
    <3>3. s.cached \in {None, x.cached, target} /\ s.todo \subseteq x.todo \cup Targets(x.cached) \cup Targets(target)
      BY <2>1, <2>2, <2>3, <2>4, <2>5
    <3>4. Registered /\ s.valid /\ s.pc # "looking" /\ s.cached # job.new =>
             ~Knows(w) /\ s.todo \subseteq x.todo \cup Targets(x.cached)
      BY <1>4, <2>1, <2>2, <2>3, <2>4, <2>5 DEF Knows
    <3>5. Registered /\ s.pc = "writing" /\ job.new \notin s.todo => ~Knows(w) \/ WrittenBut(s.off, w, {job.new})
      BY <1>2, <1>4, <1>6, <1>7, <2>1, <2>2, <2>3, <2>4, <2>5 DEF Knows, WrittenBut
    <3> QED
      BY <3>1, <3>2, <3>3, <3>4, <3>5 DEF KeepsTo
  <2> QED
    BY <2>1, <2>6, <2>7
<1>13. CASE FailRecord(w)
  <2> DEFINE s == [x EXCEPT !.pc = "idle", !.off = 0, !.todo = {}, !.valid = @ /\ x.pc # "looking"]
  <2>1. /\ worker' = [worker EXCEPT ![w] = s]
        /\ early' = IF x.pc = "looking" THEN early \ {w} ELSE early
        /\ UNCHANGED <<pg, wal, shipped, committed, docs, exists, alias, target, job, owners>>
    BY <1>13 DEF FailRecord, SetWorker
  <2>2. /\ s \in WorkerType /\ s.pc = "idle" /\ s.valid = (x.valid /\ x.pc # "looking")
        /\ s.cached = x.cached /\ s.todo = {} /\ s.off = 0
    BY <1>2 DEF WorkerType, WorkerSteps
  <2>3. Registered /\ w \notin early' => (s.valid => s.cached = job.new)
    BY <1>4, <2>1, <2>2 DEF Knows
  <2> HIDE DEF s
  <2>4. MayBecome(w, s)
    BY <1>2, <2>1, <2>2, <2>3 DEF MayBecome
  <2>5. KeepsTo(w, s)
    <3>1. owners \subseteq owners' /\ (s.pc # "idle" \/ s.valid => w \in owners' \/ Busy(w) \/ x.valid)
      BY <2>1, <2>2, <2>3 DEF Busy
    <3>2. /\ s.pc # "idle" => /\ committed' = committed
                              /\ \/ s.off = committed + 1 /\ w \in owners'
                                 \/ Busy(w) /\ s.off = x.off
          /\ committed' # committed => Busy(w)
      BY <2>1, <2>2, <2>3 DEF Busy
    <3>3. s.cached \in {None, x.cached, target} /\ s.todo \subseteq x.todo \cup Targets(x.cached) \cup Targets(target)
      BY <2>1, <2>2, <2>3
    <3>4. Registered /\ s.valid /\ s.pc # "looking" /\ s.cached # job.new =>
             ~Knows(w) /\ s.todo \subseteq x.todo \cup Targets(x.cached)
      BY <1>4, <2>1, <2>2, <2>3 DEF Knows
    <3>5. Registered /\ s.pc = "writing" /\ job.new \notin s.todo => ~Knows(w) \/ WrittenBut(s.off, w, {job.new})
      BY <1>2, <1>4, <1>6, <1>7, <2>1, <2>2, <2>3 DEF Knows, WrittenBut
    <3> QED
      BY <3>1, <3>2, <3>3, <3>4, <3>5 DEF KeepsTo
  <2> QED
    BY <2>1, <2>4, <2>5
<1> QED
  BY <1>8, <1>9, <1>10, <1>11, <1>12, <1>13

(* ... and so keeps the invariant.                                            *)
LEMMA ReaderSteps ==
  ASSUME ProjectionInv, NEW w \in Workers,
         \/ FetchAndUseCache(w) \/ FetchAndLookup(w) \/ FinishLookup(w) \/ Expire(w)
         \/ CommitOffset(w) \/ FailRecord(w)
  PROVE  ProjectionInv'
  BY ReaderMoves, ReaderStep

(* Writes make documents newer, and only out of WAL records.                  *)
LEMMA DocsGrow ==
  ASSUME ProjectionInv, UNCHANGED <<pg, wal>>,
         \A k \in Indices, r \in Rows :
             \/ docs'[k][r] = docs[k][r]
             \/ \E n \in 1..Len(wal) :
                    /\ wal[n].row = r
                    /\ docs'[k][r] \in {Upsert(docs[k][r], Transform(wal[n].after)),
                                       Written(docs[k][r], wal[n])}
  PROVE  /\ DocsFromWal'
         /\ \A k \in Indices, r \in Rows : docs'[k][r] \in DocType /\ docs'[k][r].ver >= docs[k][r].ver
         /\ \A k \in Indices, n \in 1..Len(wal) : Covers(k, n) => Covers(k, n)'
<1>1. Shape /\ DocsFromWal
  BY DEF ProjectionInv
<1>2. ASSUME NEW k \in Indices, NEW r \in Rows
      PROVE  /\ docs'[k][r] \in DocType /\ docs'[k][r].ver >= docs[k][r].ver
             /\ docs'[k][r] # NoDoc =>
                    \E n \in 1..Len(wal) : wal[n].row = r /\ Made(docs'[k][r], wal[n])
  <2>1. CASE docs'[k][r] = docs[k][r]
    BY <1>1, <2>1, ShapeFacts DEF DocsFromWal
  <2>2. ASSUME NEW n \in 1..Len(wal), wal[n].row = r,
               docs'[k][r] \in {Upsert(docs[k][r], Transform(wal[n].after)),
                               Written(docs[k][r], wal[n])}
        PROVE  /\ docs'[k][r] \in DocType /\ docs'[k][r].ver >= docs[k][r].ver
               /\ docs'[k][r] # NoDoc =>
                      \E m \in 1..Len(wal) : wal[m].row = r /\ Made(docs'[k][r], wal[m])
    <3>1. docs[k][r] \in DocType /\ Transform(wal[n].after) \in DocType /\ wal[n] \in RecordType
      BY <1>1, ShapeFacts, Versions
    <3>2. /\ docs'[k][r] \in DocType /\ docs'[k][r].ver >= docs[k][r].ver
          /\ docs'[k][r] = docs[k][r] \/ Made(docs'[k][r], wal[n])
      <4>1. CASE docs'[k][r] = Written(docs[k][r], wal[n])
        BY <3>1, <4>1, WrittenGrows
      <4>2. CASE docs'[k][r] = Upsert(docs[k][r], Transform(wal[n].after))
        BY <3>1, <4>2, UpsertKeepsNewer DEF Made
      <4> QED
        BY <2>2, <4>1, <4>2
    <3> QED
      BY <1>1, <2>2, <3>2 DEF DocsFromWal
  <2> QED
    BY <2>1, <2>2
<1>3. DocsFromWal'
  BY <1>2 DEF DocsFromWal, Made, Unversioned, Transform, ExternalVersion
<1>4. ASSUME NEW k \in Indices, NEW n \in 1..Len(wal), Covers(k, n) PROVE Covers(k, n)'
  <2> DEFINE r == wal[n].row
  <2>1. r \in Rows /\ ExternalVersion(wal[n].after) \in Nat
    BY <1>1, ShapeFacts
  <2>2. docs'[k][r] \in DocType /\ docs'[k][r].ver >= docs[k][r].ver /\ docs[k][r].ver \in Nat
    BY <1>1, <1>2, <2>1, ShapeFacts
  <2>3. docs'[k][r].ver \in Nat
    BY <2>2 DEF DocType
  <2>4. docs'[k][r].ver >= ExternalVersion(wal[n].after)
    BY <1>4, <2>1, <2>2, <2>3 DEF Covers
  <2> QED
    BY <2>4 DEF Covers
<1> QED
  BY <1>2, <1>3, <1>4

(* The index a request goes to.                                               *)
Resolved(t) == IF t = Live THEN alias ELSE t

(* A write changes one document, and only its own record becomes written.     *)
LEMMA WriteFacts ==
  ASSUME ProjectionInv, NEW w \in Workers, NEW t \in Indices \cup {Live}, WriteDocument(w, t),
         NEW i, i = Resolved(t), NEW o, o = worker[w].off
  PROVE  /\ i \in Indices /\ o \in 1..Len(wal) /\ Busy(w) /\ t \in worker[w].todo
         /\ exists' = exists \cup {i}
         /\ UNCHANGED <<pg, wal, shipped, committed, alias, target, early, job, owners>>
         /\ docs'[i][wal[o].row] = Written(docs[i][wal[o].row], wal[o])
         /\ \A k \in Indices : k # i => docs'[k] = docs[k]
         /\ \A k \in Indices, r \in Rows : k # i \/ r # wal[o].row => docs'[k][r] = docs[k][r]
         /\ DocsFromWal' /\ docs' \in [Indices -> [Rows -> DocType]]
         /\ \A k \in Indices, n \in 1..Len(wal) : Covers(k, n) => Covers(k, n)'
         /\ ~Unversioned(wal[o]) => docs'[i][wal[o].row].ver >= ExternalVersion(wal[o].after)
         /\ worker' \in [Workers -> WorkerType]
         /\ \A v \in Workers \ {w} : worker'[v] = worker[v]
         /\ worker'[w].pc = worker[w].pc /\ worker'[w].off = o
         /\ worker'[w].todo = worker[w].todo \ {t}
         /\ worker'[w].valid = worker[w].valid /\ worker'[w].cached = worker[w].cached
         /\ \A n \in 1..Len(wal) : Served(n)' => Served(n) \/ (n = o /\ i = alias)
         /\ \A n \in 1..Len(wal) : Copied(n)' => Copied(n) \/ (n = o /\ i = job.new)
<1> DEFINE x == worker[w]
           rec == wal[o]
           s == [x EXCEPT !.todo = @ \ {t}]
<1>1. Shape /\ OffsetsInOrder
  BY DEF ProjectionInv
<1>2. /\ x.pc = "writing" /\ t \in x.todo
      /\ docs' = [docs EXCEPT ![i][rec.row] = Written(@, rec)]
      /\ exists' = exists \cup {i}
      /\ worker' = [worker EXCEPT ![w] = s]
      /\ UNCHANGED <<pg, wal, shipped, committed, alias, target, early, job, owners>>
  BY DEF WriteDocument, SetWorker, Resolved
<1>3. i \in Indices /\ x \in WorkerType
  BY <1>1, ShapeFacts DEF Shape, Resolved
<1>4. o \in 1..Len(wal) /\ Busy(w)
  BY <1>1, <1>2, ShapeFacts DEF OffsetsInOrder, Busy
<1>5. rec.row \in Rows /\ rec.after \in RowType /\ rec \in RecordType
  BY <1>1, <1>4, ShapeFacts
<1>6. s \in WorkerType /\ s.pc = x.pc /\ s.off = o /\ s.todo = x.todo \ {t}
      /\ s.valid = x.valid /\ s.cached = x.cached
  BY <1>2, <1>3 DEF WorkerType
<1> HIDE DEF s
<1>7. /\ worker' \in [Workers -> WorkerType]
      /\ worker'[w] = s /\ \A v \in Workers \ {w} : worker'[v] = worker[v]
  BY <1>1, <1>2, <1>6 DEF Shape
<1>8. docs'[i][rec.row] = Written(docs[i][rec.row], rec)
  BY <1>1, <1>2, <1>3, <1>5 DEF Shape
<1>9. /\ \A k \in Indices, r \in Rows : k # i \/ r # rec.row => docs'[k][r] = docs[k][r]
      /\ \A k \in Indices : k # i => docs'[k] = docs[k]
  <2> HIDE DEF rec
  <2> QED
    BY <1>1, <1>2, <1>3, <1>5 DEF Shape
<1>10. /\ DocsFromWal'
       /\ \A k \in Indices, r \in Rows : docs'[k][r] \in DocType /\ docs'[k][r].ver >= docs[k][r].ver
       /\ \A k \in Indices, n \in 1..Len(wal) : Covers(k, n) => Covers(k, n)'
  <2>1. \A k \in Indices, r \in Rows :
             \/ docs'[k][r] = docs[k][r]
             \/ \E n \in 1..Len(wal) :
                    /\ wal[n].row = r
                    /\ docs'[k][r] \in {Upsert(docs[k][r], Transform(wal[n].after)),
                                       Written(docs[k][r], wal[n])}
    BY <1>4, <1>8, <1>9
  <2> QED
    BY <1>2, <2>1, DocsGrow
<1>11. docs' \in [Indices -> [Rows -> DocType]]
  <2>1. \A k \in Indices : docs'[k] \in [Rows -> DocType]
    <3> SUFFICES ASSUME NEW k \in Indices PROVE docs'[k] \in [Rows -> DocType]
      OBVIOUS
    <3>1. DOMAIN docs'[k] = Rows /\ docs'[k] = [r \in Rows |-> docs'[k][r]]
      BY <1>1, <1>2, <1>3 DEF Shape
    <3> QED
      BY <1>10, <3>1
  <2>2. docs' = [k \in Indices |-> docs'[k]]
    BY <1>1, <1>2 DEF Shape
  <2> QED
    BY <2>1, <2>2
<1>12. ASSUME ~Unversioned(rec) PROVE docs'[i][rec.row].ver >= ExternalVersion(rec.after)
  <2>1. docs[i][rec.row] \in DocType /\ Transform(rec.after) \in DocType
    BY <1>1, <1>3, <1>5, ShapeFacts, Versions
  <2>2. docs'[i][rec.row].ver >= Transform(rec.after).ver
    <3>1. Written(docs[i][rec.row], rec) = Upsert(docs[i][rec.row], Transform(rec.after))
      BY <1>5, <1>12, <2>1, WrittenGrows
    <3> QED
      BY <1>8, <2>1, <3>1, UpsertKeepsNewer
  <2>3. Transform(rec.after).ver = ExternalVersion(rec.after)
    BY <1>5, Versions
  <2> QED
    BY <2>2, <2>3
<1>13. ASSUME NEW n \in 1..Len(wal), Served(n)', ~Served(n) PROVE n = o /\ i = alias
  <2>1. PICK v \in Workers : WrittenBut(n, v, {Live, alias})'
    BY <1>2, <1>13 DEF Served
  <2>2. v = w
    BY <1>2, <1>7, <1>13, <2>1 DEF Served, WrittenBut
  <2>3. n = o /\ (x.todo \ {t}) \cap {Live, alias} = {}
    BY <1>2, <1>6, <1>7, <2>1, <2>2 DEF WrittenBut
  <2>4. t \in {Live, alias}
    BY <1>2, <1>13, <2>3 DEF Served, WrittenBut
  <2> QED
    BY <2>3, <2>4 DEF Resolved
<1>14. ASSUME NEW n \in 1..Len(wal), Copied(n)', ~Copied(n) PROVE n = o /\ i = job.new
  <2>1. PICK v \in Workers : WrittenBut(n, v, {job.new})'
    BY <1>2, <1>14 DEF Copied
  <2>2. v = w
    BY <1>2, <1>7, <1>14, <2>1 DEF Copied, WrittenBut
  <2>3. n = o /\ job.new \notin x.todo \ {t}
    BY <1>2, <1>6, <1>7, <2>1, <2>2 DEF WrittenBut
  <2>4. t = job.new
    BY <1>2, <1>14, <2>3 DEF Copied, WrittenBut
  <2>5. job.new # Live
    BY <1>1, ShapeFacts
  <2> QED
    BY <2>3, <2>4, <2>5 DEF Resolved
<1> HIDE DEF rec
<1>15. \A n \in 1..Len(wal) : Served(n)' => Served(n) \/ (n = o /\ i = alias)
  BY <1>13
<1>16. \A n \in 1..Len(wal) : Copied(n)' => Copied(n) \/ (n = o /\ i = job.new)
  BY <1>14
<1>17. /\ docs'[i][wal[o].row] = Written(docs[i][wal[o].row], wal[o])
       /\ ~Unversioned(wal[o]) => docs'[i][wal[o].row].ver >= ExternalVersion(wal[o].after)
       /\ \A k \in Indices, r \in Rows : k # i \/ r # wal[o].row => docs'[k][r] = docs[k][r]
  BY <1>8, <1>9, <1>12 DEF rec
<1> QED
  BY <1>2, <1>3, <1>4, <1>6, <1>7, <1>9, <1>10, <1>11, <1>15, <1>16, <1>17

(* A document that is written covers its record, in the index it goes to.     *)
LEMMA WriteStep ==
  ASSUME ProjectionInv, NEW w \in Workers, NEW t \in Indices \cup {Live}, WriteDocument(w, t)
  PROVE  ProjectionInv'
<1>1. Shape /\ WalInOrder /\ TableIsLast /\ BatchFromWal /\ Serving /\ Discovery
      /\ OffsetsInOrder /\ ServedIsCovered /\ CopiedIsReached
  BY DEF ProjectionInv
<1>2. PICK i, o : i = Resolved(t) /\ o = worker[w].off
  OBVIOUS
<1>3. /\ i \in Indices /\ o \in 1..Len(wal) /\ exists' = exists \cup {i}
      /\ UNCHANGED <<pg, wal, shipped, committed, alias, target, early, job, owners>>
      /\ DocsFromWal' /\ docs' \in [Indices -> [Rows -> DocType]]
      /\ \A k \in Indices, n \in 1..Len(wal) : Covers(k, n) => Covers(k, n)'
      /\ ~Unversioned(wal[o]) => docs'[i][wal[o].row].ver >= ExternalVersion(wal[o].after)
      /\ worker' \in [Workers -> WorkerType]
  BY <1>2, WriteFacts
<1>4. /\ \A v \in Workers \ {w} : worker'[v] = worker[v]
      /\ worker'[w].pc = worker[w].pc /\ worker'[w].off = worker[w].off
      /\ worker'[w].valid = worker[w].valid /\ worker'[w].cached = worker[w].cached
  BY <1>2, WriteFacts
<1>5. /\ \A n \in 1..Len(wal) : Served(n)' => Served(n) \/ (n = o /\ i = alias)
      /\ \A n \in 1..Len(wal) : Copied(n)' => Copied(n) \/ (n = o /\ i = job.new)
  BY <1>2, WriteFacts
<1>6. Shape'
  BY <1>1, <1>3 DEF Shape
<1>7. WalInOrder' /\ TableIsLast' /\ BatchFromWal'
  BY <1>1, <1>3 DEF WalInOrder, TableIsLast, BatchFromWal, JobAt
<1>8. Serving'
  BY <1>1, <1>3 DEF Serving, Building, Registered, JobAt
<1>9. Discovery' /\ OffsetsInOrder'
  BY <1>1, <1>3, <1>4 DEF Discovery, Knows, Registered, Scanning, OffsetsInOrder, Busy
<1>10. Alive(o)' => Covers(i, o)'
  <2>1. Alive(o) => ~Unversioned(wal[o])
    BY <1>1, <1>3 DEF Alive, TableIsLast, Unversioned
  <2> QED
    BY <1>3, <2>1 DEF Covers, Alive
<1>11. ServedIsCovered'
  <2> SUFFICES ASSUME NEW n \in 1..Len(wal), Served(n)', Alive(n)' PROVE Covers(alias, n)'
    BY <1>3 DEF ServedIsCovered
  <2>1. CASE Served(n)
    <3>1. Covers(alias, n)
      BY <1>1, <1>3, <2>1 DEF ServedIsCovered, Alive
    <3> QED
      BY <1>1, <1>3, <3>1 DEF Covers, Shape
  <2>2. CASE n = o /\ i = alias
    BY <1>3, <1>10, <2>2 DEF Covers
  <2> QED
    BY <1>5, <2>1, <2>2
<1>12. CopiedIsReached'
  <2> SUFFICES ASSUME Scanning, NEW n \in 1..Len(wal), Copied(n)', Alive(n)'
               PROVE  Covers(job.new, n)' \/ Ahead(n)'
    BY <1>3 DEF CopiedIsReached, Scanning
  <2>1. Alive(n) /\ (Ahead(n) => Ahead(n)') /\ job' = job /\ job.new \in Indices
    BY <1>1, <1>3, ShapeFacts DEF Alive, Ahead, JobAt
  <2>2. CASE Copied(n)
    <3>1. Covers(job.new, n) \/ Ahead(n)
      BY <1>1, <2>1, <2>2 DEF CopiedIsReached
    <3> QED
      BY <1>3, <2>1, <3>1 DEF Covers
  <2>3. CASE n = o /\ i = job.new
    BY <1>3, <1>10, <2>1, <2>3 DEF Covers
  <2> QED
    BY <1>5, <2>2, <2>3
<1> QED
  BY <1>3, <1>6, <1>7, <1>8, <1>9, <1>11, <1>12 DEF ProjectionInv

-----------------------------------------------------------------------------
(* The reindex job.                                                           *)

(* What no step of the job disturbs.                                          *)
LEMMA JobFrame ==
  ASSUME ProjectionInv, UNCHANGED <<pg, wal, shipped, committed, worker, owners>>,
         job' \in JobType(job'.batch), docs' \in [Indices -> [Rows -> DocType]],
         exists' \subseteq Indices, alias' \in Indices, target' \in Indices \cup {None},
         early' \subseteq Workers
  PROVE  Shape' /\ WalInOrder' /\ TableIsLast' /\ OffsetsInOrder'
<1>1. Shape /\ WalInOrder /\ TableIsLast /\ OffsetsInOrder
  BY DEF ProjectionInv
<1>2. Shape'
  BY <1>1 DEF Shape
<1>3. WalInOrder' /\ TableIsLast'
  BY <1>1 DEF WalInOrder, TableIsLast
<1>4. OffsetsInOrder'
  BY <1>1 DEF OffsetsInOrder, Busy
<1> QED
  BY <1>2, <1>3, <1>4

(* A step that leaves the serving index and its documents alone.              *)
LEMMA ServingKept ==
  ASSUME ProjectionInv, UNCHANGED <<pg, wal, committed, worker, alias>>, docs'[alias] = docs[alias]
  PROVE  ServedIsCovered'
  BY DEF ProjectionInv, ServedIsCovered, Served, WrittenBut, Alive, Covers

(* A job that returns is idle, and keeps the last index name.                 *)
LEMMA JobRecords ==
  ASSUME Shape, JobReturns
  PROVE  job' \in JobType(job'.batch) /\ job'.pc = "idle" /\ job'.new = job.new /\ job'.last = 0
<1>1. 1 \in Indices /\ job.new \in Indices /\ "idle" \in JobSteps
  BY ProjectionAssumption, ShapeFacts DEF Indices, JobSteps
<1> QED
  BY <1>1 DEF JobReturns, SetJob, IdleJob, JobType

(* An index that serves is not the one that is dropped.                       *)
LEMMA DropStep ==
  ASSUME ProjectionInv, NEW i \in Indices, i # alias, DropIndex(i), JobReturns,
         UNCHANGED <<pg, wal, shipped, committed, alias, worker, early, owners>>
  PROVE  ProjectionInv'
<1>1. Shape /\ DocsFromWal /\ Serving
  BY DEF ProjectionInv
<1>2. /\ exists' = exists \ {i} /\ docs' = [docs EXCEPT ![i] = EmptyIndex]
      /\ target' = IF target = i THEN None ELSE target
  BY DEF DropIndex
<1>3. EmptyIndex \in [Rows -> DocType] /\ \A r \in Rows : EmptyIndex[r] = NoDoc
  BY Versions DEF EmptyIndex
<1>4. /\ docs' \in [Indices -> [Rows -> DocType]] /\ docs'[i] = EmptyIndex
      /\ \A k \in Indices \ {i} : docs'[k] = docs[k]
  BY <1>1, <1>2, <1>3 DEF Shape
<1>5. job' \in JobType(job'.batch) /\ job'.pc = "idle" /\ job'.new = job.new /\ job'.last = 0
  BY <1>1, JobRecords DEF Shape
<1>6. Shape' /\ WalInOrder' /\ TableIsLast' /\ OffsetsInOrder'
  BY <1>1, <1>2, <1>4, <1>5, JobFrame DEF Shape
<1>7. DocsFromWal'
  BY <1>1, <1>3, <1>4 DEF DocsFromWal, Made, Unversioned, Transform, ExternalVersion
<1>8. BatchFromWal' /\ Discovery' /\ CopiedIsReached'
  BY <1>5 DEF BatchFromWal, Discovery, CopiedIsReached, JobAt, Registered, Scanning
<1>9. Serving'
  BY <1>1, <1>2, <1>5 DEF Serving, Building, Registered, JobAt
<1>10. ServedIsCovered'
  BY <1>1, <1>4, ServingKept DEF Shape
<1> QED
  BY <1>6, <1>7, <1>8, <1>9, <1>10 DEF ProjectionInv

(* The steps that copy nothing and swap nothing.                              *)
LEMMA QuietJobSteps ==
  ASSUME ProjectionInv,
         \/ CreateIndex \/ SetReindexTarget \/ ClearReindexTarget \/ JobFails
         \/ ClearOwnTarget \/ CheckServing \/ JobEnds
  PROVE  ProjectionInv'
<1>1. Shape /\ DocsFromWal /\ BatchFromWal /\ Serving /\ Discovery
  BY DEF ProjectionInv
<1>2. /\ UNCHANGED <<pg, wal, shipped, committed, docs, alias, worker, owners>>
      /\ job.new \in Indices /\ job.old \in Indices /\ job \in JobType(job.batch)
  BY <1>1 DEF CreateIndex, SetReindexTarget, ClearReindexTarget, JobFails, ClearOwnTarget, CheckServing,
     JobEnds, Shape, JobType
<1>3. DocsFromWal' /\ ServedIsCovered'
  BY <1>1, <1>2, ServingKept, DocsKept
<1>4. /\ job' \in JobType(job'.batch) /\ exists' \subseteq Indices /\ early' \subseteq Workers
      /\ target' \in Indices \cup {None}
      /\ job'.pc \notin {"bulk", "scan", "copied", "refreshed"} /\ Serving' /\ Discovery'
  <2>1. CASE CreateIndex
    <3>1. /\ job' = [job EXCEPT !.pc = "created", !.new = job.new + 1, !.old = alias] /\ job.new < MaxIndices
          /\ exists' = exists \cup {job.new + 1} /\ UNCHANGED <<target, early>> /\ job.pc = "idle"
      BY <2>1 DEF CreateIndex, SetJob, JobAt
    <3>2. job.new + 1 \in Indices /\ job.new \in Nat /\ alias \in Indices /\ alias \in Nat
      BY <1>1, <1>2, <3>1, ProjectionAssumption DEF Indices, Shape
    <3>3. /\ job' \in JobType(job.batch) /\ job'.pc = "created" /\ job'.new = job.new + 1
          /\ job'.old = alias /\ job'.last = job.last /\ job'.batch = job.batch
      BY <1>2, <3>1, <3>2 DEF JobType, JobSteps
    <3>4. Serving'
      BY <1>1, <1>2, <3>1, <3>2, <3>3 DEF Serving, Building, Registered, JobAt
    <3> QED
      BY <1>1, <3>1, <3>2, <3>3, <3>4 DEF Shape, Discovery, Registered, Scanning
  <2>2. CASE SetReindexTarget
    <3>1. /\ job' = [job EXCEPT !.pc = "grace"] /\ job.pc = "created" /\ target' = job.new
          /\ early' = {w \in Workers : worker[w].valid} /\ exists' = exists
      BY <2>2 DEF SetReindexTarget, SetJob, JobAt
    <3>2. /\ job' \in JobType(job.batch) /\ job'.pc = "grace" /\ job'.new = job.new
          /\ job'.old = job.old /\ job'.last = job.last /\ job'.batch = job.batch
      BY <1>2, <3>1 DEF JobType, JobSteps
    <3>3. Serving'
      BY <1>1, <1>2, <3>1, <3>2 DEF Serving, Building, Registered, JobAt
    <3>4. Discovery'
      BY <1>2, <3>1, <3>2 DEF Discovery, Registered, Scanning, Knows
    <3> QED
      BY <1>1, <1>2, <3>1, <3>2, <3>3, <3>4 DEF Shape
  <2>3. CASE ClearReindexTarget
    <3>1. /\ job' = [job EXCEPT !.pc = "cleared"] /\ job.pc = "swapped" /\ target' = None
          /\ UNCHANGED <<early, exists>>
      BY <2>3 DEF ClearReindexTarget, SetJob, JobAt
    <3>2. /\ job' \in JobType(job.batch) /\ job'.pc = "cleared" /\ job'.new = job.new
          /\ job'.old = job.old /\ job'.last = job.last /\ job'.batch = job.batch
      BY <1>2, <3>1 DEF JobType, JobSteps
    <3>3. Serving' /\ Discovery'
      BY <1>1, <1>2, <3>1, <3>2 DEF Serving, Building, Registered, JobAt, Discovery, Scanning
    <3> QED
      BY <1>1, <3>1, <3>2, <3>3 DEF Shape
  <2>4. CASE JobFails
    <3>1. /\ job' = [job EXCEPT !.pc = "cleanup", !.last = 0, !.batch = <<>>]
          /\ UNCHANGED <<early, exists, target>>
      BY <2>4 DEF JobFails, SetJob
    <3>2. job' \in JobType(<<>>) /\ job'.pc = "cleanup" /\ job'.new = job.new /\ job'.batch = <<>>
      BY <1>2, <3>1 DEF JobType, JobSteps
    <3>3. Serving' /\ Discovery'
      BY <1>1, <1>2, <3>1, <3>2 DEF Serving, Building, Registered, JobAt, Discovery, Scanning
    <3> QED
      BY <1>1, <3>1, <3>2, <3>3 DEF Shape
  <2>5. CASE ClearOwnTarget
    <3>1. /\ job' = [job EXCEPT !.pc = "unregistered"] /\ UNCHANGED <<early, exists>>
          /\ target' = IF target = job.new THEN None ELSE target
      BY <2>5 DEF ClearOwnTarget, SetJob
    <3>2. job' \in JobType(job.batch) /\ job'.pc = "unregistered" /\ job'.new = job.new
          /\ job'.batch = job.batch
      BY <1>2, <3>1 DEF JobType, JobSteps
    <3>3. Serving' /\ Discovery'
      BY <1>1, <1>2, <3>1, <3>2 DEF Serving, Building, Registered, JobAt, Discovery, Scanning
    <3> QED
      BY <1>1, <3>1, <3>2, <3>3 DEF Shape
  <2>6. CASE JobEnds
    <3>1. JobReturns /\ UNCHANGED <<early, exists, target>>
      BY <2>6 DEF JobEnds
    <3>2. job' \in JobType(job'.batch) /\ job'.pc = "idle" /\ job'.new = job.new /\ job'.last = 0
      BY <1>1, <3>1, JobRecords DEF Shape
    <3>3. Serving' /\ Discovery'
      BY <1>1, <1>2, <3>1, <3>2 DEF Serving, Building, Registered, JobAt, Discovery, Scanning
    <3> QED
      BY <1>1, <3>1, <3>2, <3>3 DEF Shape
  <2>7. CASE CheckServing /\ alias # job.new
    <3>1. job' = [job EXCEPT !.pc = "unserved"] /\ UNCHANGED <<early, exists, target>>
      BY <2>7 DEF CheckServing, SetJob
    <3>2. job' \in JobType(job.batch) /\ job'.pc = "unserved" /\ job'.new = job.new
          /\ job'.batch = job.batch
      BY <1>2, <3>1 DEF JobType, JobSteps
    <3>3. Serving' /\ Discovery'
      BY <1>1, <1>2, <2>7, <3>1, <3>2 DEF Serving, Building, Registered, JobAt, Discovery, Scanning
    <3> QED
      BY <1>1, <3>1, <3>2, <3>3 DEF Shape
  <2>8. CASE CheckServing /\ alias = job.new
    <3>1. JobEnds
      BY <2>8 DEF CheckServing, JobEnds, JobAt
    <3> QED
      BY <2>6, <3>1
  <2> QED
    BY <2>1, <2>2, <2>3, <2>4, <2>5, <2>6, <2>7, <2>8
<1>5. Shape' /\ WalInOrder' /\ TableIsLast' /\ OffsetsInOrder'
  BY <1>1, <1>2, <1>4, JobFrame DEF Shape
<1>6. BatchFromWal' /\ CopiedIsReached'
  BY <1>4 DEF BatchFromWal, CopiedIsReached, Scanning, JobAt
<1> QED
  BY <1>3, <1>4, <1>5, <1>6 DEF ProjectionInv

(* A scan that reads no row has read them all, and a batch is the first part  *)
(* of what is left.                                                           *)
LEMMA FirstBatchFacts ==
  ASSUME Shape
  PROVE  /\ FirstBatch \subseteq Remaining /\ Remaining \subseteq Rows
         /\ FirstBatch = {} => Remaining = {}
         /\ \A r \in Remaining \ FirstBatch, q \in FirstBatch : r > q
<1> DEFINE Before(r) == {q \in Remaining : q < r}
<1>1. /\ FirstBatch \subseteq Remaining /\ Remaining \subseteq Rows /\ Remaining \subseteq Nat
      /\ Rows \subseteq Nat
  BY ProjectionAssumption DEF FirstBatch, Remaining
<1>2. BatchSize \in Nat /\ BatchSize > 0
  BY ProjectionAssumption
<1>3. \A r : IsFiniteSet(Before(r))
  <2>1. IsFiniteSet(Rows)
    BY SearchAssumption
  <2>2. \A r : Before(r) \subseteq Rows
    BY <1>1
  <2> QED
    BY <2>1, <2>2, FS_Subset
<1>4. ASSUME Remaining # {} PROVE FirstBatch # {}
  <2>1. PICK r \in Remaining : \A q \in Remaining : ~(<<q, r>> \in OpToRel(<, Nat))
    BY <1>1, <1>4, NatLessThanWellFounded, WFMin
  <2>2. \A q \in Remaining : ~(q < r)
    BY <1>1, <2>1 DEF OpToRel
  <2>3. Before(r) = {}
    BY <2>2
  <2>4. Cardinality(Before(r)) = 0
    BY <2>3, FS_EmptySet
  <2> QED
    BY <1>2, <2>4 DEF FirstBatch
<1>5. ASSUME NEW r \in Remaining \ FirstBatch, NEW q \in FirstBatch PROVE r > q
  <2>1. q \in Remaining /\ Cardinality(Before(q)) < BatchSize
    BY DEF FirstBatch
  <2>2. ~(Cardinality(Before(r)) < BatchSize)
    BY DEF FirstBatch
  <2>3. r \in Nat /\ q \in Nat /\ r # q
    BY <1>1, <2>1
  <2>4. SUFFICES ASSUME r < q PROVE FALSE
    BY <2>3
  <2>5. Before(r) \subseteq Before(q)
    <3>1. ASSUME NEW p \in Remaining, p < r PROVE p < q
      <4>1. p \in Nat
        BY <1>1
      <4> QED
        BY <2>3, <2>4, <3>1, <4>1
    <3> QED
      BY <3>1
  <2>6. Cardinality(Before(r)) <= Cardinality(Before(q))
    BY <1>3, <2>5, FS_Subset
  <2>7. Cardinality(Before(r)) \in Nat /\ Cardinality(Before(q)) \in Nat
    BY <1>3, FS_CardinalityType
  <2> QED
    BY <1>2, <2>1, <2>2, <2>6, <2>7
<1> QED
  BY <1>1, <1>4, <1>5

(* The grace, the scan and the swap.                                          *)
LEMMA CopySteps ==
  ASSUME ProjectionInv, GraceEnds \/ ReadBatch \/ BulkIndex \/ RefreshNewIndex \/ SwapAlias
  PROVE  ProjectionInv'
<1>1. Shape /\ WalInOrder /\ TableIsLast /\ DocsFromWal /\ BatchFromWal /\ Serving /\ Discovery
      /\ OffsetsInOrder /\ ServedIsCovered /\ CopiedIsReached
  BY DEF ProjectionInv
<1>2. job.new \in Indices /\ job.old \in Indices /\ job \in JobType(job.batch) /\ alias \in Indices
  BY <1>1 DEF Shape, JobType
<1>3. CASE GraceEnds
  <2>1. /\ job' = [job EXCEPT !.pc = "scan"] /\ job.pc = "grace" /\ early = {}
        /\ UNCHANGED <<pg, wal, shipped, committed, docs, exists, alias, target, worker, early, owners>>
    BY <1>3 DEF GraceEnds, SetJob, JobAt
  <2>2. /\ job' \in JobType(job.batch) /\ job'.pc = "scan" /\ job'.new = job.new
        /\ job'.old = job.old /\ job'.last = job.last /\ job'.batch = job.batch
    BY <1>2, <2>1 DEF JobType, JobSteps
  <2>3. Shape' /\ WalInOrder' /\ TableIsLast' /\ OffsetsInOrder' /\ DocsFromWal' /\ ServedIsCovered'
    BY <1>1, <2>1, <2>2, JobFrame, ServingKept, DocsKept DEF Shape
  <2>4. BatchFromWal' /\ Serving' /\ Discovery'
    BY <1>1, <2>1, <2>2 DEF BatchFromWal, Serving, Building, Registered, JobAt, Discovery, Scanning, Knows
  <2>5. job.last = 0
    BY <1>1, <2>1 DEF Serving
  <2>6. \A n \in 1..Len(wal) : wal[n].row > 0
    <3>1. \A r \in Rows : r > 0
      BY ProjectionAssumption
    <3> QED
      BY <1>1, <3>1, ShapeFacts
  <2>7. CopiedIsReached'
    BY <2>1, <2>2, <2>5, <2>6 DEF CopiedIsReached, Ahead, JobAt
  <2> QED
    BY <2>3, <2>4, <2>7 DEF ProjectionInv
<1>4. CASE ReadBatch
  <2>1. /\ job.pc = "scan"
        /\ IF FirstBatch = {}
           THEN job' = [job EXCEPT !.pc = "copied"]
           ELSE job' = [job EXCEPT !.pc = "bulk", !.batch = [r \in FirstBatch |-> pg[r]]]
        /\ UNCHANGED <<pg, wal, shipped, committed, docs, exists, alias, target, worker, early, owners>>
    BY <1>4 DEF ReadBatch, SetJob, JobAt
  <2>2. /\ job' \in JobType(job'.batch) /\ job'.new = job.new /\ job'.old = job.old
        /\ job'.last = job.last
        /\ FirstBatch = {} => job'.pc = "copied" /\ job'.batch = job.batch
        /\ FirstBatch # {} => job'.pc = "bulk" /\ job'.batch = [r \in FirstBatch |-> pg[r]]
    BY <1>2, <2>1 DEF JobType, JobSteps
  <2>3. Shape' /\ WalInOrder' /\ TableIsLast' /\ OffsetsInOrder' /\ DocsFromWal' /\ ServedIsCovered'
    BY <1>1, <2>1, <2>2, JobFrame, ServingKept, DocsKept DEF Shape
  <2>4. Serving' /\ Discovery'
    BY <1>1, <2>1, <2>2 DEF Serving, Building, Registered, JobAt, Discovery, Scanning, Knows
  <2>5. \A r \in FirstBatch : pg[r] \in RowType /\ r \in Rows /\ pg[r] # NoRow
    BY <1>1, ShapeFacts, FirstBatchFacts, Versions DEF Remaining
  <2>6. BatchFromWal'
    <3> SUFFICES ASSUME job'.pc = "bulk"
                 PROVE  /\ job'.batch \in [DOMAIN job'.batch -> RowType] /\ DOMAIN job'.batch \subseteq Rows
                        /\ \A r \in DOMAIN job'.batch :
                               \E n \in 1..Len(wal) : wal[n].row = r /\ wal[n].after = job'.batch[r]
      BY <2>1 DEF BatchFromWal, JobAt
    <3>1. job'.batch = [r \in FirstBatch |-> pg[r]]
      BY <2>2
    <3>2. \A r \in FirstBatch : \E n \in 1..Len(wal) : wal[n].row = r /\ wal[n].after = pg[r]
      BY <1>1, <2>5 DEF TableIsLast
    <3> QED
      BY <2>5, <3>1, <3>2
  <2>7. CopiedIsReached'
    <3> SUFFICES ASSUME NEW n \in 1..Len(wal), Copied(n)', Alive(n)', ~Covers(job.new, n)
                 PROVE  Ahead(n)'
      BY <2>1, <2>2 DEF CopiedIsReached, Covers
    <3>1. Copied(n) /\ Alive(n) /\ Scanning
      BY <2>1, <2>2 DEF Copied, Alive, WrittenBut, Scanning
    <3>2. wal[n].row > job.last
      BY <1>1, <2>1, <3>1 DEF CopiedIsReached, Ahead, JobAt
    <3>3. wal[n].row \in Remaining
      BY <1>1, <3>1, <3>2, ShapeFacts DEF Remaining, Alive
    <3>4. FirstBatch # {}
      BY <1>1, <3>3, FirstBatchFacts
    <3>5. job'.pc = "bulk" /\ job'.batch = [r \in FirstBatch |-> pg[r]] /\ wal' = wal
      BY <2>1, <2>2, <3>4
    <3>6. CASE wal[n].row \in FirstBatch
      <4>1. ExternalVersion(pg[wal[n].row]) >= ExternalVersion(wal[n].after)
        <5>1. ExternalVersion(wal[n].after) <= ExternalVersion(pg[wal[n].row])
          BY <1>1 DEF TableIsLast
        <5>2. ExternalVersion(wal[n].after) \in Nat /\ ExternalVersion(pg[wal[n].row]) \in Nat
          BY <1>1, <2>5, <3>6, ShapeFacts, Versions
        <5> QED
          BY <5>1, <5>2
      <4>2. wal[n].row \in DOMAIN job'.batch /\ job'.batch[wal[n].row] = pg[wal[n].row]
        BY <3>5, <3>6
      <4>3. ExternalVersion(job'.batch[wal'[n].row]) >= ExternalVersion(wal'[n].after)
        BY <3>5, <4>1, <4>2
      <4> QED
        BY <3>5, <4>2, <4>3 DEF Ahead, JobAt
    <3>7. CASE wal[n].row \notin FirstBatch
      <4>1. \A q \in FirstBatch : wal[n].row > q
        BY <1>1, <3>3, <3>7, FirstBatchFacts
      <4>2. \A q \in DOMAIN job'.batch : wal'[n].row > q
        BY <3>5, <4>1
      <4> QED
        BY <3>5, <4>2 DEF Ahead, JobAt
    <3> QED
      BY <3>6, <3>7
  <2> QED
    BY <2>3, <2>4, <2>6, <2>7 DEF ProjectionInv
<1>5. CASE BulkIndex
  <2> DEFINE b == job.batch
  <2>1. /\ job.pc = "bulk" /\ docs' = [docs EXCEPT ![job.new] = BulkIndexed(job.new)]
        /\ UNCHANGED <<pg, wal, shipped, committed, exists, alias, target, worker, early, owners>>
    BY <1>5 DEF BulkIndex, JobAt
  <2>2. PICK last \in DOMAIN b :
            /\ \A r \in DOMAIN b : r <= last
            /\ job' = [job EXCEPT !.pc = "scan", !.last = last, !.batch = <<>>]
    BY <1>5 DEF BulkIndex, SetJob
  <2>3. /\ b \in [DOMAIN b -> RowType] /\ DOMAIN b \subseteq Rows
        /\ \A r \in DOMAIN b : \E n \in 1..Len(wal) : wal[n].row = r /\ wal[n].after = b[r]
    BY <1>1, <2>1 DEF BatchFromWal, JobAt
  <2>4. last \in Nat /\ Rows \subseteq Nat
    BY <2>3, ProjectionAssumption
  <2>5. /\ job' \in JobType(<<>>) /\ job'.pc = "scan" /\ job'.new = job.new /\ job'.old = job.old
        /\ job'.last = last /\ job'.batch = <<>>
    BY <1>2, <2>2, <2>4 DEF JobType, JobSteps
  <2>6. \A r \in Rows : docs'[job.new][r] = IF r \in DOMAIN b
                                            THEN Upsert(docs[job.new][r], Transform(b[r]))
                                            ELSE docs[job.new][r]
    BY <1>1, <1>2, <2>1 DEF BulkIndexed, Shape
  <2>7. \A k \in Indices \ {job.new} : docs'[k] = docs[k]
    BY <1>1, <2>1 DEF Shape
  <2>8. /\ DocsFromWal'
        /\ \A k \in Indices, r \in Rows : docs'[k][r] \in DocType /\ docs'[k][r].ver >= docs[k][r].ver
        /\ \A k \in Indices, n \in 1..Len(wal) : Covers(k, n) => Covers(k, n)'
    <3>1. \A k \in Indices, r \in Rows :
             \/ docs'[k][r] = docs[k][r]
             \/ \E n \in 1..Len(wal) :
                    /\ wal[n].row = r
                    /\ docs'[k][r] \in {Upsert(docs[k][r], Transform(wal[n].after)),
                                       Written(docs[k][r], wal[n])}
      BY <2>3, <2>6, <2>7
    <3> QED
      BY <2>1, <3>1, DocsGrow
  <2>9. docs' \in [Indices -> [Rows -> DocType]]
    <3>1. docs'[job.new] \in [Rows -> DocType]
      <4>1. docs'[job.new] = [r \in Rows |-> docs'[job.new][r]]
        BY <1>1, <1>2, <2>1 DEF Shape, BulkIndexed
      <4> QED
        BY <1>2, <2>8, <4>1
    <3>2. docs' = [k \in Indices |-> docs'[k]]
      BY <1>1, <2>1 DEF Shape
    <3> QED
      BY <1>1, <2>7, <3>1, <3>2 DEF Shape
  <2>10. job.new # alias
    BY <1>1, <1>2, <2>1, ShapeFacts DEF Serving, Building, Registered
  <2>11. Shape' /\ WalInOrder' /\ TableIsLast' /\ OffsetsInOrder' /\ ServedIsCovered'
    BY <1>1, <1>2, <2>1, <2>5, <2>7, <2>9, <2>10, JobFrame, ServingKept DEF Shape
  <2>12. BatchFromWal' /\ Serving' /\ Discovery'
    BY <1>1, <2>1, <2>5 DEF BatchFromWal, Serving, Building, Registered, JobAt, Discovery, Scanning, Knows
  <2>13. CopiedIsReached'
    <3> SUFFICES ASSUME NEW n \in 1..Len(wal), Copied(n)', Alive(n)'
                 PROVE  Covers(job.new, n)' \/ Ahead(n)'
      BY <2>1 DEF CopiedIsReached
    <3>1. Copied(n) /\ Alive(n) /\ Scanning
      BY <2>1, <2>5 DEF Copied, Alive, WrittenBut, Scanning
    <3>2. Covers(job.new, n) \/ Ahead(n)
      BY <1>1, <3>1 DEF CopiedIsReached
    <3>3. CASE Covers(job.new, n)
      BY <1>2, <2>5, <2>8, <3>3 DEF Covers
    <3>4. CASE \A q \in DOMAIN b : wal[n].row > q
      BY <2>1, <2>5, <3>4 DEF Ahead, JobAt
    <3>5. CASE wal[n].row \in DOMAIN b /\ ExternalVersion(b[wal[n].row]) >= ExternalVersion(wal[n].after)
      <4> DEFINE r == wal[n].row
      <4>1. r \in Rows /\ b[r] \in RowType
        BY <2>3, <3>5
      <4>2. /\ docs[job.new][r] \in DocType /\ Transform(b[r]) \in DocType
            /\ Transform(b[r]).ver = ExternalVersion(b[r]) /\ ExternalVersion(b[r]) \in Nat
            /\ ExternalVersion(wal[n].after) \in Nat
        BY <1>1, <1>2, <4>1, ShapeFacts, Versions
      <4>3. docs'[job.new][r] = Upsert(docs[job.new][r], Transform(b[r]))
        BY <2>6, <3>5, <4>1
      <4>4. docs'[job.new][r] \in DocType /\ docs'[job.new][r].ver >= ExternalVersion(b[r])
        BY <4>2, <4>3, UpsertKeepsNewer
      <4>5. docs'[job.new][r].ver \in Nat
        BY <4>4 DEF DocType
      <4>6. docs'[job'.new][wal'[n].row].ver >= ExternalVersion(wal'[n].after)
        BY <2>1, <2>5, <3>5, <4>2, <4>4, <4>5
      <4> QED
        BY <4>6 DEF Covers
    <3> QED
      BY <2>1, <3>2, <3>3, <3>4, <3>5 DEF Ahead, JobAt
  <2> QED
    BY <2>8, <2>11, <2>12, <2>13 DEF ProjectionInv
<1>7. CASE RefreshNewIndex
  <2>1. /\ job' = [job EXCEPT !.pc = "refreshed"] /\ job.pc = "copied"
        /\ UNCHANGED <<pg, wal, shipped, committed, docs, exists, alias, target, worker, early, owners>>
    BY <1>7 DEF RefreshNewIndex, SetJob, JobAt
  <2>2. /\ job' \in JobType(job.batch) /\ job'.pc = "refreshed" /\ job'.new = job.new
        /\ job'.old = job.old /\ job'.last = job.last /\ job'.batch = job.batch
    BY <1>2, <2>1 DEF JobType, JobSteps
  <2>3. Shape' /\ WalInOrder' /\ TableIsLast' /\ OffsetsInOrder' /\ DocsFromWal' /\ ServedIsCovered'
    BY <1>1, <2>1, <2>2, JobFrame, ServingKept, DocsKept DEF Shape
  <2>4. BatchFromWal' /\ Serving' /\ Discovery'
    BY <1>1, <2>1, <2>2 DEF BatchFromWal, Serving, Building, Registered, JobAt, Discovery, Scanning, Knows
  <2>5. CopiedIsReached'
    <3> SUFFICES ASSUME NEW n \in 1..Len(wal), Copied(n)', Alive(n)' PROVE Covers(job.new, n)'
      BY <2>1 DEF CopiedIsReached
    <3>1. Copied(n) /\ Alive(n) /\ Scanning
      BY <2>1, <2>2 DEF Copied, WrittenBut, Alive, Scanning
    <3>2. Covers(job.new, n)
      BY <1>1, <2>1, <3>1 DEF CopiedIsReached, Ahead, JobAt
    <3> QED
      BY <2>1, <2>2, <3>2 DEF Covers
  <2> QED
    BY <2>3, <2>4, <2>5 DEF ProjectionInv
<1>6. CASE SwapAlias
  <2>1. /\ job' = [job EXCEPT !.pc = "swapped"] /\ job.pc = "refreshed" /\ alias' = job.new
        /\ UNCHANGED <<pg, wal, shipped, committed, docs, exists, target, worker, early, owners>>
    BY <1>6 DEF SwapAlias, SetJob, JobAt
  <2>2. /\ job' \in JobType(job.batch) /\ job'.pc = "swapped" /\ job'.new = job.new
        /\ job'.old = job.old /\ job'.last = job.last /\ job'.batch = job.batch
    BY <1>2, <2>1 DEF JobType, JobSteps
  <2>3. Shape' /\ WalInOrder' /\ TableIsLast' /\ OffsetsInOrder' /\ DocsFromWal'
    BY <1>1, <1>2, <2>1, <2>2, JobFrame, DocsKept DEF Shape
  <2>4. BatchFromWal' /\ CopiedIsReached' /\ Discovery'
    BY <2>2 DEF BatchFromWal, CopiedIsReached, Discovery, JobAt, Registered, Scanning
  <2>5. Serving'
    BY <1>1, <1>2, <2>1, <2>2, ShapeFacts DEF Serving, Building, Registered, JobAt
  <2>6. ServedIsCovered'
    <3> SUFFICES ASSUME NEW n \in 1..Len(wal), Served(n)', Alive(n)' PROVE Covers(alias, n)'
      BY <2>1 DEF ServedIsCovered
    <3>1. Copied(n) /\ Alive(n) /\ Scanning
      BY <2>1, <2>2 DEF Served, Copied, WrittenBut, Alive, Scanning
    <3>2. Covers(job.new, n)
      BY <1>1, <2>1, <3>1 DEF CopiedIsReached, Ahead, JobAt
    <3> QED
      BY <2>1, <3>2 DEF Covers
  <2> QED
    BY <2>3, <2>4, <2>5, <2>6 DEF ProjectionInv
<1> QED
  BY <1>3, <1>4, <1>5, <1>6, <1>7

(* Every step of the job keeps the invariant.                                 *)
LEMMA JobKeepsInv ==
  ASSUME ProjectionInv, JobStep
  PROVE  ProjectionInv'
<1>1. Shape /\ Serving
  BY DEF ProjectionInv
<1>2. CASE DeleteOldIndex
  <2>1. job.old \in Indices /\ job.old # alias
    BY <1>1, <1>2, ShapeFacts DEF DeleteOldIndex, JobAt, Serving
  <2> QED
    BY <1>2, <2>1, DropStep DEF DeleteOldIndex
<1>3. CASE DeleteUnservedIndex
  <2>1. job.new \in Indices /\ job.new # alias
    BY <1>1, <1>3, ShapeFacts DEF DeleteUnservedIndex, Serving
  <2> QED
    BY <1>3, <2>1, DropStep DEF DeleteUnservedIndex
<1> QED
  BY <1>2, <1>3, QuietJobSteps, CopySteps DEF JobStep

-----------------------------------------------------------------------------
(* The projection keeps its invariant.                                        *)

(* The rows of the start are indexed, and no job has run.                     *)
LEMMA InitInv ==
  ASSUME Init
  PROVE  ProjectionInv
<1>1. PICK k \in Seeds : \E tag \in [1..k -> Tags] :
           /\ pg = [r \in Rows |-> IF r \in 1..k THEN Born(tag[r]) ELSE NoRow]
           /\ wal = [r \in 1..k |-> Insertion(r, tag[r])]
           /\ docs = [i \in Indices |-> [r \in Rows |->
                          IF i = 1 /\ r \in 1..k THEN Transform(Born(tag[r])) ELSE NoDoc]]
           /\ shipped = k /\ committed = k
           /\ shown = [i \in Indices |-> View(docs[i], IF i = 1 THEN k ELSE 0)]
  BY DEF Init
<1>2. PICK tag \in [1..k -> Tags] :
           /\ pg = [r \in Rows |-> IF r \in 1..k THEN Born(tag[r]) ELSE NoRow]
           /\ wal = [r \in 1..k |-> Insertion(r, tag[r])]
           /\ docs = [i \in Indices |-> [r \in Rows |->
                          IF i = 1 /\ r \in 1..k THEN Transform(Born(tag[r])) ELSE NoDoc]]
           /\ shipped = k /\ committed = k
  BY <1>1
<1>3. /\ exists = {1} /\ alias = 1 /\ target = None /\ worker = [w \in Workers |-> IdleWorker]
      /\ early = {} /\ job = IdleJob /\ owners = {}
  BY DEF Init
<1>4. k \in Nat /\ 1..k \subseteq Rows /\ 1 \in Indices /\ Rows \subseteq Nat
  BY ProjectionAssumption DEF Indices
<1>5. \A r \in 1..k : Born(tag[r]) \in RowType /\ Born(tag[r]).live
  BY <1>2 DEF Born, RowType
<1>6. /\ wal \in Seq(RecordType) /\ Len(wal) = k
      /\ \A n \in 1..k : wal[n].row = n /\ wal[n].after = Born(tag[n])
  <2>1. \A n \in 1..k : /\ wal[n] = [row |-> n, after |-> Born(tag[n])] /\ wal[n] \in RecordType
    BY <1>2, <1>4, <1>5 DEF Insertion, RecordType
  <2>2. wal = [n \in 1..k |-> wal[n]]
    BY <1>2
  <2>3. wal \in [1..k -> RecordType]
    BY <2>1, <2>2
  <2>4. wal \in Seq(RecordType) /\ Len(wal) = k
    BY <1>4, <2>3
  <2> QED
    BY <2>1, <2>4
<1>7. \A r \in Rows : /\ r \in 1..k => pg[r] = Born(tag[r])
                      /\ r \notin 1..k => pg[r] = NoRow
  BY <1>2
<1>8. \A i \in Indices, r \in Rows :
          docs[i][r] = IF i = 1 /\ r \in 1..k THEN Transform(Born(tag[r])) ELSE NoDoc
  BY <1>2
<1>9. Shape
  <2>1. pg \in [Rows -> RowType \cup {NoRow}]
    <3>1. pg = [r \in Rows |-> pg[r]]
      BY <1>2
    <3> QED
      BY <1>5, <1>7, <3>1
  <2>2. docs \in [Indices -> [Rows -> DocType]]
    <3>1. \A r \in 1..k : Transform(Born(tag[r])) \in DocType
      BY <1>5, Versions
    <3>2. ASSUME NEW i \in Indices PROVE docs[i] \in [Rows -> DocType]
      <4>1. docs[i] = [r \in Rows |-> docs[i][r]]
        BY <1>2
      <4>2. \A r \in Rows : docs[i][r] \in DocType
        BY <1>8, <3>1, Versions
      <4> QED
        BY <4>1, <4>2
    <3>3. docs = [i \in Indices |-> docs[i]]
      BY <1>2
    <3> QED
      BY <3>2, <3>3
  <2>3. worker \in [Workers -> WorkerType]
    BY <1>3 DEF IdleWorker, WorkerType, WorkerSteps
  <2>4. job \in JobType(job.batch)
    BY <1>3, <1>4 DEF IdleJob, JobType, JobSteps
  <2>5. shipped \in 0..Len(wal) /\ committed \in 0..shipped
    BY <1>2, <1>4, <1>6
  <2> QED
    BY <1>3, <1>4, <1>6, <2>1, <2>2, <2>3, <2>4, <2>5 DEF Shape
<1>10. WalInOrder
  BY <1>6 DEF WalInOrder
<1>11. TableIsLast
  <2>1. ASSUME NEW n \in 1..Len(wal)
        PROVE  /\ pg[wal[n].row] = wal[n].after /\ wal[n].after \in RowType
    BY <1>4, <1>5, <1>6, <1>7
  <2>2. ASSUME NEW r \in Rows, pg[r] # NoRow
        PROVE  \E n \in 1..Len(wal) : wal[n].row = r /\ wal[n].after = pg[r]
    BY <1>6, <1>7, <2>2
  <2> QED
    BY <2>1, <2>2, Versions DEF TableIsLast
<1>12. DocsFromWal
  BY <1>6, <1>8 DEF DocsFromWal, Made
<1>13. job.pc = "idle" /\ job.new = 1 /\ job.last = 0
  BY <1>3 DEF IdleJob
<1>14. BatchFromWal /\ Serving /\ Discovery /\ CopiedIsReached
  BY <1>3, <1>13 DEF BatchFromWal, Serving, Discovery, CopiedIsReached, JobAt, Registered, Scanning,
     Building
<1>15. OffsetsInOrder
  BY <1>3 DEF OffsetsInOrder, Busy, IdleWorker
<1>16. ServedIsCovered
  <2> SUFFICES ASSUME NEW n \in 1..Len(wal) PROVE Covers(alias, n)
    BY DEF ServedIsCovered
  <2>1. n \in 1..k /\ n \in Rows
    BY <1>4, <1>6
  <2>2. docs[alias][wal[n].row] = Transform(Born(tag[n]))
    BY <1>3, <1>4, <1>6, <1>8, <2>1
  <2>3. /\ Transform(Born(tag[n])).ver = ExternalVersion(wal[n].after)
        /\ ExternalVersion(wal[n].after) \in Nat
    BY <1>5, <1>6, <2>1, Versions
  <2> QED
    BY <2>2, <2>3 DEF Covers
<1> QED
  BY <1>9, <1>10, <1>11, <1>12, <1>14, <1>15, <1>16 DEF ProjectionInv

(* Every step of the projection keeps it.                                     *)
LEMMA ProjectionKeepsInv ==
  ProjectionInv /\ [ProjectionNext]_pvars => ProjectionInv'
<1> SUFFICES ASSUME ProjectionInv, [ProjectionNext]_pvars PROVE ProjectionInv'
  OBVIOUS
<1>1. CASE UNCHANGED pvars \/ \E i \in Indices : Refresh(i)
  <2>1. UNCHANGED <<pg, wal, shipped, committed, docs, exists, alias, target, worker, early, job, owners>>
    BY <1>1 DEF pvars, Refresh
  <2>2. Shape' /\ WalInOrder' /\ TableIsLast' /\ DocsFromWal' /\ BatchFromWal'
    BY <2>1, DocsKept DEF ProjectionInv, Shape, WalInOrder, TableIsLast, BatchFromWal, JobAt
  <2>3. Serving' /\ Discovery' /\ OffsetsInOrder'
    BY <2>1 DEF ProjectionInv, Serving, Discovery, OffsetsInOrder, Building, Registered, Scanning, JobAt,
       Knows, Busy
  <2>4. ServedIsCovered' /\ CopiedIsReached'
    BY <2>1 DEF ProjectionInv, ServedIsCovered, CopiedIsReached, Served, Copied, WrittenBut, Covers,
       Alive, Scanning, Ahead, JobAt
  <2> QED
    BY <2>2, <2>3, <2>4 DEF ProjectionInv
<1> QED
  BY <1>1, TableSteps, JobKeepsInv, ReaderSteps, WriteStep DEF ProjectionNext, WorkerStep

(* The list queries never touch the projection: seen from it, they stutter.   *)
THEOREM ReadsImplementProjection ==
  Spec => ProjectionSpec
<1>1. SearchInit => Init
  BY DEF SearchInit
<1>2. [Next]_vars => [ProjectionNext]_pvars
  <2> SUFFICES ASSUME [Next]_vars PROVE [ProjectionNext]_pvars
    OBVIOUS
  <2>1. CASE UNCHANGED vars
    BY <2>1 DEF vars
  <2>2. CASE GrowOld \/ ExpireVerdict
    BY <2>2 DEF GrowOld, ExpireVerdict
  <2>3. ASSUME NEW c \in Clients, ClientStep(c) PROVE UNCHANGED pvars
    BY <2>3 DEF ClientStep, UseVerdict, BeginCheck, ReadCommitted, ReadEndOffsets, CheckFails, Conclude,
       ExpireCheck, FindBooksPage, FindPatronLoansPage, FindPatronsPage, FindPage, ListBooks,
       ListPatronLoans, ListPatrons, StartScan, FollowCursor
  <2> QED
    BY <2>1, <2>2, <2>3 DEF Next
<1> QED
  BY <1>1, <1>2, PTL DEF Spec, ProjectionSpec

(* The projection's invariant, of the projection alone.                       *)
LEMMA ProjectionInvariant ==
  ProjectionSpec => []ProjectionInv
<1>1. Init => ProjectionInv
  BY InitInv
<1> QED
  BY <1>1, ProjectionKeepsInv, PTL DEF ProjectionSpec

(* Whatever change the consumer has committed, the index behind the alias     *)
(* shows it or a later one of a row that still exists: across alias swaps,    *)
(* stale target caches, rebalances, failed and repeated records.              *)
THEOREM SwapLosesNoChangeHolds ==
  Spec => []SwapLosesNoChange
<1>1. ProjectionInv => SwapLosesNoChange
  <2> SUFFICES ASSUME ProjectionInv, NEW n \in 1..committed, pg[wal[n].row].live
               PROVE  docs[alias][wal[n].row].ver >= ExternalVersion(wal[n].after)
    BY DEF SwapLosesNoChange
  <2>1. Shape /\ ServedIsCovered
    BY DEF ProjectionInv
  <2>2. n \in 1..Len(wal) /\ n <= committed
    BY <2>1, ShapeFacts
  <2> QED
    BY <2>1, <2>2 DEF ServedIsCovered, Served, Alive, Covers
<1> QED
  BY <1>1, ReadsImplementProjection, ProjectionInvariant, PTL

(* No cleanup deletes the index that serves.                                  *)
THEOREM ServingIndexExistsHolds ==
  Spec => []ServingIndexExists
<1>1. ProjectionInv => ServingIndexExists
  BY DEF ProjectionInv, Serving, ServingIndexExists
<1> QED
  BY <1>1, ReadsImplementProjection, ProjectionInvariant, PTL

-----------------------------------------------------------------------------
(* Deleted rows.                                                              *)

(* Nothing follows a deletion: its tombstone replaces whatever is indexed.    *)
LEMMA DeletionIsLast ==
  ASSUME ProjectionInv, NEW n \in 1..Len(wal), Gone(n)
  PROVE  /\ \A m \in 1..Len(wal) : wal[m].row = wal[n].row => m <= n
         /\ pg[wal[n].row] = wal[n].after /\ ~Unversioned(wal[n])
         /\ \A i \in Indices : Upsert(docs[i][wal[n].row], Transform(wal[n].after)).live = FALSE
         /\ \A i \in Indices : Covers(i, n) => docs[i][wal[n].row].live = FALSE
<1>1. Shape /\ WalInOrder /\ TableIsLast /\ DocsFromWal
  BY DEF ProjectionInv
<1>2. Len(wal) \in Nat
  BY <1>1, ShapeFacts
<1>3. ASSUME NEW m \in 1..Len(wal), wal[m].row = wal[n].row PROVE m <= n
  <2>1. ~(n < m)
    BY <1>1, <1>3 DEF WalInOrder, Gone
  <2> QED
    BY <1>2, <2>1
<1>4. pg[wal[n].row] = wal[n].after /\ ~Unversioned(wal[n])
  BY <1>1 DEF TableIsLast, Gone, Unversioned
<1>5. /\ wal[n].row \in Rows /\ wal[n].after \in RowType /\ Transform(wal[n].after).live = FALSE
      /\ Transform(wal[n].after).ver = ExternalVersion(wal[n].after)
      /\ ExternalVersion(wal[n].after) \in Nat
  <2>1. wal[n].row \in Rows /\ wal[n].after \in RowType
    BY <1>1, ShapeFacts
  <2>2. wal[n].after.live = FALSE
    BY <2>1 DEF Gone, RowType
  <2> QED
    BY <2>1, <2>2, Versions
<1>6. ASSUME NEW i \in Indices
      PROVE  Upsert(docs[i][wal[n].row], Transform(wal[n].after)).live = FALSE
  <2> DEFINE d == docs[i][wal[n].row]
  <2>1. d.ver <= ExternalVersion(wal[n].after)
    <3>1. CASE d = NoDoc
      BY <1>5, <3>1, Versions
    <3>2. CASE d # NoDoc
      <4>1. PICK m \in 1..Len(wal) : wal[m].row = wal[n].row /\ Made(d, wal[m])
        BY <1>1, <1>5, <3>2 DEF DocsFromWal
      <4>2. m = n \/ m < n
        BY <1>2, <1>3, <4>1
      <4>3. d = Transform(wal[m].after)
        BY <4>1 DEF Made, Gone, Unversioned
      <4>4. d.ver = ExternalVersion(wal[m].after) /\ ExternalVersion(wal[m].after) \in Nat
        BY <1>1, <4>3, ShapeFacts, Versions
      <4>5. m < n => ExternalVersion(wal[m].after) < ExternalVersion(wal[n].after)
        BY <1>1, <4>1 DEF WalInOrder
      <4> QED
        BY <1>5, <4>4, <4>2, <4>5
    <3> QED
      BY <3>1, <3>2
  <2>2. d.ver \in Nat
    BY <1>1, <1>5, ShapeFacts
  <2> QED
    BY <1>5, <2>1, <2>2 DEF Upsert
<1>7. ASSUME NEW i \in Indices, Covers(i, n) PROVE docs[i][wal[n].row].live = FALSE
  <2> DEFINE d == docs[i][wal[n].row]
  <2>1. d # NoDoc => \E m \in 1..Len(wal) : wal[m].row = wal[n].row /\ Made(d, wal[m])
    BY <1>1, <1>5 DEF DocsFromWal
  <2>2. d.ver >= ExternalVersion(wal[n].after)
    BY <1>7 DEF Covers
  <2> HIDE DEF d
  <2>3. d = Transform(wal[n].after)
    BY <1>3, <1>4, <2>1, <2>2, NewestDocument
  <2> QED
    BY <1>5, <2>3 DEF d
<1> QED
  BY <1>3, <1>4, <1>6, <1>7

(* Commits of the table and Debezium.                                         *)
LEMMA TombstonesAfterTable ==
  ASSUME ProjectionInv, TombstoneInv, TableStep
  PROVE  TombstoneInv'
<1>1. NewIsUntouched /\ OwnersInOrder /\ ServedIsGone /\ CopiedIsGone /\ UnawareIsUntouched
  BY DEF TombstoneInv
<1>2. UNCHANGED <<committed, docs, exists, alias, target, worker, early, job, owners>>
  BY DEF TableStep, InsertRow, UpdateRow, DeleteRow, Change, Ship
<1>3. NewIsUntouched' /\ OwnersInOrder' /\ UnawareIsUntouched'
  BY <1>1, <1>2 DEF NewIsUntouched, Untouched, OwnersInOrder, SoleOwner, Busy, UnawareIsUntouched, Knows,
     Registered, JobAt
<1>4. /\ \A n \in 1..Len(wal') : (Served(n)' => n \in 1..Len(wal) /\ Served(n))
                                 /\ (Copied(n)' => n \in 1..Len(wal) /\ Copied(n))
      /\ \A n \in 1..Len(wal) : wal'[n] = wal[n]
  <2>1. CASE Ship
    BY <2>1 DEF Ship, Served, Copied, WrittenBut
  <2>2. ASSUME NEW r \in Rows, InsertRow(r) \/ UpdateRow(r) \/ DeleteRow(r)
        PROVE  /\ \A n \in 1..Len(wal') : (Served(n)' => n \in 1..Len(wal) /\ Served(n))
                                          /\ (Copied(n)' => n \in 1..Len(wal) /\ Copied(n))
               /\ \A n \in 1..Len(wal) : wal'[n] = wal[n]
    <3>1. PICK s \in RowType : Change(r, s)
      BY <2>2, TableChanges
    <3>2. Len(wal) \in Nat
      BY ShapeFacts DEF ProjectionInv
    <3>3. \A n \in 1..Len(wal') : n \notin 1..Len(wal) => n \in Nat /\ n > Len(wal)
      BY <3>1, <3>2, ChangeFacts
    <3> QED
      BY <3>1, <3>3, ChangeFacts
  <2> QED
    BY <2>1, <2>2 DEF TableStep
<1>5. ServedIsGone'
  BY <1>1, <1>2, <1>4 DEF ServedIsGone, SoleOwner, Gone
<1>6. CopiedIsGone'
  BY <1>1, <1>2, <1>4 DEF CopiedIsGone, SoleOwner, Gone, Building, Registered, JobAt, Covers
<1> QED
  BY <1>3, <1>5, <1>6 DEF TombstoneInv

(* An instance between its writes.                                            *)
LEMMA TombstonesAfterReader ==
  ASSUME ProjectionInv, TombstoneInv, NEW w \in Workers, NEW s, MayBecome(w, s), KeepsTo(w, s),
         UNCHANGED <<pg, wal, shipped, docs, exists, alias, target, job>>
  PROVE  TombstoneInv'
<1>1. /\ NewIsUntouched /\ OwnersInOrder /\ ServedIsGone /\ CopiedIsGone /\ UnawareIsUntouched
      /\ Shape /\ Serving
  BY DEF TombstoneInv, ProjectionInv
<1>2. /\ worker'[w] = s /\ \A v \in Workers \ {w} : worker'[v] = worker[v]
  BY <1>1 DEF MayBecome, Shape
<1>3. SoleOwner' => SoleOwner
  BY DEF SoleOwner, KeepsTo
<1>4. \A i \in Indices : i # Live /\ i # None
  BY <1>1, ShapeFacts
<1>5. NewIsUntouched'
  <2> SUFFICES ASSUME NEW i \in Indices, i > job.new \/ (i = job.new /\ JobAt("created"))
               PROVE  Untouched(i)'
    BY DEF NewIsUntouched, JobAt
  <2>1. Untouched(i)
    BY <1>1 DEF NewIsUntouched
  <2>2. s.cached # i /\ i \notin s.todo
    BY <1>4, <2>1 DEF Untouched, KeepsTo, Targets
  <2> QED
    BY <1>2, <2>1, <2>2 DEF Untouched
<1>6. OwnersInOrder'
  <2>1. ASSUME NEW v \in Workers, Busy(v)' \/ worker'[v].valid PROVE v \in owners'
    <3>1. CASE v = w
      BY <1>1, <1>2, <2>1, <3>1 DEF OwnersInOrder, KeepsTo, Busy
    <3>2. CASE v # w
      BY <1>1, <1>2, <2>1, <3>2 DEF OwnersInOrder, KeepsTo, Busy
    <3> QED
      BY <3>1, <3>2
  <2>2. ASSUME SoleOwner', NEW v \in Workers, Busy(v)' PROVE worker'[v].off = committed' + 1
    <3>1. SoleOwner /\ v \in owners'
      BY <1>3, <2>1, <2>2
    <3>2. CASE v = w
      <4>1. Busy(w) => worker[w].off = committed + 1
        BY <1>1, <3>1 DEF OwnersInOrder
      <4> QED
        BY <1>2, <2>2, <3>2, <4>1 DEF KeepsTo, Busy
    <3>3. CASE v # w
      <4>1. Busy(v) /\ worker'[v] = worker[v]
        BY <1>2, <2>2, <3>3 DEF Busy
      <4>2. worker[v].off = committed + 1
        BY <1>1, <3>1, <4>1 DEF OwnersInOrder
      <4>3. ~Busy(w)
        BY <1>1, <2>2, <3>1, <3>3 DEF OwnersInOrder, KeepsTo, SoleOwner
      <4>4. committed' = committed
        BY <4>3 DEF KeepsTo
      <4> QED
        BY <4>1, <4>2, <4>4
    <3> QED
      BY <3>2, <3>3
  <2> QED
    BY <2>1, <2>2 DEF OwnersInOrder
<1>7. ServedIsGone'
  BY <1>1, <1>3, ReaderWrites DEF ServedIsGone, Gone
<1>8. CopiedIsGone'
  <2> SUFFICES ASSUME SoleOwner', Building, NEW n \in 1..Len(wal), Copied(n)', Gone(n)
               PROVE  /\ ~docs[job.new][wal[n].row].live
                      /\ JobAt("bulk") /\ wal[n].row \in DOMAIN job.batch => Covers(job.new, n)
    BY DEF CopiedIsGone, Building, Registered, JobAt, Gone, Covers
  <2>1. SoleOwner
    BY <1>3
  <2>2. CASE Copied(n)
    BY <1>1, <2>1, <2>2 DEF CopiedIsGone
  <2>3. CASE ~Copied(n)
    <3>1. ~Scanning /\ ~JobAt("bulk")
      BY <2>3, ReaderWrites DEF Scanning, JobAt
    <3>2. docs[job.new] = EmptyIndex
      <4>1. CASE JobAt("created")
        BY <1>1, <4>1, ShapeFacts DEF NewIsUntouched, Untouched
      <4>2. CASE Registered
        <5>1. ~(n <= committed')
          <6>1. committed' # committed => WrittenBut(committed + 1, w, {job.new})
            BY DEF MayBecome
          <6>2. n \in Nat /\ committed \in Nat /\ committed' \in {committed, committed + 1}
            BY <1>1, ShapeFacts DEF MayBecome
          <6>3. ~(n <= committed) /\ ~WrittenBut(n, w, {job.new})
            BY <2>3 DEF Copied
          <6> QED
            BY <6>1, <6>2, <6>3
        <5>2. PICK v \in Workers : WrittenBut(n, v, {job.new})'
          BY <5>1 DEF Copied
        <5>3. v = w
          BY <1>2, <2>3, <5>2 DEF WrittenBut, Copied
        <5>4. s.pc = "writing" /\ s.off = n /\ job.new \notin s.todo
          BY <1>2, <5>2, <5>3 DEF WrittenBut
        <5>5. ~Knows(w)
          BY <2>3, <4>2, <5>4 DEF KeepsTo, Copied
        <5> QED
          BY <1>1, <2>1, <4>2, <5>5 DEF UnawareIsUntouched
      <4> QED
        BY <4>1, <4>2 DEF Building
    <3>3. docs[job.new][wal[n].row] = NoDoc
      BY <1>1, <3>2, ShapeFacts DEF EmptyIndex
    <3> QED
      BY <3>1, <3>3, Versions
  <2> QED
    BY <2>2, <2>3
<1>9. UnawareIsUntouched'
  <2> SUFFICES ASSUME SoleOwner', Registered, NEW v \in Workers, ~Knows(v)'
               PROVE  docs[job.new] = EmptyIndex /\ job.new \notin worker'[v].todo
    BY DEF UnawareIsUntouched, Registered
  <2>1. CASE v = w
    <3>1. s.valid /\ s.pc # "looking" /\ s.cached # job.new
      BY <1>2, <2>1 DEF Knows
    <3>2. ~Knows(w) /\ s.todo \subseteq worker[w].todo \cup Targets(worker[w].cached)
      BY <3>1 DEF KeepsTo
    <3>3. docs[job.new] = EmptyIndex /\ job.new \notin worker[w].todo
      BY <1>1, <1>3, <3>2 DEF UnawareIsUntouched
    <3>4. job.new \notin Targets(worker[w].cached)
      BY <1>1, <3>2, ShapeFacts DEF Targets, Knows
    <3> QED
      BY <1>2, <2>1, <3>2, <3>3, <3>4
  <2>2. CASE v # w
    BY <1>1, <1>2, <1>3, <2>2 DEF UnawareIsUntouched, Knows
  <2> QED
    BY <2>1, <2>2
<1> QED
  BY <1>5, <1>6, <1>7, <1>8, <1>9 DEF TombstoneInv

(* A write.  The sole owner is past every record that is written: only the    *)
(* record it is writing can be a deletion of its row.                         *)
LEMMA TombstonesAfterWrite ==
  ASSUME ProjectionInv, TombstoneInv, NEW w \in Workers, NEW t \in Indices \cup {Live},
         WriteDocument(w, t)
  PROVE  TombstoneInv'
<1>1. /\ NewIsUntouched /\ OwnersInOrder /\ ServedIsGone /\ CopiedIsGone /\ UnawareIsUntouched
      /\ Shape /\ Serving /\ WalInOrder /\ OffsetsInOrder
  BY DEF TombstoneInv, ProjectionInv
<1>2. PICK i, o : i = Resolved(t) /\ o = worker[w].off
  OBVIOUS
<1>3. /\ i \in Indices /\ o \in 1..Len(wal) /\ Busy(w) /\ t \in worker[w].todo
      /\ UNCHANGED <<pg, wal, shipped, committed, alias, target, early, job, owners>>
      /\ docs'[i][wal[o].row] = Written(docs[i][wal[o].row], wal[o])
      /\ \A k \in Indices : k # i => docs'[k] = docs[k]
      /\ \A k \in Indices, r \in Rows : k # i \/ r # wal[o].row => docs'[k][r] = docs[k][r]
      /\ \A k \in Indices, n \in 1..Len(wal) : Covers(k, n) => Covers(k, n)'
      /\ ~Unversioned(wal[o]) => docs'[i][wal[o].row].ver >= ExternalVersion(wal[o].after)
  BY <1>2, WriteFacts
<1>4. /\ \A v \in Workers \ {w} : worker'[v] = worker[v]
      /\ worker'[w].pc = worker[w].pc /\ worker'[w].off = worker[w].off
      /\ worker'[w].todo = worker[w].todo \ {t}
      /\ worker'[w].valid = worker[w].valid /\ worker'[w].cached = worker[w].cached
  BY <1>2, WriteFacts
<1>5. /\ \A n \in 1..Len(wal) : Served(n)' => Served(n) \/ (n = o /\ i = alias)
      /\ \A n \in 1..Len(wal) : Copied(n)' => Copied(n) \/ (n = o /\ i = job.new)
  BY <1>2, WriteFacts
<1>6. /\ job' = job /\ (SoleOwner' <=> SoleOwner) /\ job.new \in Indices /\ job.new \in Nat
      /\ alias \in Indices /\ alias \in Nat
  BY <1>1, <1>3, ShapeFacts DEF SoleOwner, Shape
<1>7. \A v \in Workers : (Busy(v)' <=> Busy(v)) /\ (Knows(v)' <=> Knows(v))
  BY <1>3, <1>4, <1>6 DEF Busy, Knows
<1>8. NewIsUntouched'
  <2> SUFFICES ASSUME NEW k \in Indices, k > job.new \/ (k = job.new /\ JobAt("created"))
               PROVE  Untouched(k)'
    BY <1>6 DEF NewIsUntouched, JobAt
  <2>1. Untouched(k)
    BY <1>1 DEF NewIsUntouched
  <2>2. k \in Nat /\ alias # k
    BY <1>1, <1>6, ShapeFacts DEF Serving, Building
  <2>3. k # i
    BY <1>2, <1>3, <2>1, <2>2 DEF Untouched, Resolved
  <2> QED
    BY <1>3, <1>4, <2>1, <2>3 DEF Untouched
<1>9. OwnersInOrder'
  BY <1>1, <1>3, <1>4, <1>6, <1>7 DEF OwnersInOrder
<1>10. ASSUME SoleOwner, NEW k \in Indices, NEW n \in 1..Len(wal), Gone(n), n <= o,
              n # o => ~docs[k][wal[n].row].live,
              n = o => k = i \/ ~docs[k][wal[n].row].live
       PROVE  ~docs'[k][wal[n].row].live
  <2>1. wal[n].row \in Rows
    BY <1>1, ShapeFacts
  <2>2. CASE k # i \/ wal[n].row # wal[o].row
    BY <1>3, <1>10, <2>1, <2>2
  <2>3. CASE k = i /\ wal[n].row = wal[o].row
    <3>1. o <= n
      BY <1>3, <1>10, <2>3, DeletionIsLast
    <3>2. n = o
      BY <1>3, <1>10, <3>1
    <3>3. /\ ~Unversioned(wal[n]) /\ wal[n] \in RecordType /\ docs[i][wal[n].row] \in DocType
          /\ Upsert(docs[i][wal[n].row], Transform(wal[n].after)).live = FALSE
      BY <1>1, <1>3, <1>10, <2>1, DeletionIsLast, ShapeFacts
    <3>4. docs'[i][wal[n].row] = Upsert(docs[i][wal[n].row], Transform(wal[n].after))
      BY <1>3, <3>2, <3>3, WrittenGrows
    <3> QED
      BY <2>3, <3>3, <3>4
  <2> QED
    BY <2>2, <2>3
<1>11. ASSUME SoleOwner PROVE o = committed + 1
  BY <1>1, <1>2, <1>3, <1>11 DEF OwnersInOrder
<1>12. ASSUME SoleOwner, NEW n \in 1..Len(wal), NEW v \in Workers, NEW I, WrittenBut(n, v, I)
       PROVE  n = o
  <2>1. Busy(v)
    BY <1>12 DEF Busy, WrittenBut
  <2> QED
    BY <1>1, <1>11, <1>12, <2>1 DEF OwnersInOrder, WrittenBut
<1>13. ASSUME SoleOwner, NEW n \in 1..Len(wal), Served(n) \/ Copied(n) \/ n = o PROVE n <= o
  <2>1. committed \in Nat /\ n \in Nat /\ o = committed + 1
    BY <1>1, <1>11, <1>13, ShapeFacts
  <2>2. n <= committed \/ n = o
    BY <1>12, <1>13 DEF Served, Copied
  <2> QED
    BY <2>1, <2>2
<1>14. ServedIsGone'
  <2> SUFFICES ASSUME SoleOwner, NEW n \in 1..Len(wal), Served(n)', Gone(n)
               PROVE  ~docs'[alias][wal[n].row].live
    BY <1>3, <1>6 DEF ServedIsGone, Gone
  <2>1. Served(n) \/ (n = o /\ i = alias)
    BY <1>5
  <2>2. n <= o
    BY <1>13, <2>1
  <2>3. Served(n) => ~docs[alias][wal[n].row].live
    BY <1>1 DEF ServedIsGone
  <2> QED
    BY <1>6, <1>10, <2>1, <2>2, <2>3
<1>15. CopiedIsGone'
  <2> SUFFICES ASSUME SoleOwner, Building, NEW n \in 1..Len(wal), Copied(n)', Gone(n)
               PROVE  /\ ~docs'[job.new][wal[n].row].live
                      /\ JobAt("bulk") /\ wal[n].row \in DOMAIN job.batch => Covers(job.new, n)'
    BY <1>3, <1>6 DEF CopiedIsGone, Gone, Building, Registered, JobAt
  <2>1. Copied(n) \/ (n = o /\ i = job.new)
    BY <1>5
  <2>2. n <= o
    BY <1>13, <2>1
  <2>3. Copied(n) => /\ ~docs[job.new][wal[n].row].live
                     /\ JobAt("bulk") /\ wal[n].row \in DOMAIN job.batch => Covers(job.new, n)
    BY <1>1 DEF CopiedIsGone
  <2>4. ~docs'[job.new][wal[n].row].live
    BY <1>6, <1>10, <2>1, <2>2, <2>3
  <2>5. Covers(job.new, n) => Covers(job.new, n)'
    BY <1>3, <1>6 DEF Covers
  <2>6. n = o /\ i = job.new => Covers(job.new, n)'
    BY <1>3, <1>6 DEF Covers, Gone, Unversioned
  <2> QED
    BY <2>1, <2>3, <2>4, <2>5, <2>6
<1>16. UnawareIsUntouched'
  <2> SUFFICES ASSUME SoleOwner, Registered, NEW v \in Workers, ~Knows(v)
               PROVE  docs'[job.new] = EmptyIndex /\ job.new \notin worker'[v].todo
    BY <1>6, <1>7 DEF UnawareIsUntouched, Registered
  <2>1. docs[job.new] = EmptyIndex /\ job.new \notin worker[v].todo
    BY <1>1 DEF UnawareIsUntouched
  <2>2. v = w
    BY <1>1, <1>3 DEF OwnersInOrder, Knows, SoleOwner
  <2>3. alias # job.new
    BY <1>1, <1>6 DEF Serving, Building
  <2>4. i # job.new
    BY <1>2, <1>3, <2>1, <2>2, <2>3 DEF Resolved
  <2> QED
    BY <1>3, <1>4, <1>6, <2>1, <2>2, <2>4
<1> QED
  BY <1>8, <1>9, <1>14, <1>15, <1>16 DEF TombstoneInv

(* The steps in which the job is not, or no longer, building its index.       *)
LEMMA TombstonesAfterLeaving ==
  ASSUME ProjectionInv, TombstoneInv, JobStep, job'.new = job.new, job'.pc # "created",
         ~Registered', alias' = alias, docs'[alias] = docs[alias], target' \in {target, None},
         \A i \in Indices : docs'[i] \in {docs[i], EmptyIndex},
         UNCHANGED <<pg, wal, committed, worker, owners>>
  PROVE  TombstoneInv'
<1>1. NewIsUntouched /\ OwnersInOrder /\ ServedIsGone /\ Shape
  BY DEF TombstoneInv, ProjectionInv
<1>2. NewIsUntouched'
  <2> SUFFICES ASSUME NEW i \in Indices, i > job.new PROVE Untouched(i)'
    BY DEF NewIsUntouched, JobAt
  <2>1. Untouched(i) /\ i # None
    BY <1>1, ShapeFacts DEF NewIsUntouched
  <2> QED
    BY <2>1 DEF Untouched
<1>3. OwnersInOrder'
  BY <1>1 DEF OwnersInOrder, SoleOwner, Busy
<1>4. ServedIsGone'
  BY <1>1 DEF ServedIsGone, SoleOwner, Gone, Served, WrittenBut
<1>5. CopiedIsGone' /\ UnawareIsUntouched'
  BY DEF CopiedIsGone, UnawareIsUntouched, Building, JobAt
<1> QED
  BY <1>2, <1>3, <1>4, <1>5 DEF TombstoneInv

(* The steps in which it builds it.                                           *)
LEMMA TombstonesAfterBuilding ==
  ASSUME ProjectionInv, TombstoneInv,
         \/ CreateIndex \/ SetReindexTarget \/ GraceEnds \/ ReadBatch \/ BulkIndex
         \/ RefreshNewIndex \/ SwapAlias
  PROVE  TombstoneInv'
<1>1. /\ NewIsUntouched /\ OwnersInOrder /\ ServedIsGone /\ CopiedIsGone /\ UnawareIsUntouched
      /\ Shape /\ Serving /\ WalInOrder /\ TableIsLast /\ BatchFromWal /\ Discovery
  BY DEF TombstoneInv, ProjectionInv
<1>2. /\ UNCHANGED <<pg, wal, shipped, committed, worker, owners>>
      /\ job \in JobType(job.batch) /\ job.new \in Indices /\ job.new \in Nat
      /\ alias \in Indices /\ alias \in Nat /\ Indices \subseteq Nat
  BY <1>1, ShapeFacts DEF CreateIndex, SetReindexTarget, GraceEnds, ReadBatch, BulkIndex,
     RefreshNewIndex, SwapAlias, Shape
<1>3. OwnersInOrder' /\ (SoleOwner' <=> SoleOwner)
  BY <1>1, <1>2 DEF OwnersInOrder, SoleOwner, Busy
<1>4. CASE CreateIndex
  <2>1. /\ job' = [job EXCEPT !.pc = "created", !.new = job.new + 1, !.old = alias] /\ job.pc = "idle"
        /\ UNCHANGED <<docs, alias, target>> /\ job.new < MaxIndices
    BY <1>4 DEF CreateIndex, SetJob, JobAt
  <2>2. job'.pc = "created" /\ job'.new = job.new + 1 /\ job'.new \in Indices
    BY <1>2, <2>1, ProjectionAssumption DEF JobType, Indices
  <2>3. \A i \in Indices : i >= job.new + 1 => Untouched(i)
    BY <1>1, <1>2 DEF NewIsUntouched
  <2>4. NewIsUntouched'
    <3> SUFFICES ASSUME NEW i \in Indices, i > job.new + 1 \/ i = job.new + 1 PROVE Untouched(i)'
      BY <2>2 DEF NewIsUntouched
    <3>1. Untouched(i)
      BY <1>2, <2>3
    <3> QED
      BY <1>2, <2>1, <3>1 DEF Untouched
  <2>5. ServedIsGone'
    BY <1>1, <1>2, <1>3, <2>1 DEF ServedIsGone, Gone, Served, WrittenBut
  <2>6. docs'[job'.new] = EmptyIndex
    BY <1>2, <2>1, <2>2, <2>3 DEF Untouched
  <2>7. CopiedIsGone'
    <3>1. \A n \in 1..Len(wal') : docs'[job'.new][wal'[n].row] = NoDoc
      BY <1>1, <1>2, <2>6, ShapeFacts DEF EmptyIndex
    <3> QED
      BY <2>2, <3>1, Versions DEF CopiedIsGone, JobAt
  <2>8. UnawareIsUntouched'
    BY <2>2 DEF UnawareIsUntouched, Registered
  <2> QED
    BY <1>3, <2>4, <2>5, <2>7, <2>8 DEF TombstoneInv
<1>5. CASE SetReindexTarget
  <2>1. /\ job' = [job EXCEPT !.pc = "grace"] /\ job.pc = "created" /\ target' = job.new
        /\ UNCHANGED <<docs, alias>>
    BY <1>5 DEF SetReindexTarget, SetJob, JobAt
  <2>2. job'.pc = "grace" /\ job'.new = job.new
    BY <1>2, <2>1 DEF JobType
  <2>3. Untouched(job.new)
    BY <1>1, <1>2, <2>1 DEF NewIsUntouched, JobAt
  <2>4. NewIsUntouched'
    BY <1>1, <1>2, <2>1, <2>2 DEF NewIsUntouched, Untouched, JobAt
  <2>5. ServedIsGone'
    BY <1>1, <1>2, <1>3, <2>1 DEF ServedIsGone, Gone, Served, WrittenBut
  <2>6. CopiedIsGone'
    <3>1. \A n \in 1..Len(wal') : docs'[job'.new][wal'[n].row] = NoDoc
      BY <1>1, <1>2, <2>1, <2>2, <2>3, ShapeFacts DEF EmptyIndex, Untouched
    <3> QED
      BY <2>2, <3>1, Versions DEF CopiedIsGone, JobAt
  <2>7. UnawareIsUntouched'
    BY <1>2, <2>1, <2>2, <2>3 DEF UnawareIsUntouched, Untouched
  <2> QED
    BY <1>3, <2>4, <2>5, <2>6, <2>7 DEF TombstoneInv
<1>6. CASE GraceEnds \/ ReadBatch \/ RefreshNewIndex
  <2>1. /\ Registered /\ Registered' /\ job'.new = job.new /\ UNCHANGED <<docs, alias, target>>
        /\ job'.pc = "bulk" => job'.batch = [r \in FirstBatch |-> pg[r]]
    BY <1>2, <1>6 DEF GraceEnds, ReadBatch, RefreshNewIndex, SetJob, JobAt, JobType, Registered
  <2>2. NewIsUntouched'
    BY <1>1, <1>2, <2>1 DEF NewIsUntouched, Untouched, JobAt, Registered
  <2>3. ServedIsGone'
    BY <1>1, <1>2, <1>3, <2>1 DEF ServedIsGone, Gone, Served, WrittenBut
  <2>4. CopiedIsGone'
    <3> SUFFICES ASSUME SoleOwner, NEW n \in 1..Len(wal), Copied(n), Gone(n)
                 PROVE  /\ ~docs[job.new][wal[n].row].live
                        /\ job'.pc = "bulk" => wal[n].row \notin DOMAIN job'.batch
      BY <1>2, <1>3, <2>1 DEF CopiedIsGone, Copied, WrittenBut, Gone, JobAt
    <3>1. ~docs[job.new][wal[n].row].live
      BY <1>1, <2>1 DEF CopiedIsGone, Building
    <3>2. pg[wal[n].row] = wal[n].after
      BY DeletionIsLast
    <3>3. wal[n].row \notin FirstBatch
      BY <1>1, <3>2, FirstBatchFacts DEF Remaining, Gone
    <3> QED
      BY <2>1, <3>1, <3>3
  <2>5. UnawareIsUntouched'
    BY <1>1, <1>2, <1>3, <2>1 DEF UnawareIsUntouched, Knows
  <2> QED
    BY <1>3, <2>2, <2>3, <2>4, <2>5 DEF TombstoneInv
<1>7. CASE BulkIndex
  <2> DEFINE b == job.batch
  <2>1. /\ job.pc = "bulk" /\ docs' = [docs EXCEPT ![job.new] = BulkIndexed(job.new)]
        /\ UNCHANGED <<alias, target>> /\ job'.new = job.new /\ job'.pc = "scan"
    BY <1>2, <1>7 DEF BulkIndex, SetJob, JobAt, JobType
  <2>2. /\ b \in [DOMAIN b -> RowType] /\ DOMAIN b \subseteq Rows
        /\ \A r \in DOMAIN b : \E n \in 1..Len(wal) : wal[n].row = r /\ wal[n].after = b[r]
    BY <1>1, <2>1 DEF BatchFromWal, JobAt
  <2>3. \A r \in Rows : docs'[job.new][r] = IF r \in DOMAIN b
                                            THEN Upsert(docs[job.new][r], Transform(b[r]))
                                            ELSE docs[job.new][r]
    BY <1>1, <1>2, <2>1 DEF BulkIndexed, Shape
  <2>4. \A k \in Indices \ {job.new} : docs'[k] = docs[k]
    BY <1>1, <2>1 DEF Shape
  <2>5. alias # job.new
    BY <1>1, <1>2, <2>1 DEF Serving, Building, Registered
  <2>6. NewIsUntouched'
    BY <1>1, <1>2, <2>1, <2>4 DEF NewIsUntouched, Untouched, JobAt
  <2>7. ServedIsGone'
    BY <1>1, <1>2, <1>3, <2>1, <2>4, <2>5 DEF ServedIsGone, Gone, Served, WrittenBut
  <2>8. CopiedIsGone'
    <3> SUFFICES ASSUME SoleOwner, NEW n \in 1..Len(wal), Copied(n), Gone(n)
                 PROVE  ~docs'[job.new][wal[n].row].live
      BY <1>2, <1>3, <2>1 DEF CopiedIsGone, Copied, WrittenBut, Gone, JobAt
    <3> DEFINE r == wal[n].row
    <3>1. /\ ~docs[job.new][r].live /\ r \in Rows
          /\ r \in DOMAIN b => docs[job.new][r].ver >= ExternalVersion(wal[n].after)
      BY <1>1, <2>1, ShapeFacts DEF CopiedIsGone, Building, Registered, JobAt, Covers
    <3>2. CASE r \notin DOMAIN b
      BY <2>3, <3>1, <3>2
    <3>3. CASE r \in DOMAIN b
      <4>1. PICK m \in 1..Len(wal) : wal[m].row = r /\ wal[m].after = b[r]
        BY <2>2, <3>3
      <4>2. CASE m = n
        <5>1. docs'[job.new][r] = Upsert(docs[job.new][r], Transform(wal[n].after))
          BY <2>3, <3>1, <3>3, <4>1, <4>2
        <5> QED
          BY <1>2, <5>1, DeletionIsLast
      <4>3. CASE m # n
        <5>1. m <= n /\ m \in Nat /\ n \in Nat
          <6>1. m <= n
            BY <4>1, DeletionIsLast
          <6> QED
            BY <6>1
        <5>2. ExternalVersion(wal[m].after) < ExternalVersion(wal[n].after)
          BY <1>1, <4>1, <4>3, <5>1 DEF WalInOrder
        <5>3. /\ ExternalVersion(wal[m].after) \in Nat /\ ExternalVersion(wal[n].after) \in Nat
              /\ docs[job.new][r].ver \in Nat
              /\ Transform(b[r]).ver = ExternalVersion(wal[m].after)
          BY <1>1, <1>2, <3>1, <4>1, ShapeFacts, Versions
        <5>4. docs'[job.new][r] = Upsert(docs[job.new][r], Transform(b[r]))
          BY <2>3, <3>1, <3>3
        <5>5. docs'[job.new][r] = docs[job.new][r]
          <6>1. ~(Transform(b[r]).ver >= docs[job.new][r].ver)
            BY <3>1, <3>3, <5>2, <5>3
          <6> QED
            BY <5>4, <6>1 DEF Upsert
        <5> QED
          BY <3>1, <5>5
      <4> QED
        BY <4>2, <4>3
    <3> QED
      BY <3>2, <3>3
  <2>9. UnawareIsUntouched'
    <3>1. \A w \in Workers : Knows(w)
      BY <1>1, <2>1 DEF Discovery, Registered, Scanning
    <3> QED
      BY <1>2, <2>1, <3>1 DEF UnawareIsUntouched, Knows
  <2> QED
    BY <1>3, <2>6, <2>7, <2>8, <2>9 DEF TombstoneInv
<1>8. CASE SwapAlias
  <2>1. /\ job' = [job EXCEPT !.pc = "swapped"] /\ job.pc = "refreshed" /\ alias' = job.new
        /\ UNCHANGED <<docs, target>>
    BY <1>8 DEF SwapAlias, SetJob, JobAt
  <2>2. job'.pc = "swapped" /\ job'.new = job.new
    BY <1>2, <2>1 DEF JobType
  <2>3. NewIsUntouched'
    BY <1>1, <1>2, <2>1, <2>2 DEF NewIsUntouched, Untouched, JobAt
  <2>4. ServedIsGone'
    <3> SUFFICES ASSUME SoleOwner, NEW n \in 1..Len(wal), Served(n)', Gone(n)
                 PROVE  ~docs[job.new][wal[n].row].live
      BY <1>2, <1>3, <2>1 DEF ServedIsGone, Gone
    <3>1. Copied(n)
      BY <1>2, <2>1 DEF Served, Copied, WrittenBut
    <3> QED
      BY <1>1, <2>1, <3>1 DEF CopiedIsGone, Building, Registered
  <2>5. CopiedIsGone' /\ UnawareIsUntouched'
    BY <2>2 DEF CopiedIsGone, UnawareIsUntouched, Building, Registered, JobAt
  <2> QED
    BY <1>3, <2>3, <2>4, <2>5 DEF TombstoneInv
<1> QED
  BY <1>4, <1>5, <1>6, <1>7, <1>8

(* Every step of the job.                                                     *)
LEMMA TombstonesAfterJob ==
  ASSUME ProjectionInv, TombstoneInv, JobStep
  PROVE  TombstoneInv'
<1>1. Shape /\ Serving
  BY DEF ProjectionInv
<1>2. /\ job \in JobType(job.batch) /\ job.new \in Indices /\ job.old \in Indices /\ alias \in Indices
      /\ docs \in [Indices -> [Rows -> DocType]]
  BY <1>1, ShapeFacts DEF Shape
<1>3. CASE ClearReindexTarget \/ JobFails \/ ClearOwnTarget \/ (CheckServing /\ alias # job.new)
  <2>1. /\ job'.new = job.new /\ job'.pc \in {"cleared", "cleanup", "unregistered", "unserved"}
        /\ target' \in {target, None} /\ UNCHANGED <<pg, wal, committed, worker, owners, docs, alias>>
    BY <1>2, <1>3 DEF ClearReindexTarget, JobFails, ClearOwnTarget, CheckServing, SetJob, JobType
  <2> QED
    BY <2>1, TombstonesAfterLeaving DEF Registered
<1>4. CASE JobEnds
  <2>1. /\ job'.new = job.new /\ job'.pc = "idle"
        /\ UNCHANGED <<pg, wal, committed, worker, owners, docs, alias, target>>
    BY <1>1, <1>4, JobRecords DEF JobEnds
  <2> QED
    BY <2>1, TombstonesAfterLeaving DEF Registered
<1>5. ASSUME NEW i \in Indices, i # alias, DropIndex(i), JobReturns,
             UNCHANGED <<pg, wal, committed, worker, owners, alias>>
      PROVE  TombstoneInv'
  <2>1. /\ job'.new = job.new /\ job'.pc = "idle" /\ target' \in {target, None}
    BY <1>1, <1>5, JobRecords DEF DropIndex
  <2>2. docs'[alias] = docs[alias] /\ \A k \in Indices : docs'[k] \in {docs[k], EmptyIndex}
    BY <1>2, <1>5 DEF DropIndex
  <2> QED
    BY <1>5, <2>1, <2>2, TombstonesAfterLeaving DEF Registered
<1>6. CASE DeleteOldIndex
  <2>1. job.old # alias
    BY <1>1, <1>6, ShapeFacts DEF DeleteOldIndex, JobAt, Serving
  <2> QED
    BY <1>2, <1>5, <1>6, <2>1 DEF DeleteOldIndex
<1>7. CASE DeleteUnservedIndex
  <2>1. job.new # alias
    BY <1>1, <1>7 DEF DeleteUnservedIndex, Serving
  <2> QED
    BY <1>2, <1>5, <1>7, <2>1 DEF DeleteUnservedIndex
<1>8. CASE CheckServing /\ alias = job.new
  BY <1>4, <1>8 DEF CheckServing, JobEnds, JobAt
<1> QED
  BY <1>3, <1>4, <1>6, <1>7, <1>8, TombstonesAfterBuilding DEF JobStep

(* Tombstones, at the start and in every step.                                *)
LEMMA TombstonesKept ==
  /\ Init => TombstoneInv
  /\ ProjectionInv /\ TombstoneInv /\ [ProjectionNext]_pvars => TombstoneInv'
<1>1. ASSUME Init PROVE TombstoneInv
  <2>1. /\ ProjectionInv /\ alias = 1 /\ target = None /\ worker = [w \in Workers |-> IdleWorker]
        /\ job = IdleJob /\ owners = {}
    BY <1>1, InitInv DEF Init
  <2>2. job.pc = "idle" /\ job.new = 1
    BY <2>1 DEF IdleJob
  <2>3. \A w \in Workers : /\ worker[w].cached = None /\ worker[w].todo = {} /\ ~worker[w].valid
                           /\ worker[w].pc = "idle"
    BY <2>1 DEF IdleWorker
  <2>4. \A i \in Indices : i # 1 => docs[i] = EmptyIndex
    BY <1>1 DEF Init, EmptyIndex
  <2>5. NewIsUntouched
    <3>1. Shape
      BY <2>1 DEF ProjectionInv
    <3> QED
      BY <2>1, <2>2, <2>3, <2>4, <3>1, ShapeFacts DEF NewIsUntouched, Untouched, JobAt
  <2>6. OwnersInOrder
    BY <2>3 DEF OwnersInOrder, Busy
  <2>7. ServedIsGone
    <3> SUFFICES ASSUME NEW n \in 1..Len(wal) PROVE ~Gone(n)
      BY DEF ServedIsGone
    <3>1. PICK k \in Seeds : \E tag \in [1..k -> Tags] : wal = [r \in 1..k |-> Insertion(r, tag[r])]
      BY <1>1 DEF Init
    <3>2. PICK tag \in [1..k -> Tags] : wal = [r \in 1..k |-> Insertion(r, tag[r])]
      BY <3>1
    <3>3. k \in Nat
      BY ProjectionAssumption
    <3>4. n \in 1..k
      BY <3>2, <3>3
    <3> QED
      BY <3>2, <3>4 DEF Gone, Insertion, Born
  <2>8. CopiedIsGone /\ UnawareIsUntouched
    BY <2>2 DEF CopiedIsGone, UnawareIsUntouched, Building, Registered, JobAt
  <2> QED
    BY <2>5, <2>6, <2>7, <2>8 DEF TombstoneInv
<1>2. ASSUME ProjectionInv, TombstoneInv, UNCHANGED pvars \/ \E i \in Indices : Refresh(i)
      PROVE  TombstoneInv'
  <2>1. UNCHANGED <<pg, wal, shipped, committed, docs, exists, alias, target, worker, early, job, owners>>
    BY <1>2 DEF pvars, Refresh
  <2>2. NewIsUntouched' /\ OwnersInOrder'
    BY <1>2, <2>1 DEF TombstoneInv, NewIsUntouched, Untouched, OwnersInOrder, SoleOwner, Busy, JobAt
  <2>3. ServedIsGone' /\ CopiedIsGone' /\ UnawareIsUntouched'
    BY <1>2, <2>1 DEF TombstoneInv, ServedIsGone, CopiedIsGone, UnawareIsUntouched, SoleOwner, Served,
       Copied, WrittenBut, Gone, Covers, Building, Registered, JobAt, Knows
  <2> QED
    BY <2>2, <2>3 DEF TombstoneInv
<1>3. ASSUME ProjectionInv, TombstoneInv, NEW w \in Workers, WorkerStep(w) PROVE TombstoneInv'
  BY <1>3, ReaderMoves, TombstonesAfterReader, TombstonesAfterWrite DEF WorkerStep
<1> QED
  BY <1>1, <1>2, <1>3, TombstonesAfterTable, TombstonesAfterJob DEF ProjectionNext

(* Both invariants, of the projection alone.                                  *)
LEMMA TombstoneInvariant ==
  ProjectionSpec => [](ProjectionInv /\ TombstoneInv)
<1>1. Init => ProjectionInv /\ TombstoneInv
  BY InitInv, TombstonesKept
<1>2. ProjectionInv /\ TombstoneInv /\ [ProjectionNext]_pvars => (ProjectionInv /\ TombstoneInv)'
  BY ProjectionKeepsInv, TombstonesKept
<1> QED
  BY <1>1, <1>2, PTL DEF ProjectionSpec

(* Nothing follows the change that made a row what it is.                     *)
LEMMA LastIsLast ==
  ASSUME ProjectionInv, NEW n \in 1..Len(wal), wal[n].after = pg[wal[n].row]
  PROVE  \A m \in 1..Len(wal) : wal[m].row = wal[n].row => m <= n
<1>1. Shape /\ WalInOrder /\ TableIsLast
  BY DEF ProjectionInv
<1>2. Len(wal) \in Nat
  BY <1>1, ShapeFacts
<1> SUFFICES ASSUME NEW m \in 1..Len(wal), wal[m].row = wal[n].row, n < m PROVE FALSE
  BY <1>2
<1>3. ExternalVersion(wal[n].after) < ExternalVersion(wal[m].after)
  BY <1>1 DEF WalInOrder
<1>4. ExternalVersion(wal[m].after) <= ExternalVersion(wal[n].after)
  BY <1>1 DEF TableIsLast
<1>5. ExternalVersion(wal[m].after) \in Nat /\ ExternalVersion(wal[n].after) \in Nat
  BY <1>1, ShapeFacts
<1> QED
  BY <1>3, <1>4, <1>5

(* The index behind the alias shows a live row as it is, once the row's last  *)
(* change is committed by the consumer.                                       *)
LEMMA LiveRowIsShown ==
  ASSUME ProjectionInv, NEW n \in 1..Len(wal), wal[n].after = pg[wal[n].row], pg[wal[n].row].live,
         n <= committed
  PROVE  docs[alias][wal[n].row] = Transform(pg[wal[n].row])
<1> DEFINE r == wal[n].row
           d == docs[alias][r]
<1>1. Shape /\ DocsFromWal /\ TableIsLast /\ ServedIsCovered
  BY DEF ProjectionInv
<1>2. alias \in Indices /\ r \in Rows
  BY <1>1, ShapeFacts DEF Shape
<1>3. d.ver >= ExternalVersion(wal[n].after)
  BY <1>1 DEF ServedIsCovered, Served, Alive, Covers
<1>4. d # NoDoc => \E m \in 1..Len(wal) : wal[m].row = r /\ Made(d, wal[m])
  BY <1>1, <1>2 DEF DocsFromWal
<1>5. /\ ~Unversioned(wal[n])
      /\ \A m \in 1..Len(wal) : wal[m].row = wal[n].row => m <= n
  BY LastIsLast DEF Unversioned
<1> HIDE DEF d
<1>6. d = Transform(wal[n].after)
  BY <1>3, <1>4, <1>5, NewestDocument
<1> QED
  BY <1>6 DEF d

(* Once the consumer has caught up, the index behind the alias is the table:  *)
(* every live row as it is, and, while one instance has owned the partition,  *)
(* no row whose delete carried a version.                                     *)
THEOREM CaughtUpIndexIsExactHolds ==
  Spec => []CaughtUpIndexIsExact
<1>1. ProjectionInv /\ TombstoneInv => CaughtUpIndexIsExact
  <2> SUFFICES ASSUME ProjectionInv, TombstoneInv, committed = Len(wal), NEW r \in Rows
               PROVE  /\ pg[r].live => docs[alias][r] = Transform(pg[r])
                      /\ ~pg[r].live /\ r \in FullImage /\ Cardinality(owners) = 1 =>
                             ~docs[alias][r].live
    BY DEF CaughtUpIndexIsExact
  <2>1. Shape /\ WalInOrder /\ TableIsLast /\ DocsFromWal /\ ServedIsCovered /\ ServedIsGone
    BY DEF ProjectionInv, TombstoneInv
  <2>2. Len(wal) \in Nat /\ alias \in Indices /\ \A n \in 1..Len(wal) : Served(n)
    BY <2>1, ShapeFacts DEF Served, Shape
  <2>3. CASE pg[r] = NoRow
    <3>1. docs[alias][r] = NoDoc
      BY <2>1, <2>2, <2>3 DEF DocsFromWal, TableIsLast
    <3> QED
      BY <2>3, <3>1, Versions
  <2>4. CASE pg[r] # NoRow
    <3>1. PICK n \in 1..Len(wal) : wal[n].row = r /\ wal[n].after = pg[r]
      BY <2>1, <2>4 DEF TableIsLast
    <3>2. CASE pg[r].live
      BY <2>2, <3>1, <3>2, LiveRowIsShown
    <3>3. CASE ~pg[r].live /\ r \in FullImage /\ Cardinality(owners) = 1
      <4>1. SoleOwner
        <5>1. IsFiniteSet(owners)
          BY <2>1, ProjectionAssumption, FS_Subset DEF Shape
        <5> QED
          BY <3>3, <5>1, FS_Singleton DEF SoleOwner
      <4> QED
        BY <2>1, <2>2, <3>1, <3>3, <4>1 DEF ServedIsGone, Gone
    <3> QED
      BY <3>2, <3>3
  <2> QED
    BY <2>3, <2>4
<1> QED
  BY <1>1, ReadsImplementProjection, TombstoneInvariant, PTL

-----------------------------------------------------------------------------
(* What searches find: the documents of the last refresh.                     *)

ViewType == [docs : [Rows -> DocType], upto : 0..committed]
ShownFromWal ==
    \A i \in Indices, r \in Rows : shown[i].docs[r] # NoDoc =>
        \E n \in 1..Len(wal) : wal[n].row = r /\ Made(shown[i].docs[r], wal[n])

(* A refresh of the serving index, or of the new one once it is complete,     *)
(* shows what the consumer had committed.                                     *)
Shows(i, n) == shown[i].docs[wal[n].row].ver >= ExternalVersion(wal[n].after)
ShowsAll(i) == \A n \in 1..shown[i].upto : Alive(n) => Shows(i, n)

ShownInv ==
    /\ shown \in [Indices -> ViewType] /\ ShownFromWal
    /\ ShowsAll(alias) /\ (JobAt("refreshed") => ShowsAll(job.new))

(* Offsets and the WAL only grow, and a row that changes is in a new record.  *)
LEMMA ProjectionGrows ==
  ASSUME ProjectionInv, [ProjectionNext]_pvars
  PROVE  /\ shipped' \in Nat /\ committed' \in Nat /\ shipped <= shipped' /\ committed <= committed'
         /\ Len(wal') \in Nat /\ Len(wal) <= Len(wal')
         /\ \A n \in 1..Len(wal) : wal'[n] = wal[n]
         /\ \A r \in Rows : \/ pg'[r] = pg[r]
                            \/ \E n \in 1..Len(wal') : n > Len(wal) /\ wal'[n].row = r
<1>1. Shape /\ Shape'
  BY ProjectionKeepsInv DEF ProjectionInv
<1>2. /\ shipped' \in Nat /\ committed' \in Nat /\ Len(wal') \in Nat
  <2>1. wal' \in Seq(RecordType)
    BY <1>1 DEF Shape
  <2>2. Len(wal') \in Nat
    BY <2>1, LenProperties
  <2> QED
    BY <1>1, <2>2 DEF Shape
<1>3. /\ shipped \in Nat /\ committed \in Nat /\ Len(wal) \in Nat
  BY <1>1, ShapeFacts
<1>4. CASE UNCHANGED <<pg, wal, shipped>> /\ committed' \in {committed, committed + 1}
  BY <1>2, <1>3, <1>4
<1>5. CASE Ship
  BY <1>2, <1>3, <1>5 DEF Ship
<1>6. ASSUME NEW r \in Rows, InsertRow(r) \/ UpdateRow(r) \/ DeleteRow(r)
      PROVE  /\ shipped <= shipped' /\ committed <= committed' /\ Len(wal) <= Len(wal')
             /\ \A n \in 1..Len(wal) : wal'[n] = wal[n]
             /\ \A q \in Rows : \/ pg'[q] = pg[q]
                                \/ \E n \in 1..Len(wal') : n > Len(wal) /\ wal'[n].row = q
  <2>1. PICK s \in RowType : Change(r, s)
    BY <1>6, TableChanges
  <2>2. /\ Len(wal') = Len(wal) + 1 /\ wal'[Len(wal) + 1].row = r
        /\ \A n \in 1..Len(wal) : wal'[n] = wal[n]
        /\ \A q \in Rows \ {r} : pg'[q] = pg[q]
    BY <2>1, ChangeFacts
  <2>3. Len(wal) + 1 \in 1..Len(wal') /\ Len(wal) + 1 > Len(wal)
    BY <1>3, <2>2
  <2>4. shipped' = shipped /\ committed' = committed
    BY <2>1 DEF Change
  <2> QED
    BY <1>3, <2>2, <2>3, <2>4
<1>7. CASE JobStep \/ UNCHANGED pvars \/ \E i \in Indices : Refresh(i)
  <2>1. UNCHANGED <<pg, wal, shipped, committed>>
    BY <1>7 DEF pvars, Refresh, JobStep, CreateIndex, SetReindexTarget, GraceEnds, ReadBatch, BulkIndex,
       RefreshNewIndex, SwapAlias, ClearReindexTarget, DeleteOldIndex, JobFails, ClearOwnTarget,
       CheckServing, DeleteUnservedIndex, JobEnds
  <2> QED
    BY <1>4, <2>1
<1>8. ASSUME NEW w \in Workers, WorkerStep(w)
      PROVE  UNCHANGED <<pg, wal, shipped>> /\ committed' \in {committed, committed + 1}
  BY <1>8 DEF WorkerStep, FetchAndUseCache, FetchAndLookup, Fetch, FinishLookup, Expire, CommitOffset,
     FailRecord, WriteDocument
<1>9. CASE TableStep
  BY <1>2, <1>5, <1>6, <1>9 DEF TableStep
<1> QED
  BY <1>4, <1>7, <1>8, <1>9 DEF ProjectionNext

(* A row that is alive has been so since its first record.                    *)
LEMMA AliveBefore ==
  ASSUME ProjectionInv, [ProjectionNext]_pvars, NEW n \in 1..Len(wal), Alive(n)'
  PROVE  Alive(n) /\ wal'[n] = wal[n]
<1> DEFINE r == wal[n].row
<1>1. Shape /\ TableIsLast /\ r \in Rows /\ wal'[n] = wal[n]
  BY ProjectionGrows, ShapeFacts DEF ProjectionInv
<1>2. pg'[r].live /\ pg[r] # NoRow
  <2>1. pg'[wal'[n].row].live
    BY DEF Alive
  <2>2. wal'[n].row = wal[n].row
    BY <1>1
  <2>3. pg[wal[n].row] # NoRow
    BY <1>1 DEF TableIsLast
  <2> QED
    BY <2>1, <2>2, <2>3
<1>3. CASE pg' = pg
  BY <1>1, <1>2, <1>3 DEF Alive
<1>4. ASSUME NEW q \in Rows, NEW s \in RowType, Change(q, s),
             pg[q] = NoRow \/ (pg[q].live /\ ExternalVersion(pg[q]) < ExternalVersion(s))
      PROVE  Alive(n)
  <2>1. CASE q = r
    BY <1>2, <1>4, <2>1 DEF Alive
  <2>2. CASE q # r
    BY <1>1, <1>2, <1>4, <2>2, ChangeFacts DEF Alive
  <2> QED
    BY <2>1, <2>2
<1>5. ASSUME NEW q \in Rows, InsertRow(q) \/ UpdateRow(q) \/ DeleteRow(q) PROVE Alive(n)
  BY <1>4, <1>5, TableChanges
<1>6. CASE Ship \/ JobStep \/ UNCHANGED pvars \/ \E i \in Indices : Refresh(i)
  <2>1. UNCHANGED pg
    BY <1>6 DEF Ship, pvars, Refresh, JobStep, CreateIndex, SetReindexTarget, GraceEnds, ReadBatch, BulkIndex,
       RefreshNewIndex, SwapAlias, ClearReindexTarget, DeleteOldIndex, JobFails, ClearOwnTarget,
       CheckServing, DeleteUnservedIndex, JobEnds
  <2> QED
    BY <1>3, <2>1
<1>7. ASSUME NEW w \in Workers, WorkerStep(w) PROVE Alive(n)
  <2>1. UNCHANGED pg
    BY <1>7 DEF WorkerStep, FetchAndUseCache, FetchAndLookup, Fetch, FinishLookup, Expire, CommitOffset,
       FailRecord, WriteDocument
  <2> QED
    BY <1>3, <2>1
<1>8. Alive(n)
  BY <1>5, <1>6, <1>7 DEF ProjectionNext, TableStep
<1> QED
  BY <1>1, <1>8

(* What was made of the WAL, and what covered it, stay so as it grows.        *)
LEMMA ViewsKept ==
  ASSUME ProjectionInv, [ProjectionNext]_pvars, ShownInv, NEW i \in Indices, shown'[i] = shown[i]
  PROVE  /\ shown'[i] \in ViewType'
         /\ \A r \in Rows : shown'[i].docs[r] # NoDoc =>
                \E n \in 1..Len(wal') : wal'[n].row = r /\ Made(shown'[i].docs[r], wal'[n])
         /\ ShowsAll(i) => ShowsAll(i)'
<1>1. /\ committed \in Nat /\ committed' \in Nat /\ committed <= committed'
      /\ Len(wal) \in Nat /\ Len(wal') \in Nat /\ Len(wal) <= Len(wal') /\ committed <= Len(wal)
      /\ \A n \in 1..Len(wal) : wal'[n] = wal[n]
  BY ProjectionGrows, ShapeFacts DEF ProjectionInv
<1>2. shown[i] \in ViewType /\ shown[i].upto \in Nat /\ shown[i].upto <= committed
  BY <1>1 DEF ShownInv, ViewType
<1>3. shown'[i] \in ViewType'
  <2>1. shown[i].upto \in 0..committed'
    BY <1>1, <1>2
  <2> QED
    BY <1>2, <2>1 DEF ViewType
<1>4. ASSUME NEW r \in Rows, shown'[i].docs[r] # NoDoc
      PROVE  \E n \in 1..Len(wal') : wal'[n].row = r /\ Made(shown'[i].docs[r], wal'[n])
  <2>1. PICK n \in 1..Len(wal) : wal[n].row = r /\ Made(shown[i].docs[r], wal[n])
    BY <1>4 DEF ShownInv, ShownFromWal
  <2>2. n \in 1..Len(wal') /\ wal'[n] = wal[n]
    BY <1>1
  <2> QED
    BY <2>1, <2>2
<1>5. ASSUME ShowsAll(i), NEW n \in 1..shown'[i].upto, Alive(n)' PROVE Shows(i, n)'
  <2>1. n \in 1..Len(wal) /\ n \in 1..shown[i].upto
    BY <1>1, <1>2
  <2>2. Alive(n) /\ wal'[n] = wal[n]
    BY <1>5, <2>1, AliveBefore
  <2>3. shown[i].docs[wal[n].row].ver >= ExternalVersion(wal[n].after)
    BY <1>5, <2>1, <2>2 DEF ShowsAll, Shows
  <2> QED
    BY <2>2, <2>3 DEF Shows, ExternalVersion
<1>6. ShowsAll(i) => ShowsAll(i)'
  BY <1>5 DEF ShowsAll
<1> QED
  BY <1>3, <1>4, <1>6

(* A step that refreshes nothing.                                             *)
LEMMA ShownKept ==
  ASSUME ProjectionInv, [ProjectionNext]_pvars, ShownInv, UNCHANGED shown,
         alias' = alias \/ (JobAt("refreshed") /\ alias' = job.new),
         job'.pc # "refreshed" \/ job' = job
  PROVE  ShownInv'
<1>1. Shape /\ alias \in Indices /\ job.new \in Indices
  BY ShapeFacts DEF ProjectionInv, Shape
<1>2. \A i \in Indices : shown'[i] \in ViewType'
  BY ViewsKept
<1>3. shown' \in [Indices -> ViewType']
  <2>1. shown = [i \in Indices |-> shown[i]]
    BY DEF ShownInv
  <2> QED
    BY <1>2, <2>1
<1>4. ShownFromWal'
  BY ViewsKept DEF ShownFromWal, Made, Unversioned, Transform, ExternalVersion
<1>5. \A i \in Indices : ShowsAll(i) => ShowsAll(i)'
  BY ViewsKept
<1>6. ShowsAll(alias)'
  <2>1. CASE alias' = alias
    BY <1>1, <1>5, <2>1 DEF ShownInv, ShowsAll, Shows, Alive, ExternalVersion
  <2>2. CASE JobAt("refreshed") /\ alias' = job.new
    BY <1>1, <1>5, <2>2 DEF ShownInv, ShowsAll, Shows, Alive, ExternalVersion
  <2> QED
    BY <2>1, <2>2
<1>7. JobAt("refreshed")' => ShowsAll(job.new)'
  BY <1>1, <1>5 DEF ShownInv, ShowsAll, Shows, Alive, ExternalVersion, JobAt
<1> QED
  BY <1>3, <1>4, <1>6, <1>7 DEF ShownInv, ViewType

(* A step that refreshes one index, or drops one that does not serve.         *)
LEMMA ShownChanged ==
  ASSUME ProjectionInv, [ProjectionNext]_pvars, ShownInv, NEW i \in Indices,
         NEW index \in [Rows -> DocType], NEW n \in 0..committed,
         shown' = [shown EXCEPT ![i] = View(index, n)],
         UNCHANGED <<pg, wal, committed, alias>>,
         index = EmptyIndex \/ index = docs[i],
         i = alias => \A m \in 1..n : Alive(m) => index[wal[m].row].ver >= ExternalVersion(wal[m].after),
         job'.pc # "refreshed" \/ job' = job \/ (i = job.new /\ job'.new = job.new),
         job'.pc = "refreshed" /\ i = job.new =>
             \A m \in 1..n : Alive(m) => index[wal[m].row].ver >= ExternalVersion(wal[m].after)
  PROVE  ShownInv'
<1>1. Shape /\ DocsFromWal /\ alias \in Indices /\ job.new \in Indices
  BY ShapeFacts DEF ProjectionInv, Shape
<1>2. /\ shown'[i] = View(index, n) /\ \A k \in Indices \ {i} : shown'[k] = shown[k]
      /\ shown' = [k \in Indices |-> shown'[k]]
  BY DEF ShownInv
<1>3. View(index, n) \in ViewType /\ View(index, n).docs = index /\ View(index, n).upto = n
  BY DEF View, ViewType
<1>4. shown' \in [Indices -> ViewType']
  <2>1. \A k \in Indices : shown'[k] \in ViewType
    BY <1>2, <1>3 DEF ShownInv
  <2>2. ViewType' = ViewType
    BY DEF ViewType
  <2> QED
    BY <1>2, <2>1, <2>2
<1>5. ShownFromWal'
  <2> SUFFICES ASSUME NEW k \in Indices, NEW r \in Rows, shown'[k].docs[r] # NoDoc
               PROVE  \E m \in 1..Len(wal) : wal[m].row = r /\ Made(shown'[k].docs[r], wal[m])
    BY DEF ShownFromWal, Made, Unversioned, Transform, ExternalVersion
  <2>1. CASE k = i
    BY <1>1, <1>2, <1>3, <2>1 DEF DocsFromWal, EmptyIndex
  <2>2. CASE k # i
    BY <1>2, <2>2 DEF ShownInv, ShownFromWal
  <2> QED
    BY <2>1, <2>2
<1>6. \A k \in Indices \ {i} : ShowsAll(k) => ShowsAll(k)'
  BY ViewsKept, <1>2
<1>7. (\A m \in 1..n : Alive(m) => index[wal[m].row].ver >= ExternalVersion(wal[m].after)) => ShowsAll(i)'
  BY <1>2, <1>3 DEF ShowsAll, Shows, Alive, ExternalVersion
<1>8. ShowsAll(alias)'
  <2>1. CASE i = alias
    BY <1>7, <2>1 DEF ShowsAll, Shows, Alive, ExternalVersion
  <2>2. CASE i # alias
    BY <1>1, <1>6, <2>2 DEF ShownInv, ShowsAll, Shows, Alive, ExternalVersion
  <2> QED
    BY <2>1, <2>2
<1>9. ASSUME JobAt("refreshed")' PROVE ShowsAll(job.new)'
  <2>1. job'.pc = "refreshed" /\ job'.new = job.new
    BY <1>9 DEF JobAt
  <2>2. CASE i = job.new
    BY <1>7, <2>1, <2>2 DEF ShowsAll, Shows, Alive, ExternalVersion
  <2>3. CASE i # job.new
    <3>1. ShowsAll(job.new)
      BY <2>1, <2>3 DEF ShownInv, JobAt
    <3> QED
      BY <1>1, <1>6, <2>1, <2>3, <3>1 DEF ShowsAll, Shows, Alive, ExternalVersion
  <2> QED
    BY <2>2, <2>3
<1> QED
  BY <1>4, <1>5, <1>8, <1>9 DEF ShownInv, ViewType

(* At the start, and in every step.                                           *)
LEMMA ShownStarts ==
  ASSUME Init
  PROVE  ShownInv
<1>1. PICK k \in Seeds : \E tag \in [1..k -> Tags] :
           /\ pg = [r \in Rows |-> IF r \in 1..k THEN Born(tag[r]) ELSE NoRow]
           /\ wal = [r \in 1..k |-> Insertion(r, tag[r])]
           /\ docs = [i \in Indices |-> [r \in Rows |->
                          IF i = 1 /\ r \in 1..k THEN Transform(Born(tag[r])) ELSE NoDoc]]
           /\ shipped = k /\ committed = k
           /\ shown = [i \in Indices |-> View(docs[i], IF i = 1 THEN k ELSE 0)]
  BY DEF Init
<1>2. /\ shown = [i \in Indices |-> View(docs[i], IF i = 1 THEN k ELSE 0)] /\ committed = k
      /\ k \in Nat /\ alias = 1 /\ job.pc = "idle" /\ 1 \in Indices
  BY <1>1, ProjectionAssumption DEF Init, IdleJob, Indices
<1>3. ProjectionInv /\ Shape /\ DocsFromWal /\ ServedIsCovered
  BY InitInv DEF ProjectionInv
<1>4. \A i \in Indices : shown[i].docs = docs[i] /\ shown[i].upto = (IF i = 1 THEN k ELSE 0)
  BY <1>2 DEF View
<1>5. shown \in [Indices -> ViewType]
  <2>1. \A i \in Indices : View(docs[i], IF i = 1 THEN k ELSE 0) \in ViewType
    <3>1. \A i \in Indices : docs[i] \in [Rows -> DocType] /\ (IF i = 1 THEN k ELSE 0) \in 0..committed
      BY <1>2, <1>3 DEF Shape
    <3> QED
      BY <3>1 DEF View, ViewType
  <2> QED
    BY <1>2, <2>1
<1>6. ShownFromWal
  BY <1>3, <1>4 DEF ShownFromWal, DocsFromWal
<1>7. ShowsAll(alias)
  <2> SUFFICES ASSUME NEW n \in 1..k, Alive(n) PROVE Shows(alias, n)
    BY <1>2, <1>4 DEF ShowsAll
  <2>1. n \in 1..Len(wal) /\ n <= committed
    BY <1>2, <1>3, ShapeFacts
  <2>2. Covers(alias, n)
    BY <1>3, <2>1 DEF ServedIsCovered, Served
  <2> QED
    BY <1>2, <1>4, <2>2 DEF Shows, Covers
<1> QED
  BY <1>2, <1>5, <1>6, <1>7 DEF ShownInv, JobAt

LEMMA ShownStays ==
  ASSUME ProjectionInv, [ProjectionNext]_pvars, ShownInv
  PROVE  ShownInv'
<1>1. Shape /\ Serving /\ ServedIsCovered /\ CopiedIsReached
  BY DEF ProjectionInv
<1>2. /\ alias \in Indices /\ job.new \in Indices /\ job.old \in Indices /\ committed \in Nat
      /\ committed <= Len(wal) /\ Len(wal) \in Nat /\ docs \in [Indices -> [Rows -> DocType]]
      /\ job \in JobType(job.batch)
  BY <1>1, ShapeFacts DEF Shape
<1>3. \A m \in 1..committed : Alive(m) => docs[alias][wal[m].row].ver >= ExternalVersion(wal[m].after)
  <2> SUFFICES ASSUME NEW m \in 1..committed, Alive(m)
               PROVE  docs[alias][wal[m].row].ver >= ExternalVersion(wal[m].after)
    OBVIOUS
  <2>1. m \in 1..Len(wal) /\ m <= committed
    BY <1>2
  <2> QED
    BY <1>1, <2>1 DEF ServedIsCovered, Served, Covers
<1>4. job.pc \in {"copied", "refreshed"} =>
          \A m \in 1..committed : Alive(m) => docs[job.new][wal[m].row].ver >= ExternalVersion(wal[m].after)
  <2> SUFFICES ASSUME job.pc \in {"copied", "refreshed"}, NEW m \in 1..committed, Alive(m)
               PROVE  docs[job.new][wal[m].row].ver >= ExternalVersion(wal[m].after)
    OBVIOUS
  <2>1. m \in 1..Len(wal) /\ m <= committed
    BY <1>2
  <2> QED
    BY <1>1, <2>1 DEF CopiedIsReached, Scanning, Copied, Covers, Ahead, JobAt
<1>5. CASE TableStep \/ UNCHANGED pvars
  <2>1. UNCHANGED <<shown, alias, job>>
    BY <1>5 DEF pvars, TableStep, InsertRow, UpdateRow, DeleteRow, Change, Ship
  <2> QED
    BY <2>1, ShownKept
<1>6. ASSUME NEW w \in Workers, WorkerStep(w) PROVE ShownInv'
  <2>1. UNCHANGED <<shown, alias, job>>
    BY <1>6 DEF WorkerStep, FetchAndUseCache, FetchAndLookup, Fetch, FinishLookup, Expire, CommitOffset,
       FailRecord, WriteDocument
  <2> QED
    BY <2>1, ShownKept
<1>7. ASSUME NEW i \in Indices, Refresh(i) PROVE ShownInv'
  <2>1. /\ shown' = [shown EXCEPT ![i] = View(docs[i], committed)]
        /\ UNCHANGED <<pg, wal, committed, alias, job>>
    BY <1>7 DEF Refresh
  <2>2. docs[i] \in [Rows -> DocType] /\ committed \in 0..committed
    BY <1>2
  <2> QED
    BY <1>3, <1>4, <2>1, <2>2, ShownChanged
<1>8. CASE RefreshNewIndex
  <2>1. /\ shown' = [shown EXCEPT ![job.new] = View(docs[job.new], committed)] /\ job.pc = "copied"
        /\ job' = [job EXCEPT !.pc = "refreshed"] /\ UNCHANGED <<pg, wal, committed, alias>>
    BY <1>8 DEF RefreshNewIndex, SetJob, JobAt
  <2>2. docs[job.new] \in [Rows -> DocType] /\ committed \in 0..committed /\ job'.new = job.new
    BY <1>2, <2>1 DEF JobType
  <2> QED
    BY <1>2, <1>3, <1>4, <2>1, <2>2, ShownChanged
<1>9. ASSUME NEW i \in Indices, i # alias, DropIndex(i), JobReturns, UNCHANGED <<pg, wal, committed, alias>>
      PROVE  ShownInv'
  <2>1. shown' = [shown EXCEPT ![i] = View(EmptyIndex, 0)]
    BY <1>9 DEF DropIndex
  <2>2. EmptyIndex \in [Rows -> DocType] /\ 0 \in 0..committed
    BY <1>2, Versions DEF EmptyIndex
  <2>3. job'.pc = "idle"
    BY <1>1, <1>9, JobRecords
  <2> QED
    BY <1>9, <2>1, <2>2, <2>3, ShownChanged
<1>10. CASE DeleteOldIndex
  <2>1. job.old # alias
    BY <1>1, <1>10, ShapeFacts DEF DeleteOldIndex, JobAt, Serving
  <2> QED
    BY <1>2, <1>9, <1>10, <2>1 DEF DeleteOldIndex
<1>11. CASE DeleteUnservedIndex
  <2>1. job.new # alias
    BY <1>1, <1>11 DEF DeleteUnservedIndex, Serving
  <2> QED
    BY <1>2, <1>9, <1>11, <2>1 DEF DeleteUnservedIndex
<1>12. CASE SwapAlias
  <2>1. JobAt("refreshed") /\ alias' = job.new /\ job' = [job EXCEPT !.pc = "swapped"] /\ UNCHANGED shown
    BY <1>12 DEF SwapAlias, SetJob
  <2>2. job'.pc = "swapped"
    BY <1>2, <2>1 DEF JobType
  <2> QED
    BY <2>1, <2>2, ShownKept
<1>13. CASE \/ CreateIndex \/ SetReindexTarget \/ GraceEnds \/ ReadBatch \/ BulkIndex
            \/ ClearReindexTarget \/ JobFails \/ ClearOwnTarget \/ CheckServing \/ JobEnds
  <2>1. UNCHANGED <<shown, alias>>
    BY <1>13 DEF CreateIndex, SetReindexTarget, GraceEnds, ReadBatch, BulkIndex, ClearReindexTarget,
       JobFails, ClearOwnTarget, CheckServing, JobEnds
  <2>2. job'.pc # "refreshed"
    <3>1. JobReturns => job'.pc = "idle"
      BY <1>1, JobRecords
    <3>2. \A pc \in JobSteps : [job EXCEPT !.pc = pc].pc = pc
      BY <1>2 DEF JobType
    <3> QED
      BY <1>2, <1>13, <3>1 DEF JobType, CreateIndex, SetReindexTarget, GraceEnds, ReadBatch, BulkIndex,
         ClearReindexTarget, JobFails, ClearOwnTarget, CheckServing, JobEnds, SetJob
  <2> QED
    BY <2>1, <2>2, ShownKept
<1> QED
  BY <1>5, <1>6, <1>7, <1>8, <1>10, <1>11, <1>12, <1>13 DEF ProjectionNext, JobStep

(* The projection's invariant, with what searches find.                       *)
LEMMA ShownInvariant ==
  ProjectionSpec => [](ProjectionInv /\ ShownInv)
<1>1. Init => ProjectionInv /\ ShownInv
  BY InitInv, ShownStarts
<1>2. ProjectionInv /\ ShownInv /\ [ProjectionNext]_pvars => (ProjectionInv /\ ShownInv)'
  BY ProjectionKeepsInv, ShownStays
<1> QED
  BY <1>1, <1>2, PTL DEF ProjectionSpec

(* A search of the index behind the alias finds a live row as it is, once the *)
(* row's last change was committed before the index's last refresh.           *)
LEMMA LiveRowIsFound ==
  ASSUME ProjectionInv, ShownInv, NEW n \in 1..Len(wal), wal[n].after = pg[wal[n].row],
         pg[wal[n].row].live, n <= shown[alias].upto
  PROVE  shown[alias].docs[wal[n].row] = Transform(pg[wal[n].row])
<1> DEFINE r == wal[n].row
           d == shown[alias].docs[r]
<1>1. alias \in Indices /\ r \in Rows /\ n \in Nat
  BY ShapeFacts DEF ProjectionInv, Shape
<1>2. n \in 1..shown[alias].upto
  BY <1>1 DEF ShownInv, ViewType
<1>3. d.ver >= ExternalVersion(wal[n].after)
  BY <1>2 DEF ShownInv, ShowsAll, Shows, Alive
<1>4. d # NoDoc => \E m \in 1..Len(wal) : wal[m].row = r /\ Made(d, wal[m])
  BY <1>1 DEF ShownInv, ShownFromWal
<1>5. /\ ~Unversioned(wal[n])
      /\ \A m \in 1..Len(wal) : wal[m].row = wal[n].row => m <= n
  BY LastIsLast DEF Unversioned
<1> HIDE DEF d
<1>6. d = Transform(wal[n].after)
  BY <1>3, <1>4, <1>5, NewestDocument
<1> QED
  BY <1>6 DEF d

-----------------------------------------------------------------------------
(* Keyset order and pages.                                                    *)

(* A list's order is a strict total order of the rows.                        *)
LEMMA FollowsOrder ==
  ASSUME NEW key \in [Rows -> Nat]
  PROVE  /\ \A r \in Rows : ~Follows(key, r, r)
         /\ \A r, q \in Rows : r # q => Follows(key, r, q) \/ Follows(key, q, r)
         /\ \A r, q \in Rows : Follows(key, r, q) => ~Follows(key, q, r)
         /\ \A p, q, r \in Rows : Follows(key, p, q) /\ Follows(key, q, r) => Follows(key, p, r)
<1>1. Rows \subseteq Nat /\ \A r \in Rows : key[r] \in Nat
  BY ProjectionAssumption
<1>2. \A r, q \in Rows : r \in Nat /\ q \in Nat /\ key[r] \in Nat /\ key[q] \in Nat
  BY <1>1
<1>3. /\ \A r \in Rows : ~Follows(key, r, r)
      /\ \A r, q \in Rows : r # q => Follows(key, r, q) \/ Follows(key, q, r)
      /\ \A r, q \in Rows : Follows(key, r, q) => ~Follows(key, q, r)
  BY <1>2 DEF Follows, Behind, After, AfterNewest
<1>4. ASSUME NEW p \in Rows, NEW q \in Rows, NEW r \in Rows, Follows(key, p, q), Follows(key, q, r)
      PROVE  Follows(key, p, r)
  <2>1. p \in Nat /\ q \in Nat /\ r \in Nat /\ key[p] \in Nat /\ key[q] \in Nat /\ key[r] \in Nat
    BY <1>1
  <2> QED
    BY <1>4, <2>1 DEF Follows, Behind, After, AfterNewest
<1> QED
  BY <1>3, <1>4

(* A set of rows that is not empty has a last one.                            *)
LEMMA LastRow ==
  ASSUME NEW key \in [Rows -> Nat], NEW S \in SUBSET Rows, S # {}
  PROVE  \E x \in S : \A q \in S \ {x} : Follows(key, x, q)
<1> DEFINE Later(r) == {q \in S : Follows(key, q, r)}
           T == {Cardinality(Later(r)) : r \in S}
<1>1. \A r \in S : IsFiniteSet(Later(r)) /\ Cardinality(Later(r)) \in Nat
  <2>1. \A r \in S : Later(r) \in SUBSET Rows
    OBVIOUS
  <2>2. \A r \in S : IsFiniteSet(Later(r))
    BY <2>1, SearchAssumption, FS_Subset
  <2> QED
    BY <2>2, FS_CardinalityType
<1>2. T \subseteq Nat /\ T # {}
  BY <1>1
<1>3. PICK n \in T : \A m \in T : ~(<<m, n>> \in OpToRel(<, Nat))
  <2> HIDE DEF T
  <2> QED
    BY <1>2, NatLessThanWellFounded, WFMin
<1>4. PICK x \in S : n = Cardinality(Later(x))
  OBVIOUS
<1>5. \A q \in S : ~(Cardinality(Later(q)) < Cardinality(Later(x)))
  <2> SUFFICES ASSUME NEW q \in S, Cardinality(Later(q)) < Cardinality(Later(x)) PROVE FALSE
    OBVIOUS
  <2>1. Cardinality(Later(q)) \in T /\ Cardinality(Later(q)) \in Nat /\ n \in Nat
    BY <1>1, <1>4
  <2> QED
    BY <1>3, <1>4, <2>1 DEF OpToRel
<1>6. ASSUME NEW q \in S, Follows(key, q, x) PROVE FALSE
  <2>1. Later(q) \subseteq Later(x)
    BY <1>6, FollowsOrder
  <2>2. q \in Later(x) /\ q \notin Later(q)
    BY <1>6, FollowsOrder
  <2>3. Cardinality(Later(q)) <= Cardinality(Later(x)) /\ Cardinality(Later(q)) # Cardinality(Later(x))
    BY <1>1, <2>1, <2>2, FS_Subset
  <2>4. Cardinality(Later(q)) \in Nat /\ Cardinality(Later(x)) \in Nat
    BY <1>1
  <2> QED
    BY <1>5, <2>3, <2>4
<1> QED
  BY <1>6, FollowsOrder

(* What InOrder returns.                                                      *)
Sorting(key, S, s) ==
    /\ s \in [1..Cardinality(S) -> S]
    /\ \A i, j \in 1..Cardinality(S) : i < j => Follows(key, s[j], s[i])

(* Every set of rows has a sorting: a smallest one without would not be empty,*)
(* and without its last row it would have one.                                *)
LEMMA SortingExists ==
  ASSUME NEW key \in [Rows -> Nat], NEW S0 \in SUBSET Rows
  PROVE  \E s : Sorting(key, S0, s)
<1>1. \A S \in SUBSET Rows : IsFiniteSet(S) /\ Cardinality(S) \in Nat
  BY SearchAssumption, FS_Subset, FS_CardinalityType
<1> DEFINE Bad == {S \in SUBSET Rows : \A s : ~Sorting(key, S, s)}
           T == {Cardinality(S) : S \in Bad}
<1>2. SUFFICES ASSUME S0 \in Bad PROVE FALSE
  OBVIOUS
<1>3. T \subseteq Nat /\ T # {}
  BY <1>1, <1>2
<1>4. PICK n \in T : \A m \in T : ~(<<m, n>> \in OpToRel(<, Nat))
  <2> HIDE DEF T
  <2> QED
    BY <1>3, NatLessThanWellFounded, WFMin
<1>5. PICK S \in Bad : n = Cardinality(S)
  OBVIOUS
<1>6. n \in Nat /\ S \in SUBSET Rows
  BY <1>3, <1>5
<1>7. S # {}
  <2> SUFFICES ASSUME S = {} PROVE FALSE
    OBVIOUS
  <2>1. Cardinality(S) = 0
    BY FS_EmptySet
  <2>2. 1..0 = {}
    OBVIOUS
  <2>3. Sorting(key, S, [i \in 1..0 |-> 0])
    BY <2>1, <2>2 DEF Sorting
  <2> QED
    BY <1>5, <2>3
<1>8. PICK x \in S : \A q \in S \ {x} : Follows(key, x, q)
  BY <1>6, <1>7, LastRow
<1>9. Cardinality(S \ {x}) = n - 1 /\ n - 1 \in Nat
  <2>1. IsFiniteSet(S) /\ S \ {x} \in SUBSET Rows
    BY <1>1, <1>6
  <2>2. Cardinality(S \ {x}) = Cardinality(S) - 1
    BY <1>8, <2>1, FS_RemoveElement
  <2>3. Cardinality(S \ {x}) \in Nat
    BY <1>1, <2>1
  <2> QED
    BY <1>5, <2>2, <2>3
<1>10. PICK s : Sorting(key, S \ {x}, s)
  <2> SUFFICES ASSUME S \ {x} \in Bad PROVE FALSE
    BY <1>6
  <2>1. n - 1 \in T
    BY <1>9
  <2>2. <<n - 1, n>> \in OpToRel(<, Nat)
    BY <1>6, <1>9 DEF OpToRel
  <2> QED
    BY <1>4, <2>1, <2>2
<1>11. /\ s \in [1..(n - 1) -> S \ {x}]
       /\ \A i, j \in 1..(n - 1) : i < j => Follows(key, s[j], s[i])
  BY <1>9, <1>10 DEF Sorting
<1> DEFINE e == [i \in 1..n |-> IF i = n THEN x ELSE s[i]]
<1>12. \A i \in 1..n : i = n \/ i \in 1..(n - 1)
  BY <1>6
<1>13. e \in [1..n -> S]
  BY <1>8, <1>11, <1>12
<1>14. ASSUME NEW i \in 1..n, NEW j \in 1..n, i < j PROVE Follows(key, e[j], e[i])
  <2>1. i \in 1..(n - 1)
    BY <1>6, <1>14
  <2>2. i # n
    BY <1>6, <1>14
  <2>3. CASE j = n
    BY <1>8, <1>11, <2>1, <2>2, <2>3
  <2>4. CASE j # n
    BY <1>11, <1>12, <1>14, <2>1, <2>2, <2>4
  <2> QED
    BY <2>3, <2>4
<1>15. Sorting(key, S, e)
  <2> HIDE DEF e
  <2> QED
    BY <1>5, <1>13, <1>14 DEF Sorting
<1> QED
  BY <1>5, <1>15

(* A page in order: a sequence without repetitions of exactly its rows.       *)
LEMMA InOrderFacts ==
  ASSUME NEW key \in [Rows -> Nat], NEW S \in SUBSET Rows
  PROVE  /\ InOrder(key, S) \in Seq(Rows) /\ Len(InOrder(key, S)) = Cardinality(S)
         /\ Cardinality(S) \in Nat
         /\ \A i \in 1..Cardinality(S) : InOrder(key, S)[i] \in S
         /\ \A i, j \in 1..Cardinality(S) : i < j => Follows(key, InOrder(key, S)[j], InOrder(key, S)[i])
         /\ \A r \in S : \E i \in 1..Cardinality(S) : InOrder(key, S)[i] = r
<1> DEFINE s == InOrder(key, S)
           n == Cardinality(S)
<1>1. IsFiniteSet(S) /\ n \in Nat
  BY SearchAssumption, FS_Subset, FS_CardinalityType
<1>2. \E u \in [1..n -> S] : \A i, j \in DOMAIN u : i < j => Follows(key, u[j], u[i])
  BY SortingExists DEF Sorting
<1>3. s \in [1..n -> S] /\ \A i, j \in DOMAIN s : i < j => Follows(key, s[j], s[i])
  BY <1>2 DEF InOrder
<1> HIDE DEF s
<1>4. s \in [1..n -> S] /\ \A i, j \in 1..n : i < j => Follows(key, s[j], s[i])
  BY <1>3
<1>5. s \in Seq(Rows) /\ Len(s) = n
  <2> HIDE DEF n
  <2>1. s \in [1..n -> Rows]
    BY <1>4
  <2> QED
    BY <1>1, <2>1
<1>6. s \in Injection(1..n, S)
  <2>1. \A i, j \in 1..n : s[i] = s[j] => i = j
    <3> SUFFICES ASSUME NEW i \in 1..n, NEW j \in 1..n, s[i] = s[j], i # j PROVE FALSE
      OBVIOUS
    <3>1. i < j \/ j < i
      BY <1>1
    <3>2. s[i] \in Rows /\ s[j] \in Rows
      BY <1>4
    <3> QED
      BY <1>4, <3>1, <3>2, FollowsOrder
  <2> QED
    BY <1>4, <2>1 DEF Injection, IsInjective
<1>7. s \in Surjection(1..n, S)
  <2>1. Cardinality(1..n) = n
    BY <1>1, FS_Interval
  <2> QED
    BY <1>1, <1>6, <2>1, FS_Injection
<1>8. \A r \in S : \E i \in 1..n : s[i] = r
  BY <1>7 DEF Surjection
<1> QED
  BY <1>1, <1>4, <1>5, <1>8 DEF s

(* The first k rows of a sorting are k rows.                                  *)
LEMMA FirstRows ==
  ASSUME NEW key \in [Rows -> Nat], NEW S \in SUBSET Rows, NEW k \in 0..Cardinality(S),
         Cardinality(S) \in Nat
  PROVE  Cardinality({InOrder(key, S)[j] : j \in 1..k}) = k
<1> DEFINE s == InOrder(key, S)
           B == {s[j] : j \in 1..k}
           f == [j \in 1..k |-> s[j]]
<1>1. /\ \A j \in 1..k : j \in 1..Cardinality(S) /\ s[j] \in S
      /\ \A i, j \in 1..k : i < j => Follows(key, s[j], s[i])
  BY InOrderFacts
<1> HIDE DEF s
<1>2. f \in Injection(1..k, B)
  <2>1. \A i, j \in 1..k : f[i] = f[j] => i = j
    <3> SUFFICES ASSUME NEW i \in 1..k, NEW j \in 1..k, s[i] = s[j], i # j PROVE FALSE
      OBVIOUS
    <3>1. i < j \/ j < i
      OBVIOUS
    <3>2. s[i] \in Rows /\ s[j] \in Rows
      BY <1>1
    <3> QED
      BY <1>1, <3>1, <3>2, FollowsOrder
  <2> QED
    BY <2>1 DEF Injection, IsInjective
<1>3. f \in Surjection(1..k, B)
  BY DEF Surjection
<1>4. ExistsBijection(1..k, B)
  BY <1>2, <1>3 DEF ExistsBijection, Bijection
<1>5. IsFiniteSet(1..k) /\ Cardinality(1..k) = k
  BY FS_Interval
<1>6. Cardinality(B) = k
  <2> HIDE DEF B
  <2> QED
    BY <1>4, <1>5, FS_Bijection
<1> QED
  BY <1>6 DEF s

(* A page is the first rows of what is found, all of them when it is not full.*)
LEMMA PageFacts ==
  ASSUME NEW key \in [Rows -> Nat], NEW view, NEW fk, NEW f, NEW cursor, NEW found, NEW p,
         found = Candidates(view, key, fk, f, cursor), p = Page(view, key, fk, f, cursor)
  PROVE  /\ p \subseteq found /\ found \in SUBSET Rows
         /\ Cardinality(p) # PageSize => p = found
         /\ \A r \in found \ p, q \in p : Follows(key, r, q)
<1> DEFINE Rank(r) == Cardinality({q \in found : Follows(key, r, q)})
           s == InOrder(key, found)
           n == Cardinality(found)
<1>1. p = {r \in found : Rank(r) < PageSize} /\ found \in SUBSET Rows /\ PageSize \in Nat
  BY SearchAssumption DEF Page, Candidates
<1>2. /\ n \in Nat /\ \A i \in 1..n : s[i] \in found
      /\ \A i, j \in 1..n : i < j => Follows(key, s[j], s[i])
      /\ \A r \in found : \E i \in 1..n : s[i] = r
  BY <1>1, InOrderFacts
<1>3. ASSUME NEW i \in 1..n PROVE Rank(s[i]) = i - 1
  <2>1. {q \in found : Follows(key, s[i], q)} = {s[j] : j \in 1..(i - 1)}
    <3>1. ASSUME NEW q \in found, Follows(key, s[i], q) PROVE q \in {s[j] : j \in 1..(i - 1)}
      <4>1. PICK j \in 1..n : s[j] = q
        BY <1>2
      <4>2. ~(i < j) /\ i # j
        BY <1>1, <1>2, <3>1, <4>1, FollowsOrder
      <4>3. j \in 1..(i - 1)
        BY <1>2, <4>2
      <4> QED
        BY <4>1, <4>3
    <3>2. ASSUME NEW j \in 1..(i - 1) PROVE s[j] \in found /\ Follows(key, s[i], s[j])
      <4>1. j \in 1..n /\ j < i
        BY <1>2
      <4> QED
        BY <1>2, <4>1
    <3> HIDE DEF s
    <3> QED
      BY <3>1, <3>2
  <2>2. i - 1 \in 0..n
    BY <1>2
  <2> QED
    BY <1>1, <1>2, <2>1, <2>2, FirstRows
<1> HIDE DEF Rank, s
<1>4. \A i \in 1..n : s[i] \in p <=> i <= PageSize
  <2> SUFFICES ASSUME NEW i \in 1..n PROVE s[i] \in p <=> i <= PageSize
    OBVIOUS
  <2>1. s[i] \in p <=> i - 1 < PageSize
    BY <1>1, <1>2, <1>3
  <2> QED
    BY <1>1, <1>2, <2>1
<1>5. ASSUME NEW r \in found \ p, NEW q \in p PROVE Follows(key, r, q)
  <2>1. PICK i \in 1..n : s[i] = r
    BY <1>2
  <2>2. PICK j \in 1..n : s[j] = q
    BY <1>1, <1>2
  <2>3. j < i
    BY <1>1, <1>2, <1>4, <2>1, <2>2
  <2> QED
    BY <1>2, <2>1, <2>2, <2>3
<1>6. CASE n <= PageSize
  <2>1. \A i \in 1..n : i <= PageSize
    BY <1>1, <1>2, <1>6
  <2>2. p = found
    BY <1>1, <1>2, <1>4, <2>1
  <2> QED
    BY <1>1, <1>5, <2>2
<1>7. CASE ~(n <= PageSize)
  <2>1. p = {s[j] : j \in 1..PageSize}
    <3>1. \A j \in 1..PageSize : j \in 1..n /\ j <= PageSize
      BY <1>1, <1>2, <1>7
    <3>2. \A i \in 1..n : i <= PageSize => i \in 1..PageSize
      BY <1>1, <1>2
    <3>3. \A j \in 1..PageSize : s[j] \in p
      BY <1>4, <3>1
    <3>4. \A r \in p : \E j \in 1..PageSize : s[j] = r
      BY <1>1, <1>2, <1>4, <3>2
    <3> QED
      BY <3>3, <3>4
  <2>2. PageSize \in 0..n
    BY <1>1, <1>2, <1>7
  <2>3. Cardinality(p) = PageSize
    BY <1>1, <1>2, <2>1, <2>2, FirstRows DEF s
  <2> QED
    BY <1>1, <1>5, <2>3
<1> QED
  BY <1>5, <1>6, <1>7

-----------------------------------------------------------------------------
(* The list queries.                                                          *)

ReadSteps == {"idle", "asking", "checking", "comparing", "routing", "paged", "done", "failed"}
ReaderType(r) ==
    [pc : ReadSteps, filter : {r.filter}, cursor : Rows \cup {None}, scope : {r.scope},
     backend : Backends \cup {None}, seen : Seq(Rows), from : Nat, stamp : StampType,
     offset : Nat, fresh : BOOLEAN, sure : Nat]

ReadShape ==
    /\ aged \in 0..shipped
    /\ verdict \in [fresh : BOOLEAN, stamp : StampType]
    /\ reader = [c \in Clients |-> reader[c]]
    /\ \A c \in Clients : reader[c] \in ReaderType(reader[c])

(* No check or verdict in force started before the records of aged were in    *)
(* Kafka, and what it found fresh covers every record up to its start.        *)
VerdictInOrder ==
    verdict.stamp.valid =>
        /\ aged <= verdict.stamp.base
        /\ verdict.fresh => verdict.stamp.base <= committed
ChecksInOrder ==
    \A c \in Clients :
        /\ reader[c].stamp.valid => aged <= reader[c].stamp.base
        /\ reader[c].stamp.base <= shipped /\ reader[c].offset <= committed
        /\ reader[c].pc = "routing" /\ reader[c].fresh => reader[c].sure <= committed

GateInv == ReadShape /\ VerdictInOrder /\ ChecksInOrder

KeyOf(r) == IF r.backend = "elasticsearch" THEN EsKey ELSE DbKey
IsSeen(r, row) == \E i \in 1..Len(r.seen) : r.seen[i] = row
Distinct(s) == \A i, j \in 1..Len(s) : i # j => s[i] # s[j]

(* The cursor, once there is one, parts the rows: it is the last that was     *)
(* seen, and every steady row that was not seen is behind it.                 *)
CursorParts(c) ==
    LET r == reader[c]
    IN  /\ IsSeen(r, r.cursor)
        /\ \A i \in 1..Len(r.seen) : r.seen[i] = r.cursor \/ Follows(KeyOf(r), r.cursor, r.seen[i])
        /\ \A row \in Steady(c) : IsSeen(r, row) \/ Follows(KeyOf(r), row, r.cursor)

(* What holds of a client whatever titles its cursors carry.                  *)
ScanShape(r) ==
    /\ r.from <= Len(wal)
    /\ r.backend = "elasticsearch" => r.from <= committed
    /\ r.cursor = None => r.backend = None /\ (r.pc # "done" => r.seen = <<>>)
    /\ r.cursor # None => r.backend # None /\ r.scope = r.filter
    /\ (r.pc = "paged" => r.cursor # None) /\ (r.pc = "idle" => r.cursor = None)

ScanExact(c) ==
    LET r == reader[c]
    IN  /\ Distinct(r.seen)
        /\ r.cursor # None /\ r.pc # "done" => CursorParts(c)
        /\ r.pc = "done" => \A row \in Steady(c) : IsSeen(r, row)

ScanInv == \A c \in Clients : ScanShape(reader[c]) /\ (CursorsExact(c) => ScanExact(c))

(* What the shapes give.                                                      *)
LEMMA ReaderFacts ==
  ASSUME ReadShape, NEW c \in Clients
  PROVE  /\ reader[c].pc \in ReadSteps /\ reader[c].cursor \in Rows \cup {None}
         /\ reader[c].backend \in Backends \cup {None} /\ reader[c].seen \in Seq(Rows)
         /\ reader[c].from \in Nat /\ reader[c].stamp \in StampType /\ reader[c].offset \in Nat
         /\ reader[c].fresh \in BOOLEAN /\ reader[c].sure \in Nat
         /\ reader[c].stamp.base \in Nat /\ reader[c].stamp.valid \in BOOLEAN
         /\ NoStamp \in StampType /\ NoStamp.base = 0 /\ ~NoStamp.valid
         /\ Len(reader[c].seen) \in Nat
         /\ None \notin Rows /\ None \notin Backends
<1>1. reader[c] \in ReaderType(reader[c])
  BY DEF ReadShape
<1>2. /\ reader[c].pc \in ReadSteps /\ reader[c].cursor \in Rows \cup {None}
      /\ reader[c].backend \in Backends \cup {None} /\ reader[c].seen \in Seq(Rows)
      /\ reader[c].from \in Nat /\ reader[c].stamp \in StampType /\ reader[c].offset \in Nat
      /\ reader[c].fresh \in BOOLEAN /\ reader[c].sure \in Nat
  BY <1>1 DEF ReaderType
<1>3. reader[c].stamp.base \in Nat /\ reader[c].stamp.valid \in BOOLEAN
  BY <1>2 DEF StampType
<1>4. NoStamp \in StampType /\ NoStamp.base = 0 /\ ~NoStamp.valid
  BY DEF NoStamp, StampType
<1>5. None \notin Rows /\ None \notin Backends
  BY ProjectionAssumption, SearchAssumption
<1>6. Len(reader[c].seen) \in Nat
  BY <1>2, LenProperties
<1> QED
  BY <1>2, <1>3, <1>4, <1>5, <1>6

(* A client's step changes that client.                                       *)
LEMMA OneReader ==
  ASSUME ReadShape, NEW c \in Clients, NEW s, s \in ReaderType(s), SetReader(c, s)
  PROVE  /\ reader'[c] = s /\ \A d \in Clients \ {c} : reader'[d] = reader[d]
         /\ reader' = [d \in Clients |-> reader'[d]]
         /\ \A d \in Clients : reader'[d] \in ReaderType(reader'[d])
<1>1. reader' = [reader EXCEPT ![c] = s] /\ reader = [d \in Clients |-> reader[d]]
  BY DEF SetReader, ReadShape
<1>2. reader'[c] = s /\ \A d \in Clients \ {c} : reader'[d] = reader[d]
  BY <1>1
<1>3. reader' = [d \in Clients |-> reader'[d]]
  BY <1>1
<1>4. \A d \in Clients : reader'[d] \in ReaderType(reader'[d])
  <2> SUFFICES ASSUME NEW d \in Clients PROVE reader'[d] \in ReaderType(reader'[d])
    OBVIOUS
  <2>1. CASE d = c
    BY <1>2, <2>1
  <2>2. CASE d # c
    BY <1>2, <2>2 DEF ReadShape
  <2> QED
    BY <2>1, <2>2
<1> QED
  BY <1>2, <1>3, <1>4

-----------------------------------------------------------------------------
(* The projection moves under the queries.                                    *)

(* Steady rows never become more.                                             *)
LEMMA SteadyShrinks ==
  ASSUME ProjectionInv, ReadShape, [ProjectionNext]_pvars, NEW c \in Clients, reader'[c] = reader[c],
         reader[c].from <= Len(wal)
  PROVE  Steady(c)' \subseteq Steady(c)
<1> SUFFICES ASSUME NEW r \in Rows, Matches(reader[c].filter, pg'[r]),
                    \A n \in reader[c].from + 1..Len(wal') : wal'[n].row # r
             PROVE  r \in Steady(c)
  BY DEF Steady, Matches
<1>1. reader[c].from \in Nat /\ Len(wal) \in Nat /\ Len(wal') \in Nat
  BY ReaderFacts, ProjectionGrows, ShapeFacts DEF ProjectionInv
<1>2. pg'[r] = pg[r]
  <2> SUFFICES ASSUME NEW n \in 1..Len(wal'), n > Len(wal), wal'[n].row = r PROVE FALSE
    BY ProjectionGrows
  <2>1. n \in reader[c].from + 1..Len(wal')
    BY <1>1
  <2> QED
    BY <2>1
<1>3. ASSUME NEW n \in reader[c].from + 1..Len(wal) PROVE wal[n].row # r
  <2>1. n \in 1..Len(wal) /\ n \in reader[c].from + 1..Len(wal')
    <3>1. Len(wal) <= Len(wal')
      BY ProjectionGrows
    <3> QED
      BY <1>1, <3>1
  <2> QED
    BY <2>1, ProjectionGrows
<1> QED
  BY <1>2, <1>3 DEF Steady

(* A step of the projection.                                                  *)
LEMMA ReadsUnderProjection ==
  ASSUME ProjectionInv, GateInv, [ProjectionNext]_pvars, UNCHANGED svars
  PROVE  GateInv' /\ (ScanInv => ScanInv')
<1>1. UNCHANGED <<setup, verdict, aged, reader>>
  BY DEF svars
<1>2. /\ shipped' \in Nat /\ committed' \in Nat /\ shipped <= shipped' /\ committed <= committed'
      /\ Len(wal') \in Nat /\ Len(wal) <= Len(wal')
      /\ shipped \in Nat /\ committed \in Nat /\ Len(wal) \in Nat
  BY ProjectionGrows, ShapeFacts DEF ProjectionInv
<1>3. ReadShape /\ VerdictInOrder /\ ChecksInOrder
  BY DEF GateInv
<1>4. verdict.stamp.base \in Nat
  BY <1>3 DEF ReadShape, StampType
<1>5. ReadShape'
  <2>1. aged \in 0..shipped'
    BY <1>2, <1>3 DEF ReadShape
  <2> QED
    BY <1>1, <1>3, <2>1 DEF ReadShape
<1>6. VerdictInOrder'
  BY <1>1, <1>2, <1>3, <1>4 DEF VerdictInOrder
<1>7. ChecksInOrder'
  <2> SUFFICES ASSUME NEW c \in Clients
               PROVE  /\ reader[c].stamp.valid => aged <= reader[c].stamp.base
                      /\ reader[c].stamp.base <= shipped' /\ reader[c].offset <= committed'
                      /\ reader[c].pc = "routing" /\ reader[c].fresh => reader[c].sure <= committed'
    BY <1>1 DEF ChecksInOrder
  <2>1. reader[c].stamp.base \in Nat /\ reader[c].offset \in Nat /\ reader[c].sure \in Nat
    BY <1>3, ReaderFacts
  <2> QED
    BY <1>2, <1>3, <2>1 DEF ChecksInOrder
<1>8. ASSUME ScanInv PROVE ScanInv'
  <2> SUFFICES ASSUME NEW c \in Clients
               PROVE  ScanShape(reader[c])' /\ (CursorsExact(c)' => ScanExact(c)')
    BY DEF ScanInv
  <2> DEFINE r == reader[c]
  <2>1. ScanShape(r) /\ (CursorsExact(c) => ScanExact(c))
    BY <1>8 DEF ScanInv
  <2>2. r.from \in Nat
    BY <1>3, ReaderFacts
  <2>3. Steady(c)' \subseteq Steady(c)
    BY <1>1, <1>3, <2>1, SteadyShrinks DEF ScanShape
  <2>4. ScanShape(reader[c])'
    BY <1>1, <1>2, <2>1, <2>2 DEF ScanShape
  <2>5. CursorParts(c) => CursorParts(c)'
    BY <1>1, <2>3 DEF CursorParts, KeyOf, IsSeen, Follows, Behind, After, AfterNewest
  <2>6. CursorsExact(c)' <=> CursorsExact(c)
    BY <1>1 DEF CursorsExact
  <2>7. ScanExact(c) => ScanExact(c)'
    BY <1>1, <2>3, <2>5 DEF ScanExact, Distinct, IsSeen
  <2> QED
    BY <2>1, <2>4, <2>6, <2>7
<1> QED
  BY <1>5, <1>6, <1>7, <1>8 DEF GateInv

-----------------------------------------------------------------------------
(* The gate.                                                                  *)

(* What a client's step may do to the gate's part of its state.               *)
GateKept(s) ==
    /\ s.stamp.valid => aged <= s.stamp.base
    /\ s.stamp.base <= shipped /\ s.offset <= committed
    /\ s.pc = "routing" /\ s.fresh => s.sure <= committed

(* Such a step keeps the gate's invariant.                                    *)
LEMMA GateStep ==
  ASSUME GateInv, NEW c \in Clients, NEW s, s \in ReaderType(s), SetReader(c, s), GateKept(s),
         UNCHANGED <<shipped, committed, aged>>,
         verdict' \in [fresh : BOOLEAN, stamp : StampType], VerdictInOrder'
  PROVE  GateInv'
<1>1. ReadShape /\ ChecksInOrder
  BY DEF GateInv
<1>2. ReadShape'
  BY <1>1, OneReader DEF ReadShape
<1>3. ChecksInOrder'
  <2> SUFFICES ASSUME NEW d \in Clients
               PROVE  /\ reader'[d].stamp.valid => aged <= reader'[d].stamp.base
                      /\ reader'[d].stamp.base <= shipped /\ reader'[d].offset <= committed
                      /\ reader'[d].pc = "routing" /\ reader'[d].fresh => reader'[d].sure <= committed
    BY DEF ChecksInOrder
  <2>1. CASE d = c
    BY <1>1, <2>1, OneReader DEF GateKept
  <2>2. CASE d # c
    BY <1>1, <2>2, OneReader DEF ChecksInOrder
  <2> QED
    BY <2>1, <2>2
<1> QED
  BY <1>2, <1>3 DEF GateInv

(* What a step that answers no page may do to the scan's part.                *)
ScanKept(r, s) ==
    /\ s.cursor = r.cursor /\ s.backend = r.backend /\ s.seen = r.seen /\ s.from = r.from
    /\ s.scope = r.scope
    /\ s.pc = r.pc \/ (s.pc \notin {"done", "paged", "idle"} /\ r.pc # "done")
    /\ s.filter = r.filter \/ (r.cursor = None /\ r.pc # "done" /\ s.pc # "done")

(* Such a step keeps the scans' invariant.                                    *)
LEMMA ScanStep ==
  ASSUME ScanInv, ReadShape, NEW c \in Clients, NEW s, s \in ReaderType(s), SetReader(c, s),
         ScanKept(reader[c], s), UNCHANGED <<pvars, setup>>
  PROVE  ScanInv'
<1>1. UNCHANGED <<pg, wal, committed, setup>>
  BY DEF pvars
<1> SUFFICES ASSUME NEW d \in Clients
             PROVE  ScanShape(reader[d])' /\ (CursorsExact(d)' => ScanExact(d)')
  BY DEF ScanInv
<1> DEFINE r == reader[d]
<1>2. ScanShape(r) /\ (CursorsExact(d) => ScanExact(d))
  BY DEF ScanInv
<1>3. CASE d # c
  <2>1. reader'[d] = reader[d]
    BY <1>3, OneReader
  <2>2. Steady(d)' = Steady(d) /\ (CursorsExact(d)' <=> CursorsExact(d))
    BY <1>1, <2>1 DEF Steady, Matches, CursorsExact
  <2>3. CursorParts(d)' <=> CursorParts(d)
    BY <1>1, <2>1, <2>2 DEF CursorParts, KeyOf, IsSeen, Follows, Behind, After, AfterNewest
  <2>4. ScanShape(reader[d])' /\ (ScanExact(d) => ScanExact(d)')
    BY <1>1, <1>2, <2>1, <2>2, <2>3 DEF ScanShape, ScanExact, Distinct, IsSeen
  <2> QED
    BY <1>2, <2>2, <2>4
<1>4. CASE d = c
  <2>1. reader'[d] = s
    BY <1>4, OneReader
  <2>2. /\ s.cursor = r.cursor /\ s.backend = r.backend /\ s.seen = r.seen /\ s.from = r.from
        /\ s.scope = r.scope
        /\ s.pc = r.pc \/ (s.pc \notin {"done", "paged", "idle"} /\ r.pc # "done")
        /\ s.filter = r.filter \/ (r.cursor = None /\ r.pc # "done" /\ s.pc # "done")
    BY <1>4 DEF ScanKept
  <2>3. s.filter = r.filter => Steady(d)' = Steady(d)
    BY <1>1, <2>1, <2>2 DEF Steady, Matches
  <2>4. s.filter = r.filter => (CursorParts(d)' <=> CursorParts(d))
    BY <1>1, <2>1, <2>2, <2>3 DEF CursorParts, KeyOf, IsSeen, Follows, Behind, After, AfterNewest
  <2>5. \A row : IsSeen(s, row) <=> IsSeen(r, row)
    BY <2>2 DEF IsSeen
  <2>6. CursorsExact(d)' <=> CursorsExact(d)
    BY <1>1, <2>1, <2>2 DEF CursorsExact
  <2>7. ScanShape(s)
    BY <1>2, <2>2 DEF ScanShape
  <2>8. ScanShape(reader[d])'
    BY <1>1, <2>1, <2>7 DEF ScanShape
  <2>9. CASE s.filter = r.filter
    <3>1. ScanExact(d) => ScanExact(d)'
      BY <1>1, <2>1, <2>2, <2>3, <2>4, <2>9 DEF ScanExact, Distinct, IsSeen
    <3> QED
      BY <1>2, <2>6, <2>8, <3>1
  <2>10. CASE r.cursor = None /\ s.pc # "done"
    <3>1. ScanExact(d) => ScanExact(d)'
      BY <2>1, <2>2, <2>10 DEF ScanExact, Distinct
    <3> QED
      BY <1>2, <2>6, <2>8, <3>1
  <2> QED
    BY <2>2, <2>9, <2>10
<1> QED
  BY <1>3, <1>4

(* A client that gives up keeps what it has.                                  *)
LEMMA Raises ==
  ASSUME ProjectionInv, GateInv, ScanInv, UNCHANGED <<pvars, setup, verdict, aged>>, NEW c \in Clients,
         reader[c].pc # "done", Raise(c)
  PROVE  GateInv' /\ ScanInv'
<1> DEFINE r == reader[c]
           s == [r EXCEPT !.pc = "failed", !.fresh = FALSE, !.sure = 0]
<1>1. ReadShape /\ VerdictInOrder /\ ChecksInOrder /\ SetReader(c, s)
  BY DEF GateInv, Raise
<1>2. UNCHANGED <<shipped, committed>>
  BY DEF pvars
<1>3. r \in ReaderType(r)
  BY <1>1 DEF ReadShape
<1>4. /\ s \in ReaderType(r) /\ s.pc = "failed" /\ s.stamp = r.stamp /\ s.offset = r.offset
      /\ s.cursor = r.cursor /\ s.backend = r.backend
      /\ s.seen = r.seen /\ s.from = r.from /\ s.scope = r.scope /\ s.filter = r.filter
  BY <1>3 DEF ReaderType, ReadSteps
<1> HIDE DEF s
<1>5. s \in ReaderType(s) /\ GateKept(s) /\ ScanKept(r, s)
  BY <1>1, <1>4 DEF ReaderType, GateKept, ScanKept, ChecksInOrder
<1>6. VerdictInOrder' /\ verdict' \in [fresh : BOOLEAN, stamp : StampType]
  BY <1>1, <1>2 DEF VerdictInOrder, ReadShape
<1> QED
  BY <1>1, <1>2, <1>5, <1>6, GateStep, ScanStep

(* Every step of a client that answers no page.                               *)
LEMMA QuietReads ==
  ASSUME ProjectionInv, GateInv, ScanInv, UNCHANGED pvars, NEW c \in Clients,
         \/ UseVerdict(c) \/ BeginCheck(c) \/ ReadCommitted(c) \/ ReadEndOffsets(c)
         \/ CheckFails(c) \/ ExpireCheck(c)
         \/ \E f : ListBooks(c, f) \/ ListPatronLoans(c, f) \/ ListPatrons(c, f)
  PROVE  GateInv' /\ ScanInv'
<1> DEFINE r == reader[c]
<1>1. ReadShape /\ VerdictInOrder /\ ChecksInOrder
  BY DEF GateInv
<1>2. UNCHANGED <<pg, wal, shipped, committed, docs, alias>>
  BY DEF pvars
<1>3. /\ r \in ReaderType(r) /\ r.pc \in ReadSteps /\ r.stamp \in StampType
      /\ r.stamp.base \in Nat /\ r.stamp.valid \in BOOLEAN /\ r.offset \in Nat /\ r.sure \in Nat
      /\ NoStamp \in StampType /\ NoStamp.base = 0 /\ ~NoStamp.valid
  BY <1>1, ReaderFacts DEF ReadShape
<1>4. /\ r.stamp.valid => aged <= r.stamp.base
      /\ r.stamp.base <= shipped /\ r.offset <= committed
      /\ r.pc = "routing" /\ r.fresh => r.sure <= committed
  BY <1>1 DEF ChecksInOrder
<1>5. /\ aged \in Nat /\ aged <= shipped /\ shipped \in Nat /\ committed \in Nat
      /\ committed <= shipped
      /\ verdict \in [fresh : BOOLEAN, stamp : StampType] /\ verdict.fresh \in BOOLEAN
      /\ verdict.stamp.base \in Nat
  BY <1>1, ShapeFacts DEF ReadShape, ProjectionInv, StampType
<1>6. ASSUME NEW s, s \in ReaderType(s), SetReader(c, s), GateKept(s), ScanKept(r, s),
             UNCHANGED <<setup, aged>>,
             verdict' \in [fresh : BOOLEAN, stamp : StampType], VerdictInOrder'
      PROVE  GateInv' /\ ScanInv'
  BY <1>1, <1>2, <1>6, GateStep, ScanStep
<1>7. \A fresh \in BOOLEAN : LET s == Judged(c, fresh)
                             IN  /\ s \in ReaderType(s) /\ (r.pc # "done" => ScanKept(r, s))
                                 /\ (fresh => aged <= committed) => GateKept(s)
  <2> SUFFICES ASSUME NEW fresh \in BOOLEAN
               PROVE  LET s == Judged(c, fresh)
                      IN  /\ s \in ReaderType(s) /\ (r.pc # "done" => ScanKept(r, s))
                          /\ (fresh => aged <= committed) => GateKept(s)
    OBVIOUS
  <2> DEFINE s == Judged(c, fresh)
  <2>1. /\ s \in ReaderType(r) /\ s.pc = "routing" /\ s.fresh = fresh /\ s.sure = aged
        /\ s.stamp = NoStamp /\ s.offset = 0 /\ s.cursor = r.cursor /\ s.backend = r.backend
        /\ s.seen = r.seen /\ s.from = r.from /\ s.scope = r.scope /\ s.filter = r.filter
    BY <1>3, <1>5 DEF Judged, ReaderType, ReadSteps
  <2> HIDE DEF s
  <2>2. s \in ReaderType(s)
    BY <2>1 DEF ReaderType
  <2> QED
    BY <1>3, <1>5, <2>1, <2>2 DEF ScanKept, GateKept, s
<1>8. CASE UseVerdict(c)
  <2>1. /\ r.pc = "asking" /\ verdict.stamp.valid /\ SetReader(c, Judged(c, verdict.fresh))
        /\ UNCHANGED <<setup, verdict, aged>>
    BY <1>8 DEF UseVerdict, Asking
  <2>2. verdict.fresh => aged <= committed
    BY <1>1, <1>5, <2>1 DEF VerdictInOrder
  <2>3. VerdictInOrder'
    BY <1>1, <1>2, <2>1 DEF VerdictInOrder
  <2> QED
    BY <1>5, <1>6, <1>7, <2>1, <2>2, <2>3
<1>9. CASE BeginCheck(c)
  <2> DEFINE s == [r EXCEPT !.pc = "checking", !.stamp = [base |-> shipped, valid |-> TRUE]]
  <2>1. r.pc = "asking" /\ SetReader(c, s) /\ UNCHANGED <<setup, verdict, aged>>
    BY <1>9 DEF BeginCheck, Asking
  <2>2. /\ s \in ReaderType(r) /\ s.pc = "checking" /\ s.stamp.base = shipped /\ s.offset = r.offset
        /\ s.cursor = r.cursor /\ s.backend = r.backend
        /\ s.seen = r.seen /\ s.from = r.from /\ s.scope = r.scope /\ s.filter = r.filter
    BY <1>3, <1>5 DEF ReaderType, ReadSteps, StampType
  <2> HIDE DEF s
  <2>3. s \in ReaderType(s) /\ GateKept(s) /\ ScanKept(r, s)
    BY <1>4, <1>5, <2>1, <2>2 DEF ReaderType, GateKept, ScanKept
  <2>4. VerdictInOrder'
    BY <1>1, <1>2, <2>1 DEF VerdictInOrder
  <2> QED
    BY <1>5, <1>6, <2>1, <2>3, <2>4
<1>10. CASE ReadCommitted(c)
  <2> DEFINE s == [r EXCEPT !.pc = "comparing", !.offset = committed]
  <2>1. r.pc = "checking" /\ SetReader(c, s) /\ UNCHANGED <<setup, verdict, aged>>
    BY <1>10 DEF ReadCommitted
  <2>2. /\ s \in ReaderType(r) /\ s.pc = "comparing" /\ s.stamp = r.stamp /\ s.offset = committed
        /\ s.cursor = r.cursor /\ s.backend = r.backend
        /\ s.seen = r.seen /\ s.from = r.from /\ s.scope = r.scope /\ s.filter = r.filter
    BY <1>3, <1>5 DEF ReaderType, ReadSteps
  <2> HIDE DEF s
  <2>3. s \in ReaderType(s) /\ GateKept(s) /\ ScanKept(r, s)
    BY <1>4, <1>5, <2>1, <2>2 DEF ReaderType, GateKept, ScanKept
  <2>4. VerdictInOrder'
    BY <1>1, <1>2, <2>1 DEF VerdictInOrder
  <2> QED
    BY <1>5, <1>6, <2>1, <2>3, <2>4
<1>11. ASSUME NEW fresh \in BOOLEAN, Conclude(c, fresh, r.stamp), r.pc # "done",
              fresh => committed = shipped
       PROVE  GateInv' /\ ScanInv'
  <2>1. /\ verdict' = [fresh |-> fresh, stamp |-> IF r.stamp.valid THEN r.stamp ELSE NoStamp]
        /\ SetReader(c, Judged(c, fresh)) /\ UNCHANGED <<setup, aged>>
    BY <1>11 DEF Conclude
  <2>2. /\ verdict' \in [fresh : BOOLEAN, stamp : StampType]
        /\ verdict'.fresh = fresh
        /\ verdict'.stamp.valid => verdict'.stamp.base = r.stamp.base /\ r.stamp.valid
    BY <1>3, <2>1
  <2>3. VerdictInOrder'
    BY <1>2, <1>3, <1>4, <1>5, <1>11, <2>1, <2>2 DEF VerdictInOrder
  <2> QED
    BY <1>5, <1>6, <1>7, <1>11, <2>1, <2>2, <2>3
<1>12. CASE ReadEndOffsets(c)
  <2>1. r.pc = "comparing" /\ Conclude(c, r.offset >= shipped, r.stamp)
    BY <1>12 DEF ReadEndOffsets
  <2>2. (r.offset >= shipped) \in BOOLEAN /\ ((r.offset >= shipped) => committed = shipped)
    BY <1>3, <1>4, <1>5
  <2> QED
    BY <1>11, <2>1, <2>2
<1>13. CASE CheckFails(c)
  BY <1>11, <1>13 DEF CheckFails
<1>14. CASE ExpireCheck(c)
  <2> DEFINE s == [r EXCEPT !.stamp.valid = FALSE]
  <2>1. SetReader(c, s) /\ UNCHANGED <<setup, verdict, aged>>
    BY <1>14 DEF ExpireCheck
  <2>2. /\ s \in ReaderType(r) /\ s.pc = r.pc /\ s.stamp.base = r.stamp.base /\ ~s.stamp.valid
        /\ s.offset = r.offset /\ s.fresh = r.fresh /\ s.sure = r.sure
        /\ s.cursor = r.cursor /\ s.backend = r.backend
        /\ s.seen = r.seen /\ s.from = r.from /\ s.scope = r.scope /\ s.filter = r.filter
    BY <1>3 DEF ReaderType, StampType
  <2> HIDE DEF s
  <2>3. s \in ReaderType(s) /\ GateKept(s) /\ ScanKept(r, s)
    BY <1>4, <2>2 DEF ReaderType, GateKept, ScanKept
  <2>4. VerdictInOrder'
    BY <1>1, <1>2, <2>1 DEF VerdictInOrder
  <2> QED
    BY <1>5, <1>6, <2>1, <2>3, <2>4
<1>15. ASSUME NEW f, SetReader(c, [r EXCEPT !.pc = "asking", !.filter = f]),
              UNCHANGED <<setup, verdict, aged>>,
              r.pc = "idle" \/ (r.pc = "paged" /\ r.scope = f)
       PROVE  GateInv' /\ ScanInv'
  <2> DEFINE s == [r EXCEPT !.pc = "asking", !.filter = f]
  <2>1. /\ s.pc = "asking" /\ s.stamp = r.stamp /\ s.offset = r.offset /\ s.filter = f
        /\ s.cursor = r.cursor /\ s.backend = r.backend
        /\ s.seen = r.seen /\ s.from = r.from /\ s.scope = r.scope /\ s \in ReaderType(s)
    BY <1>3 DEF ReaderType, ReadSteps
  <2>2. f = r.filter \/ r.cursor = None
    BY <1>15 DEF ScanInv, ScanShape
  <2> HIDE DEF s
  <2>3. GateKept(s) /\ ScanKept(r, s)
    BY <1>4, <1>15, <2>1, <2>2 DEF GateKept, ScanKept
  <2>4. VerdictInOrder'
    BY <1>1, <1>2, <1>15 DEF VerdictInOrder
  <2> QED
    BY <1>5, <1>6, <1>15, <2>1, <2>3, <2>4 DEF s
<1>16. CASE \E f : ListBooks(c, f) \/ ListPatronLoans(c, f) \/ ListPatrons(c, f)
  <2>1. PICK f : StartScan(c, f) \/ FollowCursor(c, f)
    BY <1>16 DEF ListBooks, ListPatronLoans, ListPatrons
  <2>2. CASE StartScan(c, f)
    BY <1>15, <2>2 DEF StartScan
  <2>3. CASE FollowCursor(c, f)
    <3>1. CASE InScope(c, f)
      BY <1>15, <2>3, <3>1 DEF FollowCursor, InScope
    <3>2. CASE ~InScope(c, f)
      BY <2>3, <3>2, Raises DEF FollowCursor
    <3> QED
      BY <3>1, <3>2
  <2> QED
    BY <2>1, <2>2, <2>3
<1> QED
  BY <1>8, <1>9, <1>10, <1>12, <1>13, <1>14, <1>16

-----------------------------------------------------------------------------
(* A page.                                                                    *)

(* The assumptions on the constants that paging uses.                         *)
LEMMA PageConstants ==
  /\ EsKey \in [Rows -> Nat] /\ DbKey \in [Rows -> Nat] /\ PyKey \in [Rows -> Nat]
  /\ PageSize \in Nat /\ PageSize > 0
  /\ None \notin Rows /\ None \notin Backends
<1>1. None \notin Rows
  BY ProjectionAssumption
<1> QED
  BY <1>1, SearchAssumption

(* What a page is ordered by, what its cursor carries, and since when a row   *)
(* must not have changed to be returned.                                      *)
Order(backend) == IF backend = "elasticsearch" THEN EsKey ELSE DbKey
Carried(backend) == IF backend = "elasticsearch" THEN EsKey ELSE CursorKey
Since(r, upto) == IF r.cursor = None THEN upto ELSE Lesser(r.from, upto)

ShowsSteady(c, view, upto) ==
    \A row \in Rows :
        /\ Matches(reader[c].filter, pg[row])
        /\ \A n \in Since(reader[c], upto) + 1..Len(wal) : wal[n].row # row
        => Matches(reader[c].filter, view[row])

(* A page whose view shows every steady row keeps the scan complete, and, as  *)
(* its backend is the cursor's, without repetitions, unless the cursor carries*)
(* another value than the row's.                                              *)
LEMMA PageStep ==
  ASSUME ProjectionInv, GateInv, ScanInv, UNCHANGED <<pvars, setup, verdict, aged>>, NEW c \in Clients,
         reader[c].pc = "routing", NEW backend \in Backends, NEW view,
         NEW upto \in Nat, upto <= Len(wal), backend = "elasticsearch" => upto <= committed,
         reader[c].backend \in {None, backend},
         Answered(c, backend, view, Order(backend), Carried(backend), upto), ShowsSteady(c, view, upto)
  PROVE  GateInv' /\ ScanInv'
<1> SUFFICES ASSUME NEW r, r = reader[c], NEW key, key = IF backend = "elasticsearch" THEN EsKey ELSE DbKey,
                    NEW fk, fk = IF backend = "elasticsearch" THEN EsKey ELSE CursorKey,
                    NEW start, start = IF r.cursor = None THEN upto ELSE Lesser(r.from, upto),
                    r.pc = "routing", r.backend \in {None, backend},
                    Answered(c, backend, view, key, fk, upto),
                    \A row \in Rows :
                        /\ Matches(r.filter, pg[row])
                        /\ \A n \in start + 1..Len(wal) : wal[n].row # row
                        => Matches(r.filter, view[row])
             PROVE  GateInv' /\ ScanInv'
  BY DEF Order, Carried, Since, ShowsSteady
<1>1. PICK found : found = Candidates(view, key, fk, r.filter, r.cursor)
  OBVIOUS
<1>2. PICK p : p = Page(view, key, fk, r.filter, r.cursor)
  OBVIOUS
<1>3. PICK items : items = InOrder(key, p)
  OBVIOUS
<1>4. PICK M : M = Len(items)
  OBVIOUS
<1>5. PICK N : N = Len(r.seen)
  OBVIOUS
<1> DEFINE full == M = PageSize
<1>6. PICK s : s = [r EXCEPT
                   !.pc = IF full THEN "paged" ELSE "done",
                   !.seen = @ \o items,
                   !.from = IF r.cursor = None THEN upto ELSE Lesser(@, upto),
                   !.cursor = IF full THEN items[M] ELSE @,
                   !.scope = r.filter, !.backend = IF full THEN backend ELSE @,
                   !.fresh = FALSE, !.sure = 0]
  OBVIOUS
<1>7. ReadShape /\ VerdictInOrder /\ ChecksInOrder /\ SetReader(c, s)
  BY <1>2, <1>3, <1>4, <1>6 DEF GateInv, Answered
<1>8. UNCHANGED <<pg, wal, shipped, committed, setup, verdict, aged>>
  BY DEF pvars
<1>9. key \in [Rows -> Nat] /\ PageSize \in Nat /\ PageSize > 0 /\ None \notin Rows /\ None \notin Backends
  <2>1. key = EsKey \/ key = DbKey
    OBVIOUS
  <2> QED
    BY <2>1, PageConstants
<1>10. /\ p \subseteq found /\ found \in SUBSET Rows /\ (Cardinality(p) # PageSize => p = found)
       /\ \A q \in found \ p, x \in p : Follows(key, q, x)
  BY <1>9, <1>1, <1>2, PageFacts
<1>11. /\ found = {row \in Rows : Matches(r.filter, view[row])
                                  /\ (r.cursor # None => Behind(key, fk, row, r.cursor))}
  BY <1>1 DEF Candidates
<1>12. p \in SUBSET Rows
  BY <1>10
<1>13. /\ items \in Seq(Rows) /\ M = Cardinality(p) /\ M \in Nat
       /\ \A i \in 1..M : items[i] \in p
       /\ \A i, j \in 1..M : i < j => Follows(key, items[j], items[i])
       /\ \A q \in p : \E i \in 1..M : items[i] = q
  <2>1. key \in [Rows -> Nat]
    BY <1>9
  <2>2. /\ InOrder(key, p) \in Seq(Rows) /\ Len(InOrder(key, p)) = Cardinality(p)
        /\ Cardinality(p) \in Nat
        /\ \A i \in 1..Cardinality(p) : InOrder(key, p)[i] \in p
        /\ \A i, j \in 1..Cardinality(p) : i < j => Follows(key, InOrder(key, p)[j], InOrder(key, p)[i])
        /\ \A q \in p : \E i \in 1..Cardinality(p) : InOrder(key, p)[i] = q
    BY <1>12, <2>1, InOrderFacts
  <2> QED
    BY <1>3, <1>4, <2>2
<1>14. /\ r \in ReaderType(r) /\ r.seen \in Seq(Rows) /\ N \in Nat /\ r.cursor \in Rows \cup {None}
       /\ r.from \in Nat
       /\ \A i \in 1..N : r.seen[i] \in Rows
  <2>1. /\ r \in ReaderType(r) /\ r.seen \in Seq(Rows) /\ r.cursor \in Rows \cup {None} /\ r.from \in Nat
        /\ N \in Nat
    BY <1>7, <1>5, ReaderFacts DEF ReadShape
  <2> QED
    BY <1>5, <2>1, ElementOfSeq
<1>15. /\ r.seen \o items \in Seq(Rows) /\ Len(r.seen \o items) = N + M
       /\ \A i \in 1..(N + M) : (r.seen \o items)[i] = IF i <= N THEN r.seen[i] ELSE items[i - N]
  BY <1>13, <1>14, <1>4, <1>5, ConcatProperties
<1>16. full => M \in 1..M /\ items[M] \in p /\ items[M] \in Rows
  BY <1>9, <1>12, <1>13
<1>17. /\ s \in ReaderType(s) /\ s.filter = r.filter /\ s.scope = r.filter
       /\ s.pc = (IF full THEN "paged" ELSE "done") /\ s.seen = r.seen \o items
       /\ s.from = start
       /\ s.cursor = (IF full THEN items[M] ELSE r.cursor)
       /\ s.backend = (IF full THEN backend ELSE r.backend)
       /\ s.stamp = r.stamp /\ s.offset = r.offset
  <2>1. /\ s.filter = r.filter /\ s.scope = r.filter
        /\ s.pc = (IF full THEN "paged" ELSE "done") /\ s.seen = r.seen \o items
        /\ s.from = start
        /\ s.cursor = (IF full THEN items[M] ELSE r.cursor)
        /\ s.backend = (IF full THEN backend ELSE r.backend)
        /\ s.stamp = r.stamp /\ s.offset = r.offset /\ s.fresh = FALSE /\ s.sure = 0
    <3> HIDE DEF full
    <3> QED
      BY <1>14, <1>6 DEF ReaderType
  <2>2. DOMAIN s = DOMAIN r
    BY <1>6
  <2>3. s = [pc |-> s.pc, filter |-> s.filter, cursor |-> s.cursor, scope |-> s.scope,
             backend |-> s.backend, seen |-> s.seen, from |-> s.from, stamp |-> s.stamp,
             offset |-> s.offset, fresh |-> s.fresh, sure |-> s.sure]
    <3> HIDE DEF full
    <3> QED
      BY <1>14, <1>6 DEF ReaderType
  <2>4. s.pc \in ReadSteps /\ s.cursor \in Rows \cup {None} /\ s.backend \in Backends \cup {None}
    BY <1>14, <1>16, <2>1 DEF ReaderType, ReadSteps
  <2>5. r.filter = s.filter /\ s.seen \in Seq(Rows) /\ s.from \in Nat /\ s.stamp \in StampType /\ s.offset \in Nat
        /\ s.fresh \in BOOLEAN /\ s.sure \in Nat
    <3>1. r.from \in Nat /\ r.stamp \in StampType /\ r.offset \in Nat
      BY <1>14 DEF ReaderType
    <3>2. s.seen \in Seq(Rows)
      BY <1>15, <2>1
    <3>3. s.from \in Nat
      BY <2>1, <3>1 DEF Lesser
    <3>4. s.fresh \in BOOLEAN /\ s.sure = 0
      BY <2>1, Zenon
    <3>5. r.filter = s.filter /\ s.stamp \in StampType /\ s.offset \in Nat
      BY <2>1, <3>1
    <3> QED
      BY <3>2, <3>3, <3>4, <3>5
  <2>6. s \in ReaderType(s)
    BY <2>3, <2>4, <2>5 DEF ReaderType
  <2> QED
    BY <2>1, <2>6
<1>18. s \in ReaderType(s)
  BY <1>17
<1>19. GateInv'
  <2>1. GateKept(s)
    BY <1>7, <1>17 DEF GateKept, ChecksInOrder
  <2>2. VerdictInOrder' /\ verdict' \in [fresh : BOOLEAN, stamp : StampType]
    BY <1>7, <1>8 DEF VerdictInOrder, ReadShape
  <2> QED
    BY <1>7, <1>8, <1>18, <2>1, <2>2, GateStep
<1>20. ScanShape(r) /\ (CursorsExact(c) => ScanExact(c))
  BY DEF ScanInv
<1>21. r.cursor = None => N = 0
  BY <1>20, <1>5 DEF ScanShape
<1>22. reader'[c] = s
  BY <1>7, <1>18, OneReader
<1>23. ScanShape(s)
  <2>1. s.from <= Len(wal) /\ (s.backend = "elasticsearch" => s.from <= committed)
    <3>1. CASE r.cursor = None
      <4>1. s.from = upto /\ r.backend = None
        BY <1>17, <1>20, <3>1 DEF ScanShape
      <4> QED
        BY <1>9, <1>17, <4>1 DEF Backends
    <3>2. CASE r.cursor # None
      <4>1. s.from <= r.from /\ s.from \in Nat /\ Len(wal) \in Nat /\ committed \in Nat
        BY <1>14, <1>17, <3>2, ShapeFacts DEF Lesser, ProjectionInv
      <4>2. r.backend = backend /\ s.backend = backend
        BY <1>17, <1>20, <3>2 DEF ScanShape
      <4> QED
        BY <1>14, <1>20, <4>1, <4>2 DEF ScanShape
    <3> QED
      BY <3>1, <3>2
  <2> QED
    BY <1>9, <1>16, <1>17, <1>20, <2>1 DEF ScanShape
(* From here on the cursors carry the rows' own sort values.                  *)
<1>24. SUFFICES ASSUME CursorsExact(c)'
      PROVE  /\ Distinct(s.seen) /\ (full => CursorParts(c)')
             /\ ~full => \A row \in Steady(c)' : IsSeen(s, row)
  <2>1. CursorsExact(c)' => ScanExact(c)'
    <3>1. (s.pc # "done" => full) /\ (s.pc = "done" => ~full)
      BY <1>17
    <3>2. ASSUME CursorsExact(c)'
          PROVE  /\ Distinct(s.seen) /\ (s.pc # "done" => CursorParts(c)')
                 /\ s.pc = "done" => \A row \in Steady(c)' : IsSeen(s, row)
      BY <1>24, <3>1, <3>2
    <3> QED
      BY <1>22, <3>2 DEF ScanExact, IsSeen, Distinct
  <2>2. ScanShape(reader[c])'
    BY <1>8, <1>22, <1>23 DEF ScanShape
  <2>3. ASSUME NEW d \in Clients, d # c PROVE ScanShape(reader[d])' /\ (CursorsExact(d)' => ScanExact(d)')
    <3>1. reader'[d] = reader[d]
      BY <1>7, <1>18, <2>3, OneReader
    <3>2. Steady(d)' = Steady(d) /\ (CursorsExact(d)' <=> CursorsExact(d))
      BY <1>8, <3>1 DEF Steady, Matches, CursorsExact
    <3>3. CursorParts(d)' <=> CursorParts(d)
      BY <1>8, <3>1, <3>2 DEF CursorParts, KeyOf, IsSeen, Follows, Behind, After, AfterNewest
    <3>4. ScanShape(reader[d]) /\ (CursorsExact(d) => ScanExact(d))
      BY DEF ScanInv
    <3>5. ScanShape(reader[d])' /\ (ScanExact(d) => ScanExact(d)')
      BY <1>8, <3>1, <3>2, <3>3, <3>4 DEF ScanShape, ScanExact, Distinct, IsSeen
    <3> QED
      BY <3>2, <3>4, <3>5
  <2> QED
    BY <1>19, <2>1, <2>2, <2>3 DEF ScanInv
<1>25. CursorsExact(c) /\ Distinct(r.seen) /\ (r.cursor # None => CursorParts(c))
  <2>1. CASE ~(setup.list = "books" /\ r.backend = "postgresql")
    BY <1>20, <2>1 DEF CursorsExact, ScanExact
  <2>2. CASE setup.list = "books" /\ r.backend = "postgresql"
    <3>1. s.backend = "postgresql"
      BY <1>9, <1>17, <2>2, PageConstants DEF Backends
    <3>2. \A i \in DOMAIN s.seen : PyKey[s.seen[i]] = DbKey[s.seen[i]]
      BY <1>8, <1>22, <1>24, <2>2, <3>1 DEF CursorsExact
    <3>3. ASSUME NEW i \in 1..N PROVE PyKey[r.seen[i]] = DbKey[r.seen[i]]
      <4>1. i \in 1..(N + M) /\ i <= N
        BY <1>13, <1>14
      <4>2. s.seen = r.seen \o items /\ DOMAIN (r.seen \o items) = 1..(N + M)
        BY <1>15, <1>17, LenProperties
      <4>3. s.seen[i] = r.seen[i] /\ i \in DOMAIN s.seen
        BY <1>15, <4>1, <4>2
      <4> QED
        BY <3>2, <4>3
    <3>4. DOMAIN r.seen = 1..N
      BY <1>14, <1>5, LenProperties
    <3>5. CursorsExact(c)
      BY <3>3, <3>4 DEF CursorsExact
    <3> QED
      BY <1>20, <3>5 DEF ScanExact
  <2> QED
    BY <2>1, <2>2
<1>26. ASSUME r.cursor # None
       PROVE  /\ r.cursor \in Rows
              /\ \A i \in 1..N : r.seen[i] = r.cursor \/ Follows(key, r.cursor, r.seen[i])
              /\ \A row \in Steady(c) : IsSeen(r, row) \/ Follows(key, row, r.cursor)
              /\ \A row : Behind(key, fk, row, r.cursor) <=> Follows(key, row, r.cursor)
              /\ \A q \in p : Follows(key, q, r.cursor)
  <2>1. r.backend = backend /\ CursorParts(c) /\ r.cursor \in Rows
    BY <1>14, <1>20, <1>26, <1>25 DEF ScanShape
  <2>2. KeyOf(r) = key
    BY <2>1 DEF KeyOf
  <2>3. PICK i \in 1..N : r.seen[i] = r.cursor
    BY <1>5, <2>1 DEF CursorParts, IsSeen
  <2>4. i \in DOMAIN r.seen
    BY <1>14, <1>5, LenProperties
  <2>5. fk[r.cursor] = key[r.cursor]
    <3>1. CASE backend = "elasticsearch"
      BY <3>1
    <3>2. CASE backend # "elasticsearch" /\ setup.list # "books"
      BY <3>2 DEF CursorKey
    <3>3. CASE backend # "elasticsearch" /\ setup.list = "books"
      <4>1. r.backend = "postgresql"
        BY <2>1, <3>3 DEF Backends
      <4>2. PyKey[r.seen[i]] = DbKey[r.seen[i]]
        BY <1>25, <2>4, <3>3, <4>1 DEF CursorsExact
      <4> QED
        BY <2>3, <3>3, <4>2 DEF CursorKey
    <3> QED
      BY <3>1, <3>2, <3>3
  <2>6. \A row : Behind(key, fk, row, r.cursor) <=> Follows(key, row, r.cursor)
    BY <2>5 DEF Follows, Behind, After, AfterNewest
  <2>7. \A q \in p : Follows(key, q, r.cursor)
    BY <1>10, <1>11, <1>26, <2>6
  <2> QED
    BY <1>5, <2>1, <2>2, <2>6, <2>7 DEF CursorParts
<1>27. \A i \in 1..N, q \in p : r.seen[i] # q /\ Follows(key, q, r.seen[i])
  <2> SUFFICES ASSUME NEW i \in 1..N, NEW q \in p PROVE r.seen[i] # q /\ Follows(key, q, r.seen[i])
    OBVIOUS
  <2>1. r.cursor # None
    BY <1>21
  <2>2. Follows(key, q, r.cursor) /\ r.cursor \in Rows /\ q \in Rows /\ r.seen[i] \in Rows
    BY <1>12, <1>14, <1>26, <2>1
  <2>3. r.seen[i] = r.cursor \/ Follows(key, r.cursor, r.seen[i])
    BY <1>26, <2>1
  <2>4. Follows(key, q, r.seen[i])
    BY <1>9, <2>2, <2>3, FollowsOrder
  <2> QED
    BY <1>9, <2>2, <2>4, FollowsOrder
<1>28. Distinct(s.seen)
  <2> SUFFICES ASSUME NEW i \in 1..(N + M), NEW j \in 1..(N + M), i < j,
                      (r.seen \o items)[i] = (r.seen \o items)[j]
               PROVE  FALSE
    <3>1. \A i, j \in 1..(N + M) : i # j => i < j \/ j < i
      BY <1>13, <1>14
    <3> QED
      BY <1>15, <1>17, <3>1 DEF Distinct
  <2>1. CASE j <= N
    <3>1. i \in 1..N /\ j \in 1..N /\ i # j
      BY <1>14, <2>1
    <3> QED
      BY <1>15, <1>5, <1>25, <2>1, <3>1 DEF Distinct
  <2>2. CASE i <= N /\ ~(j <= N)
    <3>1. i \in 1..N /\ j - N \in 1..M
      BY <1>13, <1>14, <2>2
    <3>2. (r.seen \o items)[i] = r.seen[i] /\ (r.seen \o items)[j] = items[j - N]
      BY <1>15, <2>2
    <3>3. items[j - N] \in p
      BY <1>13, <3>1
    <3> QED
      BY <1>27, <3>1, <3>2, <3>3
  <2>3. CASE ~(i <= N)
    <3>1. i - N \in 1..M /\ j - N \in 1..M /\ i - N < j - N /\ ~(j <= N)
      <4>1. N \in Nat /\ M \in Nat
        BY <1>13, <1>14
      <4> QED
        BY <2>3, <4>1
    <3>2. Follows(key, items[j - N], items[i - N]) /\ items[i - N] \in Rows
      BY <1>12, <1>13, <3>1
    <3> QED
      BY <1>9, <1>15, <2>3, <3>1, <3>2, FollowsOrder
  <2> QED
    BY <1>13, <1>14, <2>1, <2>2, <2>3
<1>29. \A row : IsSeen(r, row) \/ row \in p => IsSeen(s, row)
  <2>1. ASSUME NEW row, NEW i \in 1..N, r.seen[i] = row PROVE IsSeen(s, row)
    <3>1. i \in 1..(N + M) /\ i <= N
      BY <1>13, <1>14
    <3> QED
      BY <1>15, <1>17, <2>1, <3>1 DEF IsSeen
  <2>2. ASSUME NEW row \in p PROVE IsSeen(s, row)
    <3>1. PICK i \in 1..M : items[i] = row
      BY <1>13
    <3>2. N + i \in 1..(N + M) /\ ~(N + i <= N) /\ (N + i) - N = i
      BY <1>13, <1>14
    <3> QED
      BY <1>15, <1>17, <3>1, <3>2 DEF IsSeen
  <2> QED
    BY <1>5, <2>1, <2>2 DEF IsSeen
<1>30. \A row \in Steady(c)' : IsSeen(s, row) \/ row \in found \ p
  <2> SUFFICES ASSUME NEW row \in Steady(c)' PROVE IsSeen(s, row) \/ row \in found
    BY <1>29
  <2>1. /\ row \in Rows /\ Matches(r.filter, pg[row])
        /\ \A n \in s.from + 1..Len(wal) : wal[n].row # row
    BY <1>8, <1>17, <1>22 DEF Steady, Matches
  <2>2. Matches(r.filter, view[row])
    BY <1>17, <2>1
  <2>3. CASE r.cursor = None
    BY <1>11, <2>1, <2>2, <2>3
  <2>4. CASE r.cursor # None
    <3>1. row \in Steady(c)
      <4>1. s.from \in Nat /\ s.from <= r.from /\ Len(wal) \in Nat
        BY <1>14, <1>17, <2>4, ShapeFacts DEF Lesser, ProjectionInv
      <4>2. \A n \in r.from + 1..Len(wal) : n \in s.from + 1..Len(wal)
        BY <1>14, <4>1
      <4> QED
        BY <2>1, <4>2 DEF Steady
    <3>2. IsSeen(r, row) \/ Follows(key, row, r.cursor)
      BY <1>26, <2>4, <3>1
    <3>3. Behind(key, fk, row, r.cursor) <=> Follows(key, row, r.cursor)
      BY <1>26, <2>4
    <3> QED
      BY <1>11, <1>29, <2>1, <2>2, <3>2, <3>3
  <2> QED
    BY <2>3, <2>4
<1>31. ASSUME full PROVE CursorParts(c)'
  <2> DEFINE last == items[M]
  <2>1. last \in p /\ last \in Rows /\ s.cursor = last /\ s.backend = backend /\ M \in 1..M
    BY <1>16, <1>17, <1>31
  <2>2. KeyOf(s) = key
    BY <2>1 DEF KeyOf
  <2>3. \A q \in p : q = last \/ Follows(key, last, q)
    <3> SUFFICES ASSUME NEW q \in p PROVE q = last \/ Follows(key, last, q)
      OBVIOUS
    <3>1. PICK i \in 1..M : items[i] = q
      BY <1>13
    <3>2. i = M \/ i < M
      BY <1>13
    <3> QED
      BY <1>13, <2>1, <3>1, <3>2
  <2> HIDE DEF last
  <2>4. ASSUME NEW i \in 1..(N + M) PROVE s.seen[i] = last \/ Follows(key, last, s.seen[i])
    <3>1. CASE i <= N
      <4>1. i \in 1..N /\ s.seen[i] = r.seen[i]
        <5>1. i \in 1..N
          BY <1>13, <1>14, <3>1
        <5>2. s.seen = r.seen \o items
          BY <1>17
        <5> QED
          BY <1>15, <3>1, <5>1, <5>2
      <4> QED
        BY <1>27, <2>1, <4>1
    <3>2. CASE ~(i <= N)
      <4>1. i - N \in 1..M
        BY <1>13, <1>14, <3>2
      <4>2. s.seen = r.seen \o items
        BY <1>17
      <4>3. s.seen[i] = items[i - N]
        BY <1>15, <3>2, <4>2
      <4>4. items[i - N] \in p
        BY <1>13, <4>1
      <4> QED
        BY <2>3, <4>3, <4>4
    <3> QED
      BY <3>1, <3>2
  <2>5. \A row \in Steady(c)' : IsSeen(s, row) \/ Follows(key, row, last)
    BY <1>10, <1>30, <2>1
  <2>6. Len(s.seen) = N + M
    BY <1>15, <1>17
  <2>7. /\ \A i \in 1..Len(s.seen) : s.seen[i] = s.cursor \/ Follows(KeyOf(s), s.cursor, s.seen[i])
        /\ \A row \in Steady(c)' : IsSeen(s, row) \/ Follows(KeyOf(s), row, s.cursor)
    BY <2>1, <2>2, <2>4, <2>5, <2>6
  <2>8. IsSeen(s, s.cursor)
    BY <1>29, <2>1
  <2> QED
    BY <1>8, <1>22, <2>7, <2>8 DEF CursorParts, KeyOf, IsSeen, Follows, Behind, After, AfterNewest
<1>32. ASSUME ~full PROVE \A row \in Steady(c)' : IsSeen(s, row)
  BY <1>10, <1>13, <1>30, <1>32
<1> QED
  BY <1>28, <1>31, <1>32

(* A page of any list: from PostgreSQL, which shows every row, from the last  *)
(* refresh of the index the alias names, or an error.                         *)
LEMMA PageReads ==
  ASSUME ProjectionInv, ShownInv, GateInv, ScanInv, NEW c \in Clients,
         FindBooksPage(c) \/ FindPatronLoansPage(c) \/ FindPatronsPage(c)
  PROVE  GateInv' /\ ScanInv'
<1>1. PICK r : r = reader[c]
  OBVIOUS
<1>2. /\ r.pc = "routing" /\ UNCHANGED <<pvars, setup, verdict, aged>>
      /\ IF r.fresh /\ r.backend # "postgresql"
         THEN FromIndex(c) \/ FallBack(c)
         ELSE FallBack(c)
  BY <1>1 DEF FindBooksPage, FindPatronLoansPage, FindPatronsPage, FindPage
<1>3. Shape /\ TableIsLast /\ ReadShape /\ ChecksInOrder
  BY DEF ProjectionInv, GateInv
<1>4. /\ r.backend \in Backends \cup {None} /\ r.from \in Nat
      /\ "elasticsearch" \in Backends /\ "postgresql" \in Backends
      /\ Len(wal) \in Nat /\ committed \in Nat /\ committed <= Len(wal)
  BY <1>1, <1>3, ReaderFacts, ShapeFacts DEF Backends
<1>5. CASE FromIndex(c) /\ r.fresh /\ r.backend # "postgresql"
  <2>1. PICK view : view = shown[alias].docs
    OBVIOUS
  <2>2. PICK upto : upto = shown[alias].upto
    OBVIOUS
  <2>3. upto \in Nat /\ upto <= committed /\ upto <= Len(wal)
    <3>1. alias \in Indices
      BY <1>3 DEF Shape
    <3>2. shown[alias] \in ViewType
      BY <3>1 DEF ShownInv
    <3> QED
      BY <1>4, <2>2, <3>2 DEF ViewType
  <2>4. Answered(c, "elasticsearch", view, EsKey, EsKey, upto)
    BY <1>5, <2>1, <2>2 DEF FromIndex
  <2>5. r.backend \in {None, "elasticsearch"}
    BY <1>4, <1>5 DEF Backends
  <2>6. PICK start : start = Since(r, upto)
    OBVIOUS
  <2>7. start \in Nat /\ start <= upto
    BY <1>4, <2>3, <2>6 DEF Since, Lesser
  <2>8. ASSUME NEW row \in Rows, Matches(r.filter, pg[row]), \A n \in start + 1..Len(wal) : wal[n].row # row
        PROVE  Matches(r.filter, view[row])
    <3>1. pg[row].live
      BY <2>8 DEF Matches
    <3>2. pg[row] # NoRow
      BY <3>1, Versions
    <3>3. PICK n \in 1..Len(wal) : wal[n].row = row /\ wal[n].after = pg[row]
      BY <1>3, <3>2 DEF TableIsLast
    <3>4. n <= upto
      <4>1. n \notin start + 1..Len(wal)
        BY <2>8, <3>3
      <4> QED
        BY <1>4, <2>3, <2>7, <4>1
    <3>5. shown[alias].docs[row] = Transform(pg[row])
      BY <2>2, <3>1, <3>3, <3>4, LiveRowIsFound
    <3>6. pg[row] \in RowType
      BY <1>3, <3>2, ShapeFacts
    <3>7. view[row].live = pg[row].live /\ view[row].tag = pg[row].tag
      BY <2>1, <3>5, <3>6, Versions
    <3> QED
      BY <2>8, <3>7 DEF Matches
  <2>9. Answered(c, "elasticsearch", view, Order("elasticsearch"), Carried("elasticsearch"), upto)
    BY <2>4 DEF Order, Carried
  <2>10. ShowsSteady(c, view, upto)
    BY <1>1, <2>6, <2>8 DEF ShowsSteady
  <2> QED
    BY <1>1, <1>2, <1>4, <2>3, <2>5, <2>9, <2>10, PageStep
<1>6. CASE FromDatabase(c) /\ r.backend # "elasticsearch"
  <2>1. PICK view : view = pg
    OBVIOUS
  <2>2. PICK upto \in Nat : upto = Len(wal)
    BY <1>4
  <2>3. Answered(c, "postgresql", view, Order("postgresql"), Carried("postgresql"), upto)
    BY <1>6, <2>1, <2>2 DEF FromDatabase, Order, Carried
  <2>4. reader[c].backend \in {None, "postgresql"}
    BY <1>1, <1>4, <1>6 DEF Backends
  <2>5. upto <= Len(wal)
    BY <1>4, <2>2
  <2>6. ShowsSteady(c, view, upto)
    BY <2>1 DEF ShowsSteady
  <2> QED
    BY <1>1, <1>2, <1>4, <2>3, <2>4, <2>5, <2>6, PageStep
<1>7. CASE FallBack(c)
  <2>1. CASE r.backend = "elasticsearch"
    BY <1>1, <1>2, <1>7, <2>1, Raises DEF FallBack
  <2>2. CASE r.backend # "elasticsearch"
    BY <1>1, <1>6, <1>7, <2>2 DEF FallBack
  <2> QED
    BY <2>1, <2>2
<1> QED
  BY <1>2, <1>5, <1>7

-----------------------------------------------------------------------------
(* The invariant of the list queries.                                         *)

(* Time only runs as far as the verdict and the checks in force allow.        *)
LEMMA TimePasses ==
  ASSUME ProjectionInv, GateInv, ScanInv, GrowOld \/ ExpireVerdict
  PROVE  GateInv' /\ ScanInv'
<1>1. ReadShape /\ VerdictInOrder /\ ChecksInOrder /\ shipped \in Nat
  BY ShapeFacts DEF GateInv, ProjectionInv
<1>2. UNCHANGED <<pg, wal, shipped, committed, setup, reader>>
  BY DEF GrowOld, ExpireVerdict, pvars
<1>3. /\ aged \in Nat /\ verdict \in [fresh : BOOLEAN, stamp : StampType]
      /\ verdict.stamp.base \in Nat /\ verdict.stamp.valid \in BOOLEAN
      /\ NoStamp \in StampType /\ ~NoStamp.valid
  BY <1>1 DEF ReadShape, StampType, NoStamp
<1>4. ScanInv'
  <2> SUFFICES ASSUME NEW c \in Clients
               PROVE  ScanShape(reader[c])' /\ (CursorsExact(c)' => ScanExact(c)')
    BY DEF ScanInv
  <2>1. ScanShape(reader[c])' /\ (CursorsExact(c)' <=> CursorsExact(c)) /\ Steady(c)' = Steady(c)
    BY <1>2 DEF ScanInv, ScanShape, CursorsExact, Steady, Matches
  <2>2. CursorParts(c)' <=> CursorParts(c)
    BY <1>2, <2>1 DEF CursorParts, KeyOf, IsSeen, Follows, Behind, After, AfterNewest
  <2>3. ScanExact(c)' <=> ScanExact(c)
    BY <1>2, <2>1, <2>2 DEF ScanExact, Distinct, IsSeen
  <2> QED
    BY <2>1, <2>3 DEF ScanInv
<1>5. CASE GrowOld
  <2>1. /\ aged < shipped /\ aged' = aged + 1 /\ UNCHANGED verdict
        /\ verdict.stamp.valid => aged < verdict.stamp.base
        /\ \A c \in Clients : reader[c].stamp.valid => aged < reader[c].stamp.base
    BY <1>5 DEF GrowOld, Stamps
  <2>2. ReadShape'
    BY <1>1, <1>2, <1>3, <2>1 DEF ReadShape
  <2>3. VerdictInOrder'
    BY <1>1, <1>2, <1>3, <2>1 DEF VerdictInOrder
  <2>4. \A c \in Clients : reader[c].stamp.valid => aged + 1 <= reader[c].stamp.base
    BY <1>1, <1>3, <2>1, ReaderFacts
  <2>5. ChecksInOrder'
    BY <1>1, <1>2, <2>1, <2>4 DEF ChecksInOrder
  <2> QED
    BY <1>4, <2>2, <2>3, <2>5 DEF GateInv
<1>6. CASE ExpireVerdict
  <2>1. verdict' = [verdict EXCEPT !.stamp = NoStamp] /\ UNCHANGED aged
    BY <1>6 DEF ExpireVerdict
  <2>2. verdict' \in [fresh : BOOLEAN, stamp : StampType] /\ ~verdict'.stamp.valid
    BY <1>3, <2>1
  <2>3. ReadShape' /\ VerdictInOrder'
    BY <1>1, <1>2, <2>1, <2>2 DEF ReadShape, VerdictInOrder
  <2>4. ChecksInOrder'
    BY <1>1, <1>2, <2>1 DEF ChecksInOrder
  <2> QED
    BY <1>4, <2>3, <2>4 DEF GateInv
<1> QED
  BY <1>5, <1>6

(* Every step of the system keeps the gate's and the scans' invariants.       *)
LEMMA ReadsKept ==
  ASSUME ProjectionInv, ShownInv, GateInv, ScanInv, [Next]_vars
  PROVE  GateInv' /\ ScanInv'
<1>1. CASE (ProjectionNext /\ UNCHANGED svars) \/ UNCHANGED vars
  BY <1>1, ReadsUnderProjection DEF vars
<1>2. CASE GrowOld \/ ExpireVerdict
  BY <1>2, TimePasses
<1>3. ASSUME NEW c \in Clients, ClientStep(c) PROVE GateInv' /\ ScanInv'
  <2>1. CASE FindBooksPage(c) \/ FindPatronLoansPage(c) \/ FindPatronsPage(c)
    BY <2>1, PageReads
  <2>2. CASE ~(FindBooksPage(c) \/ FindPatronLoansPage(c) \/ FindPatronsPage(c))
    <3>1. UNCHANGED pvars
      BY <1>3, <2>2 DEF ClientStep, UseVerdict, BeginCheck, ReadCommitted, ReadEndOffsets, CheckFails,
         Conclude, ExpireCheck, ListBooks, ListPatronLoans, ListPatrons, StartScan, FollowCursor
    <3> QED
      BY <1>3, <2>2, <3>1, QuietReads DEF ClientStep
  <2> QED
    BY <2>1, <2>2
<1> QED
  BY <1>1, <1>2, <1>3 DEF Next

(* The list queries start with no client reading.                             *)
LEMMA ReadsStart ==
  ASSUME SearchInit, ProjectionInv
  PROVE  GateInv /\ ScanInv
<1>1. /\ verdict = [fresh |-> FALSE, stamp |-> NoStamp] /\ aged = shipped
      /\ reader = [c \in Clients |-> IdleReader]
  BY DEF SearchInit
<1>2. shipped \in Nat /\ committed \in Nat /\ Len(wal) \in Nat
  BY ShapeFacts DEF ProjectionInv
<1>3. NoStamp \in StampType /\ NoStamp.base = 0 /\ ~NoStamp.valid
  BY DEF NoStamp, StampType
<1>4. /\ IdleReader.pc = "idle" /\ IdleReader.cursor = None /\ IdleReader.backend = None
      /\ IdleReader.seen = <<>> /\ IdleReader.from = 0 /\ IdleReader.stamp = NoStamp
      /\ IdleReader.offset = 0
  BY DEF IdleReader
<1>5. IdleReader \in ReaderType(IdleReader)
  BY <1>3 DEF IdleReader, ReaderType, ReadSteps
<1>6. GateInv
  <2>1. ReadShape
    BY <1>1, <1>2, <1>3, <1>5 DEF ReadShape
  <2>2. VerdictInOrder
    BY <1>1, <1>3 DEF VerdictInOrder
  <2>3. ChecksInOrder
    BY <1>1, <1>2, <1>3, <1>4 DEF ChecksInOrder
  <2> QED
    BY <2>1, <2>2, <2>3 DEF GateInv
<1>7. ScanInv
  <2>1. Distinct(<<>>)
    BY DEF Distinct
  <2>2. ASSUME NEW c \in Clients PROVE ScanShape(reader[c]) /\ ScanExact(c)
    BY <1>1, <1>2, <1>4, <2>1 DEF ScanShape, ScanExact
  <2> QED
    BY <2>2 DEF ScanInv
<1> QED
  BY <1>6, <1>7

(* The invariant of the projection and of its queries together.               *)
LEMMA ReadsInvariant ==
  Spec => [](ProjectionInv /\ ShownInv /\ GateInv /\ ScanInv)
<1>1. SearchInit /\ ProjectionInv => GateInv /\ ScanInv
  BY ReadsStart
<1>2. ProjectionInv /\ ShownInv /\ GateInv /\ ScanInv /\ [Next]_vars => GateInv' /\ ScanInv'
  BY ReadsKept
<1> QED
  BY <1>1, <1>2, ReadsImplementProjection, ShownInvariant, PTL DEF Spec

(* A page the gate lets through to Elasticsearch meets an index, whichever    *)
(* the alias names, to which every change that had been in Kafka for          *)
(* cache_seconds is written, and finds those that its last refresh shows.     *)
THEOREM FreshReadsAreCurrentHolds ==
  Spec => []FreshReadsAreCurrent
<1>1. ProjectionInv /\ ShownInv /\ GateInv => FreshReadsAreCurrent
  <2> SUFFICES ASSUME ProjectionInv, ShownInv, GateInv,
                      NEW c \in Clients, reader[c].pc = "routing", reader[c].fresh,
                      NEW n \in 1..reader[c].sure, pg[wal[n].row].live
               PROVE  /\ docs[alias][wal[n].row].ver >= ExternalVersion(wal[n].after)
                      /\ n <= shown[alias].upto =>
                             shown[alias].docs[wal[n].row].ver >= ExternalVersion(wal[n].after)
    BY DEF FreshReadsAreCurrent
  <2>1. Shape /\ ServedIsCovered /\ ReadShape /\ ChecksInOrder
    BY DEF ProjectionInv, GateInv
  <2>2. reader[c].sure <= committed
    BY <2>1 DEF ChecksInOrder
  <2>3. n \in 1..Len(wal) /\ n <= committed
    BY <2>1, <2>2, ReaderFacts, ShapeFacts
  <2>4. docs[alias][wal[n].row].ver >= ExternalVersion(wal[n].after)
    BY <2>1, <2>3 DEF ServedIsCovered, Served, Alive, Covers
  <2>5. ASSUME n <= shown[alias].upto
        PROVE  shown[alias].docs[wal[n].row].ver >= ExternalVersion(wal[n].after)
    <3>1. shown[alias].upto \in Nat
      BY <2>1, ShapeFacts DEF ShownInv, ViewType, Shape
    <3>2. n \in 1..shown[alias].upto
      BY <2>3, <2>5, <3>1
    <3> QED
      BY <3>2 DEF ShownInv, ShowsAll, Shows, Alive
  <2> QED
    BY <2>4, <2>5
<1> QED
  BY <1>1, ReadsInvariant, PTL

(* Following cursors to the end returns every row that matches and does not   *)
(* change meanwhile, and none twice: with fallbacks to a database that orders *)
(* rows otherwise, lag, refreshes, alias swaps and refused filters, as long as*)
(* Python lowers the titles of PostgreSQL's pages as PostgreSQL does.         *)
THEOREM ScanReturnsEachRowOnceHolds ==
  Spec => []ScanReturnsEachRowOnce
<1>1. GateInv /\ ScanInv => ScanReturnsEachRowOnce
  <2> SUFFICES ASSUME GateInv, ScanInv, NEW c \in Clients, CursorsExact(c)
               PROVE  /\ \A i, j \in DOMAIN reader[c].seen :
                            i # j => reader[c].seen[i] # reader[c].seen[j]
                      /\ reader[c].pc = "done" => \A r \in Steady(c) :
                            \E i \in DOMAIN reader[c].seen : reader[c].seen[i] = r
    BY DEF ScanReturnsEachRowOnce
  <2>1. DOMAIN reader[c].seen = 1..Len(reader[c].seen)
    BY ReaderFacts, LenProperties DEF GateInv
  <2>2. Distinct(reader[c].seen) /\ (reader[c].pc = "done" => \A r \in Steady(c) : IsSeen(reader[c], r))
    BY DEF ScanInv, ScanExact
  <2> QED
    BY <2>1, <2>2 DEF Distinct, IsSeen
<1> QED
  BY <1>1, ReadsInvariant, PTL

(* Every variable of the projection and of its queries keeps its shape.       *)
THEOREM SearchReadsTypeOK ==
  Spec => []TypeOK
<1>1. ProjectionInv /\ ShownInv => ProjectionTypeOK
  <2> SUFFICES ASSUME ProjectionInv, ShownInv PROVE ProjectionTypeOK
    OBVIOUS
  <2>1. Shape /\ OffsetsInOrder
    BY DEF ProjectionInv
  <2>2. wal \in Seq([row : Rows, after : RowType])
    BY <2>1 DEF Shape, RecordType
  <2>3. DOMAIN worker = Workers
    BY <2>1 DEF Shape
  <2>4. ASSUME NEW w \in Workers
        PROVE  /\ worker[w].pc \in WorkerSteps /\ worker[w].off \in 0..shipped
               /\ worker[w].cached \in Indices \cup {None}
               /\ worker[w].valid \in BOOLEAN
               /\ worker[w].todo \subseteq Indices \cup {Live}
    <3>1. worker[w] \in WorkerType
      BY <2>1, ShapeFacts
    <3>2. worker[w].off \in 0..shipped
      BY <2>1, ShapeFacts DEF OffsetsInOrder
    <3> QED
      BY <3>1, <3>2 DEF WorkerType
  <2>5. job.pc \in JobSteps /\ job.new \in Indices /\ job.old \in Indices /\ job.last \in Nat
    BY <2>1, ShapeFacts
  <2> QED
    BY <2>1, <2>2, <2>3, <2>4, <2>5 DEF Shape, ShownInv, ViewType, ProjectionTypeOK
<1>2. ProjectionInv /\ ShownInv /\ GateInv /\ ScanInv => TypeOK
  <2> SUFFICES ASSUME ProjectionInv, ShownInv, GateInv, ScanInv PROVE TypeOK
    OBVIOUS
  <2>1. ReadShape /\ ChecksInOrder /\ Shape
    BY DEF GateInv, ProjectionInv
  <2>2. ASSUME NEW c \in Clients
        PROVE  /\ reader[c].seen \in Seq(Rows) /\ reader[c].from \in 0..Len(wal)
               /\ reader[c].cursor \in Rows \cup {None}
               /\ reader[c].backend \in Backends \cup {None}
               /\ reader[c].stamp \in StampType /\ reader[c].offset \in 0..committed
    <3>1. reader[c].from <= Len(wal) /\ reader[c].offset <= committed
      BY <2>1 DEF ScanInv, ScanShape, ChecksInOrder
    <3> QED
      BY <2>1, <3>1, ReaderFacts, ShapeFacts
  <2> QED
    BY <1>1, <2>1, <2>2 DEF ReadShape, TypeOK
<1> QED
  BY <1>2, ReadsInvariant, PTL
=============================================================================
