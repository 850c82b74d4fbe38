---------------------------- MODULE StoreProofs ----------------------------
(***************************************************************************)
(* What the stores beside the database hold.  DedupIndex, for any number   *)
(* of processes and people, and any templates and similarities; Media, for *)
(* any number of uploads, sweeps and readers, any retention, and however   *)
(* often a sweep fails.                                                    *)
(***************************************************************************)
EXTENDS DedupIndex, Media, WellFoundedInduction, TLAPS

-----------------------------------------------------------------------------
(* DedupIndex: the inductive invariant.                                    *)

Enrolment == [hash : People, creates : Nat \cup {Empty}, vector : BOOLEAN]

IndexTyped ==
    /\ backend \in [Processes -> {"linear", "pgvector"}]
    /\ ready \in [Processes -> BOOLEAN]
    /\ enrolling \in [Processes -> Enrolment \cup {Empty}]
    /\ records \subseteq People
    /\ table \in Nat \cup {Empty}

Dim(h) == DimOf[EmbeddingOf[h]]

\* The vector of an enrolment fits the table there is, or the one it creates.
Fits(e) ==
    \/ e.creates = Empty /\ table = Dim(e.hash)
    \/ e.creates = Dim(e.hash) /\ table = Empty

EnrolmentOK(p) ==
    LET e == enrolling[p] IN
    e # Empty => /\ e.hash \notin records
                 /\ e.vector = (backend[p] = "pgvector")
                 /\ IF e.vector THEN Fits(e) ELSE e.creates = Empty

\* One transaction has an identity's hash, and one creates the table.
Exclusive ==
    \A p, q \in InProgress : p # q =>
        /\ enrolling[p].hash # enrolling[q].hash
        /\ enrolling[p].creates = Empty \/ enrolling[q].creates = Empty

VectorsFit == \A h \in vectors : Dim(h) = table

IndexInv ==
    /\ IndexTyped
    /\ \A p \in Processes : EnrolmentOK(p)
    /\ Exclusive
    /\ VectorsFit
    /\ scanned \subseteq records /\ VectorsMatchRecords

-----------------------------------------------------------------------------

LEMMA DimType == ASSUME NEW h \in People PROVE Dim(h) \in Nat /\ Dim(h) # Empty
BY IndexAssumption DEF Dim

LEMMA IndexInitInv == IndexInit => IndexInv
BY DEF IndexInit, IndexInv, IndexTyped, EnrolmentOK, Exclusive, InProgress, VectorsFit,
   VectorsMatchRecords

\* Processes that stop, start again, fail or roll back take nothing from the others.
LEMMA Withdrawn ==
    ASSUME IndexInv, IndexTyped', NEW p \in Processes,
           UNCHANGED <<records, scanned, table, vectors>>,
           \A q \in Processes \ {p} : enrolling'[q] = enrolling[q] /\ backend'[q] = backend[q],
           enrolling'[p] = Empty \/ (enrolling'[p] = enrolling[p] /\ backend'[p] = backend[p])
    PROVE  IndexInv'
<1> USE DEF IndexInv
<1>1. InProgress' \subseteq InProgress
  BY DEF InProgress
<1>2. \A q \in Processes : EnrolmentOK(q)'
  BY DEF EnrolmentOK, Fits
<1>3. \A q \in InProgress' : enrolling'[q] = enrolling[q]
  BY DEF InProgress
<1>4. Exclusive'
  BY <1>1, <1>3 DEF Exclusive
<1> QED
  BY <1>2, <1>4 DEF VectorsFit, VectorsMatchRecords

LEMMA EnrolInv ==
    ASSUME IndexInv, NEW p \in Processes, NEW h \in People, Enrol(p, h)
    PROVE  IndexInv'
<1> USE DEF IndexInv, IndexTyped
<1>1. /\ enrolling[p] = Empty /\ New(h)
      /\ ready' = [ready EXCEPT ![p] = @ \/ backend[p] = "pgvector"]
      /\ UNCHANGED <<backend, records, scanned, table, vectors>>
  BY DEF Enrol
<1>2. PICK e \in Enrolment :
         /\ enrolling' = [enrolling EXCEPT ![p] = e]
         /\ e # Empty /\ e.hash = h
         /\ e.vector = (backend[p] = "pgvector")
         /\ IF e.vector THEN Fits(e) ELSE e.creates = Empty
         /\ e.creates # Empty => CanCreate(p)
  <2> DEFINE creates == backend[p] = "pgvector" /\ ~ready[p] /\ table = Empty
             new == [hash |-> h, creates |-> IF creates THEN Dim(h) ELSE Empty, vector |-> Adds(p, h)]
  <2>1. enrolling' = [enrolling EXCEPT ![p] = new]
    BY DEF Enrol, Dim
  <2>2. new \in Enrolment
    BY DimType DEF Enrolment, Adds
  <2>3. /\ new.hash = h /\ new.vector = (backend[p] = "pgvector")
        /\ new.creates = IF creates THEN Dim(h) ELSE Empty
    BY DEF Adds
  <2>4. backend[p] = "pgvector" => (ready[p] \/ CanCreate(p)) /\ (creates \/ table = Dim(h))
    BY DEF Enrol, Dim
  <2>5. new # Empty
    BY <2>2, IndexAssumption DEF Enrolment
  <2> HIDE DEF new
  <2>6. IF new.vector THEN Fits(new) ELSE new.creates = Empty
    BY <2>3, <2>4 DEF Fits
  <2>7. new.creates # Empty => CanCreate(p)
    BY <2>3, <2>4
  <2> QED
    BY <2>1, <2>2, <2>3, <2>5, <2>6, <2>7
<1>3. IndexTyped'
  <2>1. ready' \in [Processes -> BOOLEAN]
    BY <1>1
  <2> QED
    BY <1>1, <1>2, <2>1
<1>4. h \notin records /\ \A q \in InProgress : enrolling[q].hash # h
  BY <1>1 DEF New
<1>5. e.creates # Empty => \A q \in InProgress : enrolling[q].creates = Empty
  BY <1>1, <1>2 DEF CanCreate, InProgress
<1>6. EnrolmentOK(p)'
  BY <1>1, <1>2, <1>4 DEF EnrolmentOK, Fits
<1>7. \A q \in Processes \ {p} : EnrolmentOK(q)'
  BY <1>1, <1>2 DEF EnrolmentOK, Fits
<1>8. Exclusive'
  <2>1. InProgress' = InProgress \cup {p} /\ p \notin InProgress
    BY <1>1, <1>2 DEF InProgress
  <2>2. enrolling'[p] = e /\ \A q \in InProgress : enrolling'[q] = enrolling[q]
    BY <1>2, <2>1 DEF InProgress
  <2>3. \A q \in InProgress : /\ enrolling[q].hash # e.hash
                              /\ e.creates = Empty \/ enrolling[q].creates = Empty
    BY <1>2, <1>4, <1>5
  <2> QED
    BY <2>1, <2>2, <2>3 DEF Exclusive
<1> QED
  BY <1>1, <1>3, <1>6, <1>7, <1>8 DEF VectorsFit, VectorsMatchRecords

LEMMA CommitInv ==
    ASSUME IndexInv, NEW p \in Processes, CommitEnrolment(p)
    PROVE  IndexInv'
<1> USE DEF IndexInv, IndexTyped
<1>1. PICK e \in Enrolment : e = enrolling[p] /\ e # Empty
  BY DEF CommitEnrolment
<1>2. /\ records' = records \cup {e.hash}
      /\ scanned' = IF backend[p] = "linear" THEN scanned \cup {e.hash} ELSE scanned
      /\ table' = IF e.creates # Empty THEN e.creates ELSE table
      /\ vectors' = IF e.vector THEN vectors \cup {e.hash} ELSE vectors
      /\ enrolling' = [enrolling EXCEPT ![p] = Empty]
      /\ UNCHANGED <<backend, ready>>
  BY <1>1 DEF CommitEnrolment
<1>3. /\ e.hash \in People /\ e.creates \in Nat \cup {Empty} /\ e.hash \notin records
      /\ e.vector = (backend[p] = "pgvector")
      /\ IF e.vector THEN Fits(e) ELSE e.creates = Empty
      /\ p \in InProgress
  BY <1>1 DEF Enrolment, EnrolmentOK, InProgress
<1>4. IndexTyped'
  BY <1>2, <1>3
<1>5. /\ InProgress' = InProgress \ {p}
      /\ \A q \in InProgress' : enrolling'[q] = enrolling[q]
  BY <1>2 DEF InProgress
<1>6. \A q \in Processes : EnrolmentOK(q)'
  <2> SUFFICES ASSUME NEW q \in InProgress' PROVE EnrolmentOK(q)'
    BY <1>2 DEF InProgress, EnrolmentOK
  <2>1. PICK f \in Enrolment : f = enrolling[q] /\ f = enrolling'[q] /\ f # Empty
    BY <1>5 DEF InProgress
  <2>2. /\ f.hash \notin records /\ f.vector = (backend[q] = "pgvector")
        /\ IF f.vector THEN Fits(f) ELSE f.creates = Empty
    BY <1>5, <2>1 DEF EnrolmentOK, InProgress
  <2>3. f.hash # e.hash /\ (e.creates = Empty \/ f.creates = Empty)
    BY <1>1, <1>3, <1>5, <2>1 DEF Exclusive
  <2>4. f.vector => Fits(f)'
    <3>1. CASE e.creates = Empty
      BY <1>2, <2>2, <3>1 DEF Fits
    <3>2. CASE e.creates # Empty
      \* Then there is no table yet, and f has no vector.
      <4>1. table = Empty
        BY <1>3, <3>2 DEF Fits
      <4>2. f.creates = Empty /\ f.hash \in People
        BY <2>3, <3>2 DEF Enrolment
      <4>3. ~f.vector
        BY <2>2, <4>1, <4>2, DimType DEF Fits
      <4> QED
        BY <4>3
    <3> QED
      BY <3>1, <3>2
  <2> QED
    BY <1>2, <2>1, <2>2, <2>3, <2>4 DEF EnrolmentOK
<1>7. Exclusive'
  BY <1>5 DEF Exclusive
<1>8. VectorsFit'
  <2>1. CASE e.vector
    <3>1. table' = Dim(e.hash)
      BY <1>2, <1>3, <2>1, DimType DEF Fits
    <3>2. \A h \in vectors : Dim(h) = table'
      \* A vector has the dimension of the table, so there was one.
      <4>1. ASSUME NEW h \in vectors PROVE h \in People /\ Dim(h) = table
        BY <4>1 DEF VectorsFit, VectorsMatchRecords
      <4>2. vectors # {} => table # Empty
        BY <4>1, DimType
      <4> QED
        BY <1>2, <1>3, <2>1, <4>1, <4>2 DEF Fits
    <3> QED
      BY <1>2, <2>1, <3>1, <3>2 DEF VectorsFit
  <2>2. CASE ~e.vector
    BY <1>2, <1>3, <2>2 DEF VectorsFit
  <2> QED
    BY <2>1, <2>2
<1>9. scanned' \subseteq records' /\ VectorsMatchRecords'
  BY <1>2, <1>3 DEF VectorsMatchRecords
<1> QED
  BY <1>4, <1>6, <1>7, <1>8, <1>9

LEMMA RestInv ==
    ASSUME IndexInv, NEW p \in Processes,
           \/ \E h \in People : EnrolFails(p, h)
           \/ RollbackEnrolment(p) \/ Restart(p)
    PROVE  IndexInv'
<1> USE DEF IndexInv, IndexTyped
<1>1. CASE \E h \in People : EnrolFails(p, h)
  BY <1>1, Withdrawn DEF EnrolFails
<1>2. CASE RollbackEnrolment(p)
  BY <1>2, Withdrawn DEF RollbackEnrolment
<1>3. CASE Restart(p)
  BY <1>3, Withdrawn DEF Restart
<1> QED
  BY <1>1, <1>2, <1>3

LEMMA AlwaysIndexInv == IndexSpec => []IndexInv
<1>1. IndexInv /\ [IndexNext]_indexVars => IndexInv'
  <2> SUFFICES ASSUME IndexInv, [IndexNext]_indexVars PROVE IndexInv'
    OBVIOUS
  <2>1. CASE UNCHANGED indexVars
    BY <2>1 DEF indexVars, IndexInv, IndexTyped, EnrolmentOK, Fits, Exclusive, InProgress,
       VectorsFit, VectorsMatchRecords
  <2> QED
    BY <2>1, EnrolInv, CommitInv, RestInv DEF IndexNext
<1> QED
  BY <1>1, IndexInitInv, PTL DEF IndexSpec

\* A vector and its identity are committed together or not at all.
THEOREM VectorsAreRecords == IndexSpec => []VectorsMatchRecords
BY AlwaysIndexInv, PTL DEF IndexInv

\* What Best chooses is among the scores, and none is higher.
LEMMA BestIsHighest ==
    ASSUME NEW hashes, hashes \subseteq People, NEW e \in Queries
    PROVE  /\ Best(hashes, e) \in Scores(hashes, e)
           /\ \A score \in Scores(hashes, e) : score <= Best(hashes, e)
<1> DEFINE S == Scores(hashes, e)
           Short == {100 - x : x \in S}
<1>1. S \subseteq -100..100 /\ S # {}
  <2>1. ASSUME NEW h \in hashes PROVE Cosine[e, EmbeddingOf[h]] \in -100..100
    <3>1. EmbeddingOf[h] \in Queries
      BY IndexAssumption
    <3>2. \A pair \in Queries \X Queries : Cosine[pair] \in -100..100
      BY IndexAssumption
    <3> QED
      BY <3>1, <3>2
  <2>2. NoMatch \in -100..100
    BY DEF NoMatch
  <2> QED
    BY <2>1, <2>2 DEF Scores
<1>2. Short \subseteq Nat /\ Short # {}
  <2>1. \A x \in S : 100 - x \in Nat
    BY <1>1
  <2> HIDE DEF S
  <2> QED
    BY <1>1, <2>1
<1>3. PICK d \in Short : \A y \in Short : <<y, d>> \notin OpToRel(<, Nat)
  BY <1>2, NatLessThanWellFounded, WFMin
<1>4. PICK x \in S : d = 100 - x
  BY <1>3
<1>5. \A y \in S : x >= y
  <2> SUFFICES ASSUME NEW y \in S PROVE x >= y
    OBVIOUS
  <2>1. 100 - y \in Short /\ 100 - y \in Nat /\ 100 - x \in Nat
    BY <1>2, <1>4
  <2>2. ~(100 - y < 100 - x)
    BY <1>3, <1>4, <2>1 DEF OpToRel
  <2>3. x \in Int /\ y \in Int
    BY <1>1
  <2> HIDE DEF S, Short
  <2> QED
    BY <2>2, <2>3
<1>6. Max(S) \in S /\ \A y \in S : Max(S) >= y
  <2> HIDE DEF S
  <2> QED BY <1>4, <1>5 DEF Max
<1>7. \A y \in S : y \in Int
  BY <1>1
<1> HIDE DEF S
<1>8. Best(hashes, e) = Max(S)
  BY DEF Best, S
<1> QED
  BY <1>6, <1>7, <1>8 DEF S

\* The index may miss a template; it has no other one than the scan compares with, and
\* all that were enrolled into it, also for a process that never enrolled itself.
THEOREM SearchesAreSound == IndexSpec => []SearchIsSound
<1>1. IndexInv => SearchIsSound
  <2> SUFFICES ASSUME IndexInv, NEW p \in Processes, NEW e \in Queries, ~SearchFails(p, e)
               PROVE  /\ \A score \in VectorMatches(p, e) : score <= LinearMatch(e)
                      /\ Best(records \ scanned, e) \in VectorMatches(p, e)
    BY DEF SearchIsSound
  <2> DEFINE alike == {h \in records : DimOf[EmbeddingOf[h]] = DimOf[e]}
  <2>1. vectors = records \ scanned /\ records \subseteq People /\ \A h \in vectors : Dim(h) = table
    BY DEF IndexInv, IndexTyped, VectorsMatchRecords, VectorsFit
  <2>2. /\ LinearMatch(e) = Best(alike, e)
        /\ \A score \in Scores(alike, e) : score <= Best(alike, e)
    BY <2>1, BestIsHighest DEF LinearMatch
  <2>3. Best(vectors, e) \in Scores(vectors, e)
    BY <2>1, BestIsHighest
  <2>4. CASE NothingToSearch(p)
    <3>1. vectors = {}
      BY <2>1, <2>4, DimType DEF NothingToSearch
    <3>2. Scores({}, e) = {NoMatch} /\ NoMatch \in Scores(alike, e)
      BY DEF Scores
    <3>3. VectorMatches(p, e) = {NoMatch}
      BY <2>4 DEF VectorMatches
    <3> HIDE DEF alike
    <3> QED
      BY <2>1, <2>2, <2>3, <3>1, <3>2, <3>3
  <2>5. CASE ~NothingToSearch(p)
    <3>1. table = DimOf[e] /\ VectorMatches(p, e) = Scores(vectors, e)
      BY <2>5 DEF SearchFails, VectorMatches
    <3>2. vectors \subseteq alike
      BY <2>1, <3>1 DEF Dim
    <3>3. Scores(vectors, e) \subseteq Scores(alike, e)
      BY <3>2 DEF Scores
    <3> HIDE DEF alike
    <3> QED
      BY <2>1, <2>2, <2>3, <3>1, <3>3
  <2> QED
    BY <2>4, <2>5
<1> QED
  BY <1>1, AlwaysIndexInv, PTL

-----------------------------------------------------------------------------
(* Media: the inductive invariant.                                         *)

UploadRecord == [pc : {"new", "stored", "flushed", "ended"}, id : Nat, expires_at : Nat]

MediaRow == [id : Nat, expires_at : Nat, deleted : BOOLEAN]

SweepRecord == [pc : {"idle", "deleting"}, expired : SUBSET Uploads, todo : SUBSET Uploads]

MediaTyped ==
    /\ time \in Nat /\ nextId \in Nat
    /\ upload \in [Uploads -> UploadRecord]
    /\ media \in [Uploads -> MediaRow \cup {NoRow}]
    /\ sweep \in [Sweepers -> SweepRecord]
    /\ found \in [Readers -> Uploads \cup {NoRow}]

\* A blob is there before its row can be committed.
UploadOK(u) ==
    /\ upload[u].pc # "ended" => media[u] = NoRow
    /\ upload[u].pc \in {"stored", "flushed"} => u \in blobs
    /\ upload[u].pc = "flushed" => upload[u].id < nextId

\* A row has its blob until it has expired, and has none once it is a tombstone.
RowOK(u) ==
    media[u] # NoRow =>
        /\ u \notin blobs => media[u].expires_at < time
        /\ media[u].deleted => u \notin blobs
        /\ media[u].id < nextId

\* A sweep has only expired rows, and has deleted the blobs it has no more to do for.
SweepOK(s) ==
    /\ sweep[s].todo \subseteq sweep[s].expired
    /\ \A u \in sweep[s].expired : /\ media[u] # NoRow /\ media[u].expires_at < time
                                   /\ u \notin sweep[s].todo => u \notin blobs

ReaderOK(r) == found[r] # NoRow => media[found[r]] # NoRow

MediaInv ==
    /\ MediaTyped
    /\ \A u \in Uploads : UploadOK(u) /\ RowOK(u)
    /\ \A s \in Sweepers : SweepOK(s)
    /\ \A r \in Readers : ReaderOK(r)

-----------------------------------------------------------------------------

LEMMA IdleSweepType == IdleSweep \in SweepRecord /\ IdleSweep.expired = {} /\ IdleSweep.todo = {}
BY DEF IdleSweep, SweepRecord

LEMMA MediaInitInv == MediaInit => MediaInv
<1> SUFFICES ASSUME MediaInit PROVE MediaInv
  OBVIOUS
<1>1. NewUpload \in UploadRecord /\ NewUpload.pc = "new"
  BY DEF NewUpload, UploadRecord
<1>2. MediaTyped
  BY <1>1, IdleSweepType DEF MediaInit, MediaTyped
<1> QED
  BY <1>1, <1>2, IdleSweepType
  DEF MediaInit, MediaInv, UploadOK, RowOK, SweepOK, ReaderOK

LEMMA TickInv == ASSUME MediaInv, Tick PROVE MediaInv'
<1> USE DEF MediaInv, MediaTyped
<1>1. UNCHANGED <<upload, blobs, media, nextId, sweep, found>> /\ time' = time + 1
  BY DEF Tick
<1>2. \A u \in Uploads : UploadOK(u)' /\ RowOK(u)'
  BY <1>1 DEF UploadOK, RowOK, MediaRow
<1>3. \A s \in Sweepers : SweepOK(s)'
  BY <1>1 DEF SweepOK, SweepRecord, MediaRow
<1> QED
  BY <1>1, <1>2, <1>3 DEF ReaderOK

LEMMA PutInv == ASSUME MediaInv, NEW u \in Uploads, Put(u) PROVE MediaInv'
<1> USE DEF MediaInv, MediaTyped
<1>1. /\ upload[u].pc = "new" /\ blobs' = blobs \cup {u}
      /\ UNCHANGED <<time, media, nextId, sweep, found>>
      /\ upload' = [upload EXCEPT ![u] = [upload[u] EXCEPT !.pc = "stored",
                                                           !.expires_at = time + Retention]]
  BY DEF Put
<1>2. media[u] = NoRow
  BY <1>1 DEF UploadOK
<1>3. /\ upload' \in [Uploads -> UploadRecord] /\ upload'[u].pc = "stored"
      /\ \A v \in Uploads \ {u} : upload'[v] = upload[v]
  <2>1. time + Retention \in Nat
    BY MediaAssumption
  <2> QED
    BY <1>1, <2>1 DEF UploadRecord
<1>4. \A v \in Uploads : UploadOK(v)' /\ RowOK(v)'
  BY <1>1, <1>2, <1>3 DEF UploadOK, RowOK
<1>5. \A s \in Sweepers : SweepOK(s)'
  BY <1>1, <1>2 DEF SweepOK
<1> QED
  BY <1>1, <1>3, <1>4, <1>5 DEF ReaderOK

LEMMA FlushRowInv == ASSUME MediaInv, NEW u \in Uploads, FlushRow(u) PROVE MediaInv'
<1> USE DEF MediaInv, MediaTyped
<1>1. /\ upload[u].pc = "stored" /\ nextId' = nextId + 1
      /\ UNCHANGED <<time, blobs, media, sweep, found>>
      /\ upload' = [upload EXCEPT ![u] = [upload[u] EXCEPT !.pc = "flushed", !.id = nextId]]
  BY DEF FlushRow
<1>2. /\ upload' \in [Uploads -> UploadRecord]
      /\ upload'[u].pc = "flushed" /\ upload'[u].id = nextId
      /\ \A v \in Uploads \ {u} : upload'[v] = upload[v]
  BY <1>1 DEF UploadRecord
<1>3. \A v \in Uploads : UploadOK(v)' /\ RowOK(v)'
  BY <1>1, <1>2 DEF UploadOK, RowOK, UploadRecord, MediaRow
<1> QED
  BY <1>1, <1>2, <1>3 DEF SweepOK, ReaderOK

LEMMA CommitUploadInv == ASSUME MediaInv, NEW u \in Uploads, CommitUpload(u) PROVE MediaInv'
<1> USE DEF MediaInv, MediaTyped
<1> DEFINE new == [id |-> upload[u].id, expires_at |-> upload[u].expires_at, deleted |-> FALSE]
<1>1. /\ upload[u].pc = "flushed" /\ UNCHANGED <<time, blobs, nextId, sweep, found>>
      /\ media' = [media EXCEPT ![u] = new]
      /\ upload' = [upload EXCEPT ![u].pc = "ended"]
  BY DEF CommitUpload
<1>2. PICK e \in MediaRow : e = new /\ e.id = upload[u].id /\ ~e.deleted
  <2>1. upload[u].id \in Nat /\ upload[u].expires_at \in Nat
    BY DEF UploadRecord
  <2>2. new \in MediaRow
    BY <2>1 DEF MediaRow
  <2>3. new.id = upload[u].id /\ ~new.deleted
    OBVIOUS
  <2> QED
    BY <2>2, <2>3
<1>3. e # NoRow
  BY MediaAssumption DEF MediaRow
<1> HIDE DEF new
<1>4. /\ media' \in [Uploads -> MediaRow \cup {NoRow}] /\ media'[u] = e
      /\ \A v \in Uploads \ {u} : media'[v] = media[v]
  BY <1>1, <1>2
<1>5. /\ upload' \in [Uploads -> UploadRecord] /\ upload'[u].pc = "ended"
      /\ \A v \in Uploads \ {u} : upload'[v] = upload[v]
  BY <1>1 DEF UploadRecord
<1>6. media[u] = NoRow /\ u \in blobs /\ e.id < nextId
  BY <1>1, <1>2 DEF UploadOK
<1>7. \A v \in Uploads : UploadOK(v)' /\ RowOK(v)'
  BY <1>1, <1>2, <1>4, <1>5, <1>6 DEF UploadOK, RowOK
<1>8. \A s \in Sweepers : SweepOK(s)'
  BY <1>1, <1>4, <1>6 DEF SweepOK, SweepRecord
<1>9. \A r \in Readers : ReaderOK(r)'
  BY <1>1, <1>3, <1>4 DEF ReaderOK
<1> QED
  BY <1>1, <1>4, <1>5, <1>7, <1>8, <1>9

LEMMA RollbackUploadInv == ASSUME MediaInv, NEW u \in Uploads, RollbackUpload(u) PROVE MediaInv'
<1> USE DEF MediaInv, MediaTyped
<1>1. /\ UNCHANGED <<time, blobs, media, nextId, sweep, found>>
      /\ upload' = [upload EXCEPT ![u].pc = "ended"]
  BY DEF RollbackUpload
<1>2. /\ upload' \in [Uploads -> UploadRecord] /\ upload'[u].pc = "ended"
      /\ \A v \in Uploads \ {u} : upload'[v] = upload[v]
  BY <1>1 DEF UploadRecord
<1> QED
  BY <1>1, <1>2 DEF UploadOK, RowOK, SweepOK, ReaderOK

\* A sweep that starts, or ends without a commit.
LEMMA SweepInv ==
    ASSUME MediaInv, NEW s \in Sweepers, UNCHANGED <<time, upload, blobs, media, nextId, found>>,
           NEW w \in SweepRecord, sweep' = [sweep EXCEPT ![s] = w],
           w.todo = w.expired, \A u \in w.expired : media[u] # NoRow /\ media[u].expires_at < time
    PROVE  MediaInv'
<1> USE DEF MediaInv, MediaTyped
<1>1. \A t \in Sweepers : SweepOK(t)'
  BY DEF SweepOK
<1> QED
  BY <1>1 DEF UploadOK, RowOK, ReaderOK

LEMMA StartSweepInv == ASSUME MediaInv, NEW s \in Sweepers, StartSweep(s) PROVE MediaInv'
<1> DEFINE expired == {u \in Uploads : Due(u)}
           new == [pc |-> "deleting", expired |-> expired, todo |-> expired]
<1>1. PICK w \in SweepRecord : w = new /\ w.expired = expired /\ w.todo = expired
  <2>1. expired \in SUBSET Uploads
    OBVIOUS
  <2>2. new \in SweepRecord
    <3> HIDE DEF expired
    <3> QED
      BY <2>1 DEF SweepRecord
  <2>3. new.expired = expired /\ new.todo = expired
    OBVIOUS
  <2> QED
    BY <2>2, <2>3
<1>2. /\ UNCHANGED <<time, upload, blobs, media, nextId, found>>
      /\ sweep' = [sweep EXCEPT ![s] = w]
  BY <1>1 DEF StartSweep
<1>3. \A u \in w.expired : media[u] # NoRow /\ media[u].expires_at < time
  BY <1>1 DEF Due, InStorage
<1> QED
  BY <1>1, <1>2, <1>3, SweepInv

LEMMA AbortSweepInv == ASSUME MediaInv, NEW s \in Sweepers, AbortSweep(s) PROVE MediaInv'
BY SweepInv, IdleSweepType DEF AbortSweep

LEMMA DeleteBlobInv ==
    ASSUME MediaInv, NEW s \in Sweepers, NEW u \in Uploads, DeleteBlob(s, u)
    PROVE  MediaInv'
<1> USE DEF MediaInv, MediaTyped
<1>1. /\ u \in sweep[s].todo /\ blobs' = blobs \ {u}
      /\ UNCHANGED <<time, upload, media, nextId, found>>
      /\ sweep' = [sweep EXCEPT ![s].todo = @ \ {u}]
  BY DEF DeleteBlob
<1>2. /\ sweep' \in [Sweepers -> SweepRecord]
      /\ sweep'[s].todo = sweep[s].todo \ {u} /\ sweep'[s].expired = sweep[s].expired
      /\ \A t \in Sweepers \ {s} : sweep'[t] = sweep[t]
  BY <1>1 DEF SweepRecord
<1>3. media[u] # NoRow /\ media[u].expires_at < time
  BY <1>1 DEF SweepOK
<1>4. \A v \in Uploads : UploadOK(v)' /\ RowOK(v)'
  BY <1>1, <1>3 DEF UploadOK, RowOK
<1>5. \A t \in Sweepers : SweepOK(t)'
  BY <1>1, <1>2 DEF SweepOK
<1> QED
  BY <1>1, <1>2, <1>4, <1>5 DEF ReaderOK

LEMMA CommitSweepInv == ASSUME MediaInv, NEW s \in Sweepers, CommitSweep(s) PROVE MediaInv'
<1> USE DEF MediaInv, MediaTyped
<1>1. /\ sweep[s].todo = {} /\ UNCHANGED <<time, upload, blobs, nextId, found>>
      /\ sweep' = [sweep EXCEPT ![s] = IdleSweep]
      /\ media' = [u \in Uploads |->
            IF u \in sweep[s].expired THEN [media[u] EXCEPT !.deleted = TRUE] ELSE media[u]]
  BY DEF CommitSweep, Stamp
<1>2. ASSUME NEW u \in sweep[s].expired
      PROVE  /\ u \in Uploads /\ media[u] \in MediaRow /\ u \notin blobs /\ media'[u] \in MediaRow
             /\ media'[u].id = media[u].id /\ media'[u].expires_at = media[u].expires_at
             /\ media'[u].deleted /\ media[u].expires_at < time
  <2>1. u \in Uploads /\ media[u] \in MediaRow /\ u \notin blobs /\ media[u].expires_at < time
    BY <1>1 DEF SweepOK, SweepRecord
  <2>2. media'[u] = [media[u] EXCEPT !.deleted = TRUE]
    BY <1>1, <2>1
  <2> QED
    BY <2>1, <2>2 DEF MediaRow
<1>3. \A u \in Uploads \ sweep[s].expired : media'[u] = media[u]
  BY <1>1
<1>4. \A u \in Uploads : (media'[u] = NoRow) = (media[u] = NoRow)
  BY <1>2, <1>3, MediaAssumption DEF MediaRow
<1>5. \A u \in Uploads : media[u] # NoRow => media'[u].expires_at = media[u].expires_at
  BY <1>2, <1>3
<1>6. MediaTyped'
  <2>1. media' \in [Uploads -> MediaRow \cup {NoRow}]
    <3>1. \A u \in Uploads : media'[u] \in MediaRow \cup {NoRow}
      BY <1>2, <1>3
    <3> HIDE DEF MediaInv, MediaTyped
    <3> QED
      BY <1>1, <3>1
  <2> QED
    BY <1>1, <2>1, IdleSweepType
<1>7. \A u \in Uploads : UploadOK(u)'
  BY <1>1, <1>4 DEF UploadOK
<1>8. ASSUME NEW u \in Uploads PROVE RowOK(u)'
  <2>1. CASE u \in sweep[s].expired
    <3>1. media[u] # NoRow /\ media[u].id < nextId
      BY <2>1 DEF SweepOK, RowOK
    <3> QED
      BY <1>1, <1>2, <2>1, <3>1 DEF RowOK
  <2>2. CASE u \notin sweep[s].expired
    <3>1. media'[u] = media[u] /\ RowOK(u)
      BY <1>3, <2>2
    <3> QED
      BY <1>1, <3>1 DEF RowOK
  <2> QED
    BY <2>1, <2>2
<1>9. \A t \in Sweepers : SweepOK(t)'
  BY <1>1, <1>4, <1>5, IdleSweepType DEF SweepOK, SweepRecord
<1>10. \A r \in Readers : ReaderOK(r)'
  BY <1>1, <1>4 DEF ReaderOK
<1> QED
  BY <1>6, <1>7, <1>8, <1>9, <1>10

\* The newest row exists: ids are bounded by the sequence they are drawn from.
LEMMA NewestInStorage ==
    ASSUME MediaInv, \E u \in Uploads : InStorage(u)
    PROVE  Newest \in Uploads /\ InStorage(Newest)
<1> DEFINE Distances == {n \in Nat : \E u \in Uploads : InStorage(u) /\ n = nextId - media[u].id}
<1>1. \A u \in Uploads : InStorage(u) => media[u].id \in Nat /\ nextId - media[u].id \in Nat
  BY DEF MediaInv, MediaTyped, RowOK, InStorage, MediaRow
<1>2. Distances # {}
  BY <1>1
<1>3. PICK n \in Distances : \A m \in Distances : ~(<<m, n>> \in OpToRel(<, Nat))
  <2>1. Distances \subseteq Nat
    OBVIOUS
  <2> HIDE DEF Distances
  <2> QED
    BY <1>2, <2>1, NatLessThanWellFounded, WFMin
<1>4. \A m \in Distances : ~(m < n)
  BY <1>3 DEF OpToRel
<1>5. PICK u \in Uploads : InStorage(u) /\ n = nextId - media[u].id
  OBVIOUS
<1>6. \A v \in Uploads : InStorage(v) => media[v].id <= media[u].id
  <2> SUFFICES ASSUME NEW v \in Uploads, InStorage(v) PROVE media[v].id <= media[u].id
    OBVIOUS
  <2>1. nextId - media[v].id \in Distances
    BY <1>1
  <2>2. ~(nextId - media[v].id < nextId - media[u].id)
    BY <1>4, <1>5, <2>1
  <2>3. nextId \in Nat
    BY DEF MediaInv, MediaTyped
  <2> QED
    BY <1>1, <1>5, <2>2, <2>3
<1> QED
  BY <1>5, <1>6 DEF Newest

LEMMA ReaderInv ==
    ASSUME MediaInv, NEW r \in Readers, FindImage(r) \/ FetchImage(r)
    PROVE  MediaInv'
<1> USE DEF MediaInv, MediaTyped
<1>1. UNCHANGED <<time, upload, blobs, media, nextId, sweep>>
  BY DEF FindImage, FetchImage
<1>2. found' \in [Readers -> Uploads \cup {NoRow}] /\ \A q \in Readers : ReaderOK(q)'
  <2>1. CASE FindImage(r)
    <3>1. Newest \in Uploads /\ media[Newest] # NoRow
      BY <2>1, NewestInStorage DEF FindImage, InStorage
    <3>2. found' = [found EXCEPT ![r] = Newest]
      BY <2>1 DEF FindImage
    <3> QED
      BY <1>1, <3>1, <3>2 DEF ReaderOK
  <2>2. CASE FetchImage(r)
    BY <1>1, <2>2 DEF FetchImage, ReaderOK
  <2> QED
    BY <2>1, <2>2
<1> QED
  BY <1>1, <1>2 DEF UploadOK, RowOK, SweepOK

LEMMA AlwaysMediaInv == MediaSpec => []MediaInv
<1>1. MediaInv /\ [MediaNext]_mediaVars => MediaInv'
  <2> SUFFICES ASSUME MediaInv, [MediaNext]_mediaVars PROVE MediaInv'
    OBVIOUS
  <2>1. CASE UNCHANGED mediaVars
    BY <2>1 DEF mediaVars, MediaInv, MediaTyped, UploadOK, RowOK, SweepOK, ReaderOK
  <2> QED
    BY <2>1, TickInv, PutInv, FlushRowInv, CommitUploadInv, RollbackUploadInv, StartSweepInv,
       AbortSweepInv, DeleteBlobInv, CommitSweepInv, ReaderInv DEF MediaNext
<1> QED
  BY <1>1, MediaInitInv, PTL DEF MediaSpec

\* A blob is deleted before its row is stamped, so a match may find a row without one;
\* then the retention of the image has lapsed.
THEOREM OnlyExpiredIsLost == MediaSpec => []LostOnlyExpired
<1>1. MediaInv => LostOnlyExpired
  BY DEF MediaInv, MediaTyped, RowOK, ReaderOK, LostOnlyExpired
<1> QED
  BY <1>1, AlwaysMediaInv, PTL

\* A tombstone has no blob, whichever sweep deleted it.
THEOREM TombstonesAreEmpty == MediaSpec => []TombstoneMeansGone
<1>1. MediaInv => TombstoneMeansGone
  BY DEF MediaInv, RowOK, TombstoneMeansGone
<1> QED
  BY <1>1, AlwaysMediaInv, PTL
=============================================================================
