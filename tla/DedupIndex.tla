----------------------------- MODULE DedupIndex -----------------------------
(***************************************************************************)
(* The search backends of the 1:N deduplication                            *)
(* (app/providers/dedup_index.py): the scan over the identities' templates *)
(* and the pgvector table beside them.  An enrolment inserts the identity  *)
(* and its vector in one transaction of one process; the first one creates *)
(* the table, and the process remembers that in memory.                    *)
(*                                                                         *)
(* The index of pgvector is approximate: a search may answer any vector of *)
(* the table, or none.                                                     *)
(***************************************************************************)
EXTENDS Integers, FiniteSets, FiniteSetsExt

CONSTANTS
    Processes,    \* API processes and workers
    People,       \* identity hashes that may be enrolled
    EmbeddingOf,  \* the template of each
    Queries,      \* embeddings that are searched for
    DimOf,        \* len(embedding); 0 when no face was read
    Cosine,       \* the similarity of two embeddings of one dimension, in percent
    Empty         \* no table, no transaction, no match

ASSUME IndexAssumption ==
    /\ EmbeddingOf \in [People -> Queries] /\ DimOf \in [Queries -> Nat] /\ Empty \notin Nat
    /\ Cosine \in [Queries \X Queries -> -100..100]
    /\ Empty \notin [hash : People, creates : Nat \cup {Empty}, vector : BOOLEAN]

VARIABLES
    backend,   \* KYC_DEDUP_BACKEND of each process
    ready,     \* PgVectorIndex._ready
    enrolling, \* the enrolment in progress in each process
    records,   \* identities: the committed hashes ...
    scanned,   \* ... and those of them enrolled by a process with the scan
    table,     \* identity_vectors: its dimension, once it exists ...
    vectors    \* ... and its rows

indexVars == <<backend, ready, enrolling, records, scanned, table, vectors>>

IndexInit ==
    /\ backend \in [Processes -> {"linear", "pgvector"}]
    /\ ready = [p \in Processes |-> FALSE]
    /\ enrolling = [p \in Processes |-> Empty]
    /\ records = {} /\ scanned = {}
    /\ table = Empty /\ vectors = {}

-----------------------------------------------------------------------------

InProgress == {p \in Processes : enrolling[p] # Empty}

\* DDL that another transaction has not committed yet makes CREATE TABLE wait.
CanCreate(p) == \A q \in InProgress \ {p} : enrolling[q].creates = Empty

New(h) == h \notin records \cup {enrolling[p].hash : p \in InProgress}

\* The vector is stored by the enrolment that creates the table.
AddWhenCreating(p, h) == ~ready[p]

\* PgVectorIndex.add always inserts; LinearScanIndex.add never does.
Adds(p, h) == backend[p] = "pgvector"

\* index_identity, as far as it succeeds.  _ensure: _ready is set before the
\* transaction commits.
Enrol(p, h) ==
    LET dim == DimOf[EmbeddingOf[h]]
        creates == backend[p] = "pgvector" /\ ~ready[p] /\ table = Empty
    IN  /\ enrolling[p] = Empty /\ New(h)
        /\ backend[p] = "pgvector" =>
               /\ ready[p] \/ CanCreate(p)
               /\ creates \/ table = dim
        /\ ready' = [ready EXCEPT ![p] = @ \/ backend[p] = "pgvector"]
        /\ enrolling' = [enrolling EXCEPT ![p] =
               [hash |-> h, creates |-> IF creates THEN dim ELSE Empty, vector |-> Adds(p, h)]]
        /\ UNCHANGED <<backend, records, scanned, table, vectors>>

\* No table, or one of another dimension: the INSERT fails, _ready stays set.
EnrolFails(p, h) ==
    /\ enrolling[p] = Empty /\ New(h)
    /\ backend[p] = "pgvector" /\ table # DimOf[EmbeddingOf[h]]
    /\ \/ ready[p]
       \/ table # Empty /\ CanCreate(p)
    /\ ready' = [ready EXCEPT ![p] = TRUE]
    /\ UNCHANGED <<backend, enrolling, records, scanned, table, vectors>>

CommitEnrolment(p) ==
    LET e == enrolling[p] IN
    /\ e # Empty
    /\ records' = records \cup {e.hash}
    /\ scanned' = IF backend[p] = "linear" THEN scanned \cup {e.hash} ELSE scanned
    /\ table' = IF e.creates # Empty THEN e.creates ELSE table
    /\ vectors' = IF e.vector THEN vectors \cup {e.hash} ELSE vectors
    /\ enrolling' = [enrolling EXCEPT ![p] = Empty]
    /\ UNCHANGED <<backend, ready>>

\* The identity hash is taken, or anything else fails after the add.
RollbackEnrolment(p) ==
    /\ enrolling[p] # Empty
    /\ enrolling' = [enrolling EXCEPT ![p] = Empty]
    /\ UNCHANGED <<backend, ready, records, scanned, table, vectors>>

\* A process starts again, with the backend its environment names by then.
Restart(p) ==
    /\ \E b \in {"linear", "pgvector"} : backend' = [backend EXCEPT ![p] = b]
    /\ ready' = [ready EXCEPT ![p] = FALSE]
    /\ enrolling' = [enrolling EXCEPT ![p] = Empty]
    /\ UNCHANGED <<records, scanned, table, vectors>>

IndexNext == \E p \in Processes :
    \/ \E h \in People : Enrol(p, h) \/ EnrolFails(p, h)
    \/ CommitEnrolment(p) \/ RollbackEnrolment(p) \/ Restart(p)

IndexSpec == IndexInit /\ [][IndexNext]_indexVars

-----------------------------------------------------------------------------
(* best_match: the score of a search.                                      *)

\* -1.0, None
NoMatch == -100

Scores(hashes, e) == {NoMatch} \cup {Cosine[e, EmbeddingOf[h]] : h \in hashes}

Best(hashes, e) == Max(Scores(hashes, e))

\* LinearScanIndex.best_match skips templates of another dimension.
LinearMatch(e) == Best({h \in records : DimOf[EmbeddingOf[h]] = DimOf[e]}, e)

\* The process has not added a vector itself.
NotReady(p) == ~ready[p]

\* not _ready and not _table_exists
NothingToSearch(p) == ~ready[p] /\ table = Empty

\* No table, or one of another dimension: the SELECT fails.
SearchFails(p, e) == ~NothingToSearch(p) /\ table # DimOf[e]

\* PgVectorIndex.best_match, unless it fails: what the HNSW search may answer.
VectorMatches(p, e) ==
    IF NothingToSearch(p) THEN {NoMatch} ELSE Scores(vectors, e)

\* The table has exactly the identities that a pgvector process has enrolled: a
\* vector is committed with its identity or not at all, whatever becomes of the
\* enrolments of other processes.
VectorsMatchRecords == vectors = records \ scanned

\* What is left of "the same cosine score the linear scan would" (dedup_index.py:12-13)
\* with an approximate index: a search never scores above the scan, so it refuses or
\* queues nobody whom the scan would enrol; and the nearest of those enrolled with
\* pgvector is within its reach, in a process that created the table or not, was
\* restarted, or rolled back.  That the index returns the nearest (recall, ef_search)
\* is not promised.
SearchIsSound ==
    \A p \in Processes, e \in Queries :
        backend[p] = "pgvector" /\ ~SearchFails(p, e) =>
            /\ \A score \in VectorMatches(p, e) : score <= LinearMatch(e)
            /\ Best(records \ scanned, e) \in VectorMatches(p, e)
=============================================================================
