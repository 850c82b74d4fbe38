------------------------------- MODULE Media -------------------------------
(***************************************************************************)
(* Uploaded passport images: encrypted blobs in object storage, the rows   *)
(* that point at them, and the retention sweeps (app/services/media.py,    *)
(* retention.py, jobs/purge_media.py, worker.py).  Blobs are written and   *)
(* deleted at once, rows only when their transaction commits.  The images  *)
(* are of one session.                                                     *)
(***************************************************************************)
EXTENDS Integers, FiniteSets, FiniteSetsExt

CONSTANTS
    Uploads,      \* uploads of images (bound)
    Sweepers,     \* the worker's cron and the k8s CronJob
    Readers,      \* face matches that fetch the passport image
    Retention,    \* KYC_MEDIA_RETENTION_SECONDS
    MaxTime,      \* the clock stops here (bound)
    MaxFailures,  \* sweeps that fail (bound)
    NoRow

ASSUME MediaAssumption ==
    /\ Retention \in Nat /\ MaxTime \in Nat /\ MaxFailures \in Nat
    /\ NoRow \notin Uploads \cup [id : Nat, expires_at : Nat, deleted : BOOLEAN]

VARIABLES
    time,
    upload,    \* how far each upload has come
    blobs,     \* the blobs in storage, by upload
    media,     \* the committed MediaObject rows
    nextId,    \* the sequence of MediaObject.id
    sweep,     \* the sweeps
    found,     \* the row a reader is about to fetch the blob of
    failures

mediaVars == <<time, upload, blobs, media, nextId, sweep, found, failures>>

NewUpload == [pc |-> "new", id |-> 0, expires_at |-> 0]
IdleSweep == [pc |-> "idle", expired |-> {}, todo |-> {}]

MediaInit ==
    /\ time = 0
    /\ upload = [u \in Uploads |-> NewUpload]
    /\ blobs = {}
    /\ media = [u \in Uploads |-> NoRow]
    /\ nextId = 1
    /\ sweep = [s \in Sweepers |-> IdleSweep]
    /\ found = [r \in Readers |-> NoRow]
    /\ failures = 0

Tick ==
    /\ time < MaxTime
    /\ time' = time + 1
    /\ UNCHANGED <<upload, blobs, media, nextId, sweep, found, failures>>

-----------------------------------------------------------------------------
(* media.store, in the transaction of the passport route.                  *)

\* storage().put, and the deadline.  Uploads stop in time to expire (bound).
Put(u) ==
    /\ upload[u].pc = "new"
    /\ time + Retention < MaxTime
    /\ blobs' = blobs \cup {u}
    /\ upload' = [upload EXCEPT ![u].pc = "stored", ![u].expires_at = time + Retention]
    /\ UNCHANGED <<time, media, nextId, sweep, found, failures>>

\* db.flush: the row takes its id, which a rollback does not give back.
FlushRow(u) ==
    /\ upload[u].pc = "stored"
    /\ upload' = [upload EXCEPT ![u].pc = "flushed", ![u].id = nextId]
    /\ nextId' = nextId + 1
    /\ UNCHANGED <<time, blobs, media, sweep, found, failures>>

\* The passport is accepted.
CommitUpload(u) ==
    /\ upload[u].pc = "flushed"
    /\ media' = [media EXCEPT ![u] = [id |-> upload[u].id, expires_at |-> upload[u].expires_at,
                                      deleted |-> FALSE]]
    /\ upload' = [upload EXCEPT ![u].pc = "ended"]
    /\ UNCHANGED <<time, blobs, nextId, sweep, found, failures>>

\* 422, 409, 404, or a crash: the row is rolled back, the blob is not.
RollbackUpload(u) ==
    /\ upload[u].pc \in {"stored", "flushed"}
    /\ upload' = [upload EXCEPT ![u].pc = "ended"]
    /\ UNCHANGED <<time, blobs, media, nextId, sweep, found, failures>>

-----------------------------------------------------------------------------
(* purge_expired, in a transaction of its own.                             *)

InStorage(u) == media[u] # NoRow /\ ~media[u].deleted

\* expires_at <= now
DueEarly(u) == InStorage(u) /\ media[u].expires_at <= time

\* expires_at < now, and not deleted.
Due(u) == InStorage(u) /\ media[u].expires_at < time

StartSweep(s) ==
    /\ sweep[s].pc = "idle"
    /\ LET expired == {u \in Uploads : Due(u)}
       IN  /\ expired # {}      \* a sweep that finds nothing changes nothing
           /\ sweep' = [sweep EXCEPT ![s] = [pc |-> "deleting", expired |-> expired,
                                             todo |-> expired]]
    /\ UNCHANGED <<time, upload, blobs, media, nextId, found, failures>>

\* A storage that knows the blob.
DeletePresentBlob(s, u) ==
    /\ u \in sweep[s].todo /\ u \in blobs
    /\ blobs' = blobs \ {u}
    /\ sweep' = [sweep EXCEPT ![s].todo = @ \ {u}]
    /\ UNCHANGED <<time, upload, media, nextId, found, failures>>

\* storage().delete: a missing blob is no error.
DeleteBlob(s, u) ==
    /\ u \in sweep[s].todo
    /\ blobs' = blobs \ {u}
    /\ sweep' = [sweep EXCEPT ![s].todo = @ \ {u}]
    /\ UNCHANGED <<time, upload, media, nextId, found, failures>>

Stamp(s) ==
    media' = [u \in Uploads |->
                 IF u \in sweep[s].expired THEN [media[u] EXCEPT !.deleted = TRUE] ELSE media[u]]

\* Stamped before the blobs are gone.
CommitEarly(s) ==
    /\ sweep[s].pc = "deleting"
    /\ Stamp(s)
    /\ sweep' = [sweep EXCEPT ![s] = IdleSweep]
    /\ UNCHANGED <<time, upload, blobs, nextId, found, failures>>

CommitSweep(s) ==
    /\ sweep[s].pc = "deleting" /\ sweep[s].todo = {}
    /\ Stamp(s)
    /\ sweep' = [sweep EXCEPT ![s] = IdleSweep]
    /\ UNCHANGED <<time, upload, blobs, nextId, found, failures>>

\* The storage or the process fails half-way: no row is stamped.
AbortSweep(s) ==
    /\ sweep[s].pc = "deleting" /\ failures < MaxFailures
    /\ failures' = failures + 1
    /\ sweep' = [sweep EXCEPT ![s] = IdleSweep]
    /\ UNCHANGED <<time, upload, blobs, media, nextId, found>>

-----------------------------------------------------------------------------
(* media.latest_bytes: the newest row, then its blob.                      *)

Newest == CHOOSE u \in Uploads : /\ InStorage(u)
                                 /\ \A v \in Uploads : InStorage(v) => media[v].id <= media[u].id

FindImage(r) ==
    /\ found[r] = NoRow
    /\ \E u \in Uploads : InStorage(u)
    /\ found' = [found EXCEPT ![r] = Newest]
    /\ UNCHANGED <<time, upload, blobs, media, nextId, sweep, failures>>

\* storage().get: the image, or FileNotFoundError.
FetchImage(r) ==
    /\ found[r] # NoRow
    /\ found' = [found EXCEPT ![r] = NoRow]
    /\ UNCHANGED <<time, upload, blobs, media, nextId, sweep, failures>>

MediaNext ==
    \/ Tick
    \/ \E u \in Uploads : Put(u) \/ FlushRow(u) \/ CommitUpload(u) \/ RollbackUpload(u)
    \/ \E s \in Sweepers : \/ StartSweep(s) \/ CommitSweep(s) \/ AbortSweep(s)
                           \/ \E u \in Uploads : DeleteBlob(s, u)
    \/ \E r \in Readers : FindImage(r) \/ FetchImage(r)

\* Time passes, requests end, sweeps are scheduled every hour and go on.
MediaFairness ==
    /\ WF_mediaVars(Tick)
    /\ \A u \in Uploads : WF_mediaVars(FlushRow(u) \/ CommitUpload(u) \/ RollbackUpload(u))
    /\ \A s \in Sweepers : /\ WF_mediaVars(StartSweep(s) \/ CommitSweep(s))
                           /\ WF_mediaVars(\E u \in Uploads : DeleteBlob(s, u))

MediaSpec == MediaInit /\ [][MediaNext]_mediaVars /\ MediaFairness

-----------------------------------------------------------------------------

\* A match finds no image only if its retention has lapsed: a sweep that is not
\* committed yet, or that failed, has deleted no other blob.
LostOnlyExpired ==
    \A r \in Readers :
        found[r] # NoRow /\ found[r] \notin blobs => media[found[r]].expires_at < time

\* "removed from object storage and the row is stamped deleted_at" (retention.py:4-5):
\* a tombstone means that the blob is gone, however sweeps overlap or fail.
TombstoneMeansGone ==
    \A u \in Uploads : media[u] # NoRow /\ media[u].deleted => u \notin blobs

\* Every row is swept at last, a failed sweep's rows by a later one.
RowsSwept == \A u \in Uploads : (media[u] # NoRow) ~> (media[u] # NoRow /\ media[u].deleted)

\* "raw uploads are removed within the retention window + ~1h" (deploy/README.md:49).
RawMediaGoes == \A u \in Uploads : (u \in blobs) ~> (u \notin blobs)
=============================================================================
