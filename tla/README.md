# A TLA+ development of Simple_KYC

Simple_KYC verifies the users of a peer-to-peer protocol, keeps one human from
holding several identities and grants each identity an allowance of USDC→fiat
conversion. This directory models its server and
its web client: what overlapping requests, reviewers, jobs, retries, restarts and
failures can do to a verification session, to the identities, to the allowance and
to everything around them.

## 1. The system

| Part | State | Operations | Talks to |
|---|---|---|---|
| Verification pipeline (`services/verification.py`) | rows of `users`, `sessions`, `identities` | `onboard`, `submit_passport`, `submit_biometrics`, `finalize_identity`, `mark_biometrics_received` | liveness, dedup, risk, review, audit, media |
| Manual review (`services/review.py`) | `review_queue` | `enqueue`, `pending`, `resolve` | `finalize_identity` |
| Risk engine (`services/risk.py`) | none | `decide` | — |
| Deduplication (`services/dedup.py`, `providers/dedup_index.py`) | reads `identities` | `search`, `index_identity` | — |
| Liveness (`services/liveness.py`) | `_CHALLENGES`, in memory | `issue_challenge`, `verify_response` | — |
| Limit ledger (`services/ledger.py`) | `ledger` | `balance`, `debit` | `identities` |
| Persistence (`db.py`, `models.py`) | the database | one transaction per request | — |
| Credentials, revocation (`services/credentials.py`, `revocation.py`) | `revoked_credentials` | `issue`, `verify`, `revoke` | signer, ledger |
| Signing and encryption keys (`providers/signer.py`, `crypto.py`) | key files, key set | `sign`, `verify`, `jwks` | — |
| Async queue, worker (`providers/task_queue.py`, `worker.py`) | Redis queue | `enqueue_biometrics`, the job | `submit_biometrics` |
| Media, retention (`services/media.py`, `retention.py`, `providers/storage.py`, `jobs/purge_media.py`) | `media_objects`, blobs | `store`, `latest_bytes`, `purge` | — |
| MRZ and document reader (`services/mrz.py`, `providers/mrz_reader.py`) | none | `validate_td3`, OCR | — |
| Authentication, rate limit (`security.py`) | `_hits`, under a lock | `_allow`, key checks | — |
| Audit, metrics (`audit.py`, `services/metrics.py`) | `audit_log` | `record`, aggregates | — |
| Wizard and admin console (`web/`) | step, result | the client's side of the routes | HTTP |

What is hard about it:

* Routes are synchronous functions: FastAPI runs each request in a thread of its
  own with a transaction of its own, and several replicas may run. A handler
  reads a session once and works on that copy; nothing locks the row until the
  first `UPDATE`, and nothing re-reads it. The commit comes after the response
  (a `yield` dependency), so even a client that waits for each answer may
  overlap with itself.
* `signals` is one JSON column: it is read, extended and written back whole.
* The search for duplicates and the enrolment are different statements, and so
  are the balance check and the debit.
* Any statement can fail; `get_session` rolls back what the request did, but not
  the nonce it consumed, which lives in the process.

* With `KYC_TASK_QUEUE=arq` a submission is decided by a worker: the handler marks the
  row and enqueues before it commits, the job may run first, twice or never, and the
  challenge it answers is in the memory of another process.
* Several stores have no common transaction: blobs and their rows, key files and the
  keys in memory, the vector table and a process's belief that it exists, the page's
  last answer and the session.

What makes each part correct (section 3 lists the properties): an approved session
stays as it was approved, was approved on evidence, and has an enrolled identity;
attempts are counted and capped; the queue and the sessions agree; one human is
enrolled once; a key is debited once and the allowance is kept; every request ends. A
queued submission is decided, once; a token verifies at every replica until it expires
or is revoked; a purge removes what is due and nothing else; the window admits no more
than its limit and the threads that wait for it; the approximate search backend never claims more than the scan, and has in reach what it
needs; a wrong MRZ is caught, and one right read is enough; the client's notion
of a finished challenge implies the server's, and it gives up no session that could still be verified.

`PROJECT.json` lists the components, and under `hazards` every place where this
code is hard to test, with the properties that watch it.

## 2. Modules

| Module | What it is |
|---|---|
| `Verification` | The decision pipeline: sessions, signals, challenges, dedup, risk, enrolment, review, under overlapping requests |
| `SessionLifecycle` | The abstract specification of one session, for an integrator |
| `BiometricQueue` | The dispatch of biometric submissions, inline or through the queue and its worker |
| `Ledger` | Debits of the allowance |
| `Credentials` | Signing keys of the replicas; tokens, expiry, revocation |
| `RateLimit` | The sliding window under concurrent threads |
| `Mrz` | Check digits, slips, the choice and rebuilding of reads |
| `LivenessDetection` | The verdict on a clip, and the browser's guidance against it |
| `Media` | Blobs, their rows and the retention sweeps |
| `Storage` | The data key of the encrypted local storage |
| `DedupIndex` | The scan and the pgvector table, side by side |
| `Wizard` | The applicant's page against the API |
| `MCVerification`, `MCLedger`, `MCBiometricQueue`, `MCServices` | Values for TLC |
| `VerificationProofs` | Theorems of `Verification`, whatever requests overlap |
| `VerificationSerialProofs` | Theorems of `Verification` when requests on a session do not overlap; the refinement |
| `LimitProofs` | Theorems of `Ledger` and `RateLimit` |
| `BiometricQueueProofs`, `WizardProofs` | Theorems of those modules |
| `KeyProofs` | Theorems of `Credentials` and `Storage` |
| `StoreProofs` | Theorems of `DedupIndex` and `Media` |
| `RecognitionProofs` | Theorems of `LivenessDetection` and `Mrz` |

`MCServices` extends `Ledger` and the eight other independent services. They share no
state in the models, so the run does not interleave them: `part` chooses one when a behaviour
starts, and the others rest.

### Verification

*State.* `user`, `session`, `identity` and `queue` are the committed rows of
`users`, `sessions`, `identities` and `review_queue`; `decisions` counts the
`decision` entries of the audit log; `challenge` is the state of each nonce in
`_CHALLENGES` (`gone`: popped or expired); `lock` names the transaction that
holds the row lock of a session; `req` is what the requests in flight hold.

*A request* is a slot of `req` that goes through its handler's round trips:

    idle → passport → idle                              submit_passport
    idle → loaded → searched → idle                     submit_biometrics, reject or review
    idle → loaded → searched → enrolling → idle         submit_biometrics, approve
    idle → resolving → idle                             resolve, reject
    idle → resolving → enrolling → idle                 resolve, approve

and may `Abort` from anywhere. What a slot keeps is what the handler keeps:
`loaded` (the row as it was read), `draft` (the ORM object as modified), the
liveness verdict, the outcome of the search, whether the identity was found, and
the user's `identity_id` as it was read.

*The database.* PostgreSQL under READ COMMITTED, through SQLAlchemy:

* `Flush` writes a column only if the draft differs from what was loaded (`Net`);
  the other columns keep whatever another transaction committed.
* The first query after a change autoflushes, and that `UPDATE` takes the row
  lock: for a submission in `Search`, before the duplicates are read. It waits
  (`CanLock`) for the transaction that holds the row. `FlushDecision` is the
  second flush, of the decision, over the first. An approval by a reviewer
  autoflushes `item.resolved` and so holds the item's row (`ItemFree`).
* The unique constraint on `identity_hash` fails the whole transaction
  (`HashTaken`, `Conflict`).
* `identity_id` is represented by the hash of the row it refers to.

*Data.* A seed is the face and document input of an applicant; `FaceOf` says
whose face a seed is. The hash of an identity is the pair of country and seed.
The search returns `reject` for a face already enrolled, `review` for a twin and
`clear` otherwise, which is what the two thresholds do to a similarity. The three
evidence gates (MRZ, liveness, 1:1 match) are one reason. The score of `risk.py`
is computed in hundredths of a percent from a match score, the score of a live
response (1.0) and the device risk, so that the comparison with 0.75 is
exact. The e-mail hash is left out: nothing reads it. Onboarding is one step; two that overlap are not distinguished.

*Bounds* are constants: `Sessions`, `Nonces`, `Requests`, and `MaxDecisions`, which
stops a session from being submitted for ever (without it, overlapping requests
reset `biometric_attempts` again and again and the counter `decisions` grows
without end). `OverlapSessions` says whether two requests may be in flight on one
session; FALSE is what a gateway that serialises by session would give, and it
leaves overlaps of different sessions, of their searches and enrolments, in.

### SessionLifecycle

The promise: a session is open for at most `MaxAttempts` attempts; an attempt,
counted as it is decided, leaves it open, sends it to review or approves it; only
a reviewer moves it out of review; nothing moves it out of approval. `Verification`
implements it, with `phase` and `attempts` computed from the row, when requests on
a session do not overlap (`ImplementsLifecycle`); when they do, it does not, and
`MCReprocess` shows how.

### Ledger

A debit is three round trips: the key is looked up (`Debit`), the balance computed
and compared (`Check`, `Refuse`), the row inserted (`Insert`); the answer then goes out, the
transaction commits after it (`Commit`), and anything may fail (`Abort`). `ledger` is a sequence, the place of a row its
primary key, so that two rows of the same contents are two rows. The other debits see committed rows only
(`Used`); what keeps a retry from its second row while the first is uncommitted is the unique
index, on which an insert waits for the transaction that holds its key (`Held`). Amounts are in mills, a tenth of a cent, because `amount_usdc` is any
positive float while only the balance is rounded to cents; a tie of the rounding
falls on either side, as the float's binary value happens to. No route credits, so
rows only consume. `consumed` is the sum of an identity's rows that `balance()` computes.

### BiometricQueue

One session, its submissions, and the processes that may run them. What a decision
depends on is reduced to liveness: a live response is decided in any way, another is
rejected. Kept is who writes the row and in which order:

    post: idle → checked → marked → sent → done        the handler, with the queue
    post: idle → inline → done                          the handler, inline
    job:  none → queued → running → done | refused | failed
    run:  idle → loaded → searched (→ decided)          submit_biometrics, in either

`Mark` flushes and so takes the row lock, `Enqueue` sends the job, `Commit` writes the mark;
the job reads the committed row, checks it again, consumes the nonce, and waits for the lock
only if it changes the row (`Dirty`). `Crash` is a worker that dies before or after its commit:
the queue delivers the job again up to `MaxTries` times. A job that raises is not tried again.
`challenge` names the process whose memory has a nonce; `Restart` empties it. `overlapped` is a
history variable: were two submissions ever under way at once?

### Credentials

`_load_or_create_key` runs when a process starts: it looks for the file (`LoadKey`), and if
there was none writes one (`CreateKey`), whatever has appeared in between; `raced` remembers
that something had. `Rotate` is the operator replacing the file. A token names the key of the
process that issued it, and `Verify` asks a process's one published key, the expiry and the
revocation rows. Signatures are perfect.

### RateLimit

One key of `_hits`. A thread reads the time (`Arrive`) and takes the lock later (`Allow`). The list
of times is the set `hits` of its entries, numbered among those of the same time (the code looks
at times and at the length only); `admitted` is every entry there has been.

### Mrz

A character is its code. `printed` is line 2 of a document, `seen` what was read after one
slip: a `Substitute` of any character, a `Transpose` of two neighbours. `reads` are the reads of one
image in order of priority; the OCR finds in each the printed line, the line with one of the `Misreads`, or none
(`OcrLines`). `OcrFields` is what the library hands over (fields without their
trailing fillers), `Reconstruct` puts the line together again. A loop of the code is a recursive
function of the place it has reached (`Totals`, `Kept`), so that it can be proved about.
`DocumentAssumption` is what `make_mrz` needs of its input: a number of at most nine characters, the other
fields of the widths of the format; a longer number is cut and does not come back.

### LivenessDetection

A feature is on one side of its thresholds. `Detect`, `MatchesInOrder`, `Score` and `Verdict`
are the functions of `liveness.py`, with their loops as recursive functions (`Detector` after each
frame, `Iterator` after each action); `Guide` is one frame of `detectCurrent` in the browser. The
properties compare them with a definition of their own, `ShownInOrder`: there are frames, at
increasing places, that show the actions. The issued sequences include the empty one and those
cut by a negative `actions`.

### Media and Storage

`Media`: a blob is written (`Put`), its row flushed and committed or rolled back; a sweep selects
what is due, deletes blob by blob and commits its tombstones at the end, or fails. The worker's cron and the
CronJob sweep independently. A reader finds the newest row first and fetches its blob later.
`Storage` is about the key: taken from the environment, read from a file, or made and written
in two steps.

### DedupIndex

`records` and `vectors` are the committed identities and vectors; an enrolment writes both in one
transaction, and the first one in a process provisions the table and sets `ready` before it commits.
Processes may run different backends and change them by a restart. The HNSW index is
approximate (`dedup_index.py:71-78`): a search of the table may answer any of its vectors, or none
(`VectorMatches`). How often it answers the nearest, the recall that `ef_search` tunes, is not modelled.

### Wizard

`page` is the `State` of `Wizard.tsx`; `cache` the challenges that react-query has kept; `post` the
request in flight and then its answer; `rows` and `jobs` the API's side, decided inline or by a
job. `LoseBiometrics` is any error that is no 409, before or after the API has acted. A single
tab; a job that fails is in `BiometricQueue`.

## 3. Runs

Every run has `CHECK_DEADLOCK FALSE`: the system does stop, when all sessions are
decided or the bounded inputs are used up.

| Run | Instance | Shows |
|---|---|---|
| `MCOverlap` | 1 session, 2 requests overlapping on it, 2 countries (1 high-risk), 2 nonces, 1 attempt, 1 decision, fairness | `TypeOK`, `ApprovedBound`, `NoAttemptWithoutDecision` and `RequestsEnd` whatever overlaps |
| `MCSerial` | 2 sessions of a wallet, 2 requests, never two on one session, 2 humans, 2 passports, 2 attempts | `HashUnique`, `ReviewMatchesSession`, `AttemptsCounted`, `ApprovedIsEvidenced`, `ColumnsAgree`, `ApprovedForever`, `ImplementsLifecycle` |
| `MCSybil` | 2 wallets, 2 countries (1 high-risk), 2 sessions, 1 request, a human and a twin, match scores 60 and 100 | `AutoApprovalIsUnique`, `HighRiskIsReviewed` |
| `MCQueue` | both modes, 2 submissions, 1 nonce, 3 attempts, 2 deliveries of a job, a worker in the API's process and one of its own, fairness | `OwnMarkFirst`, `NonceCountsOnce`, `DecisionSticks`, `ProcessingEnds` |
| `MCServices` | see below | the properties of the services |

`MCServices`, by part:

| Part | Bounds | Properties |
|---|---|---|
| ledger | 2 identities, 3 keys, 2 overlapping debits of 1.4 and 2 cents of a limit of 2 | `KeyDebitedOnce`: retries that overlap, before or after the original has answered; `OverspendBounded`: by the number of debits in flight |
| credentials | 2 replicas on one disk, 2 keys, 2 tokens | `LiveTokensVerify`: through restarts, unless a key is rotated or two are created at once |
| rate limit | 2 threads, quota 2, a window of 2 seconds in 5 | `QuotaHolds`: at most one more than the quota for each other thread that waits |
| mrz | 2 passports, every substitution, every transposition, up to 3 reads, each right, unread, or with one of 7 mistakes (told and not told by a check digit, strays) | `PrintedIsRead`, `WrongCharacterIsRejected`, `SwappedCharactersAreRejected`, `ReadIsTheDocument`, `RebuiltInPlace` |
| liveness | every clip of up to 3 frames (18 kinds of frame), challenges of 2 and 3 actions and the empty one | `PerformedIsLive`, `LiveIsPerformed`, `GuidedIsLive` |
| media | 2 uploads, 2 sweepers, 1 reader, 1 failing sweep, retention 1 in a time of 3 | `LostOnlyExpired`, `TombstoneMeansGone`, `RowsSwept` |
| index | 2 processes, both backends, 3 people, templates of two models, a selfie without a face | `VectorsMatchRecords`, `SearchIsSound` |
| wizard | 2 visits, a budget of 2, inline and queue | `InlineTerminalIsSettled`, `ChallengeIsFresh`, `WizardEnds` |
| storage | 2 processes, 1 blob, 2 keys, with and without `KYC_STORAGE_KEY` | `BlobsDecrypt` |

The bounds are small but reach the cases: two requests, threads, replicas, sweepers or
submissions are what every race of this code needs (each is between two); one session with two
attempts has a retry after a reject; two nonces are one consumed and one fresh; two deliveries
are one that decided and one that must not. A clip of three frames has a blink (two frames)
followed by another action, and every action that fires together with another; a challenge of
three actions with a blink among them is performed there only with two actions in one frame. A review
needs a high-risk country, a twin, a reused passport, a low score or a device shared by two
wallets, and between them the runs have each. The passports have a number of nine characters
with letters and a short one, so that fillers stand in the checked field.
Symmetry permutes wallets, sessions, requests, nonces, submissions, keys and identities, which
no property orders; runs with liveness properties have none.

What some properties do not say. `ProcessingEnds` and `DecisionSticks` except submissions that
overlap: a second one that passed its check before the first was decided marks a decided
session again, and its job is then refused. `LiveTokensVerify` excepts a race for the first key, and needs one
disk: `deploy/k8s/api.yaml` runs two replicas with none in common. `BlobsDecrypt` excepts a race for
the key file. `KeyDebitedOnce` says that a retry makes no second row, not that it is answered as a replay: one that
looked its key up before the original committed may be told `limit_exceeded`, or fail on the constraint, although the
conversion was debited. `NoAttemptWithoutDecision` is one side of the count only: when submissions overlap, or a passport
request writes back signals that it read before a decision, counts are lost, and the cap of `config.py:54-62` holds only for
requests one after the other (`AttemptsCounted`). `AutoApprovalIsUnique` is checked with one request at a time.
`SearchIsSound` does not say that the two backends answer the same: `dedup_index.py:12-13` ("the same cosine
score the linear scan would") holds of pgvector only as far as the index's recall goes, which lines 76-78 of the same file admit; what is
checked is that nothing is invented and that the nearest vector is there to be found. It excepts errors of the database, which a rolled-back first
enrolment, an empty embedding or another model's dimension cause, and identities enrolled before the deployment changed to pgvector.
`ReadIsTheDocument` is about reads with at most one wrong character each. `InlineTerminalIsSettled` takes a true duplicate as settled,
as the page's comment does (`StepResult.tsx:28-30`); the API itself would judge a further submission of it while the budget lasts
(`verification.py:47-50`). That a revoked credential is refused is one lookup (`revocation.py:38-49`) and has no property of its own. `WizardEnds`
counts a page left at the check by an error as an end: it has no button.

What the code does against what it says of itself; each of these runs finds its
property violated, and `PROJECT.json` quotes the line:

| Run | Property | In a sentence |
|---|---|---|
| `MCReprocess` | `ApprovedForever` | A submission that read the row before the approval rewrites it afterwards |
| `MCSybilReview` | `OneIdentityPerHuman` | No overlap needed: two sessions of one human in review are both enrolled |
| `MCLedgerRace` | `WithinAllowance` | Two debits see the same balance |
| `MCQueueNonce` | `OpenNonceCounts` | The worker does not know the nonces that the API issued: every queued response is not live |
| `MCKeyRotation` | `OldTokensVerify` | A replica publishes and accepts one key |
| `MCMediaOrphan` | `RawMediaGoes` | A rolled-back upload leaves a blob that no row names |
| `MCWizard` | `TerminalIsSettled` | The page takes the answer "queued" for a failure for good |

`ApprovedForever` is checked both ways: it holds when requests are serialised by session.
`WithinAllowance` is proved for debits that do not overlap (`SerialAllowance`). Three more things fail when requests overlap,
without a run of their own: two sessions of one human that both search before
either enrols are both auto-approved (`AutoApprovalIsUnique`); overlapping submissions count
as one attempt, so the cap is passed; and a wallet's later session rebinds the identity for which
the earlier session's credential is then issued.

One hazard of the country is not a run: a known wallet that onboards again naming another
country keeps the country of its user row, while the session's risk signal is of the new one
(`verification.py:62-79`), so `HighRiskIsReviewed` is about the session's country and would
fail for the user's.

*Fairness.* `Verification!FairSpec` assumes strong fairness of each request's next step. A thread
runs to its end, and an `UPDATE` that waits for a row gets it in order of arrival, so
a lock released again and again is eventually had; weak fairness would let a waiting
request be overtaken for ever. `BiometricQueue!FairSpec` assumes weak fairness of what the server does by itself
for a submission (`Progress`): threads go on and the worker takes jobs. `MediaFairness`: time passes, requests end,
and the sweeps that are scheduled every hour start and go on. `WizardFairness`: the API answers, and the applicant
performs what is asked and takes every "Try again"; nobody has to start over. Nothing is assumed of reviewers,
operators, failures or clients otherwise.

## 4. Proofs

All theorems are for every value of the constants: any number of sessions, requests, threads,
processes, submissions, uploads or visits. The constants are assumed to be of their types, and each
of the values that stand for "nothing" (`None`, `Nil`, `NoRow`, `NoKey`, `Empty`) to be none of the
values it is told apart from; `Requests`, `Submissions`, `Threads` and `Visits` to be finite where they are counted. TLC
evaluates these assumptions in the runs. A premise of a theorem about the deployment is named in its
statement:

* `Serialised`: requests on one session do not overlap, or requests do not overlap at all. Nothing
  in the code enforces it. `MCReprocess` shows what happens without.
* `OneAtATime`: one request slot.
* `OneDisk`: the replicas share the key file.
* `DocumentAssumption`, `MisreadAssumption` (`Mrz`): the documents have the widths of the format, and a reader
  mistakes at most one character in a read. `DetectionAssumption` (`LivenessDetection`): the threshold is at most 100 %.
* `Budget > 0` in `WizardProofs`: with a budget of 0 the first submission is refused as one too many, for a
  session that nobody has rejected.

### VerificationProofs: whatever overlaps

* `TypeCorrect` (`TypeOK`). `TypeOK` is not inductive: it does not say that a
  request in flight has a row to write to. `Typed` adds `RequestsOK` (a request holds
  copies of an existing row of the same user, with the status and seed its place in the
  handler implies) and `OwnersOK` (a session's user exists). One lemma per action;
  `Frame` reduces each to the types and the one request it changes.
* `ApprovedIsBound` (`ApprovedBound`) and `HashesUnique` (`HashUnique`), from
  `Safe`: approved sessions have a bound user, bound users have an enrolled identity
  of their country, hashes are unique, and an enrolment that found its identity still
  finds it (identities only grow) and keeps the user's country. The interesting step is
  `FinalizeIdentity`: the user column is written only if it differs from what was read,
  so a stale `bound` must be shown harmless.
* `AttemptsWereDecided` (`NoAttemptWithoutDecision`): `biometric_attempts` never exceeds the decisions in the audit log, so nobody is cut
  off for attempts that were not decided. `Backed` says that a request in flight has read no more than the log has and
  writes at most one more, which is the one it logs (`Undecided`); a passport or a reviewer writes back no more than
  was read. The converse fails when requests overlap; serialised, the two are equal (`DecisionsCounted`).

### VerificationSerialProofs: under `Serialised`

The properties are about committed rows, but what makes them true is what a request knows while it is
in flight. `Serial` says it: no two requests work on one session (`Alone`); the copy a request loaded is still the
committed row, so that what it checked is still true and the columns its flush leaves out are those
it has read (`DraftOK`, which also keeps the guards it has passed, by its place in the handler); and
what a row's columns say about each other, about the audit log and the identities (`RowOK`), about the
queue (`QueueOK`) and about its reviewer (`ReviewedOK`). Each action concerns one session
(`OnlyConcerns`, `OnlyWorker`), so each lemma shows `Serial` for that one. From it:

* `QueueMatchesSessions`, `DecisionsCounted`, `ApprovalEvidenced`, `ColumnsAlwaysAgree`,
  `HighRiskReviewed`: the five invariants of `MCSerial` and `MCSybil`.
* `ApprovalIsFinal` (`ApprovedForever`): no request in flight has an approved row loaded, and no review item of one is open.
* `LifecycleImplemented` (`ImplementsLifecycle`): the refinement of `SessionLifecycle`, step by step: the
  initial states correspond, and every step is a step of the phase of one session or none. A decision of
  the engine raises `attempts` by one in the step that changes the phase because `DraftOK` knows the draft's count to be the row's plus one.
* `AutoApprovalUnique` (`AutoApprovalIsUnique`), under `OneAtATime`: `Searched` says that the outcome of
  the search is what a search would answer now. It is what two sessions that search before either enrols break.

### LimitProofs

* Ledger: `TypeCorrect`; `NoDoubleDebit` (`KeyDebitedOnce`): no two places of the ledger have one key. The
  invariant is about requests as well (`HeldAlone`): an inserted row that is not committed is the only one of its key, in the
  ledger and among the other requests, so its commit makes no second one. `SerialAllowance`: under `OneAtATime` an identity never consumes more
  than `Limit + HalfCent`; the strengthening `CheckedFits` says that an amount that passed
  the check still fits, which is what an overlapping debit breaks.
* `OverspendIsBounded` (`OverspendBounded`). A sum over requests would need induction; instead the mills that the
  checked debits of an identity are about to take are a set of pairs of a slot and a mill (`Pending`),
  whose size the library's theorems bound. `PendingBounded` says that what is consumed and what is pending
  stay below one allowance per slot: a check that passes with others pending found a balance that
  left room for its own.
* `WindowHoldsQuota` (`QuotaHolds`). For each window: either every request of it that was let in is still in
  the bucket, so that the length that `_allow` compares counts them all (`Remembered`), or the window is over and only
  the threads that have read a time of it and wait for the lock can still be let in (`WindedUp`): one thread fewer than
  there are, because the one that trimmed the bucket was of a later time.

### BiometricQueueProofs

* `TypeCorrect` (`TypeOK`): the cap on the attempts holds because the guard runs again on the copy that the attempt
  is added to (`RunOK`, `PostOK`).
* `MarkComesFirst` (`OwnMarkFirst`): the job is sent before the mark is committed, and waits for it only
  because the mark was flushed: `MarkHoldsRow` says that whoever has flushed a mark holds the row.
* `NoncesAreSingleUse` (`NonceCountsOnce`): a nonce that has counted is gone from every process.
* `DecisionsStick` (`DecisionSticks`): `WritesOpenRow` says that, as long as submissions do not overlap,
  whoever is going to write finds the row undecided.

### KeyProofs

* `TokensStayGood` (`LiveTokensVerify`), under `OneDisk`: while no key was replaced and no two replicas have created one at
  once, one key is in the file, in the memory of each running replica and in each token (`CredInv`).
* `BlobsStayReadable` (`BlobsDecrypt`): two arguments, one for each way to have a key. With the environment's there is
  no other (`EnvKeyOnly`); with the file's, at most one process makes it, and nothing was built or encrypted before it has (`FileKeyOnly`).

### StoreProofs

* `VectorsAreRecords` (`VectorsMatchRecords`) and `SearchesAreSound` (`SearchIsSound`), from `IndexInv`: of the
  enrolments in progress no two have one identity or create the table, and each has a vector that fits the table. So every vector is of
  an identity the scan looks at, and has its dimension.
* `OnlyExpiredIsLost` (`LostOnlyExpired`) and `TombstonesAreEmpty` (`TombstoneMeansGone`), from `MediaInv`: a sweep has
  selected only expired rows, and the blobs it has nothing more to do for are gone; two sweeps may have selected the same row.

### WizardProofs

* `NoNonceTwice` (`ChallengeIsFresh`), in both dispatch modes. `FreshInv`: nothing is cached for a session that does not exist
  or for an attempt still to come, and the challenge cached for the attempt at hand was sent at most by the
  request now out; nonces are numbered as they are issued, so a new one differs from all that were sent.
* `GivenUpIsSettled` (`InlineTerminalIsSettled`), under `Budget > 0`. `Inline` relates what the page believes (the answer or
  the result it has) to the row: a rejection it was told is still the row's, with that reason, and a conflict
  means a spent budget. With the queue it is false (`MCWizard`).

### RecognitionProofs

These theorems are about what loops compute, for clips, challenges and lists of reads of any length and for every
character. The library's induction theorems take the property as an operator, which the provers cannot instantiate;
`Induction` here takes it as a set: a set of numbers that has 0 and with each number the next has all of them (the least
number left out would have a predecessor in it). Each loop gets a lemma of what holds after i rounds and one induction.

* `PerformersAreLive` (`PerformedIsLive`). What a frame shows is an entry that it adds to the list, or the last one that was there:
  only repetitions of that are suppressed. So frames at increasing places have entries at places that never decrease, and that
  increase where the actions differ, as those of a challenge do; the iterator, which takes the first place each time, never
  passes the place that is needed next.
* `OnlyPerformersAreLive` (`LiveIsPerformed`). Every detection has a frame that shows it, in order; the iterator's places
  are those of the challenge's actions. The score of a matched challenge is 100 %, so the threshold adds nothing.
* `GuideIsRight` (`GuidedIsLive`). The browser advances on frames in strict order, each of which shows the action that was
  asked for; a blink that it ticks off began after it was asked for, so the server sees it too. The rest is `PerformersAreLive`.
* `PrintedRoundTrips` (`PrintedIsRead`). Every field of `make_mrz` has its width, so each stands where `validate_td3` looks for
  it; the padding of a number is what `replace("<", "")` takes away.
* `WrongCharactersAreTold`, `SwappedCharactersAreTold` (`WrongCharacterIsRejected`, `SwappedCharactersAreRejected`). `MrzInv`: the line is
  a document's, and `seen` differs from it by exactly the slip. `TotalOfChanged` gives the total of a field with one
  character changed; the weights 7, 3 and 1 have no factor in common with 10, so the digit stays only if the values
  agree modulo 10, and the weights of neighbours differ by 4, 2 or 6, hence the 5. Both directions need the composite as well: a slip
  that a field's digit does not tell must not be told by the composite, whose weights at that place are others (`CompositeChecked`),
  and one at a check digit is told by its field.
* `AcceptedIsPrinted` (`ReadIsTheDocument`): `BestStep` says which read is chosen (the head of a filtered list is its element of
  least index). The printed line comes back unchanged from fields and is valid (`PrintedRoundTrips`), so a right read is one that
  can be chosen; every read comes back as a line with at most one character changed (`OcrReturns`), and of such a line
  `SubstituteStep`, the lemma of `WrongCharactersAreTold`, says when it is valid.
* `LinesAreRebuiltInPlace` (`RebuiltInPlace`): what was trimmed on the right is what is padded, and a stray is replaced, not dropped.

### Only model-checked

* The liveness properties `RequestsEnd`, `ProcessingEnds`, `RowsSwept` and `WizardEnds`: liveness under fairness is out of the
  prover's reach. Every other property of a passing run is a theorem.
* `Serial`, `PendingBounded` and other strengthenings of the earlier proofs were checked by TLC on the instances of the runs before they were proved.

## 5. Not modelled, and the plan

Not worth a model: logging, tracing, error reporting, configuration, request validation,
migrations and deployment, the admin console (a view of the review queue), metrics (read-only aggregates), cryptography and face
recognition themselves, layout of the web pages. External, and seen only as the code uses them:
PostgreSQL, SQLAlchemy, arq and Redis, S3, PassportEye's OCR, InsightFace. `KmsSigner` is a stub in the code.

Abstracted where it could matter: onboarding is one step, so two that overlap on one device never miss each other in
the model; of the first MRZ line only its presence is kept; a filler as the check digit of an
empty personal number, which ICAO 9303 allows, is refused by `mrz.py:76` and so by the model.

What could be added: onboarding split at its flush, so that two that overlap can miss each other's device; the aggregates of
`services/metrics.py` as operators over the audit log; a run, with the mails and devices of several wallets, for the country of
the user's row against the session's.
