--------------------------- MODULE BiometricQueue ---------------------------
(***************************************************************************)
(* The two ways a biometric submission is dispatched: inline, in the API   *)
(* process that received it, or with KYC_TASK_QUEUE=arq through Redis to a *)
(* worker process (app/main.py:251-275, app/providers/task_queue.py,       *)
(* app/worker.py, verification.mark_biometrics_received).                  *)
(*                                                                         *)
(* One session.  What the decision depends on is abstracted to liveness:   *)
(* a live response may be decided in any way, another one is rejected.     *)
(* What is kept is who writes the session's row and in which order: the    *)
(* handler marks it (and takes its row lock), enqueues, and commits; the   *)
(* job re-reads it and decides.  Challenges live in the memory of the API  *)
(* process that issued them.                                               *)
(***************************************************************************)
EXTENDS Integers, FiniteSets

CONSTANTS
    Web,           \* API processes
    Workers,       \* processes that run jobs (a test runs them in an API process)
    Modes,         \* the values of KYC_TASK_QUEUE to consider
    Submissions,   \* POST .../biometrics requests of the session (bound)
    Nonces,        \* liveness nonces (bound)
    MaxAttempts,   \* KYC_MAX_BIOMETRIC_ATTEMPTS
    MaxTries,      \* how often the queue runs a job whose worker died
    None

ASSUME QueueAssumption ==
    /\ MaxAttempts \in Nat /\ MaxTries \in Nat /\ Modes \subseteq {"inline", "arq"}
    /\ None \notin Web \cup Workers \cup Submissions \cup ({"post", "run"} \X Submissions)
    /\ {"unissued", "gone"} \cap (Web \cup Workers) = {}
    /\ IsFiniteSet(Submissions)

VARIABLES
    mode,        \* the backend this deployment was started with
    row,         \* the committed session row
    lock,        \* the transaction holding its row lock
    challenge,   \* nonce -> the process whose _CHALLENGES has it
    post,        \* the handlers
    job,         \* the jobs, one for each submission
    run,         \* submit_biometrics, wherever it runs for a submission
    counted,     \* how often a nonce made a response live
    overlapped   \* were two submissions ever under way at once?

vars == <<mode, row, lock, challenge, post, job, run, counted, overlapped>>

Statuses == {"documents_submitted", "biometrics_submitted", "pending_review",
             "approved", "rejected"}

\* `reason' is reject_reason # NULL.
Row == [status : Statuses, attempts : 0..MaxAttempts, reason : BOOLEAN]

Post == [pc : {"idle", "checked", "marked", "sent", "inline", "done", "failed"},
         nonce : Nonces \cup {None}, loaded : Row \cup {None}]

Job == [state : {"none", "queued", "running", "done", "refused", "failed"},
        tries : 0..MaxTries]

Run == [pc : {"idle", "loaded", "searched", "decided"}, at : Web \cup Workers \cup {None},
        loaded : Row \cup {None}, live : BOOLEAN]

IdleRun == [pc |-> "idle", at |-> None, loaded |-> None, live |-> FALSE]

\* The rows, messages and copies stay in their types, the attempts within the cap,
\* whatever is submitted twice, redelivered or refused (verification.py:47-50).
TypeOK ==
    /\ mode \in Modes
    /\ row \in Row
    /\ lock \in ({"post", "run"} \X Submissions) \cup {None}
    /\ challenge \in [Nonces -> Web \cup {"unissued", "gone"}]
    /\ post \in [Submissions -> Post]
    /\ job \in [Submissions -> Job]
    /\ run \in [Submissions -> Run]

Init ==
    /\ mode \in Modes
    /\ row = [status |-> "documents_submitted", attempts |-> 0, reason |-> FALSE]
    /\ lock = None
    /\ challenge = [n \in Nonces |-> "unissued"]
    /\ post = [m \in Submissions |-> [pc |-> "idle", nonce |-> None, loaded |-> None]]
    /\ job = [m \in Submissions |-> [state |-> "none", tries |-> 0]]
    /\ run = [m \in Submissions |-> IdleRun]
    /\ counted = [n \in Nonces |-> 0]
    /\ overlapped = FALSE

CanLock(t) == lock \in {None, t}
Unlocked(t) == IF lock = t THEN None ELSE lock

\* Without the status test.
CountedOnly(r) == r.attempts < MaxAttempts
StatusOnly(r) == r.status \notin {"approved", "pending_review"}

\* _assert_biometrics_retryable: the guard of the handler and again of the job.
Retryable(r) == r.status \notin {"approved", "pending_review"} /\ r.attempts < MaxAttempts

-----------------------------------------------------------------------------
(* Challenges.                                                             *)

IssueChallenge(p, n) ==
    /\ challenge[n] = "unissued"
    /\ challenge' = [challenge EXCEPT ![n] = p]
    /\ UNCHANGED <<mode, row, lock, post, job, run, counted>>

\* The API process restarts: its _CHALLENGES are gone.
Restart(p) ==
    /\ p \in {challenge[n] : n \in Nonces}
    /\ challenge' = [n \in Nonces |-> IF challenge[n] = p THEN "gone" ELSE challenge[n]]
    /\ UNCHANGED <<mode, row, lock, post, job, run, counted>>

\* get instead of pop.
Peek(n, e) == challenge

\* _CHALLENGES.pop(nonce, None) in process e.
Pop(n, e) == [challenge EXCEPT ![n] = IF @ = e THEN "gone" ELSE @]

-----------------------------------------------------------------------------
(* submit_biometrics in process e, inline or as a job.                     *)

\* Read the session; the guard has been passed; consume the nonce.
Load(m, e, n) ==
    /\ run' = [run EXCEPT ![m] = [pc |-> "loaded", at |-> e, loaded |-> row,
                                  live |-> challenge[n] = e]]
    /\ challenge' = Pop(n, e)
    /\ counted' = [counted EXCEPT ![n] = IF challenge[n] = e THEN @ + 1 ELSE @]

\* Setting status and clearing reject_reason changes the row, unless it was marked.
Dirty(r) == r.status # "biometrics_submitted" \/ r.reason

\* The autoflush before the first query takes the row lock if there is a change.
Search(m) ==
    /\ run[m].pc = "loaded"
    /\ Dirty(run[m].loaded) => CanLock(<<"run", m>>)
    /\ lock' = IF Dirty(run[m].loaded) THEN <<"run", m>> ELSE lock
    /\ run' = [run EXCEPT ![m].pc = "searched"]
    /\ UNCHANGED <<mode, row, challenge, post, job, counted>>

\* Write the decision and commit.  reject_reason is written only if it changed.
Decide(m, outcome) ==
    /\ run[m].pc = "searched"
    /\ ~run[m].live => outcome = "rejected"
    /\ CanLock(<<"run", m>>)
    /\ row' = [status |-> outcome, attempts |-> run[m].loaded.attempts + 1,
               reason |-> \/ outcome = "rejected"
                          \/ ~run[m].loaded.reason /\ row.reason]
    /\ lock' = Unlocked(<<"run", m>>)
    /\ IF mode = "arq"
       THEN run' = [run EXCEPT ![m].pc = "decided"] /\ UNCHANGED post
       ELSE run' = [run EXCEPT ![m] = IdleRun] /\ post' = [post EXCEPT ![m].pc = "done"]
    /\ UNCHANGED <<mode, challenge, job, counted>>

\* An exception before the commit: rolled back; the queue does not try it again.
Fail(m) ==
    /\ run[m].pc \in {"loaded", "searched"}
    /\ run' = [run EXCEPT ![m] = IdleRun]
    /\ lock' = Unlocked(<<"run", m>>)
    /\ IF mode = "arq"
       THEN job' = [job EXCEPT ![m].state = "failed"] /\ UNCHANGED post
       ELSE post' = [post EXCEPT ![m].pc = "failed"] /\ UNCHANGED job
    /\ UNCHANGED <<mode, row, challenge, counted>>

-----------------------------------------------------------------------------
(* The handler.                                                            *)

\* InlineTaskQueue: the decision is taken in the request.
SubmitInline(m, p, n) ==
    /\ mode = "inline"
    /\ post[m].pc = "idle"
    /\ Retryable(row)
    /\ post' = [post EXCEPT ![m] = [pc |-> "inline", nonce |-> n, loaded |-> None]]
    /\ Load(m, p, n)
    /\ UNCHANGED <<mode, row, lock, job>>

\* ensure_can_submit_biometrics reads the row, and the ORM keeps that copy.
Check(m, n) ==
    /\ mode = "arq"
    /\ post[m].pc = "idle"
    /\ Retryable(row)
    /\ post' = [post EXCEPT ![m] = [pc |-> "checked", nonce |-> n, loaded |-> row]]
    /\ UNCHANGED <<mode, row, lock, challenge, job, run, counted>>

\* The mark would change the row.
Marks(m) == post[m].loaded.status # "biometrics_submitted"

\* The mark is left to the flush of the commit.
MarkAtCommit(m) ==
    /\ post[m].pc = "checked"
    /\ post' = [post EXCEPT ![m].pc = "marked"]
    /\ UNCHANGED <<mode, row, lock, challenge, job, run, counted>>

\* mark_biometrics_received: flushed, so the row lock is taken, not committed.
Mark(m) ==
    /\ post[m].pc = "checked"
    /\ Marks(m) => CanLock(<<"post", m>>)
    /\ lock' = IF Marks(m) THEN <<"post", m>> ELSE lock
    /\ post' = [post EXCEPT ![m].pc = "marked"]
    /\ UNCHANGED <<mode, row, challenge, job, run, counted>>

\* ArqTaskQueue.enqueue_biometrics, before the commit.
Enqueue(m) ==
    /\ post[m].pc = "marked"
    /\ job' = [job EXCEPT ![m].state = "queued"]
    /\ post' = [post EXCEPT ![m].pc = "sent"]
    /\ UNCHANGED <<mode, row, lock, challenge, run, counted>>

Commit(m) ==
    /\ post[m].pc = "sent"
    /\ row' = IF Marks(m) THEN [row EXCEPT !.status = "biometrics_submitted"] ELSE row
    /\ lock' = Unlocked(<<"post", m>>)
    /\ post' = [post EXCEPT ![m].pc = "done", ![m].loaded = None]
    /\ UNCHANGED <<mode, challenge, job, run, counted>>

\* Redis is down or the commit fails, and the mark stays.
AbortKeepingMark(m) ==
    /\ post[m].pc \in {"checked", "marked", "sent"}
    /\ row' = IF Marks(m) /\ post[m].pc # "checked"
              THEN [row EXCEPT !.status = "biometrics_submitted"] ELSE row
    /\ lock' = Unlocked(<<"post", m>>)
    /\ post' = [post EXCEPT ![m].pc = "failed", ![m].loaded = None]
    /\ UNCHANGED <<mode, challenge, job, run, counted>>

\* Redis is down or the commit fails: rolled back, but a job sent stays sent.
Abort(m) ==
    /\ post[m].pc \in {"checked", "marked", "sent"}
    /\ lock' = Unlocked(<<"post", m>>)
    /\ post' = [post EXCEPT ![m].pc = "failed", ![m].loaded = None]
    /\ UNCHANGED <<mode, row, challenge, job, run, counted>>

-----------------------------------------------------------------------------
(* The worker.  The body of a job never awaits: a worker runs one at a     *)
(* time.  The queue runs a job again if its worker died on it.             *)

Busy(w) == \E m \in Submissions : run[m].at = w

TakeJob(m, w) ==
    /\ job[m].state = "queued" /\ job[m].tries < MaxTries /\ ~Busy(w)
    /\ IF Retryable(row)
       THEN /\ Load(m, w, post[m].nonce)
            /\ job' = [job EXCEPT ![m] = [state |-> "running", tries |-> @.tries + 1]]
       ELSE /\ job' = [job EXCEPT ![m].state = "refused"]    \* SessionConflict
            /\ UNCHANGED <<challenge, run, counted>>
    /\ UNCHANGED <<mode, row, lock, post>>

\* process_biometrics returns and the queue forgets the job.
Finish(m) ==
    /\ run[m].pc = "decided"
    /\ run' = [run EXCEPT ![m] = IdleRun]
    /\ job' = [job EXCEPT ![m].state = "done"]
    /\ UNCHANGED <<mode, row, lock, challenge, post, counted>>

\* The worker dies before the commit, or after it but before the queue knows.
Crash(m) ==
    /\ job[m].state = "running"
    /\ run' = [run EXCEPT ![m] = IdleRun]
    /\ lock' = Unlocked(<<"run", m>>)
    /\ job' = [job EXCEPT ![m].state = IF job[m].tries < MaxTries THEN "queued" ELSE "failed"]
    /\ UNCHANGED <<mode, row, challenge, post, counted>>

\* review.resolve, by a reviewer.
Resolve(outcome) ==
    /\ row.status = "pending_review" /\ lock = None
    /\ row' = [row EXCEPT !.status = outcome, !.reason = (outcome = "rejected")]
    /\ UNCHANGED <<mode, lock, challenge, post, job, run, counted>>

-----------------------------------------------------------------------------

UnderWay(m) ==
    post[m].pc \in {"checked", "marked", "sent", "inline"} \/ job[m].state \in {"queued", "running"}

NoteOverlap ==
    overlapped' = (overlapped \/ Cardinality({m \in Submissions : UnderWay(m)'}) > 1)

\* What the server does by itself once a submission has arrived.
Progress(m) ==
    /\ \/ Mark(m) \/ Enqueue(m) \/ Commit(m)
       \/ \E w \in Workers : TakeJob(m, w)
       \/ Search(m) \/ \E x \in {"approved", "pending_review", "rejected"} : Decide(m, x)
       \/ Finish(m)
    /\ NoteOverlap

Environment ==
    /\ \/ \E p \in Web : Restart(p) \/ \E n \in Nonces : IssueChallenge(p, n)
       \/ \E m \in Submissions, p \in Web, n \in Nonces : SubmitInline(m, p, n) \/ Check(m, n)
       \/ \E m \in Submissions : Abort(m) \/ Fail(m) \/ Crash(m)
       \/ \E x \in {"approved", "rejected"} : Resolve(x)
    /\ NoteOverlap

Next == Environment \/ \E m \in Submissions : Progress(m)

Spec == Init /\ [][Next]_vars

\* Threads and workers go on; nobody has to submit, and nothing has to fail.
FairSpec == Spec /\ \A m \in Submissions : WF_vars(Progress(m))

-----------------------------------------------------------------------------

\* A submission's own mark never comes after its own decision, although the job is
\* sent before the mark is committed (main.py:265-267): while the mark is still to be
\* written, the job has not decided.
OwnMarkFirst ==
    \A m \in Submissions :
        post[m].pc = "sent" /\ Marks(m) => job[m].state \notin {"done"} /\ run[m].pc # "decided"

\* "single-use: consume the nonce" (liveness.py:112): whatever process runs the
\* submission, and however often its job is redelivered, a nonce counts once.
NonceCountsOnce == \A n \in Nonces : counted[n] <= 1

\* A job delivered again does not decide a decided session again (verification.py:30-34),
\* nor does anything else but a reviewer, as long as submissions do not overlap.
DecisionSticks ==
    [][/\ row.status \in {"approved", "pending_review"}
       /\ row' # row
       => overlapped' \/ (row.status = "pending_review" /\ \E x \in Statuses : Resolve(x))]_vars

Unlucky == overlapped \/ \E m \in Submissions : job[m].state = "failed"

\* "a polling client sees "processing" until the worker [...] writes the decision"
\* (verification.py:231-233): it does, crashes and lost commits included, unless
\* submissions overlap or the job fails for good.
ProcessingEnds ==
    (row.status = "biometrics_submitted") ~> (row.status # "biometrics_submitted" \/ Unlucky)

\* "do it inline to prove the deferred path decides" (tests/test_task_queue.py:58): the
\* answer to an open challenge counts, wherever the job runs.
OpenNonceCounts ==
    [][\A m \in Submissions :
          run[m].pc = "idle" /\ run'[m].pc = "loaded" /\ challenge[post'[m].nonce] \in Web
             => run'[m].live]_vars
=============================================================================
