------------------------------- MODULE Wizard -------------------------------
(***************************************************************************)
(* The applicant's wizard (web/src/components/wizard) against the API: the *)
(* page holds one session at a time, and what it believes of it is what    *)
(* the answer to its last request said.  The session's row, its decision   *)
(* inline or by a job, and its attempt budget are those of                 *)
(* app/services/verification.py, here seen from the client.                *)
(***************************************************************************)
EXTENDS Naturals, FiniteSets

CONSTANTS
    Visits,      \* sessions the applicant may start (bound)
    Budget,      \* KYC_MAX_BIOMETRIC_ATTEMPTS
    Dispatches,  \* values of KYC_TASK_QUEUE to consider
    Nil

Status == {"started", "documents_submitted", "biometrics_submitted", "pending_review", "approved", "rejected"}

\* The reasons a row may carry here.
RowReason == {"passport_mrz_invalid", "liveness_failed", "face_mismatch_selfie_vs_passport",
              "duplicate_identity", "manual_review_rejected", Nil}

SessionRow == [status : Status, reason : RowReason, attempts : Nat, mrz : BOOLEAN]

ASSUME WizardAssumption == Budget \in Nat /\ IsFiniteSet(Visits) /\ Nil \notin Nat \cup SessionRow

Tries == 0..(Budget + 1)

VARIABLES
    dispatch,  \* the API's KYC_TASK_QUEUE
    page,      \* the State of Wizard.tsx and the challenge of StepLiveness.tsx
    cache,     \* react-query: <<session, attempt>> -> challenge
    post,      \* the POST .../biometrics of the page, then its answer
    sent,      \* nonces the page has submitted
    rows,      \* the sessions of the API
    jobs       \* sessions whose biometrics are queued

wizVars == <<dispatch, page, cache, post, sent, rows, jobs>>

Idle == [code |-> "none"]

Initial == [step |-> 0, session |-> Nil, attempt |-> 0, result |-> Nil, challenge |-> Nil]

WizardInit ==
    /\ dispatch \in Dispatches
    /\ page = Initial
    /\ cache = [k \in Visits \X Tries |-> Nil]
    /\ post = Idle
    /\ sent = {}
    /\ rows = [v \in Visits |-> Nil]
    /\ jobs = {}

-----------------------------------------------------------------------------
(* The API.                                                                *)

Decided(row) == row.status \in {"approved", "pending_review"}

\* verification._assert_biometrics_retryable
Accepts(row) == ~Decided(row) /\ row.attempts < Budget

\* The detail of SessionConflict.
ConflictOf(row) ==
    CASE row.status = "approved"       -> "already_verified"
      [] row.status = "pending_review" -> "in_manual_review"
      [] OTHER                         -> "too_many_attempts"

\* risk.decide, as far as the passport's validity decides.
Verdicts(row) ==
    IF ~row.mrz THEN {<<"rejected", "passport_mrz_invalid">>}
    ELSE {<<"approved", Nil>>, <<"pending_review", Nil>>}
         \cup ({"rejected"} \X {"liveness_failed", "face_mismatch_selfie_vs_passport", "duplicate_identity"})

AfterVerdict(row, verdict) ==
    [status |-> verdict[1], reason |-> verdict[2], attempts |-> row.attempts + 1, mrz |-> row.mrz]

StatusOf(row) == [code |-> "ok", status |-> row.status, reason |-> row.reason]

\* POST .../biometrics reaches the API.
ServeBiometrics ==
    LET v == page.session
        row == rows[v]
    IN  /\ post.code = "sending"
        /\ \/ /\ ~Accepts(row)
              /\ post' = [code |-> "conflict", reason |-> ConflictOf(row)]
              /\ UNCHANGED <<rows, jobs>>
           \/ /\ Accepts(row) /\ dispatch = "inline"
              /\ \E verdict \in Verdicts(row) : rows' = [rows EXCEPT ![v] = AfterVerdict(@, verdict)]
              /\ post' = StatusOf(rows'[v])
              /\ UNCHANGED jobs
           \/ /\ Accepts(row) /\ dispatch = "arq"
              /\ rows' = [rows EXCEPT ![v] = [@ EXCEPT !.status = "biometrics_submitted"]]
              /\ jobs' = jobs \cup {v}
              /\ post' = StatusOf(rows'[v])
        /\ UNCHANGED <<dispatch, page, cache, sent>>

\* Rate limit, a rollback, or no connection, before the API has acted or after.
LoseBiometrics ==
    /\ post.code \notin {"none", "failed"}
    /\ post' = [code |-> "error"]
    /\ UNCHANGED <<dispatch, page, cache, sent, rows, jobs>>

\* The worker decides.
RunJob(v) ==
    /\ v \in jobs
    /\ \E verdict \in Verdicts(rows[v]) : rows' = [rows EXCEPT ![v] = AfterVerdict(@, verdict)]
    /\ jobs' = jobs \ {v}
    /\ UNCHANGED <<dispatch, page, cache, post, sent>>

ResolveReview(v) ==
    /\ rows[v] # Nil /\ rows[v].status = "pending_review"
    /\ \E verdict \in {<<"approved", Nil>>, <<"rejected", "manual_review_rejected">>} :
           rows' = [rows EXCEPT ![v] = [@ EXCEPT !.status = verdict[1], !.reason = verdict[2]]]
    /\ UNCHANGED <<dispatch, page, cache, post, sent, jobs>>

-----------------------------------------------------------------------------
(* The page.                                                               *)

\* StepStart: POST /v1/onboard.
OnboardVisit(v) ==
    /\ page.step = 0 /\ rows[v] = Nil
    /\ rows' = [rows EXCEPT ![v] = [status |-> "started", reason |-> Nil, attempts |-> 0, mrz |-> FALSE]]
    /\ page' = [page EXCEPT !.session = v, !.step = 1]
    /\ UNCHANGED <<dispatch, cache, post, sent, jobs>>

\* StepPassport: the page goes on when the answer's signals say mrz_valid.
SendPassport(valid) ==
    /\ page.step = 1 /\ ~Decided(rows[page.session])
    /\ rows' = [rows EXCEPT ![page.session] = [@ EXCEPT !.status = "documents_submitted", !.mrz = valid]]
    /\ page' = [page EXCEPT !.step = IF valid THEN 2 ELSE 1]
    /\ UNCHANGED <<dispatch, cache, post, sent, jobs>>

\* useQuery: never stale, so only a new key fetches a challenge.  Nonces are numbered
\* as they are issued.
GetChallenge ==
    LET key == <<page.session, page.attempt>>
        issued == {k \in DOMAIN cache : cache[k] # Nil}
        challenge == IF cache[key] = Nil THEN Cardinality(issued) + 1 ELSE cache[key]
    IN  /\ page.step = 2 /\ page.challenge = Nil /\ post = Idle
        /\ cache' = [cache EXCEPT ![key] = challenge]
        /\ page' = [page EXCEPT !.challenge = challenge]
        /\ UNCHANGED <<dispatch, post, sent, rows, jobs>>

\* "Couldn't start the liveness check": an alert without a button.
GetChallengeFails ==
    /\ page.step = 2 /\ page.challenge = Nil /\ post = Idle
    /\ cache[<<page.session, page.attempt>>] = Nil
    /\ post' = [code |-> "failed"]
    /\ UNCHANGED <<dispatch, page, cache, sent, rows, jobs>>

\* LivenessRunner submits once, when the sequence is done.
SubmitOnce ==
    /\ page.step = 2 /\ page.challenge # Nil /\ post = Idle
    /\ post' = [code |-> "sending"]
    /\ sent' = sent \cup {page.challenge}
    /\ UNCHANGED <<dispatch, page, cache, rows, jobs>>

\* Every error ends the session for the page.
ResultOfAny(answer) ==
    IF answer.code = "ok" THEN {[status |-> answer.status, reason |-> answer.reason]}
    ELSE {[status |-> "rejected", reason |-> "network_error"]}

\* onSuccess and onError: what is handed to onDone, if anything is.
ResultOf(answer) ==
    CASE answer.code = "ok" -> {[status |-> answer.status, reason |-> answer.reason]}
      [] answer.code = "conflict" -> {[status |-> "rejected", reason |-> answer.reason]}
      [] OTHER             -> {}

ReceiveAnswer ==
    /\ post.code \notin {"none", "sending", "failed"}
    /\ IF ResultOf(post) = {}
       THEN post' = [code |-> "failed"] /\ UNCHANGED page    \* "Checking your result" stays
       ELSE /\ post' = Idle
            /\ \E r \in ResultOf(post) :
                   page' = [page EXCEPT !.step = 3, !.result = r, !.challenge = Nil]
    /\ UNCHANGED <<dispatch, cache, sent, rows, jobs>>

\* RETRY_STEP with the reason of a spent budget.
RetryEverything == [reason \in {"liveness_failed", "face_mismatch_selfie_vs_passport", "too_many_attempts"} |-> 2]

\* RETRY_STEP of StepResult.tsx.
RetryStep == [reason \in {"liveness_failed", "face_mismatch_selfie_vs_passport", "passport_mrz_invalid"} |->
                 IF reason = "passport_mrz_invalid" THEN 1 ELSE 2]

ShownFailed == page.step = 3 /\ page.result.status \notin {"approved", "pending_review"}
ShownRetryable == ShownFailed /\ page.result.reason \in DOMAIN RetryStep
ShownTerminal == ShownFailed /\ ~ShownRetryable

\* retryStep without a new attempt.
BackToSame(step) == [page EXCEPT !.step = step, !.result = Nil]

\* retryStep
BackTo(step) == [page EXCEPT !.step = step, !.result = Nil, !.attempt = @ + 1]

\* "Try again"
TryAgain ==
    /\ ShownRetryable /\ page.attempt + 1 \in Tries
    /\ page' = BackTo(RetryStep[page.result.reason])
    /\ UNCHANGED <<dispatch, cache, post, sent, rows, jobs>>

\* "Start over"
StartOver ==
    /\ ShownTerminal
    /\ page' = Initial
    /\ UNCHANGED <<dispatch, cache, post, sent, rows, jobs>>

WizardNext ==
    \/ \E v \in Visits : OnboardVisit(v) \/ RunJob(v) \/ ResolveReview(v)
    \/ \E valid \in BOOLEAN : SendPassport(valid)
    \/ GetChallenge \/ GetChallengeFails \/ SubmitOnce
    \/ ServeBiometrics \/ LoseBiometrics \/ ReceiveAnswer
    \/ TryAgain \/ StartOver

\* The API answers and the applicant goes on: performs what is asked for, and takes
\* every "Try again".  Nobody has to start over.
WizardFairness ==
    /\ WF_wizVars(GetChallenge) /\ WF_wizVars(SubmitOnce) /\ WF_wizVars(ServeBiometrics)
    /\ WF_wizVars(ReceiveAnswer) /\ WF_wizVars(TryAgain)

WizardSpec == WizardInit /\ [][WizardNext]_wizVars /\ WizardFairness

-----------------------------------------------------------------------------

\* Of a rejected session: what the API itself says (its budget is spent), or the one
\* reason the page's comment calls settled.  The API would take further attempts of a
\* duplicate, as of any rejected session, while the budget lasts; that is not denied.
Settled(row) == row.status = "rejected" /\ (~Accepts(row) \/ row.reason = "duplicate_identity")

\* A failure without a retry is one where "retrying the same input won't change the
\* outcome (a true duplicate), or the session is locked out" (StepResult.tsx:28-30), and
\* "Start over" is for when "there's nothing to salvage" (Wizard.tsx:41): the page gives
\* up no session that the API has open, approved or in review, and no rejected one that
\* a retry could still change.
TerminalIsSettled == ShownTerminal => Settled(rows[page.session])

\* So it is when the API decides inline, whatever was answered, refused or lost before.
InlineTerminalIsSettled == dispatch = "inline" => TerminalIsSettled

\* Every retry "pulls a fresh, single-use challenge instead of replaying a consumed
\* nonce" (Wizard.tsx:27-28): no nonce is submitted twice, over all attempts and sessions.
ChallengeIsFresh ==
    [][post = Idle /\ post'.code = "sending" => page.challenge \notin sent]_wizVars

\* The retries end (verification.py:49-50, StepLiveness.tsx:113-115): an applicant who
\* takes every "Try again" comes to a result without one, or is left at the check by an
\* error that is no 409.
WizardEnds ==
    (page.step = 2) ~> \/ page.step = 3 /\ ~ShownRetryable
                       \/ post.code = "failed"
=============================================================================
