---------------------------- MODULE Verification ----------------------------
(***************************************************************************)
(* The KYC decision pipeline: onboarding, passport and biometric           *)
(* submission, the risk decision, enrolment of an identity and the manual  *)
(* review queue (app/services/verification.py, review.py, risk.py,         *)
(* dedup.py, the nonce store of liveness.py, and the rows of app/models.py *)
(* they keep).                                                             *)
(*                                                                         *)
(* Every HTTP request runs in a thread of its own with a database          *)
(* transaction of its own.  A handler reads a row once, into the ORM's     *)
(* identity map, and works on that copy: its guards see the copy and its   *)
(* commit writes back the columns it changed.  A request is therefore a    *)
(* slot of `req' that goes through the handler's database round trips; the *)
(* committed database is the remaining variables.                          *)
(***************************************************************************)
EXTENDS Integers, Sequences, FiniteSets

CONSTANTS
    Wallets,          \* wallet_pubkey values
    Countries,        \* COUNTRY_REGISTRY
    HighRisk,         \* the countries whose policy is high_risk
    Phones,           \* phone_hash values (or None: none given)
    Devices,          \* device_fingerprint values
    Seeds,            \* person_seed values
    FaceOf,           \* the human whose face a seed stands for
    Twins,            \* pairs {a, b} of humans too close for the search to clear
    Documents,        \* document tokens (country + passport number)
    Passports,        \* passport submissions, see PassportAssumption
    MatchScores,      \* face_match_score of a matching pair, in percent
    Sessions,         \* session ids (bound)
    Nonces,           \* liveness nonces (bound)
    Requests,         \* request slots: how many requests run at once (bound)
    MaxAttempts,      \* KYC_MAX_BIOMETRIC_ATTEMPTS
    MaxDecisions,     \* no session is submitted after so many decisions (bound)
    OverlapSessions,  \* may two requests on one session be in flight at once?
    None

ASSUME CountryAssumption == HighRisk \subseteq Countries

ASSUME PassportAssumption ==
    Passports \subseteq [valid : BOOLEAN, document : Documents \cup {None}, seed : Seeds]

ASSUME NumberAssumption ==
    /\ MaxAttempts \in Nat /\ MaxDecisions \in Nat
    /\ MatchScores \subseteq 0..100
    /\ OverlapSessions \in BOOLEAN

VARIABLES
    user,       \* users: wallet -> row
    session,    \* sessions: id -> committed row
    identity,   \* identities: the set of committed rows
    queue,      \* review_queue: the items in id order
    decisions,  \* audit_log: how many "decision" entries each session has
    challenge,  \* liveness._CHALLENGES, by nonce
    lock,       \* the transaction holding the row lock of each session
    req         \* the requests in flight

vars == <<user, session, identity, queue, decisions, challenge, lock, req>>

-----------------------------------------------------------------------------
(* Rows.                                                                   *)

Hashes == Countries \X Seeds

Statuses == {"started", "documents_submitted", "biometrics_submitted",
             "pending_review", "approved", "rejected"}

\* The evidence gates (MRZ, liveness, 1:1 face) share one reason here.
Reasons == {"evidence", "duplicate_identity", "manual_review_rejected"}

Signals ==
    [device_risk : {0, 50, 100}, high_risk_country : BOOLEAN, mrz_valid : BOOLEAN,
     passport_seed : Seeds \cup {None}, passport_hash : Documents \cup {None},
     person_seed : Seeds \cup {None}, attempts : 0..MaxAttempts]

User ==
    [country : Countries, phone : Phones, device : Devices,
     identity : Hashes \cup {None}]

SessionRow ==
    [user : Wallets, status : Statuses,
     decision : {"approve", "review", "reject", None},
     reject_reason : Reasons \cup {None}, signals : Signals]

IdentityRecord ==
    [hash : Hashes, document : Documents \cup {None}, template : {FaceOf[s] : s \in Seeds}]

\* `resolved' is resolution # None.
ReviewItem == [session : Sessions, resolution : {"approve", "reject", None}]

Request ==
    [pc : {"idle", "passport", "loaded", "searched", "enrolling", "resolving"},
     session : Sessions \cup {None},       \* the session the request is about
     loaded : SessionRow \cup {None},      \* the row as it was read
     draft : SessionRow \cup {None},       \* the ORM object as modified so far
     live : BOOLEAN, score : MatchScores \cup {0},
     dedup : {"clear", "review", "reject"},
     item : Nat,                           \* review item, 0 if none
     found : BOOLEAN,                      \* the identity row already existed
     bound : Hashes \cup {None}]           \* user.identity_id as it was read

Idle == [pc |-> "idle", session |-> None, loaded |-> None, draft |-> None,
         live |-> FALSE, score |-> 0, dedup |-> "clear", item |-> 0,
         found |-> FALSE, bound |-> None]

ASSUME NoneAssumption ==
    /\ None \notin User /\ None \notin SessionRow
    /\ None \notin Sessions \cup Requests \cup Seeds \cup Documents \cup Hashes
    /\ None \notin Reasons \cup {"approve", "review", "reject"}

\* The rows stay in their types; the bound on attempts says that no request is
\* ever let in past the cap (verification.py:47-50) and two that overlap lose one
\* count rather than gain one.
TypeOK ==
    /\ user \in [Wallets -> User \cup {None}]
    /\ session \in [Sessions -> SessionRow \cup {None}]
    /\ identity \subseteq IdentityRecord
    /\ queue \in Seq(ReviewItem)
    /\ decisions \in [Sessions -> Nat]
    /\ challenge \in [Nonces -> {"unknown", "open", "gone"}]
    /\ lock \in [Sessions -> Requests \cup {None}]
    /\ req \in [Requests -> Request]

Init ==
    /\ user = [w \in Wallets |-> None]
    /\ session = [s \in Sessions |-> None]
    /\ identity = {}
    /\ queue = <<>>
    /\ decisions = [s \in Sessions |-> 0]
    /\ challenge = [n \in Nonces |-> "unknown"]
    /\ lock = [s \in Sessions |-> None]
    /\ req = [r \in Requests |-> Idle]

-----------------------------------------------------------------------------
(* The database session of a request.                                      *)

\* The ORM writes a column only if its value differs from the loaded one.
Net(committed, old, new) == IF new = old THEN committed ELSE new

\* UPDATE sessions SET <changed columns>: the row after the flush of `draft'.
Flush(row, loaded, draft) ==
    [row EXCEPT !.status = Net(@, loaded.status, draft.status),
                !.decision = Net(@, loaded.decision, draft.decision),
                !.reject_reason = Net(@, loaded.reject_reason, draft.reject_reason),
                !.signals = Net(@, loaded.signals, draft.signals)]

\* The row lock an UPDATE takes is free, or this request's own.
CanLock(r, s) == lock[s] \in {None, r}

StillLocked(r) == lock

Unlocked(r) == [s \in Sessions |-> IF lock[s] = r THEN None ELSE lock[s]]

\* get_session leaves the handler: locks and the request's copies are dropped.
Close(r) ==
    /\ lock' = Unlocked(r)
    /\ req' = [req EXCEPT ![r] = Idle]

\* A request slot is free and session s may be worked on by one more request.
CanStart(r, s) ==
    /\ req[r].pc = "idle"
    /\ session[s] # None
    /\ OverlapSessions \/ \A q \in Requests : req[q].session # s

\* Rollback at any point of a handler: a failed statement, a deadlock victim,
\* an exception of a provider, a crash.  Consumed nonces stay consumed.
Abort(r) ==
    /\ req[r].pc # "idle"
    /\ Close(r)
    /\ UNCHANGED <<user, session, identity, queue, decisions, challenge>>

-----------------------------------------------------------------------------
(* Onboarding: one short transaction that only creates a session.          *)

Others(w) == {v \in Wallets \ {w} : user[v] # None}

\* Half for a phone, half for a device that another user has.
DeviceRisk(w, p, d) ==
    (IF p # None /\ \E v \in Others(w) : user[v].phone = p THEN 50 ELSE 0)
        + (IF \E v \in Others(w) : user[v].device = d THEN 50 ELSE 0)

\* A known wallet keeps the country it was created with.
UpsertUser(w, c, p, d) ==
    user' = [user EXCEPT ![w] =
        IF @ = None THEN [country |-> c, phone |-> p, device |-> d, identity |-> None]
                    ELSE [@ EXCEPT !.phone = p, !.device = d]]

Onboard(w, c, p, d, s) ==
    /\ session[s] = None
    /\ UpsertUser(w, c, p, d)
    /\ session' = [session EXCEPT ![s] =
           [user |-> w, status |-> "started", decision |-> None, reject_reason |-> None,
            signals |-> [device_risk |-> DeviceRisk(w, p, d),
                         high_risk_country |-> c \in HighRisk,
                         mrz_valid |-> FALSE, passport_seed |-> None,
                         passport_hash |-> None, person_seed |-> None, attempts |-> 0]]]
    /\ UNCHANGED <<identity, queue, decisions, challenge, lock, req>>

-----------------------------------------------------------------------------
(* The document stage.                                                     *)

NotApproved(row) == row.status # "approved"
CountedOnly(row) == row.signals.attempts < MaxAttempts

\* _ensure_not_decided and _assert_biometrics_retryable, on the row as read.
NotDecided(row) == row.status \notin {"approved", "pending_review"}
Retryable(row) == NotDecided(row) /\ row.signals.attempts < MaxAttempts

\* A passport that starts the signals afresh.
WithFreshSignals(row, p) ==
    [row EXCEPT !.status = "documents_submitted",
                !.signals.mrz_valid = p.valid,
                !.signals.passport_seed = p.seed,
                !.signals.passport_hash = IF p.valid THEN p.document ELSE None,
                !.signals.person_seed = None, !.signals.attempts = 0]

\* signals := {**signals, ...}: the whole JSON column is replaced.
WithPassport(row, p) ==
    [row EXCEPT !.status = "documents_submitted",
                !.signals.mrz_valid = p.valid,
                !.signals.passport_seed = p.seed,
                !.signals.passport_hash = IF p.valid THEN p.document ELSE None]

WithOtherDocument(row) ==
    [row EXCEPT !.status = "documents_submitted", !.signals.mrz_valid = FALSE]

OpenPassport(r, s, draft) ==
    /\ CanStart(r, s)
    /\ NotDecided(session[s])
    /\ req' = [req EXCEPT ![r] = [Idle EXCEPT !.pc = "passport", !.session = s,
                                  !.loaded = session[s], !.draft = draft]]
    /\ UNCHANGED <<user, session, identity, queue, decisions, challenge, lock>>

SubmitPassport(r, s, p) == OpenPassport(r, s, WithPassport(session[s], p))

SubmitOtherDocument(r, s) == OpenPassport(r, s, WithOtherDocument(session[s]))

CommitPassport(r) ==
    LET q == req[r] IN
    /\ q.pc = "passport"
    /\ CanLock(r, q.session)
    /\ session' = [session EXCEPT ![q.session] = Flush(@, q.loaded, q.draft)]
    /\ Close(r)
    /\ UNCHANGED <<user, identity, queue, decisions, challenge>>

-----------------------------------------------------------------------------
(* Liveness challenges: single use, in the memory of the API process.      *)

IssueChallenge(n) ==
    /\ challenge[n] = "unknown"
    /\ challenge' = [challenge EXCEPT ![n] = "open"]
    /\ UNCHANGED <<user, session, identity, queue, decisions, lock, req>>

\* CHALLENGE_TTL_SECONDS pass: the entry stays but no longer counts.
ExpireChallenge(n) ==
    /\ challenge[n] = "open"
    /\ challenge' = [challenge EXCEPT ![n] = "gone"]
    /\ UNCHANGED <<user, session, identity, queue, decisions, lock, req>>

-----------------------------------------------------------------------------
(* The biometric stage and the decision.                                   *)

\* A retry clears the last attempt's reason and counts itself.
WithStaleReason(row, seed) ==
    [row EXCEPT !.status = "biometrics_submitted",
                !.signals = [row.signals EXCEPT !.person_seed = seed, !.attempts = @ + 1]]

WithoutCounting(row, seed) ==
    [row EXCEPT !.status = "biometrics_submitted", !.reject_reason = None,
                !.signals = [row.signals EXCEPT !.person_seed = seed]]

WithDoubleCount(row, seed) ==
    [row EXCEPT !.status = "biometrics_submitted", !.reject_reason = None,
                !.signals = [row.signals EXCEPT !.person_seed = seed, !.attempts = @ + 2]]

WithBiometrics(row, seed) ==
    [row EXCEPT !.status = "biometrics_submitted", !.reject_reason = None,
                !.signals = [row.signals EXCEPT !.person_seed = seed, !.attempts = @ + 1]]

\* Read the session, check the guards, pop the nonce and verify the frames.
SubmitBiometrics(r, s, seed, n, framesOk, score) ==
    /\ CanStart(r, s)
    /\ Retryable(session[s])
    /\ decisions[s] < MaxDecisions
    /\ challenge' = [challenge EXCEPT ![n] = IF @ = "open" THEN "gone" ELSE @]
    /\ req' = [req EXCEPT ![r] =
           [Idle EXCEPT !.pc = "loaded", !.session = s, !.loaded = session[s],
                        !.draft = WithBiometrics(session[s], seed),
                        !.live = challenge[n] = "open" /\ framesOk,
                        !.score = score]]
    /\ UNCHANGED <<user, session, identity, queue, decisions, lock>>

\* A review threshold as high as the reject threshold.
NoTwins(face) ==
    IF \E i \in identity : i.template = face THEN "reject" ELSE "clear"

\* dedup.search over the committed identities.
DedupOutcome(face) ==
    CASE \E i \in identity : i.template = face -> "reject"
      [] /\ \A i \in identity : i.template # face
         /\ \E i \in identity : {i.template, face} \in Twins -> "review"
      [] OTHER -> "clear"

\* The autoflush before the first query takes the row lock; then the search.
Search(r) ==
    LET q == req[r] IN
    /\ q.pc = "loaded"
    /\ CanLock(r, q.session)
    /\ lock' = [lock EXCEPT ![q.session] = r]
    /\ req' = [req EXCEPT ![r].pc = "searched",
                          ![r].dedup = DedupOutcome(FaceOf[q.draft.signals.person_seed])]
    /\ UNCHANGED <<user, session, identity, queue, decisions, challenge>>

FaceMatch(sig) ==
    /\ sig.passport_seed # None
    /\ FaceOf[sig.passport_seed] = FaceOf[sig.person_seed]

DocumentReused(sig) ==
    sig.passport_hash # None /\ \E i \in identity : i.document = sig.passport_hash

\* risk.decide.  The score is in hundredths of a percent; a live response has
\* liveness_score 1.0, so 3500 stands for that term.
EvidenceWithoutFace(q) == ~q.draft.signals.mrz_valid \/ ~q.live

EvidenceFails(q) == ~q.draft.signals.mrz_valid \/ ~q.live \/ ~FaceMatch(q.draft.signals)

Score(q) == 45 * q.score + 3500 + 20 * (100 - q.draft.signals.device_risk)

RoutesWithoutCountry(q) ==
    q.dedup = "review" \/ DocumentReused(q.draft.signals) \/ Score(q) < 7500

RoutesToReview(q) ==
    \/ q.dedup = "review"
    \/ DocumentReused(q.draft.signals)
    \/ q.draft.signals.high_risk_country
    \/ Score(q) < 7500

RiskDecision(q) ==
    CASE EvidenceFails(q) \/ q.dedup = "reject" -> "reject"
      [] ~EvidenceFails(q) /\ q.dedup # "reject" /\ RoutesToReview(q) -> "review"
      [] OTHER -> "approve"

\* The decision is written over what the autoflush of Search has written already.
FlushDecision(row, q, decided) == Flush(Flush(row, q.loaded, q.draft), q.draft, decided)

RejectReason(q) == IF EvidenceFails(q) THEN "evidence" ELSE "duplicate_identity"

LogDecision(s) == decisions' = [decisions EXCEPT ![s] = @ + 1]

DecideReject(r) ==
    LET q == req[r] IN
    /\ q.pc = "searched"
    /\ RiskDecision(q) = "reject"
    /\ session' = [session EXCEPT ![q.session] = FlushDecision(@, q,
           [q.draft EXCEPT !.status = "rejected", !.decision = "reject",
                           !.reject_reason = RejectReason(q)])]
    /\ LogDecision(q.session)
    /\ Close(r)
    /\ UNCHANGED <<user, identity, queue, challenge>>

\* review.enqueue in the same transaction.
DecideReview(r) ==
    LET q == req[r] IN
    /\ q.pc = "searched"
    /\ RiskDecision(q) = "review"
    /\ session' = [session EXCEPT ![q.session] = FlushDecision(@, q,
           [q.draft EXCEPT !.status = "pending_review", !.decision = "review"])]
    /\ queue' = Append(queue, [session |-> q.session, resolution |-> None])
    /\ LogDecision(q.session)
    /\ Close(r)
    /\ UNCHANGED <<user, identity, challenge>>

-----------------------------------------------------------------------------
(* finalize_identity, shared by auto-approval and manual approval.         *)

IdentityHash(q) == <<user[q.draft.user].country, q.draft.signals.person_seed>>

\* SELECT the user and the identity with this hash; the session becomes approved.
Lookup(r) ==
    LET q == req[r] IN
    req' = [req EXCEPT ![r] =
        [q EXCEPT !.pc = "enrolling",
                  !.draft = [q.draft EXCEPT !.status = "approved", !.decision = "approve"],
                  !.found = \E i \in identity : i.hash = IdentityHash(q),
                  !.bound = user[q.draft.user].identity]]

\* Without the unique constraint.
NeverTaken(q) == FALSE

\* INSERT INTO identities violates its unique constraint.
HashTaken(q) == ~q.found /\ \E i \in identity : i.hash = IdentityHash(q)

\* The identity is created but the user is not bound to it.
EnrolUnbound(q) ==
    /\ ~HashTaken(q)
    /\ identity' = identity \cup
           IF q.found THEN {}
           ELSE {[hash |-> IdentityHash(q), document |-> q.draft.signals.passport_hash,
                  template |-> FaceOf[q.draft.signals.person_seed]]}
    /\ session' = [session EXCEPT ![q.session] = Flush(@, q.loaded, q.draft)]
    /\ UNCHANGED user

\* INSERT the identity unless it exists, bind the user, write the session.
FinalizeIdentity(q) ==
    /\ ~HashTaken(q)
    /\ identity' = identity \cup
           IF q.found THEN {}
           ELSE {[hash |-> IdentityHash(q), document |-> q.draft.signals.passport_hash,
                  template |-> FaceOf[q.draft.signals.person_seed]]}
    /\ user' = [user EXCEPT ![q.draft.user].identity = Net(@, q.bound, IdentityHash(q))]
    /\ session' = [session EXCEPT ![q.session] = Flush(@, q.loaded, q.draft)]

DecideApprove(r) ==
    /\ req[r].pc = "searched"
    /\ RiskDecision(req[r]) = "approve"
    /\ Lookup(r)
    /\ UNCHANGED <<user, session, identity, queue, decisions, challenge, lock>>

CommitApproval(r) ==
    LET q == req[r] IN
    /\ q.pc = "enrolling" /\ q.item = 0
    /\ FinalizeIdentity(q)
    /\ LogDecision(q.session)
    /\ Close(r)
    /\ UNCHANGED <<queue, challenge>>

\* IntegrityError: the whole transaction is rolled back.
Conflict(r) ==
    /\ req[r].pc = "enrolling"
    /\ HashTaken(req[r])
    /\ Close(r)
    /\ UNCHANGED <<user, session, identity, queue, decisions, challenge>>

-----------------------------------------------------------------------------
(* Manual review.                                                          *)

\* The reviewer's verdict on the session's columns.
Resolved(row, resolution) ==
    IF resolution = "approve"
    THEN [row EXCEPT !.status = "approved", !.decision = "approve"]
    ELSE [row EXCEPT !.status = "rejected", !.decision = "reject",
                     !.reject_reason = "manual_review_rejected"]

\* Read the item and its session; an item already resolved is a 404.
OpenReview(r, i, resolution) ==
    LET s == queue[i].session IN
    /\ CanStart(r, s)
    /\ queue[i].resolution = None
    /\ req' = [req EXCEPT ![r] = [Idle EXCEPT !.pc = "resolving", !.session = s,
                                  !.item = i, !.loaded = session[s],
                                  !.draft = Resolved(session[s], resolution)]]
    /\ UNCHANGED <<user, session, identity, queue, decisions, challenge, lock>>

\* The row lock of the item, which an approval takes before it enrols.
ItemFree(r) ==
    \A q \in Requests \ {r} : ~(req[q].pc = "enrolling" /\ req[q].item = req[r].item)

\* finalize_identity reads signals["person_seed"]; absent, a KeyError ends it.
KeyError(r) ==
    /\ req[r].pc = "resolving"
    /\ req[r].draft.status = "approved"
    /\ req[r].draft.signals.person_seed = None
    /\ Close(r)
    /\ UNCHANGED <<user, session, identity, queue, decisions, challenge>>

ReviewApprove(r) ==
    /\ req[r].pc = "resolving"
    /\ req[r].draft.status = "approved"
    /\ req[r].draft.signals.person_seed # None
    /\ ItemFree(r)
    /\ Lookup(r)
    /\ UNCHANGED <<user, session, identity, queue, decisions, challenge, lock>>

CommitReviewApproval(r) ==
    LET q == req[r] IN
    /\ q.pc = "enrolling" /\ q.item # 0
    /\ CanLock(r, q.session)
    /\ FinalizeIdentity(q)
    /\ queue' = [queue EXCEPT ![q.item].resolution = "approve"]
    /\ Close(r)
    /\ UNCHANGED <<decisions, challenge>>

ReviewReject(r) ==
    LET q == req[r] IN
    /\ q.pc = "resolving"
    /\ q.draft.status = "rejected"
    /\ ItemFree(r)
    /\ CanLock(r, q.session)
    /\ session' = [session EXCEPT ![q.session] = Flush(@, q.loaded, q.draft)]
    /\ queue' = [queue EXCEPT ![q.item].resolution = "reject"]
    /\ Close(r)
    /\ UNCHANGED <<user, identity, decisions, challenge>>

-----------------------------------------------------------------------------

\* The next round trip of a request in flight.
Step(r) ==
    \/ CommitPassport(r)
    \/ Search(r) \/ DecideReject(r) \/ DecideReview(r) \/ DecideApprove(r)
    \/ CommitApproval(r) \/ Conflict(r)
    \/ ReviewApprove(r) \/ CommitReviewApproval(r) \/ ReviewReject(r) \/ KeyError(r)

\* A client, a reviewer or the clock.
Arrive ==
    \/ \E w \in Wallets, c \in Countries, p \in Phones, d \in Devices, s \in Sessions :
          Onboard(w, c, p, d, s)
    \/ \E n \in Nonces : IssueChallenge(n) \/ ExpireChallenge(n)
    \/ \E r \in Requests, s \in Sessions :
          \/ \E p \in Passports : SubmitPassport(r, s, p)
          \/ SubmitOtherDocument(r, s)
          \/ \E seed \in Seeds, n \in Nonces, framesOk \in BOOLEAN, score \in MatchScores :
                SubmitBiometrics(r, s, seed, n, framesOk, score)
    \/ \E r \in Requests, i \in DOMAIN queue, x \in {"approve", "reject"} :
          OpenReview(r, i, x)

Next == Arrive \/ \E r \in Requests : Step(r) \/ Abort(r)

Spec == Init /\ [][Next]_vars

\* The server finishes what it started: a thread runs to its end, and a waiting
\* UPDATE gets a row lock that is released again and again (arrival order).
Fairness == \A r \in Requests : SF_vars(Step(r))

FairSpec == Spec /\ Fairness

-----------------------------------------------------------------------------
(* Properties that hold whatever overlaps.                                 *)

Is(s, status) == session[s] # None /\ session[s].status = status
Enrolled(h) == \E i \in identity : i.hash = h
Face(s) == FaceOf[session[s].signals.person_seed]

\* An approved session's user is bound to an enrolled identity of the user's
\* country: what the credential route asserts before it signs (main.py:298).
ApprovedBound ==
    \A s \in Sessions : Is(s, "approved") =>
        LET u == user[session[s].user] IN
        /\ u # None /\ u.identity # None
        /\ Enrolled(u.identity)
        /\ u.identity[1] = u.country

\* Two enrolments that both found no row with a hash (verification.py:210)
\* never leave two rows with it: one spending limit per identity_hash.
HashUnique == \A i, j \in identity : i.hash = j.hash => i = j

\* Every request in flight ends, also when several wait for one row's lock.
RequestsEnd == \A r \in Requests : (req[r].pc # "idle") ~> (req[r].pc = "idle")

-----------------------------------------------------------------------------
(* Properties of a session that is worked on by one request at a time,     *)
(* whatever happens to the other sessions (~OverlapSessions).              *)

\* A decided session is never reprocessed: neither a retry nor a passport nor a
\* reviewer changes any column of an approved row (verification.py:30-34).
ApprovedForever ==
    [][\A s \in Sessions : Is(s, "approved") => session'[s] = session[s]]_vars

Pending(s) == {i \in DOMAIN queue : queue[i].session = s /\ queue[i].resolution = None}

\* The queue and the sessions agree: a session is in manual review exactly while
\* one unresolved item names it, so no item is orphaned and none is doubled.
ReviewMatchesSession ==
    \A s \in Sessions : Cardinality(Pending(s)) = IF Is(s, "pending_review") THEN 1 ELSE 0

\* No decision is taken without being counted against the retry budget: the
\* audit log has as many decisions as biometric_attempts says (<= MaxAttempts).
AttemptsCounted ==
    \A s \in Sessions : session[s] # None => session[s].signals.attempts = decisions[s]

\* Nobody is cut off for attempts that were not decided (verification.py:49-50):
\* whatever overlaps, fails or is rolled back, biometric_attempts never exceeds the
\* decisions of the session in the audit log.  Overlapping writers may lose counts,
\* so that it falls behind them.
NoAttemptWithoutDecision ==
    \A s \in Sessions : session[s] # None => session[s].signals.attempts <= decisions[s]

\* What an approved row shows is what was checked: a valid passport of the same
\* face, the identity of that person enrolled, and no reject reason left over.
ApprovedIsEvidenced ==
    \A s \in Sessions : Is(s, "approved") =>
        LET row == session[s] IN
        /\ row.signals.mrz_valid
        /\ FaceMatch(row.signals)
        /\ Enrolled(<<user[row.user].country, row.signals.person_seed>>)
        /\ row.reject_reason = None

\* status, decision and reject_reason, written by different handlers, agree.
ColumnsAgree ==
    \A s \in Sessions : session[s] # None =>
        LET row == session[s] IN
        /\ row.status = "approved" <=> row.decision = "approve"
        /\ row.status = "pending_review" <=> row.decision = "review"
        /\ row.status = "rejected" => row.decision = "reject"
        /\ row.decision = "reject" <=> row.reject_reason # None

-----------------------------------------------------------------------------
(* The promise to an integrator, implemented when ~OverlapSessions.        *)

Phase ==
    [s \in Sessions |->
        IF session[s] = None THEN "absent"
        ELSE IF session[s].status = "approved" THEN "approved"
        ELSE IF session[s].status = "pending_review" THEN "review" ELSE "open"]

Attempts ==
    [s \in Sessions |-> IF session[s] = None THEN 0 ELSE session[s].signals.attempts]

Lifecycle == INSTANCE SessionLifecycle WITH phase <- Phase, attempts <- Attempts

\* A session goes through the phases of SessionLifecycle and no others, and each
\* decision costs one attempt in the same step (verification.py:39-50, 180).
ImplementsLifecycle == Lifecycle!Spec

-----------------------------------------------------------------------------
(* One human, one identity.                                                *)

\* dedup as the Sybil gate: an identity enrolled by auto-approval has a face that no
\* earlier identity has, nor one too close to tell.  Holds with one request at a time.
AutoApprovalIsUnique ==
    [][\A r \in Requests :
          CommitApproval(r) => \A i \in identity, j \in identity' \ identity :
              i.template # j.template /\ {i.template, j.template} \notin Twins]_vars

\* A session onboarded from a high-risk country is approved by a reviewer or not at
\* all, whatever passports and retries come between (risk.py:48-51, config.py:10-12).
HighRiskIsReviewed ==
    \A s \in Sessions : Is(s, "approved") /\ session[s].signals.high_risk_country =>
        \E i \in DOMAIN queue : queue[i] = [session |-> s, resolution |-> "approve"]

\* "The unique human. One row per real person." (models.py:80)
OneIdentityPerHuman == \A i, j \in identity : i.template = j.template => i = j
=============================================================================
