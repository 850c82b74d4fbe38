----------------------- MODULE VerificationSerialProofs -----------------------
(***************************************************************************)
(* What Verification guarantees to a session that is worked on by one      *)
(* request at a time, for every value of the constants: any number of      *)
(* requests may run, on different sessions, fail, and be retried.          *)
(***************************************************************************)
EXTENDS VerificationProofs, FiniteSetTheorems

OneAtATime == \A r, q \in Requests : r = q

\* The premise: clients do not overlap requests on one session, or the server
\* runs one request at a time.  Nothing in the code enforces either.
Serialised == ~OverlapSessions \/ OneAtATime

-----------------------------------------------------------------------------
(* The inductive invariant.  A request that has a session to itself works  *)
(* on a copy that is still the committed row, so its guards, checked once  *)
(* on that copy, still hold when it commits.                               *)

\* No two requests in flight work on one session.
Alone ==
    \A r, q \in Requests :
        InFlight(r) /\ InFlight(q) /\ req[r].session = req[q].session => r = q

Evidence(sig) == sig.mrz_valid /\ FaceMatch(sig)

Unresolved(s) == [session |-> s, resolution |-> None]

\* What a request in flight knows about the committed row, by its place in the
\* handler: the guards it passed and what its draft has changed so far.
DraftOK(r) ==
    LET q == req[r]
        row == session[q.session]
    IN
    InFlight(r) =>
        /\ q.loaded = row
        /\ q.draft.signals.high_risk_country = row.signals.high_risk_country
        /\ q.pc \in {"passport", "loaded", "searched"} => q.item = 0
        /\ q.item = 0 => NotDecided(row)
        /\ q.pc = "passport" =>
               /\ q.draft.decision = row.decision
               /\ q.draft.reject_reason = row.reject_reason
               /\ q.draft.signals.attempts = row.signals.attempts
        /\ q.item = 0 /\ q.pc # "passport" =>
               /\ row.signals.attempts < MaxAttempts
               /\ q.draft.signals.attempts = row.signals.attempts + 1
               /\ q.draft.reject_reason = None
        /\ q.item # 0 =>
               /\ queue[q.item] = Unresolved(q.session)
               /\ q.draft.signals = row.signals
        /\ q.pc = "resolving" => \E x \in {"approve", "reject"} : q.draft = Resolved(row, x)
        /\ q.pc = "enrolling" =>
               /\ Evidence(q.draft.signals)
               /\ q.draft.decision = "approve"
               /\ q.draft.reject_reason = None
               /\ q.item = 0 => ~q.draft.signals.high_risk_country

\* What the columns of a row say about each other, about the audit log and about
\* the identities.
RowOK(s) ==
    LET row == session[s] IN
    IF row = None THEN decisions[s] = 0
    ELSE /\ row.status = "approved" <=> row.decision = "approve"
         /\ row.status = "pending_review" <=> row.decision = "review"
         /\ row.status = "rejected" => row.decision = "reject"
         /\ row.decision = "reject" <=> row.reject_reason # None
         /\ row.signals.attempts = decisions[s]
         /\ row.status \in {"pending_review", "approved"} => Evidence(row.signals)
         /\ row.status = "approved" =>
                Enrolled(<<user[row.user].country, row.signals.person_seed>>)

\* A session in review has one open item, any other session has none.
QueueOK(s) ==
    IF Is(s, "pending_review") THEN \E i \in DOMAIN queue : Pending(s) = {i}
    ELSE Pending(s) = {}

ReviewedOK(s) ==
    Is(s, "approved") /\ session[s].signals.high_risk_country =>
        \E i \in DOMAIN queue : queue[i] = [session |-> s, resolution |-> "approve"]

SessionOK(s) == RowOK(s) /\ QueueOK(s) /\ ReviewedOK(s)

Serial ==
    /\ Alone
    /\ \A r \in Requests : DraftOK(r)
    /\ \A s \in Sessions : SessionOK(s)

-----------------------------------------------------------------------------
(* What a handler writes, once its copy is the committed row.              *)

LEMMA FlushSame ==
    ASSUME NEW row \in SessionRow, NEW draft \in SessionRow, draft.user = row.user
    PROVE  Flush(row, row, draft) = draft
BY DEF Flush, Net, SessionRow

LEMMA FlushDecisionSame ==
    ASSUME NEW q, q.loaded \in SessionRow, q.draft \in SessionRow,
           NEW decided \in SessionRow,
           q.draft.user = q.loaded.user, decided.user = q.loaded.user
    PROVE  FlushDecision(q.loaded, q, decided) = decided
BY FlushSame DEF FlushDecision

\* A request in flight in a serialised system, all that is known of it.
LEMMA InFlightFacts ==
    ASSUME Typed, Serial, NEW r \in Requests, InFlight(r)
    PROVE  /\ req[r] \in Request /\ RequestOK(r) /\ DraftOK(r)
           /\ req[r].session \in Sessions
           /\ session[req[r].session] # None
           /\ session[req[r].session] \in SessionRow
           /\ SessionOK(req[r].session)
           /\ req[r].loaded = session[req[r].session]
           /\ req[r].draft \in SessionRow
           /\ req[r].draft.user = session[req[r].session].user
           /\ \A q \in Requests \ {r} : InFlight(q) => req[q].session # req[r].session
<1>1. RequestOK(r) /\ DraftOK(r)
  BY DEF Typed, RequestsOK, Serial
<1> QED
  BY <1>1, RequestType DEF RequestOK, DraftOK, Serial, Alone

\* The step writes at most the row, the log and the review items of session s.
OnlyConcerns(s) ==
    /\ \A x \in Sessions \ {s} : session'[x] = session[x] /\ decisions'[x] = decisions[x]
    /\ \A i \in DOMAIN queue :
           /\ i \in DOMAIN queue'
           /\ queue'[i].session = queue[i].session
           /\ queue[i].session # s => queue'[i] = queue[i]
    /\ \A i \in DOMAIN queue' \ DOMAIN queue : queue'[i].session = s

\* The requests in flight after the step: those that work on other sessions, and
\* possibly r, which works on s.
OnlyWorker(r, s) ==
    \A q \in Requests : InFlight(q)' =>
        \/ req'[q] = req[q] /\ req[q].session # s
        \/ q = r /\ req'[q].session = s /\ DraftOK(q)'

LEMMA OtherSession ==
    ASSUME Typed, Grows, NEW s \in Sessions, OnlyConcerns(s),
           NEW x \in Sessions \ {s}, SessionOK(x)
    PROVE  SessionOK(x)'
<1>1. session'[x] = session[x] /\ decisions'[x] = decisions[x]
  BY DEF OnlyConcerns
<1>2. RowOK(x)'
  <2>1. ASSUME session[x] # None
        PROVE  user'[session[x].user].country = user[session[x].user].country
    <3>1. session[x].user \in Wallets /\ user[session[x].user] # None
      BY <2>1 DEF Typed, TypeOK, SessionRow, OwnersOK
    <3> QED
      BY <3>1 DEF Grows
  <2>2. \A h : Enrolled(h) => Enrolled(h)'
    BY DEF Enrolled, Grows
  <2> QED
    BY <1>1, <2>1, <2>2 DEF SessionOK, RowOK
<1>3. Pending(x)' = Pending(x)
  BY DEF Pending, OnlyConcerns
<1>4. QueueOK(x)'
  <2>1. \A i \in DOMAIN queue : i \in DOMAIN queue'
    BY DEF OnlyConcerns
  <2> QED
    BY <1>1, <1>3, <2>1 DEF SessionOK, QueueOK, Is
<1>5. ReviewedOK(x)'
  <2>1. ASSUME NEW i \in DOMAIN queue, queue[i] = [session |-> x, resolution |-> "approve"]
        PROVE  i \in DOMAIN queue' /\ queue'[i] = queue[i]
    BY <2>1 DEF OnlyConcerns
  <2> QED
    BY <1>1, <2>1 DEF SessionOK, ReviewedOK, Is
<1> QED
  BY <1>2, <1>4, <1>5 DEF SessionOK

LEMMA SerialFrame ==
    ASSUME Typed, Serial, Grows, NEW s \in Sessions, OnlyConcerns(s), SessionOK(s)',
           NEW r, OnlyWorker(r, s)
    PROVE  Serial'
<1>1. ASSUME NEW x \in Sessions PROVE SessionOK(x)'
  BY OtherSession DEF Serial
<1>2. ASSUME NEW q \in Requests PROVE DraftOK(q)'
  <2>1. CASE ~InFlight(q)'
    BY <2>1 DEF DraftOK, InFlight
  <2>2. CASE InFlight(q)' /\ req'[q] = req[q] /\ req[q].session # s
    <3>1. InFlight(q) /\ DraftOK(q) /\ RequestOK(q) /\ req[q].session \in Sessions
      BY <2>2 DEF InFlight, Serial, Typed, RequestsOK, RequestOK
    <3>2. session'[req[q].session] = session[req[q].session]
      BY <2>2, <3>1 DEF OnlyConcerns
    <3>3. req[q].item # 0 => queue'[req[q].item] = queue[req[q].item]
      BY <2>2, <3>1 DEF OnlyConcerns, DraftOK, RequestOK, Unresolved
    <3> QED
      BY <2>2, <3>1, <3>2, <3>3 DEF DraftOK, InFlight
  <2> QED
    BY <2>1, <2>2 DEF OnlyWorker
<1>3. Alone'
  BY DEF OnlyWorker, Alone, Serial, InFlight
<1> QED
  BY <1>1, <1>2, <1>3 DEF Serial

LEMMA SessionFrame ==
    ASSUME NEW s \in Sessions, SessionOK(s),
           UNCHANGED <<user, session, identity, queue, decisions>>
    PROVE  SessionOK(s)'
<1>1. RowOK(s)'
  BY DEF SessionOK, RowOK, Enrolled
<1>2. QueueOK(s)'
  BY DEF SessionOK, QueueOK, Is, Pending
<1>3. ReviewedOK(s)'
  BY DEF SessionOK, ReviewedOK, Is
<1> QED
  BY <1>1, <1>2, <1>3 DEF SessionOK

\* The same for a step that writes no row, log entry or review item.
LEMMA SerialRead ==
    ASSUME Typed, Serial, UNCHANGED <<user, session, identity, queue, decisions>>,
           NEW s \in Sessions, NEW r, OnlyWorker(r, s)
    PROVE  Serial'
<1>1. Grows /\ OnlyConcerns(s)
  BY DEF Grows, OnlyConcerns
<1>2. SessionOK(s)'
  BY SessionFrame DEF Serial
<1> QED
  BY <1>1, <1>2, SerialFrame

-----------------------------------------------------------------------------
(* Clients, reviewers and the clock.                                       *)

LEMMA SerialStutter ==
    ASSUME Serial, UNCHANGED <<user, session, identity, queue, decisions, req>>
    PROVE  Serial'
<1>1. Alone'
  BY DEF Serial, Alone, InFlight
<1>2. ASSUME NEW r \in Requests
      PROVE  DraftOK(r)'
  BY DEF Serial, DraftOK, InFlight
<1>3. ASSUME NEW s \in Sessions
      PROVE  SessionOK(s)'
  BY SessionFrame DEF Serial
<1> QED
  BY <1>1, <1>2, <1>3 DEF Serial

\* A request that starts on a session nobody else works on.
LEMMA StartSerial ==
    ASSUME Typed, Serial, Serialised, NEW r \in Requests, NEW s \in Sessions,
           CanStart(r, s), NEW new, req' = [req EXCEPT ![r] = new],
           UNCHANGED <<user, session, identity, queue, decisions>>,
           new.session = s, DraftOK(r)'
    PROVE  Serial'
<1>1. req'[r] = new /\ \A q \in Requests \ {r} : req'[q] = req[q]
  BY DEF Typed, TypeOK
<1>2. \A q \in Requests \ {r} : InFlight(q) => req[q].session # s
  BY DEF CanStart, Serialised, OneAtATime
<1>3. OnlyWorker(r, s)
  BY <1>1, <1>2 DEF OnlyWorker, InFlight
<1> QED
  BY <1>3, SerialRead

LEMMA OnboardSerial ==
    ASSUME Typed, Safe, Serial, NEW w \in Wallets, NEW c \in Countries, NEW p \in Phones,
           NEW d \in Devices, NEW s \in Sessions, Onboard(w, c, p, d, s)
    PROVE  Serial'
<1> DEFINE signals == [device_risk |-> DeviceRisk(w, p, d),
                       high_risk_country |-> c \in HighRisk,
                       mrz_valid |-> FALSE, passport_seed |-> None,
                       passport_hash |-> None, person_seed |-> None, attempts |-> 0]
           row == [user |-> w, status |-> "started", decision |-> None,
                   reject_reason |-> None, signals |-> signals]
<1>1. /\ session[s] = None /\ session' = [session EXCEPT ![s] = row]
      /\ UNCHANGED <<identity, queue, decisions, challenge, lock, req>>
  BY DEF Onboard
<1>2. session'[s] = row /\ \A x \in Sessions \ {s} : session'[x] = session[x]
  <2> HIDE DEF row
  <2> QED BY <1>1 DEF Typed, TypeOK
<1>3. Grows
  BY OnboardSafe
<1>4. OnlyConcerns(s)
  BY <1>1, <1>2 DEF OnlyConcerns
<1>5. SessionOK(s)'
  <2>1. SessionOK(s)
    BY DEF Serial
  <2>2. RowOK(s)'
    <3>1. decisions'[s] = 0
      BY <2>1, <1>1 DEF SessionOK, RowOK
    <3>2. /\ row.status = "started" /\ row.decision = None /\ row.reject_reason = None
          /\ row.signals.attempts = 0
      OBVIOUS
    <3> HIDE DEF row
    <3> QED BY <3>1, <3>2, <1>2, NoneAssumption DEF RowOK
  <2>3. ~Is(s, "pending_review") /\ ~Is(s, "pending_review")' /\ ~Is(s, "approved")'
    BY <1>1, <1>2 DEF Is
  <2>4. Pending(s)' = Pending(s)
    BY <1>1 DEF Pending
  <2> QED
    BY <2>1, <2>2, <2>3, <2>4 DEF SessionOK, QueueOK, ReviewedOK
<1>6. OnlyWorker(None, s)
  <2> SUFFICES ASSUME NEW q \in Requests, InFlight(q)
               PROVE  req[q].session # s
    BY <1>1 DEF OnlyWorker, InFlight
  <2> QED
    BY <1>1, InFlightFacts
<1> QED
  BY <1>3, <1>4, <1>5, <1>6, SerialFrame

\* A new passport replaces the document's signals only.
LEMMA PassportColumns ==
    ASSUME NEW row \in SessionRow, NEW draft,
           (\E p \in Passports : draft = WithPassport(row, p)) \/ draft = WithOtherDocument(row)
    PROVE  /\ draft \in SessionRow
           /\ draft.user = row.user
           /\ draft.status = "documents_submitted"
           /\ draft.decision = row.decision
           /\ draft.reject_reason = row.reject_reason
           /\ draft.signals.attempts = row.signals.attempts
           /\ draft.signals.high_risk_country = row.signals.high_risk_country
<1>1. /\ draft \in SessionRow /\ draft.user = row.user
      /\ draft.status = "documents_submitted"
  BY PassportRow, OtherDocumentRow
<1>2. ASSUME NEW p \in Passports, draft = WithPassport(row, p)
      PROVE  /\ draft.decision = row.decision
             /\ draft.reject_reason = row.reject_reason
             /\ draft.signals.attempts = row.signals.attempts
             /\ draft.signals.high_risk_country = row.signals.high_risk_country
  BY <1>2 DEF WithPassport, SessionRow, Signals
<1>3. CASE draft = WithOtherDocument(row)
  BY <1>1, <1>3 DEF WithOtherDocument, SessionRow, Signals
<1> QED
  BY <1>1, <1>2, <1>3

LEMMA SubmitPassportSerial ==
    ASSUME Typed, Serial, Serialised, NEW r \in Requests, NEW s \in Sessions,
           (\E p \in Passports : SubmitPassport(r, s, p)) \/ SubmitOtherDocument(r, s)
    PROVE  Serial'
<1>1. PICK draft : /\ OpenPassport(r, s, draft)
                   /\ (\E p \in Passports : draft = WithPassport(session[s], p))
                         \/ draft = WithOtherDocument(session[s])
  BY DEF SubmitPassport, SubmitOtherDocument
<1> DEFINE new == [Idle EXCEPT !.pc = "passport", !.session = s,
                               !.loaded = session[s], !.draft = draft]
<1>2. /\ CanStart(r, s) /\ NotDecided(session[s])
      /\ req' = [req EXCEPT ![r] = new]
      /\ UNCHANGED <<user, session, identity, queue, decisions, challenge, lock>>
  BY <1>1 DEF OpenPassport
<1>3. /\ new.pc = "passport" /\ new.session = s /\ new.loaded = session[s]
      /\ new.draft = draft /\ new.item = 0
  BY DEF Idle
<1>4. req'[r] = new
  <2> HIDE DEF new
  <2> QED BY <1>2 DEF Typed, TypeOK
<1>5. session[s] \in SessionRow
  BY <1>2 DEF CanStart, Typed, TypeOK
<1>6. DraftOK(r)'
  <2> HIDE DEF new
  <2> QED BY <1>1, <1>2, <1>3, <1>4, <1>5, PassportColumns DEF DraftOK, NotDecided
<1> HIDE DEF new
<1> QED
  BY <1>2, <1>3, <1>6, StartSerial

\* An attempt counts itself and clears the last reason.
LEMMA BiometricsColumns ==
    ASSUME NEW row \in SessionRow, NEW seed \in Seeds
    PROVE  LET draft == WithBiometrics(row, seed) IN
           /\ draft.user = row.user
           /\ draft.status = "biometrics_submitted"
           /\ draft.decision = row.decision
           /\ draft.reject_reason = None
           /\ draft.signals.attempts = row.signals.attempts + 1
           /\ draft.signals.high_risk_country = row.signals.high_risk_country
BY DEF WithBiometrics, SessionRow, Signals

LEMMA SubmitBiometricsSerial ==
    ASSUME Typed, Serial, Serialised, NEW r \in Requests, NEW s \in Sessions,
           NEW seed \in Seeds, NEW n \in Nonces, NEW framesOk \in BOOLEAN,
           NEW score \in MatchScores, SubmitBiometrics(r, s, seed, n, framesOk, score)
    PROVE  Serial'
<1> DEFINE draft == WithBiometrics(session[s], seed)
           new == [Idle EXCEPT !.pc = "loaded", !.session = s, !.loaded = session[s],
                               !.draft = draft,
                               !.live = challenge[n] = "open" /\ framesOk,
                               !.score = score]
<1>1. /\ CanStart(r, s) /\ Retryable(session[s])
      /\ req' = [req EXCEPT ![r] = new]
      /\ UNCHANGED <<user, session, identity, queue, decisions, lock>>
  BY DEF SubmitBiometrics
<1>2. /\ new.pc = "loaded" /\ new.session = s /\ new.loaded = session[s]
      /\ new.draft = draft /\ new.item = 0
  <2> HIDE DEF draft
  <2> QED BY DEF Idle
<1>3. req'[r] = new
  <2> HIDE DEF new
  <2> QED BY <1>1 DEF Typed, TypeOK
<1>4. session[s] \in SessionRow
  BY <1>1 DEF CanStart, Typed, TypeOK
<1>5. /\ draft.decision = session[s].decision
      /\ draft.reject_reason = None
      /\ draft.signals.attempts = session[s].signals.attempts + 1
      /\ draft.signals.high_risk_country = session[s].signals.high_risk_country
  BY <1>4, BiometricsColumns
<1> HIDE DEF new, draft
<1>6. DraftOK(r)'
  BY <1>1, <1>2, <1>3, <1>5 DEF DraftOK, Retryable
<1> QED
  BY <1>1, <1>2, <1>6, StartSerial

\* An open item names a session in review.
LEMMA OpenItem ==
    ASSUME NEW i \in DOMAIN queue, NEW s, SessionOK(s), queue[i] = Unresolved(s)
    PROVE  Is(s, "pending_review") /\ Pending(s) = {i}
BY DEF SessionOK, QueueOK, Pending, Unresolved

LEMMA OpenReviewSerial ==
    ASSUME Typed, Serial, Serialised, NEW r \in Requests, NEW i \in DOMAIN queue,
           NEW x \in {"approve", "reject"}, OpenReview(r, i, x)
    PROVE  Serial'
<1> DEFINE s == queue[i].session
           draft == Resolved(session[s], x)
           new == [Idle EXCEPT !.pc = "resolving", !.session = s, !.item = i,
                               !.loaded = session[s], !.draft = draft]
<1>1. /\ CanStart(r, s) /\ queue[i].resolution = None
      /\ req' = [req EXCEPT ![r] = new]
      /\ UNCHANGED <<user, session, identity, queue, decisions, challenge, lock>>
  BY DEF OpenReview
<1>2. i \in Nat \ {0} /\ queue[i] \in ReviewItem /\ s \in Sessions
  <2>1. queue \in Seq(ReviewItem) /\ i \in 1..Len(queue)
    BY DEF Typed, TypeOK
  <2>2. i \in Nat \ {0} /\ queue[i] \in ReviewItem
    BY <2>1
  <2> QED
    BY <2>2 DEF ReviewItem
<1>3. queue[i] = Unresolved(s)
  BY <1>1, <1>2 DEF ReviewItem, Unresolved
<1>4. /\ new.pc = "resolving" /\ new.session = s /\ new.loaded = session[s]
      /\ new.draft = draft /\ new.item = i
  <2> HIDE DEF draft
  <2> QED BY DEF Idle
<1>5. req'[r] = new
  <2> HIDE DEF new
  <2> QED BY <1>1 DEF Typed, TypeOK
<1>6. session[s] \in SessionRow
  BY <1>1, <1>2 DEF CanStart, Typed, TypeOK
<1>7. draft.signals = session[s].signals
  BY <1>6, ResolvedRow
<1>8. DraftOK(r)'
  <2> HIDE DEF new
  <2> QED BY <1>1, <1>2, <1>3, <1>4, <1>5, <1>7 DEF DraftOK
<1> HIDE DEF new
<1> QED
  BY <1>1, <1>2, <1>4, <1>8, StartSerial

LEMMA ArriveSerial ==
    ASSUME Typed, Safe, Serial, Serialised, Arrive
    PROVE  Serial'
<1>1. CASE \E n \in Nonces : IssueChallenge(n) \/ ExpireChallenge(n)
  BY <1>1, SerialStutter DEF IssueChallenge, ExpireChallenge
<1> QED
  BY <1>1, OnboardSerial, SubmitPassportSerial, SubmitBiometricsSerial, OpenReviewSerial
  DEF Arrive

-----------------------------------------------------------------------------
(* The steps of a request in flight.                                       *)

LEMMA CloseSerial ==
    ASSUME Typed, Serial, NEW r \in Requests, InFlight(r), Close(r)
    PROVE  OnlyWorker(r, req[r].session)
BY CloseEffect DEF OnlyWorker, InFlight, Serial, Alone

LEMMA LogEntry ==
    ASSUME Typed, NEW s \in Sessions, LogDecision(s)
    PROVE  /\ decisions'[s] = decisions[s] + 1
           /\ \A x \in Sessions \ {s} : decisions'[x] = decisions[x]
BY DEF LogDecision, Typed, TypeOK

LEMMA NewItem ==
    ASSUME Typed, NEW s \in Sessions, queue' = Append(queue, Unresolved(s))
    PROVE  /\ DOMAIN queue' = DOMAIN queue \cup {Len(queue) + 1}
           /\ Len(queue) + 1 \notin DOMAIN queue
           /\ \A i \in DOMAIN queue : queue'[i] = queue[i]
           /\ queue'[Len(queue) + 1] = Unresolved(s)
           /\ Pending(s)' = Pending(s) \cup {Len(queue) + 1}
<1>1. queue \in Seq(ReviewItem) /\ Unresolved(s) \in ReviewItem
  BY DEF Typed, TypeOK, Unresolved, ReviewItem
<1>2. /\ DOMAIN queue' = DOMAIN queue \cup {Len(queue) + 1}
      /\ Len(queue) + 1 \notin DOMAIN queue
      /\ \A i \in DOMAIN queue : queue'[i] = queue[i]
      /\ queue'[Len(queue) + 1] = Unresolved(s)
  BY <1>1
<1> QED
  BY <1>2 DEF Pending, Unresolved

LEMMA RollbackSerial ==
    ASSUME Typed, Serial, NEW r \in Requests, Abort(r) \/ Conflict(r) \/ KeyError(r)
    PROVE  Serial'
<1>1. InFlight(r) /\ Close(r) /\ UNCHANGED <<user, session, identity, queue, decisions>>
  BY DEF Abort, Conflict, KeyError, InFlight
<1> QED
  BY <1>1, CloseSerial, InFlightFacts, SerialRead

\* The row a handler commits is its draft.
LEMMA DraftCommitted ==
    ASSUME Typed, Serial, NEW r \in Requests, InFlight(r),
           NEW s \in Sessions, s = req[r].session,
           session' = [session EXCEPT ![s] = Flush(session[s], req[r].loaded, req[r].draft)]
    PROVE  /\ session'[s] = req[r].draft
           /\ \A x \in Sessions \ {s} : session'[x] = session[x]
<1>1. Flush(session[s], req[r].loaded, req[r].draft) = req[r].draft
  BY InFlightFacts, FlushSame
<1> QED
  BY <1>1 DEF Typed, TypeOK

\* The row an automatic decision commits is the decided one.
Decides(r, s, row) ==
    /\ InFlight(r) /\ s = req[r].session
    /\ row \in SessionRow /\ row.user = req[r].draft.user
    /\ session' = [session EXCEPT ![s] = FlushDecision(session[s], req[r], row)]

LEMMA DecisionCommitted ==
    ASSUME Typed, Serial, NEW r \in Requests, NEW s \in Sessions, NEW row,
           Decides(r, s, row)
    PROVE  /\ session'[s] = row
           /\ \A x \in Sessions \ {s} : session'[x] = session[x]
<1> USE DEF Decides
<1>1. FlushDecision(session[s], req[r], row) = row
  BY InFlightFacts, FlushDecisionSame
<1> QED
  BY <1>1 DEF Typed, TypeOK

LEMMA CommitPassportSerial ==
    ASSUME Typed, Serial, NEW r \in Requests, CommitPassport(r)
    PROVE  Serial'
<1> DEFINE q == req[r]
<1>1. PICK s \in Sessions : s = q.session
  BY InFlightFacts DEF CommitPassport, InFlight
<1>2. /\ InFlight(r) /\ q.pc = "passport" /\ Close(r)
      /\ session' = [session EXCEPT ![s] = Flush(@, q.loaded, q.draft)]
      /\ UNCHANGED <<user, identity, queue, decisions>>
  BY <1>1 DEF CommitPassport, InFlight
<1>3. /\ session[s] # None /\ SessionOK(s) /\ RequestOK(r) /\ DraftOK(r)
      /\ q.draft \in SessionRow
  BY <1>1, <1>2, InFlightFacts
<1>4. session'[s] = q.draft /\ \A x \in Sessions \ {s} : session'[x] = session[x]
  BY <1>1, <1>2, DraftCommitted
<1>5. Grows /\ OnlyConcerns(s)
  BY <1>2, <1>4 DEF Grows, OnlyConcerns
<1>6. /\ q.draft.status = "documents_submitted"
      /\ q.draft.decision = session[s].decision
      /\ q.draft.reject_reason = session[s].reject_reason
      /\ q.draft.signals.attempts = session[s].signals.attempts
      /\ NotDecided(session[s])
  BY <1>1, <1>2, <1>3 DEF RequestOK, DraftOK
<1>7. SessionOK(s)'
  <2>1. RowOK(s)'
    BY <1>2, <1>3, <1>4, <1>6, NoneAssumption DEF SessionOK, RowOK, NotDecided
  <2>2. QueueOK(s)' /\ ReviewedOK(s)'
    <3>1. ~Is(s, "pending_review") /\ ~Is(s, "pending_review")' /\ ~Is(s, "approved")'
      BY <1>4, <1>6 DEF Is, NotDecided
    <3> QED
      BY <3>1, <1>2, <1>3 DEF SessionOK, QueueOK, ReviewedOK, Pending
  <2> QED
    BY <2>1, <2>2 DEF SessionOK
<1> QED
  BY <1>1, <1>2, <1>3, <1>5, <1>7, CloseSerial, SerialFrame

LEMMA SearchSerial ==
    ASSUME Typed, Serial, NEW r \in Requests, Search(r)
    PROVE  Serial'
<1> DEFINE q == req[r]
           out == DedupOutcome(FaceOf[q.draft.signals.person_seed])
           new == [q EXCEPT !.pc = "searched", !.dedup = out]
<1>1. /\ InFlight(r) /\ q.pc = "loaded"
      /\ req' = [req EXCEPT ![r] = new]
      /\ UNCHANGED <<user, session, identity, queue, decisions, challenge>>
  BY DEF Search, InFlight
<1>2. /\ q \in Request /\ DraftOK(r) /\ q.session \in Sessions
      /\ \A x \in Requests \ {r} : InFlight(x) => req[x].session # q.session
  BY <1>1, InFlightFacts
<1>3. /\ new.pc = "searched" /\ new.session = q.session /\ new.loaded = q.loaded
      /\ new.draft = q.draft /\ new.item = q.item
  <2> HIDE DEF out
  <2> QED BY <1>2 DEF Request
<1>4. req'[r] = new /\ \A x \in Requests \ {r} : req'[x] = req[x]
  <2> HIDE DEF new
  <2> QED BY <1>1 DEF Typed, TypeOK
<1> HIDE DEF new
<1>5. DraftOK(r)'
  BY <1>1, <1>2, <1>3, <1>4 DEF DraftOK, InFlight
<1>6. OnlyWorker(r, q.session)
  BY <1>2, <1>3, <1>4, <1>5 DEF OnlyWorker, InFlight
<1> QED
  BY <1>1, <1>2, <1>6, SerialRead

LEMMA DecideRejectSerial ==
    ASSUME Typed, Serial, NEW r \in Requests, DecideReject(r)
    PROVE  Serial'
<1> DEFINE q == req[r]
           row == [q.draft EXCEPT !.status = "rejected", !.decision = "reject",
                                  !.reject_reason = RejectReason(q)]
<1>1. PICK s \in Sessions : s = q.session
  BY InFlightFacts DEF DecideReject, InFlight
<1>2. /\ InFlight(r) /\ q.pc = "searched" /\ Close(r)
      /\ session' = [session EXCEPT ![s] = FlushDecision(@, q, row)]
      /\ LogDecision(s)
      /\ UNCHANGED <<user, identity, queue>>
  BY <1>1 DEF DecideReject, InFlight
<1>3. /\ session[s] # None /\ SessionOK(s) /\ DraftOK(r)
      /\ q.draft \in SessionRow
  BY <1>1, <1>2, InFlightFacts
<1>4. RejectReason(q) \in Reasons
  BY DEF RejectReason, Reasons
<1>5. /\ row \in SessionRow /\ row.user = q.draft.user
      /\ row.status = "rejected" /\ row.decision = "reject" /\ row.reject_reason # None
      /\ row.signals = q.draft.signals
  <2>1. row \in SessionRow
    BY <1>3, <1>4, DecidedRow
  <2> QED
    BY <2>1, <1>3, <1>4, NoneAssumption DEF SessionRow
<1> HIDE DEF row
<1>6. session'[s] = row /\ \A x \in Sessions \ {s} : session'[x] = session[x]
  <2>1. Decides(r, s, row)
    BY <1>1, <1>2, <1>5 DEF Decides
  <2> QED
    BY <2>1, DecisionCommitted
<1>7. decisions'[s] = decisions[s] + 1
      /\ \A x \in Sessions \ {s} : decisions'[x] = decisions[x]
  BY <1>2, <1>3, LogEntry
<1>8. Grows /\ OnlyConcerns(s)
  BY <1>2, <1>6, <1>7 DEF Grows, OnlyConcerns
<1>9. /\ NotDecided(session[s])
      /\ row.signals.attempts = session[s].signals.attempts + 1
  BY <1>1, <1>2, <1>3, <1>5 DEF DraftOK
<1>10. SessionOK(s)'
  <2>1. RowOK(s)'
    BY <1>3, <1>5, <1>6, <1>7, <1>9, NoneAssumption DEF SessionOK, RowOK
  <2>2. QueueOK(s)' /\ ReviewedOK(s)'
    <3>1. ~Is(s, "pending_review") /\ ~Is(s, "pending_review")' /\ ~Is(s, "approved")'
      BY <1>5, <1>6, <1>9 DEF Is, NotDecided
    <3> QED
      BY <3>1, <1>2, <1>3 DEF SessionOK, QueueOK, ReviewedOK, Pending
  <2> QED
    BY <2>1, <2>2 DEF SessionOK
<1> QED
  BY <1>1, <1>2, <1>3, <1>8, <1>10, CloseSerial, SerialFrame

\* risk.decide sends to a reviewer, or approves, only what the evidence supports.
LEMMA DecidedOnEvidence ==
    ASSUME NEW q, RiskDecision(q) # "reject"
    PROVE  /\ Evidence(q.draft.signals)
           /\ RiskDecision(q) # "review" => ~q.draft.signals.high_risk_country
BY DEF RiskDecision, EvidenceFails, Evidence, RoutesToReview

LEMMA DecideReviewSerial ==
    ASSUME Typed, Serial, NEW r \in Requests, DecideReview(r)
    PROVE  Serial'
<1> DEFINE q == req[r]
           row == [q.draft EXCEPT !.status = "pending_review", !.decision = "review"]
<1>1. PICK s \in Sessions : s = q.session
  BY InFlightFacts DEF DecideReview, InFlight
<1>2. /\ InFlight(r) /\ q.pc = "searched" /\ RiskDecision(q) = "review" /\ Close(r)
      /\ session' = [session EXCEPT ![s] = FlushDecision(@, q, row)]
      /\ queue' = Append(queue, Unresolved(s))
      /\ LogDecision(s)
      /\ UNCHANGED <<user, identity>>
  BY <1>1 DEF DecideReview, InFlight, Unresolved
<1>3. /\ session[s] # None /\ SessionOK(s) /\ DraftOK(r)
      /\ q.draft \in SessionRow
  BY <1>1, <1>2, InFlightFacts
<1>4. /\ row \in SessionRow /\ row.user = q.draft.user
      /\ row.status = "pending_review" /\ row.decision = "review"
      /\ row.reject_reason = q.draft.reject_reason
      /\ row.signals = q.draft.signals
  <2>1. row \in SessionRow
    BY <1>3, DecidedRow
  <2> QED
    BY <2>1, <1>3 DEF SessionRow
<1> HIDE DEF row
<1>5. session'[s] = row /\ \A x \in Sessions \ {s} : session'[x] = session[x]
  <2>1. Decides(r, s, row)
    BY <1>1, <1>2, <1>4 DEF Decides
  <2> QED
    BY <2>1, DecisionCommitted
<1>6. decisions'[s] = decisions[s] + 1
      /\ \A x \in Sessions \ {s} : decisions'[x] = decisions[x]
  BY <1>2, LogEntry
<1>7. /\ DOMAIN queue' = DOMAIN queue \cup {Len(queue) + 1}
      /\ \A i \in DOMAIN queue : queue'[i] = queue[i]
      /\ queue'[Len(queue) + 1] = Unresolved(s)
      /\ Pending(s)' = Pending(s) \cup {Len(queue) + 1}
  BY <1>2, NewItem
<1>8. Grows /\ OnlyConcerns(s)
  BY <1>2, <1>5, <1>6, <1>7 DEF Grows, OnlyConcerns, Unresolved
<1>9. /\ NotDecided(session[s])
      /\ row.signals.attempts = session[s].signals.attempts + 1
      /\ row.reject_reason = None
      /\ Evidence(row.signals)
  BY <1>1, <1>2, <1>3, <1>4, DecidedOnEvidence DEF DraftOK
<1>10. SessionOK(s)'
  <2>1. RowOK(s)'
    BY <1>3, <1>4, <1>5, <1>6, <1>9, NoneAssumption DEF SessionOK, RowOK, Evidence, FaceMatch
  <2>2. QueueOK(s)'
    <3>1. Pending(s) = {} /\ Is(s, "pending_review")'
      BY <1>3, <1>4, <1>5, <1>9, NoneAssumption DEF SessionOK, QueueOK, Is, NotDecided
    <3>2. Pending(s)' = {Len(queue) + 1} /\ Len(queue) + 1 \in DOMAIN queue'
      BY <3>1, <1>7
    <3> QED
      BY <3>1, <3>2 DEF QueueOK
  <2>3. ReviewedOK(s)'
    BY <1>4, <1>5 DEF ReviewedOK, Is
  <2> QED
    BY <2>1, <2>2, <2>3 DEF SessionOK
<1> QED
  BY <1>1, <1>2, <1>8, <1>10, CloseSerial, SerialFrame

\* What Lookup leaves of a request: the draft is approved, all else is kept.
LEMMA LookupEffect ==
    ASSUME Typed, NEW r \in Requests, InFlight(r), Lookup(r)
    PROVE  /\ req'[r].pc = "enrolling"
           /\ req'[r].session = req[r].session
           /\ req'[r].loaded = req[r].loaded
           /\ req'[r].item = req[r].item
           /\ req'[r].draft.decision = "approve"
           /\ req'[r].draft.reject_reason = req[r].draft.reject_reason
           /\ req'[r].draft.signals = req[r].draft.signals
           /\ \A x \in Requests \ {r} : req'[x] = req[x]
<1> DEFINE q == req[r]
           row == [q.draft EXCEPT !.status = "approved", !.decision = "approve"]
           f == \E i \in identity : i.hash = IdentityHash(q)
           b == user[q.draft.user].identity
           new == [q EXCEPT !.pc = "enrolling", !.draft = row, !.found = f, !.bound = b]
<1>1. q \in Request /\ q.draft \in SessionRow
  BY RequestType
<1>2. req' = [req EXCEPT ![r] = new]
  BY DEF Lookup
<1>3. /\ row.decision = "approve" /\ row.reject_reason = q.draft.reject_reason
      /\ row.signals = q.draft.signals
  BY <1>1 DEF SessionRow
<1>4. /\ new.pc = "enrolling" /\ new.session = q.session /\ new.loaded = q.loaded
      /\ new.item = q.item /\ new.draft = row
  <2> HIDE DEF row, f, b
  <2> QED BY <1>1 DEF Request
<1>5. req'[r] = new /\ \A x \in Requests \ {r} : req'[x] = req[x]
  <2> HIDE DEF new
  <2> QED BY <1>2 DEF Typed, TypeOK
<1> HIDE DEF new, row
<1> QED
  BY <1>3, <1>4, <1>5

LEMMA LookupSerial ==
    ASSUME Typed, Serial, NEW r \in Requests, DecideApprove(r) \/ ReviewApprove(r)
    PROVE  Serial'
<1> DEFINE q == req[r]
<1>1. PICK s \in Sessions : s = q.session
  BY InFlightFacts DEF DecideApprove, ReviewApprove, InFlight
<1>2. /\ InFlight(r) /\ Lookup(r)
      /\ UNCHANGED <<user, session, identity, queue, decisions>>
  BY DEF DecideApprove, ReviewApprove, InFlight
<1>3. /\ SessionOK(s) /\ RequestOK(r) /\ DraftOK(r) /\ session[s] # None
      /\ session[s] \in SessionRow
      /\ \A x \in Requests \ {r} : InFlight(x) => req[x].session # s
  BY <1>1, <1>2, InFlightFacts
<1>4. /\ Evidence(q.draft.signals)
      /\ q.draft.reject_reason = None
      /\ q.item = 0 => ~q.draft.signals.high_risk_country
  <2>1. CASE DecideApprove(r)
    BY <2>1, <1>2, <1>3, DecidedOnEvidence DEF DecideApprove, DraftOK
  <2>2. CASE ReviewApprove(r)
    <3>1. /\ q.item \in DOMAIN queue /\ queue[q.item] = Unresolved(s) /\ q.item # 0
          /\ q.draft.signals = session[s].signals
          /\ \E x \in {"approve", "reject"} : q.draft = Resolved(session[s], x)
      BY <2>2, <1>1, <1>2, <1>3 DEF ReviewApprove, RequestOK, DraftOK
    <3>2. Is(s, "pending_review")
      BY <3>1, <1>3, OpenItem
    <3>3. session[s].reject_reason = None /\ Evidence(session[s].signals)
      BY <3>2, <1>3 DEF SessionOK, RowOK, Is
    <3>4. q.draft = Resolved(session[s], "approve")
      BY <3>1, <2>2, <1>3, ResolvedRow DEF ReviewApprove
    <3>5. q.draft.reject_reason = session[s].reject_reason
      BY <3>4, <1>3 DEF Resolved, SessionRow
    <3> QED
      BY <3>1, <3>3, <3>5
  <2> QED
    BY <2>1, <2>2
<1>5. /\ req'[r].pc = "enrolling" /\ req'[r].session = s
      /\ req'[r].loaded = q.loaded /\ req'[r].item = q.item
      /\ req'[r].draft.decision = "approve"
      /\ req'[r].draft.reject_reason = q.draft.reject_reason
      /\ req'[r].draft.signals = q.draft.signals
      /\ \A x \in Requests \ {r} : req'[x] = req[x]
  BY <1>1, <1>2, LookupEffect
<1>6. q.item = 0 => q.pc # "passport"
  BY DEF DecideApprove, ReviewApprove
<1>7. DraftOK(r)'
  <2>1. /\ q.loaded = session[s]
        /\ q.draft.signals.high_risk_country = session[s].signals.high_risk_country
        /\ q.item = 0 => /\ NotDecided(session[s])
                         /\ session[s].signals.attempts < MaxAttempts
                         /\ q.draft.signals.attempts = session[s].signals.attempts + 1
        /\ q.item # 0 => queue[q.item] = Unresolved(s) /\ q.draft.signals = session[s].signals
    BY <1>1, <1>2, <1>3, <1>6 DEF DraftOK
  <2>2. Evidence(req[r].draft.signals)'
    BY <1>4, <1>5 DEF Evidence, FaceMatch
  <2>3. NotDecided(session[s])' <=> NotDecided(session[s])
    BY <1>2 DEF NotDecided
  <2> HIDE DEF q
  <2> QED
    BY <1>2, <1>4, <1>5, <2>1, <2>2, <2>3 DEF DraftOK
<1>8. OnlyWorker(r, s)
  BY <1>3, <1>5, <1>7 DEF OnlyWorker, InFlight
<1> QED
  BY <1>2, <1>8, SerialRead

\* finalize_identity leaves the session's person enrolled, in the user's country.
LEMMA ApprovalEnrols ==
    ASSUME Typed, Safe, Serial, NEW r \in Requests, req[r].pc = "enrolling",
           FinalizeIdentity(req[r]), Close(r)
    PROVE  /\ Grows
           /\ \E i \in identity' :
                  i.hash = <<user'[req[r].draft.user].country, req[r].draft.signals.person_seed>>
<1> DEFINE w == req[r].draft.user
<1>1. Grows /\ \E i \in identity' : i.hash = IdentityHash(req[r])
  BY FinalizeSafe
<1>2. w \in Wallets /\ user[w] # None
  BY InFlightFacts DEF InFlight, SessionRow, Typed, OwnersOK
<1>3. user'[w].country = user[w].country
  BY <1>1, <1>2 DEF Grows
<1> QED
  BY <1>1, <1>3 DEF IdentityHash

LEMMA CommitApprovalSerial ==
    ASSUME Typed, Safe, Serial, NEW r \in Requests, CommitApproval(r)
    PROVE  Serial'
<1> DEFINE q == req[r]
<1>1. PICK s \in Sessions : s = q.session
  BY InFlightFacts DEF CommitApproval, InFlight
<1>2. /\ InFlight(r) /\ q.pc = "enrolling" /\ q.item = 0 /\ Close(r)
      /\ FinalizeIdentity(q) /\ LogDecision(s) /\ UNCHANGED queue
      /\ session' = [session EXCEPT ![s] = Flush(@, q.loaded, q.draft)]
  BY <1>1 DEF CommitApproval, FinalizeIdentity, InFlight
<1>3. /\ session[s] # None /\ SessionOK(s) /\ DraftOK(r) /\ RequestOK(r)
      /\ q.draft \in SessionRow
  BY <1>1, <1>2, InFlightFacts
<1>4. session'[s] = q.draft /\ \A x \in Sessions \ {s} : session'[x] = session[x]
  BY <1>1, <1>2, DraftCommitted
<1>5. decisions'[s] = decisions[s] + 1
      /\ \A x \in Sessions \ {s} : decisions'[x] = decisions[x]
  BY <1>2, LogEntry
<1>6. Grows /\ \E i \in identity' :
          i.hash = <<user'[q.draft.user].country, q.draft.signals.person_seed>>
  BY <1>2, ApprovalEnrols
<1>7. OnlyConcerns(s)
  BY <1>2, <1>4, <1>5 DEF OnlyConcerns
<1>8. /\ NotDecided(session[s])
      /\ q.draft.status = "approved" /\ q.draft.decision = "approve"
      /\ q.draft.reject_reason = None
      /\ q.draft.signals.attempts = session[s].signals.attempts + 1
      /\ Evidence(q.draft.signals) /\ ~q.draft.signals.high_risk_country
  BY <1>1, <1>2, <1>3 DEF DraftOK, RequestOK
<1>9. SessionOK(s)'
  <2>1. RowOK(s)'
    <3>1. Enrolled(<<user[session[s].user].country, session[s].signals.person_seed>>)'
      BY <1>4, <1>6 DEF Enrolled
    <3>2. Evidence(session[s].signals)'
      BY <1>4, <1>8 DEF Evidence, FaceMatch
    <3> QED
      BY <3>1, <3>2, <1>3, <1>4, <1>5, <1>8, NoneAssumption DEF SessionOK, RowOK
  <2>2. QueueOK(s)' /\ ReviewedOK(s)'
    <3>1. ~Is(s, "pending_review") /\ ~Is(s, "pending_review")'
          /\ ~session'[s].signals.high_risk_country
      BY <1>4, <1>8 DEF Is, NotDecided
    <3> QED
      BY <3>1, <1>2, <1>3 DEF SessionOK, QueueOK, ReviewedOK, Pending
  <2> QED
    BY <2>1, <2>2 DEF SessionOK
<1> QED
  BY <1>1, <1>2, <1>6, <1>7, <1>9, CloseSerial, SerialFrame

\* Both verdicts resolve the one open item of the session.
Resolves(r, s, x) ==
    /\ InFlight(r) /\ req[r].item # 0 /\ s = req[r].session
    /\ queue' = [queue EXCEPT ![req[r].item].resolution = x]

LEMMA ItemResolved ==
    ASSUME Typed, Serial, NEW r \in Requests, NEW s \in Sessions,
           NEW x \in {"approve", "reject"}, Resolves(r, s, x)
    PROVE  /\ Is(s, "pending_review")
           /\ Pending(s)' = {}
           /\ \E i \in DOMAIN queue' : queue'[i] = [session |-> s, resolution |-> x]
           /\ (\A y \in Sessions \ {s} : session'[y] = session[y] /\ decisions'[y] = decisions[y])
                  => OnlyConcerns(s)
<1> USE DEF Resolves
<1>1. PICK i \in DOMAIN queue :
          i = req[r].item /\ queue[i] = Unresolved(s) /\ SessionOK(s)
  BY InFlightFacts DEF RequestOK, DraftOK
<1>2. Is(s, "pending_review") /\ Pending(s) = {i}
  BY <1>1, OpenItem
<1>3. /\ DOMAIN queue' = DOMAIN queue
      /\ \A j \in DOMAIN queue \ {i} : queue'[j] = queue[j]
      /\ queue'[i] = [session |-> s, resolution |-> x]
      /\ Pending(s)' = Pending(s) \ {i}
  <2>1. queue \in Seq(ReviewItem)
    BY DEF Typed, TypeOK
  <2>2. /\ DOMAIN queue' = DOMAIN queue
        /\ \A j \in DOMAIN queue \ {i} : queue'[j] = queue[j]
        /\ queue'[i] = [session |-> s, resolution |-> x]
    BY <1>1, <2>1 DEF Unresolved
  <2> QED
    BY <1>1, <2>2, NoneAssumption DEF Pending
<1> QED
  BY <1>1, <1>2, <1>3 DEF OnlyConcerns, Unresolved

LEMMA CommitReviewApprovalSerial ==
    ASSUME Typed, Safe, Serial, NEW r \in Requests, CommitReviewApproval(r)
    PROVE  Serial'
<1> DEFINE q == req[r]
<1>1. PICK s \in Sessions : s = q.session
  BY InFlightFacts DEF CommitReviewApproval, InFlight
<1>2. /\ InFlight(r) /\ q.pc = "enrolling" /\ q.item # 0 /\ Close(r)
      /\ FinalizeIdentity(q) /\ UNCHANGED decisions
      /\ queue' = [queue EXCEPT ![q.item].resolution = "approve"]
      /\ session' = [session EXCEPT ![s] = Flush(@, q.loaded, q.draft)]
  BY <1>1 DEF CommitReviewApproval, FinalizeIdentity, InFlight
<1>3. /\ session[s] # None /\ SessionOK(s) /\ DraftOK(r) /\ RequestOK(r)
      /\ q.draft \in SessionRow
  BY <1>1, <1>2, InFlightFacts
<1>4. session'[s] = q.draft /\ \A x \in Sessions \ {s} : session'[x] = session[x]
  BY <1>1, <1>2, DraftCommitted
<1>5. /\ Pending(s)' = {} /\ OnlyConcerns(s)
      /\ \E i \in DOMAIN queue' : queue'[i] = [session |-> s, resolution |-> "approve"]
  <2>1. Resolves(r, s, "approve")
    BY <1>1, <1>2 DEF Resolves
  <2>2. \A y \in Sessions \ {s} : session'[y] = session[y] /\ decisions'[y] = decisions[y]
    BY <1>2, <1>4
  <2> QED
    BY <2>1, <2>2, ItemResolved
<1>6. Grows /\ \E i \in identity' :
          i.hash = <<user'[q.draft.user].country, q.draft.signals.person_seed>>
  BY <1>2, ApprovalEnrols
<1>7. /\ q.draft.status = "approved" /\ q.draft.decision = "approve"
      /\ q.draft.reject_reason = None
      /\ q.draft.signals = session[s].signals
      /\ Evidence(q.draft.signals)
  BY <1>1, <1>2, <1>3 DEF DraftOK, RequestOK
<1>8. SessionOK(s)'
  <2>1. RowOK(s)'
    <3>1. Enrolled(<<user[session[s].user].country, session[s].signals.person_seed>>)'
      BY <1>4, <1>6 DEF Enrolled
    <3>2. Evidence(session[s].signals)'
      BY <1>4, <1>7 DEF Evidence, FaceMatch
    <3>3. session'[s] # None /\ q.draft.signals.attempts = decisions'[s]
      BY <1>2, <1>3, <1>4, <1>7, NoneAssumption DEF SessionOK, RowOK
    <3> HIDE DEF q
    <3> QED
      BY <3>1, <3>2, <3>3, <1>4, <1>7 DEF RowOK
  <2>2. ~Is(s, "pending_review")'
    BY <1>4, <1>7 DEF Is
  <2> QED
    BY <2>1, <2>2, <1>5 DEF SessionOK, QueueOK, ReviewedOK
<1> QED
  BY <1>1, <1>2, <1>5, <1>6, <1>8, CloseSerial, SerialFrame

LEMMA ReviewRejectSerial ==
    ASSUME Typed, Serial, NEW r \in Requests, ReviewReject(r)
    PROVE  Serial'
<1> DEFINE q == req[r]
<1>1. PICK s \in Sessions : s = q.session
  BY InFlightFacts DEF ReviewReject, InFlight
<1>2. /\ InFlight(r) /\ q.pc = "resolving" /\ q.draft.status = "rejected" /\ Close(r)
      /\ queue' = [queue EXCEPT ![q.item].resolution = "reject"]
      /\ session' = [session EXCEPT ![s] = Flush(@, q.loaded, q.draft)]
      /\ UNCHANGED <<user, identity, decisions>>
  BY <1>1 DEF ReviewReject, InFlight
<1>3. /\ session[s] # None /\ SessionOK(s) /\ DraftOK(r) /\ RequestOK(r)
      /\ session[s] \in SessionRow /\ q.draft \in SessionRow
  BY <1>1, <1>2, InFlightFacts
<1>4. session'[s] = q.draft /\ \A x \in Sessions \ {s} : session'[x] = session[x]
  BY <1>1, <1>2, DraftCommitted
<1>5. q.item # 0 /\ \E x \in {"approve", "reject"} : q.draft = Resolved(session[s], x)
  BY <1>1, <1>2, <1>3 DEF RequestOK, DraftOK
<1>6. q.draft = Resolved(session[s], "reject")
  BY <1>2, <1>3, <1>5, ResolvedRow
<1>7. /\ q.draft.decision = "reject" /\ q.draft.reject_reason # None
      /\ q.draft.signals = session[s].signals
  BY <1>3, <1>6, NoneAssumption DEF Resolved, SessionRow, Reasons
<1>8. /\ Pending(s)' = {} /\ OnlyConcerns(s)
  <2>1. Resolves(r, s, "reject")
    BY <1>1, <1>2, <1>5 DEF Resolves
  <2>2. \A y \in Sessions \ {s} : session'[y] = session[y] /\ decisions'[y] = decisions[y]
    BY <1>2, <1>4
  <2> HIDE DEF q
  <2> QED
    BY <2>1, <2>2, ItemResolved
<1>9. SessionOK(s)'
  <2>1. RowOK(s)'
    BY <1>2, <1>3, <1>4, <1>7, NoneAssumption DEF SessionOK, RowOK
  <2>2. ~Is(s, "pending_review")' /\ ~Is(s, "approved")'
    BY <1>2, <1>4 DEF Is
  <2> QED
    BY <2>1, <2>2, <1>8 DEF SessionOK, QueueOK, ReviewedOK
<1>10. Grows
  BY <1>2 DEF Grows
<1> QED
  BY <1>1, <1>2, <1>8, <1>9, <1>10, CloseSerial, SerialFrame

-----------------------------------------------------------------------------

LEMMA InitSerial == Init => Serial
BY DEF Init, Serial, Alone, DraftOK, SessionOK, RowOK, QueueOK, ReviewedOK, Is, Pending,
       InFlight, Idle

LEMMA NextSerial ==
    ASSUME Serialised, Typed, Safe, Serial, [Next]_vars
    PROVE  Serial'
<1>1. CASE Arrive
  BY <1>1, ArriveSerial
<1>2. ASSUME NEW r \in Requests, Step(r) \/ Abort(r)
      PROVE  Serial'
  BY <1>2, RollbackSerial, CommitPassportSerial, SearchSerial, DecideRejectSerial,
     DecideReviewSerial, LookupSerial, CommitApprovalSerial, CommitReviewApprovalSerial,
     ReviewRejectSerial DEF Step
<1>3. CASE UNCHANGED vars
  BY <1>3, SerialStutter DEF vars
<1> QED
  BY <1>1, <1>2, <1>3 DEF Next

LEMMA AlwaysSerial == Serialised => (Spec => []Serial)
<1> SUFFICES ASSUME Serialised PROVE Spec => []Serial
  OBVIOUS
<1>1. Typed /\ Safe /\ Serial /\ [Next]_vars => Serial'
  BY NextSerial
<1> QED
  BY <1>1, InitSerial, AlwaysTyped, AlwaysSafe, PTL DEF Spec

-----------------------------------------------------------------------------
(* The invariants.                                                         *)

LEMMA SerialImplies ==
    ASSUME Typed, Serial
    PROVE  /\ ReviewMatchesSession
           /\ AttemptsCounted
           /\ ApprovedIsEvidenced
           /\ ColumnsAgree
           /\ HighRiskIsReviewed
<1>1. ReviewMatchesSession
  <2> SUFFICES ASSUME NEW s \in Sessions
               PROVE  Cardinality(Pending(s)) = IF Is(s, "pending_review") THEN 1 ELSE 0
    BY DEF ReviewMatchesSession
  <2>1. QueueOK(s)
    BY DEF Serial, SessionOK
  <2>2. CASE Is(s, "pending_review")
    BY <2>1, <2>2, FS_Singleton DEF QueueOK
  <2>3. CASE ~Is(s, "pending_review")
    BY <2>1, <2>3, FS_EmptySet DEF QueueOK
  <2> QED
    BY <2>2, <2>3
<1>2. AttemptsCounted
  BY DEF AttemptsCounted, Serial, SessionOK, RowOK
<1>3. ColumnsAgree
  BY DEF ColumnsAgree, Serial, SessionOK, RowOK
<1>4. ApprovedIsEvidenced
  <2> SUFFICES ASSUME NEW s \in Sessions, Is(s, "approved")
               PROVE  LET row == session[s] IN
                      /\ row.signals.mrz_valid /\ FaceMatch(row.signals)
                      /\ Enrolled(<<user[row.user].country, row.signals.person_seed>>)
                      /\ row.reject_reason = None
    BY DEF ApprovedIsEvidenced
  <2> QED
    BY DEF Serial, SessionOK, RowOK, Is, Evidence
<1>5. HighRiskIsReviewed
  BY DEF HighRiskIsReviewed, Serial, SessionOK, ReviewedOK
<1> QED
  BY <1>1, <1>2, <1>3, <1>4, <1>5

LEMMA AlwaysTypedSerial == Serialised => (Spec => [](Typed /\ Serial))
<1> SUFFICES ASSUME Serialised PROVE Spec => [](Typed /\ Serial)
  OBVIOUS
<1>1. Spec => []Serial
  BY AlwaysSerial
<1> QED
  BY <1>1, AlwaysTyped, PTL

\* The queue and the session rows, written by different handlers, agree: exactly
\* the sessions in manual review have an open item, and they have one.
THEOREM QueueMatchesSessions == Serialised => (Spec => []ReviewMatchesSession)
<1> SUFFICES ASSUME Serialised PROVE Spec => []ReviewMatchesSession
  OBVIOUS
<1>1. Spec => [](Typed /\ Serial)
  BY AlwaysTypedSerial
<1>2. Typed /\ Serial => ReviewMatchesSession
  BY SerialImplies
<1> QED
  BY <1>1, <1>2, PTL

\* Every decision of the audit log is counted against the retry budget, and
\* nothing else is: the counter travels in a JSON column that other handlers
\* replace as a whole.
THEOREM DecisionsCounted == Serialised => (Spec => []AttemptsCounted)
<1> SUFFICES ASSUME Serialised PROVE Spec => []AttemptsCounted
  OBVIOUS
<1>1. Spec => [](Typed /\ Serial)
  BY AlwaysTypedSerial
<1>2. Typed /\ Serial => AttemptsCounted
  BY SerialImplies
<1> QED
  BY <1>1, <1>2, PTL

\* What an approved row shows is what was checked when it was decided, by the
\* engine or, later, by a reviewer: passport, face, enrolled person.
THEOREM ApprovalEvidenced == Serialised => (Spec => []ApprovedIsEvidenced)
<1> SUFFICES ASSUME Serialised PROVE Spec => []ApprovedIsEvidenced
  OBVIOUS
<1>1. Spec => [](Typed /\ Serial)
  BY AlwaysTypedSerial
<1>2. Typed /\ Serial => ApprovedIsEvidenced
  BY SerialImplies
<1> QED
  BY <1>1, <1>2, PTL

\* status, decision and reject_reason agree although each handler writes only
\* the columns it changed.
THEOREM ColumnsAlwaysAgree == Serialised => (Spec => []ColumnsAgree)
<1> SUFFICES ASSUME Serialised PROVE Spec => []ColumnsAgree
  OBVIOUS
<1>1. Spec => [](Typed /\ Serial)
  BY AlwaysTypedSerial
<1>2. Typed /\ Serial => ColumnsAgree
  BY SerialImplies
<1> QED
  BY <1>1, <1>2, PTL

\* No passport and no retry gets a session of a high-risk country approved
\* without a reviewer.
THEOREM HighRiskReviewed == Serialised => (Spec => []HighRiskIsReviewed)
<1> SUFFICES ASSUME Serialised PROVE Spec => []HighRiskIsReviewed
  OBVIOUS
<1>1. Spec => [](Typed /\ Serial)
  BY AlwaysTypedSerial
<1>2. Typed /\ Serial => HighRiskIsReviewed
  BY SerialImplies
<1> QED
  BY <1>1, <1>2, PTL

-----------------------------------------------------------------------------
(* Approval is final.                                                      *)

\* Whoever is in flight on a session, the session is not approved.
LEMMA NoWorkOnApproved ==
    ASSUME Typed, Serial, NEW r \in Requests, InFlight(r)
    PROVE  ~Is(req[r].session, "approved")
<1>1. DraftOK(r) /\ RequestOK(r) /\ SessionOK(req[r].session)
  BY InFlightFacts
<1>2. CASE req[r].item = 0
  BY <1>1, <1>2 DEF DraftOK, Is, NotDecided
<1>3. CASE req[r].item # 0
  <2>1. Is(req[r].session, "pending_review")
    BY <1>1, <1>3, OpenItem DEF DraftOK, RequestOK
  <2> QED
    BY <2>1 DEF Is
<1> QED
  BY <1>2, <1>3

\* A request writes the row of its own session only.
LEMMA OwnRowOnly ==
    ASSUME Typed, NEW r \in Requests, Step(r) \/ Abort(r)
    PROVE  /\ InFlight(r)
           /\ \A x \in Sessions \ {req[r].session} : session'[x] = session[x]
<1>1. InFlight(r)
  BY DEF Step, Abort, CommitPassport, Search, DecideReject, DecideReview, DecideApprove,
         CommitApproval, Conflict, ReviewApprove, CommitReviewApproval, ReviewReject,
         KeyError, InFlight
<1>2. session' = session \/ \E row : session' = [session EXCEPT ![req[r].session] = row]
  BY DEF Step, Abort, CommitPassport, Search, DecideReject, DecideReview, DecideApprove,
         CommitApproval, Conflict, ReviewApprove, CommitReviewApproval, ReviewReject,
         KeyError, FinalizeIdentity
<1> QED
  BY <1>1, <1>2 DEF Typed, TypeOK

\* What a client, a reviewer or the clock starts enrols nobody and writes no row
\* but a new one.
LEMMA ArriveFrame ==
    ASSUME Arrive
    PROVE  /\ UNCHANGED identity
           /\ \/ UNCHANGED session
              \/ \E x \in Sessions : \E row :
                    session[x] = None /\ session' = [session EXCEPT ![x] = row]
<1>1. ASSUME NEW w \in Wallets, NEW c \in Countries, NEW p \in Phones, NEW d \in Devices,
             NEW x \in Sessions, Onboard(w, c, p, d, x)
      PROVE  /\ UNCHANGED identity
             /\ session[x] = None /\ \E row : session' = [session EXCEPT ![x] = row]
  BY <1>1 DEF Onboard
<1>2. ASSUME NEW n \in Nonces, IssueChallenge(n) \/ ExpireChallenge(n)
      PROVE  UNCHANGED <<identity, session>>
  BY <1>2 DEF IssueChallenge, ExpireChallenge
<1>3. ASSUME NEW r \in Requests, NEW s \in Sessions, NEW p \in Passports,
             SubmitPassport(r, s, p)
      PROVE  UNCHANGED <<identity, session>>
  BY <1>3 DEF SubmitPassport, OpenPassport
<1>4. ASSUME NEW r \in Requests, NEW s \in Sessions, SubmitOtherDocument(r, s)
      PROVE  UNCHANGED <<identity, session>>
  BY <1>4 DEF SubmitOtherDocument, OpenPassport
<1>5. ASSUME NEW r \in Requests, NEW s \in Sessions, NEW seed \in Seeds, NEW n \in Nonces,
             NEW framesOk \in BOOLEAN, NEW score \in MatchScores,
             SubmitBiometrics(r, s, seed, n, framesOk, score)
      PROVE  UNCHANGED <<identity, session>>
  BY <1>5 DEF SubmitBiometrics
<1>6. ASSUME NEW r \in Requests, NEW i \in DOMAIN queue, NEW x \in {"approve", "reject"},
             OpenReview(r, i, x)
      PROVE  UNCHANGED <<identity, session>>
  BY <1>6 DEF OpenReview
<1> QED
  BY <1>1, <1>2, <1>3, <1>4, <1>5, <1>6 DEF Arrive

LEMMA ApprovedKept ==
    ASSUME Typed, Serial, [Next]_vars, NEW s \in Sessions, Is(s, "approved")
    PROVE  session'[s] = session[s]
<1>1. CASE Arrive
  <2>1. session[s] # None
    BY DEF Is
  <2> QED
    BY <1>1, <2>1, ArriveFrame DEF Typed, TypeOK
<1>2. ASSUME NEW r \in Requests, Step(r) \/ Abort(r)
      PROVE  session'[s] = session[s]
  BY <1>2, OwnRowOnly, NoWorkOnApproved
<1>3. CASE UNCHANGED vars
  BY <1>3 DEF vars
<1> QED
  BY <1>1, <1>2, <1>3 DEF Next

\* Once approved, a row is never written again, by no retry, no new passport and
\* no reviewer.
THEOREM ApprovalIsFinal == Serialised => (Spec => ApprovedForever)
<1> SUFFICES ASSUME Serialised PROVE Spec => ApprovedForever
  OBVIOUS
<1>1. Spec => [](Typed /\ Serial)
  BY AlwaysTypedSerial
<1>2. Typed /\ Serial /\ [Next]_vars
        => [\A s \in Sessions : Is(s, "approved") => session'[s] = session[s]]_vars
  BY ApprovedKept
<1> QED
  BY <1>1, <1>2, PTL DEF Spec, ApprovedForever

-----------------------------------------------------------------------------
(* The service implements SessionLifecycle.  The attempts of the lifecycle *)
(* are the decisions of the audit log, so a step that logs a decision is an *)
(* Attempt, and a step that logs none has to keep the phase, unless it      *)
(* resolves a review.                                                      *)

PhaseOf(row) ==
    IF row.status = "approved" THEN "approved"
    ELSE IF row.status = "pending_review" THEN "review" ELSE "open"

LEMMA AttemptsAreDecisions ==
    /\ Typed /\ Serial => Attempts = decisions
    /\ Typed' /\ Serial' => Attempts' = decisions'
<1>1. Typed /\ Serial => Attempts = decisions
  BY DEF Attempts, Typed, TypeOK, Serial, SessionOK, RowOK
<1>2. (Typed /\ Serial => Attempts = decisions)'
  BY <1>1, PTL
<1> QED
  BY <1>1, <1>2

LEMMA PhaseKept ==
    ASSUME UNCHANGED session
    PROVE  Phase' = Phase
BY DEF Phase

LEMMA PhaseWritten ==
    ASSUME NEW s \in Sessions, session'[s] # None,
           \A x \in Sessions \ {s} : session'[x] = session[x]
    PROVE  Phase' = [Phase EXCEPT ![s] = PhaseOf(session'[s])]
BY DEF Phase, PhaseOf

\* A request that is not a review works on an open session.
LEMMA OpenPhase ==
    ASSUME Typed, Serial, NEW r \in Requests, InFlight(r),
           NEW s \in Sessions, s = req[r].session
    PROVE  /\ req[r].item = 0 => Phase[s] = "open"
           /\ req[r].item # 0 => Phase[s] = "review"
<1>1. /\ DraftOK(r) /\ RequestOK(r) /\ SessionOK(s) /\ session[s] # None
  BY InFlightFacts
<1>2. CASE req[r].item = 0
  BY <1>1, <1>2 DEF DraftOK, NotDecided, Phase
<1>3. CASE req[r].item # 0
  <2>1. Is(s, "pending_review")
    BY <1>1, <1>3, OpenItem DEF DraftOK, RequestOK
  <2> QED
    BY <1>3, <2>1 DEF Is, Phase
<1> QED
  BY <1>2, <1>3

\* A logged decision that leaves the session in a phase is an attempt with that outcome.
LEMMA AttemptStep ==
    ASSUME Typed, Serial, Typed', Serial', NEW r \in Requests, InFlight(r),
           NEW s \in Sessions, s = req[r].session, req[r].item = 0, req[r].pc # "passport",
           LogDecision(s), session'[s] # None,
           \A x \in Sessions \ {s} : session'[x] = session[x]
    PROVE  Lifecycle!Attempt(s, PhaseOf(session'[s]))
<1>1. Phase[s] = "open" /\ Phase' = [Phase EXCEPT ![s] = PhaseOf(session'[s])]
  BY OpenPhase, PhaseWritten
<1>2. Attempts = decisions /\ Attempts' = decisions'
  BY AttemptsAreDecisions
<1>3. decisions' = [decisions EXCEPT ![s] = @ + 1]
  BY DEF LogDecision
<1>4. Attempts[s] < MaxAttempts
  <2>1. DraftOK(r) /\ session[s] # None
    BY InFlightFacts
  <2> QED
    BY <2>1 DEF DraftOK, Attempts
<1> QED
  BY <1>1, <1>2, <1>3, <1>4 DEF Lifecycle!Attempt

LEMMA DecideSteps ==
    ASSUME Typed, Serial, Typed', Serial', NEW r \in Requests,
           DecideReject(r) \/ DecideReview(r)
    PROVE  Lifecycle!Next
<1> DEFINE q == req[r]
           rejected == [q.draft EXCEPT !.status = "rejected", !.decision = "reject",
                                       !.reject_reason = RejectReason(q)]
           reviewed == [q.draft EXCEPT !.status = "pending_review", !.decision = "review"]
<1>1. InFlight(r) /\ q.pc = "searched"
  BY DEF DecideReject, DecideReview, InFlight
<1>2. PICK s \in Sessions : s = q.session
  BY <1>1, InFlightFacts
<1>3. q.draft \in SessionRow /\ q.item = 0
  BY <1>1, InFlightFacts DEF DraftOK
<1>4. /\ rejected \in SessionRow /\ rejected.user = q.draft.user /\ rejected # None
      /\ reviewed \in SessionRow /\ reviewed.user = q.draft.user /\ reviewed # None
      /\ rejected.status = "rejected" /\ reviewed.status = "pending_review"
  <2>1. RejectReason(q) \in Reasons
    BY DEF RejectReason, Reasons
  <2>2. rejected \in SessionRow /\ reviewed \in SessionRow
    BY <1>3, <2>1, DecidedRow
  <2> QED
    BY <2>2, <1>3, NoneAssumption DEF SessionRow
<1>5. PhaseOf(rejected) = "open" /\ PhaseOf(reviewed) = "review"
  <2> HIDE DEF rejected, reviewed
  <2> QED BY <1>4 DEF PhaseOf
<1>6. CASE DecideReject(r)
  <2>1. /\ session' = [session EXCEPT ![s] = FlushDecision(session[s], q, rejected)]
        /\ LogDecision(s)
    BY <1>2, <1>6 DEF DecideReject
  <2> HIDE DEF rejected
  <2>2. session'[s] = rejected /\ \A x \in Sessions \ {s} : session'[x] = session[x]
    <3>1. Decides(r, s, rejected)
      BY <1>1, <1>2, <1>4, <2>1 DEF Decides
    <3> QED
      BY <3>1, DecisionCommitted
  <2>3. Lifecycle!Attempt(s, "open")
    BY <1>1, <1>2, <1>3, <1>4, <1>5, <2>1, <2>2, AttemptStep
  <2> QED
    BY <2>3 DEF Lifecycle!Next
<1>7. CASE DecideReview(r)
  <2>1. /\ session' = [session EXCEPT ![s] = FlushDecision(session[s], q, reviewed)]
        /\ LogDecision(s)
    BY <1>2, <1>7 DEF DecideReview
  <2> HIDE DEF reviewed
  <2>2. session'[s] = reviewed /\ \A x \in Sessions \ {s} : session'[x] = session[x]
    <3>1. Decides(r, s, reviewed)
      BY <1>1, <1>2, <1>4, <2>1 DEF Decides
    <3> QED
      BY <3>1, DecisionCommitted
  <2>3. Lifecycle!Attempt(s, "review")
    BY <1>1, <1>2, <1>3, <1>4, <1>5, <2>1, <2>2, AttemptStep
  <2> QED
    BY <2>3 DEF Lifecycle!Next
<1> QED
  BY <1>6, <1>7

LEMMA CommitSteps ==
    ASSUME Typed, Serial, Typed', Serial', NEW r \in Requests,
           CommitPassport(r) \/ CommitApproval(r) \/ CommitReviewApproval(r) \/ ReviewReject(r)
    PROVE  Lifecycle!Next \/ UNCHANGED Lifecycle!vars
<1> DEFINE q == req[r]
<1>1. InFlight(r)
  BY DEF CommitPassport, CommitApproval, CommitReviewApproval, ReviewReject, InFlight
<1>2. PICK s \in Sessions : s = q.session
  BY <1>1, InFlightFacts
<1>3. session' = [session EXCEPT ![s] = Flush(session[s], q.loaded, q.draft)]
  BY <1>2 DEF CommitPassport, CommitApproval, CommitReviewApproval, ReviewReject,
              FinalizeIdentity
<1>4. session'[s] = q.draft /\ \A x \in Sessions \ {s} : session'[x] = session[x]
  BY <1>1, <1>2, <1>3, DraftCommitted
<1>5. RequestOK(r) /\ DraftOK(r) /\ session'[s] # None
  BY <1>1, <1>4, InFlightFacts, NoneAssumption
<1>6. Phase' = [Phase EXCEPT ![s] = PhaseOf(q.draft)]
  BY <1>4, <1>5, PhaseWritten
<1>7. UNCHANGED decisions => UNCHANGED Attempts
  BY AttemptsAreDecisions
<1>8. CASE CommitPassport(r)
  <2>1. q.draft.status = "documents_submitted" /\ q.item = 0 /\ UNCHANGED decisions
    BY <1>5, <1>8 DEF CommitPassport, RequestOK, DraftOK, InFlight
  <2>2. PhaseOf(q.draft) = "open" /\ Phase[s] = "open"
    BY <1>1, <1>2, <2>1, OpenPhase DEF PhaseOf
  <2>3. Phase' = Phase
    BY <1>6, <2>2 DEF Phase
  <2> QED
    BY <1>7, <2>1, <2>3 DEF Lifecycle!vars
<1>9. CASE CommitApproval(r)
  <2>1. /\ q.draft.status = "approved" /\ q.item = 0 /\ q.pc = "enrolling"
        /\ LogDecision(s)
    BY <1>2, <1>5, <1>9 DEF CommitApproval, RequestOK, InFlight
  <2>2. PhaseOf(session'[s]) = "approved"
    BY <1>4, <2>1 DEF PhaseOf
  <2>3. Lifecycle!Attempt(s, "approved")
    BY <1>1, <1>2, <1>4, <1>5, <2>1, <2>2, AttemptStep
  <2> QED
    BY <2>3 DEF Lifecycle!Next
<1>10. ASSUME q.item # 0, UNCHANGED decisions, PhaseOf(q.draft) \in {"open", "approved"}
       PROVE  Lifecycle!Next
  <2>1. Phase[s] = "review"
    BY <1>1, <1>2, <1>10, OpenPhase
  <2>2. Lifecycle!Resolve(s, PhaseOf(q.draft))
    BY <1>6, <1>7, <1>10, <2>1 DEF Lifecycle!Resolve
  <2> QED
    BY <1>10, <2>2 DEF Lifecycle!Next
<1>11. CASE CommitReviewApproval(r)
  BY <1>5, <1>10, <1>11 DEF CommitReviewApproval, RequestOK, InFlight, PhaseOf
<1>12. CASE ReviewReject(r)
  BY <1>5, <1>10, <1>12 DEF ReviewReject, RequestOK, InFlight, PhaseOf
<1> QED
  BY <1>8, <1>9, <1>11, <1>12

LEMMA OnboardStep ==
    ASSUME Typed, Serial, Typed', Serial', NEW w \in Wallets, NEW c \in Countries,
           NEW p \in Phones, NEW d \in Devices, NEW s \in Sessions, Onboard(w, c, p, d, s)
    PROVE  Lifecycle!Next
<1> DEFINE signals == [device_risk |-> DeviceRisk(w, p, d),
                       high_risk_country |-> c \in HighRisk,
                       mrz_valid |-> FALSE, passport_seed |-> None,
                       passport_hash |-> None, person_seed |-> None, attempts |-> 0]
           row == [user |-> w, status |-> "started", decision |-> None,
                   reject_reason |-> None, signals |-> signals]
<1>1. /\ session[s] = None /\ session' = [session EXCEPT ![s] = row]
      /\ UNCHANGED decisions
  BY DEF Onboard
<1>2. row.status = "started"
  OBVIOUS
<1> HIDE DEF row
<1>3. session'[s] = row /\ \A x \in Sessions \ {s} : session'[x] = session[x]
  BY <1>1 DEF Typed, TypeOK
<1>4. session'[s] # None
  <2>1. row \in SessionRow
    BY NumberAssumption DEF row, SessionRow, Signals, Statuses, DeviceRisk
  <2> QED
    BY <2>1, <1>3, NoneAssumption
<1>5. Phase[s] = "absent" /\ Phase' = [Phase EXCEPT ![s] = "open"]
  BY <1>1, <1>2, <1>3, <1>4, PhaseWritten DEF PhaseOf, Phase
<1>6. UNCHANGED Attempts
  BY <1>1, AttemptsAreDecisions
<1> QED
  BY <1>5, <1>6 DEF Lifecycle!Next, Lifecycle!Create

LEMMA LifecycleInit == Init => Lifecycle!Init
BY DEF Init, Lifecycle!Init, Phase, Attempts

LEMMA LifecycleNext ==
    ASSUME Serialised, Typed, Safe, Serial, Typed', Serial', [Next]_vars
    PROVE  Lifecycle!Next \/ UNCHANGED Lifecycle!vars
<1>1. ASSUME UNCHANGED <<session, decisions>>
      PROVE  UNCHANGED Lifecycle!vars
  BY <1>1, PhaseKept, AttemptsAreDecisions DEF Lifecycle!vars
<1>2. CASE Arrive
  <2>1. CASE \E w \in Wallets, c \in Countries, p \in Phones, d \in Devices, s \in Sessions :
                 Onboard(w, c, p, d, s)
    BY <2>1, OnboardStep
  <2>2. ASSUME NEW n \in Nonces, IssueChallenge(n) \/ ExpireChallenge(n)
        PROVE  UNCHANGED <<session, decisions>>
    BY <2>2 DEF IssueChallenge, ExpireChallenge
  <2>3. ASSUME NEW r \in Requests, NEW s \in Sessions, NEW p \in Passports,
               SubmitPassport(r, s, p)
        PROVE  UNCHANGED <<session, decisions>>
    BY <2>3 DEF SubmitPassport, OpenPassport
  <2>4. ASSUME NEW r \in Requests, NEW s \in Sessions, SubmitOtherDocument(r, s)
        PROVE  UNCHANGED <<session, decisions>>
    BY <2>4 DEF SubmitOtherDocument, OpenPassport
  <2>5. ASSUME NEW r \in Requests, NEW s \in Sessions, NEW seed \in Seeds, NEW n \in Nonces,
               NEW framesOk \in BOOLEAN, NEW score \in MatchScores,
               SubmitBiometrics(r, s, seed, n, framesOk, score)
        PROVE  UNCHANGED <<session, decisions>>
    BY <2>5 DEF SubmitBiometrics
  <2>6. ASSUME NEW r \in Requests, NEW i \in DOMAIN queue, NEW x \in {"approve", "reject"},
               OpenReview(r, i, x)
        PROVE  UNCHANGED <<session, decisions>>
    BY <2>6 DEF OpenReview
  <2>7. \/ \E w \in Wallets, c \in Countries, p \in Phones, d \in Devices, s \in Sessions :
               Onboard(w, c, p, d, s)
        \/ UNCHANGED <<session, decisions>>
    BY <1>2, <2>2, <2>3, <2>4, <2>5, <2>6 DEF Arrive
  <2> QED
    BY <1>1, <2>1, <2>7
<1>3. ASSUME NEW r \in Requests, Step(r) \/ Abort(r)
      PROVE  Lifecycle!Next \/ UNCHANGED Lifecycle!vars
  <2>1. CASE Abort(r) \/ Conflict(r) \/ KeyError(r) \/ Search(r)
             \/ DecideApprove(r) \/ ReviewApprove(r)
    BY <1>1, <2>1 DEF Abort, Conflict, KeyError, Search, DecideApprove, ReviewApprove
  <2> QED
    BY <1>3, <2>1, DecideSteps, CommitSteps DEF Step
<1>4. CASE UNCHANGED vars
  BY <1>1, <1>4 DEF vars
<1> QED
  BY <1>2, <1>3, <1>4 DEF Next

\* The service, with all its rows, copies and locks, is a lifecycle of phases:
\* each decision costs one attempt in the same step, only a reviewer ends a review.
THEOREM LifecycleImplemented == Serialised => (Spec => ImplementsLifecycle)
<1> SUFFICES ASSUME Serialised PROVE Spec => ImplementsLifecycle
  OBVIOUS
<1>1. Spec => []Serial
  BY AlwaysSerial
<1>2. Typed /\ Safe /\ Serial /\ Typed' /\ Serial' /\ [Next]_vars
        => [Lifecycle!Next]_(Lifecycle!vars)
  BY LifecycleNext
<1> QED
  BY <1>1, <1>2, LifecycleInit, AlwaysTyped, AlwaysSafe, PTL
  DEF Spec, ImplementsLifecycle, Lifecycle!Spec

-----------------------------------------------------------------------------
(* The dedup gate.  An automatic approval acts on a search made in an       *)
(* earlier step; with one request at a time nobody enrols in between.       *)

\* The search of a request that has not committed yet is still what a new search
\* would answer.
SearchHolds(r) ==
    LET q == req[r]
        now == DedupOutcome(FaceOf[q.draft.signals.person_seed])
    IN
    /\ q.pc = "searched" => q.dedup = now
    /\ q.pc = "enrolling" /\ q.item = 0 => now = "clear"

Searched == \A r \in Requests : SearchHolds(r)

LEMMA SearchKept ==
    ASSUME Searched, UNCHANGED identity,
           \A r \in Requests : req'[r] = req[r] \/ req'[r].pc \notin {"searched", "enrolling"}
                                 \/ SearchHolds(r)'
    PROVE  Searched'
<1>1. \A face : DedupOutcome(face)' = DedupOutcome(face)
  BY DEF DedupOutcome
<1>2. ASSUME NEW r \in Requests, req'[r] = req[r]
      PROVE  SearchHolds(r)'
  <2>1. SearchHolds(r)
    BY DEF Searched
  <2>2. DedupOutcome(FaceOf[req[r].draft.signals.person_seed])'
          = DedupOutcome(FaceOf[req[r].draft.signals.person_seed])
    BY <1>1, <1>2 DEF DedupOutcome
  <2> QED
    BY <1>2, <2>1, <2>2 DEF SearchHolds
<1>3. ASSUME NEW r \in Requests, req'[r].pc \notin {"searched", "enrolling"}
      PROVE  SearchHolds(r)'
  BY <1>3 DEF SearchHolds
<1> QED
  BY <1>2, <1>3 DEF Searched

LEMMA ClearIsUnique ==
    ASSUME NEW face, DedupOutcome(face) = "clear", NEW i \in identity
    PROVE  i.template # face /\ {i.template, face} \notin Twins
BY DEF DedupOutcome

LEMMA LookupSearched ==
    ASSUME OneAtATime, Typed, Searched, NEW r \in Requests,
           DecideApprove(r) \/ ReviewApprove(r)
    PROVE  Searched'
<1> DEFINE q == req[r]
           face == FaceOf[q.draft.signals.person_seed]
<1>1. /\ InFlight(r) /\ Lookup(r) /\ UNCHANGED identity
      /\ q \in Request /\ RequestOK(r) /\ SearchHolds(r)
  BY RequestType DEF DecideApprove, ReviewApprove, InFlight, Typed, RequestsOK, Searched
<1>2. q.item = 0 => DedupOutcome(face) = "clear"
  <2>1. CASE DecideApprove(r)
    <3>1. q.dedup \in {"clear", "review", "reject"} /\ q.dedup = DedupOutcome(face)
      BY <1>1, <2>1 DEF DecideApprove, Request, SearchHolds
    <3>2. q.dedup # "reject" /\ q.dedup # "review"
      BY <2>1 DEF DecideApprove, RiskDecision, RoutesToReview
    <3> QED
      BY <3>1, <3>2
  <2>2. CASE ReviewApprove(r)
    BY <1>1, <2>2 DEF ReviewApprove, RequestOK
  <2> QED
    BY <2>1, <2>2
<1>3. /\ req'[r].pc = "enrolling" /\ req'[r].item = q.item
      /\ req'[r].draft.signals = q.draft.signals
      /\ \A x \in Requests \ {r} : req'[x] = req[x]
  BY <1>1, LookupEffect
<1>4. DedupOutcome(FaceOf[req[r].draft.signals.person_seed])' = DedupOutcome(face)
  BY <1>1, <1>3 DEF DedupOutcome
<1>5. SearchHolds(r)'
  BY <1>2, <1>3, <1>4 DEF SearchHolds
<1> QED
  BY <1>1, <1>3, <1>5, SearchKept

LEMMA SearchSearched ==
    ASSUME Typed, Searched, NEW r \in Requests, Search(r)
    PROVE  Searched'
<1> DEFINE q == req[r]
           face == FaceOf[q.draft.signals.person_seed]
           new == [q EXCEPT !.pc = "searched", !.dedup = DedupOutcome(face)]
<1>1. req' = [req EXCEPT ![r] = new] /\ UNCHANGED identity /\ q \in Request
  BY DEF Search, Typed, TypeOK
<1>2. new.pc = "searched" /\ new.dedup = DedupOutcome(face) /\ new.draft = q.draft
  BY <1>1 DEF Request
<1>3. req'[r] = new /\ \A x \in Requests \ {r} : req'[x] = req[x]
  <2> HIDE DEF new
  <2> QED BY <1>1 DEF Typed, TypeOK
<1> HIDE DEF new
<1>4. DedupOutcome(FaceOf[req[r].draft.signals.person_seed])' = DedupOutcome(face)
  BY <1>1, <1>2, <1>3 DEF DedupOutcome
<1>5. SearchHolds(r)'
  BY <1>2, <1>3, <1>4 DEF SearchHolds
<1> QED
  BY <1>1, <1>3, <1>5, SearchKept

LEMMA NextSearched ==
    ASSUME OneAtATime, Typed, Searched, [Next]_vars
    PROVE  Searched'
<1>1. CASE Arrive
  <2>1. UNCHANGED identity
    BY <1>1, ArriveFrame
  <2>2. UNCHANGED req
          \/ \E r \in Requests : \E new :
                 /\ req' = [req EXCEPT ![r] = new]
                 /\ new.pc \in {"passport", "loaded", "resolving"}
    <3>1. ASSUME NEW r \in Requests, NEW s \in Sessions, NEW draft, OpenPassport(r, s, draft)
          PROVE  \E new : /\ req' = [req EXCEPT ![r] = new]
                          /\ new.pc \in {"passport", "loaded", "resolving"}
      <4> DEFINE new == [Idle EXCEPT !.pc = "passport", !.session = s,
                                     !.loaded = session[s], !.draft = draft]
      <4>1. req' = [req EXCEPT ![r] = new] /\ new.pc = "passport"
        BY <3>1 DEF OpenPassport, Idle
      <4> HIDE DEF new
      <4> QED BY <4>1
    <3>2. ASSUME NEW r \in Requests, NEW s \in Sessions, NEW seed \in Seeds, NEW n \in Nonces,
                 NEW framesOk \in BOOLEAN, NEW score \in MatchScores,
                 SubmitBiometrics(r, s, seed, n, framesOk, score)
          PROVE  \E new : /\ req' = [req EXCEPT ![r] = new]
                          /\ new.pc \in {"passport", "loaded", "resolving"}
      <4> DEFINE new == [Idle EXCEPT !.pc = "loaded", !.session = s,
                                     !.loaded = session[s],
                                     !.draft = WithBiometrics(session[s], seed),
                                     !.live = challenge[n] = "open" /\ framesOk,
                                     !.score = score]
      <4>1. req' = [req EXCEPT ![r] = new] /\ new.pc = "loaded"
        BY <3>2 DEF SubmitBiometrics, Idle
      <4> HIDE DEF new
      <4> QED BY <4>1
    <3>3. ASSUME NEW r \in Requests, NEW i \in DOMAIN queue, NEW x \in {"approve", "reject"},
                 OpenReview(r, i, x)
          PROVE  \E new : /\ req' = [req EXCEPT ![r] = new]
                          /\ new.pc \in {"passport", "loaded", "resolving"}
      <4> DEFINE s == queue[i].session
                 new == [Idle EXCEPT !.pc = "resolving", !.session = s, !.item = i,
                                     !.loaded = session[s],
                                     !.draft = Resolved(session[s], x)]
      <4>1. req' = [req EXCEPT ![r] = new] /\ new.pc = "resolving"
        BY <3>3 DEF OpenReview, Idle
      <4> HIDE DEF new
      <4> QED BY <4>1
    <3>4. CASE (\E n \in Nonces : IssueChallenge(n) \/ ExpireChallenge(n))
                 \/ \E w \in Wallets, c \in Countries, p \in Phones, d \in Devices,
                       s \in Sessions : Onboard(w, c, p, d, s)
      BY <3>4 DEF IssueChallenge, ExpireChallenge, Onboard
    <3> QED
      BY <1>1, <3>1, <3>2, <3>3, <3>4 DEF Arrive, SubmitPassport, SubmitOtherDocument
  <2>3. \A q \in Requests :
            req'[q] = req[q] \/ req'[q].pc \notin {"searched", "enrolling"}
    BY <2>2 DEF Typed, TypeOK
  <2> QED
    BY <2>1, <2>3, SearchKept
<1>2. ASSUME NEW r \in Requests, Close(r)
      PROVE  Searched'
  <2>1. \A q \in Requests : q = r
    BY DEF OneAtATime
  <2>2. req'[r].pc = "idle"
    BY <1>2, CloseEffect
  <2> QED
    BY <2>1, <2>2 DEF Searched, SearchHolds
<1>3. ASSUME NEW r \in Requests, Step(r) \/ Abort(r)
      PROVE  Searched'
  <2>1. \/ Close(r) \/ Search(r) \/ DecideApprove(r) \/ ReviewApprove(r)
    BY <1>3 DEF Step, Abort, CommitPassport, DecideReject, DecideReview, CommitApproval,
       Conflict, CommitReviewApproval, ReviewReject, KeyError
  <2> QED
    BY <2>1, <1>2, SearchSearched, LookupSearched
<1>4. CASE UNCHANGED vars
  BY <1>4, SearchKept DEF vars
<1> QED
  BY <1>1, <1>3, <1>4 DEF Next

LEMMA UniqueEnrolment ==
    ASSUME Searched, NEW r \in Requests, CommitApproval(r),
           NEW i \in identity, NEW j \in identity' \ identity
    PROVE  i.template # j.template /\ {i.template, j.template} \notin Twins
<1> DEFINE q == req[r]
           face == FaceOf[q.draft.signals.person_seed]
<1>1. DedupOutcome(face) = "clear"
  BY DEF CommitApproval, Searched, SearchHolds
<1>2. j.template = face
  <2>1. j = [hash |-> IdentityHash(q), document |-> q.draft.signals.passport_hash,
             template |-> face]
    BY DEF CommitApproval, FinalizeIdentity
  <2> QED
    BY <2>1
<1> HIDE DEF face
<1> QED
  BY <1>1, <1>2, ClearIsUnique

\* With one request at a time, what auto-approval enrols has a face that no
\* identity had when it was enrolled, nor one too close to tell apart: the answer
\* of the search is not stale when it is used.
THEOREM AutoApprovalUnique == OneAtATime => (Spec => AutoApprovalIsUnique)
<1> SUFFICES ASSUME OneAtATime PROVE Spec => AutoApprovalIsUnique
  OBVIOUS
<1>1. Init => Searched
  BY DEF Init, Searched, SearchHolds, Idle
<1>2. Typed /\ Searched /\ [Next]_vars => Searched'
  BY NextSearched
<1>3. Searched => [\A r \in Requests :
          CommitApproval(r) => \A i \in identity, j \in identity' \ identity :
              i.template # j.template /\ {i.template, j.template} \notin Twins]_vars
  BY UniqueEnrolment
<1> QED
  BY <1>1, <1>2, <1>3, AlwaysTyped, PTL DEF Spec, AutoApprovalIsUnique
=============================================================================
