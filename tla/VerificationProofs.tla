-------------------------- MODULE VerificationProofs --------------------------
(***************************************************************************)
(* Invariants of Verification for every value of its constants.            *)
(***************************************************************************)
EXTENDS Verification, TLAPS

-----------------------------------------------------------------------------
(* Rows stay rows.                                                         *)

LEMMA FlushRow ==
    ASSUME NEW row \in SessionRow, NEW loaded \in SessionRow, NEW draft \in SessionRow
    PROVE  /\ Flush(row, loaded, draft) \in SessionRow
           /\ Flush(row, loaded, draft).user = row.user
           /\ Flush(row, loaded, draft).status \in {row.status, draft.status}
BY DEF Flush, Net, SessionRow

LEMMA FlushDecisionRow ==
    ASSUME NEW row \in SessionRow, NEW q, NEW decided \in SessionRow,
           q.loaded \in SessionRow, q.draft \in SessionRow
    PROVE  /\ FlushDecision(row, q, decided) \in SessionRow
           /\ FlushDecision(row, q, decided).user = row.user
           /\ FlushDecision(row, q, decided).status
                  \in {row.status, q.draft.status, decided.status}
<1> DEFINE first == Flush(row, q.loaded, q.draft)
<1>1. first \in SessionRow /\ first.user = row.user
      /\ first.status \in {row.status, q.draft.status}
  BY FlushRow
<1>2. FlushDecision(row, q, decided) = Flush(first, q.draft, decided)
  BY DEF FlushDecision
<1> HIDE DEF first
<1> QED
  BY <1>1, <1>2, FlushRow

LEMMA PassportRow ==
    ASSUME NEW row \in SessionRow, NEW p \in Passports
    PROVE  /\ WithPassport(row, p) \in SessionRow
           /\ WithPassport(row, p).user = row.user
           /\ WithPassport(row, p).status = "documents_submitted"
<1> DEFINE hash == IF p.valid THEN p.document ELSE None
           sig == [row.signals EXCEPT !.mrz_valid = p.valid, !.passport_seed = p.seed,
                                      !.passport_hash = hash]
<1>1. /\ p.valid \in BOOLEAN /\ p.seed \in Seeds \cup {None}
      /\ hash \in Documents \cup {None}
  BY PassportAssumption
<1>2. row.signals \in Signals
  BY DEF SessionRow
<1>3. WithPassport(row, p) = [row EXCEPT !.status = "documents_submitted", !.signals = sig]
  BY DEF WithPassport, SessionRow
<1> HIDE DEF hash
<1>4. sig \in Signals
  BY <1>1, <1>2 DEF Signals
<1> HIDE DEF sig
<1> QED
  BY <1>3, <1>4 DEF SessionRow, Statuses

LEMMA OtherDocumentRow ==
    ASSUME NEW row \in SessionRow
    PROVE  /\ WithOtherDocument(row) \in SessionRow
           /\ WithOtherDocument(row).user = row.user
           /\ WithOtherDocument(row).status = "documents_submitted"
BY DEF WithOtherDocument, SessionRow, Signals, Statuses

LEMMA ResolvedRow ==
    ASSUME NEW row \in SessionRow, NEW x \in {"approve", "reject"}
    PROVE  /\ Resolved(row, x) \in SessionRow
           /\ Resolved(row, x).user = row.user
           /\ Resolved(row, x).signals = row.signals
           /\ Resolved(row, x).status = IF x = "approve" THEN "approved" ELSE "rejected"
BY DEF Resolved, SessionRow, Statuses, Reasons

-----------------------------------------------------------------------------
(* Type correctness.  A request in flight holds copies of a row that        *)
(* exists: TypeOK alone does not say so and is not inductive.              *)

InFlight(r) == req[r].pc # "idle"

RequestOK(r) ==
    LET q == req[r] IN
    InFlight(r) =>
        /\ q.session \in Sessions
        /\ session[q.session] # None
        /\ q.loaded \in SessionRow
        /\ q.draft \in SessionRow
        /\ q.draft.user = session[q.session].user
        /\ q.pc = "passport" => q.draft.status = "documents_submitted"
        /\ q.pc \in {"loaded", "searched", "enrolling"} =>
               q.draft.signals.person_seed # None
        /\ q.pc \in {"loaded", "searched"} => q.draft.status = "biometrics_submitted"
        /\ q.pc = "enrolling" => q.draft.status = "approved"
        /\ q.item # 0 => q.item \in DOMAIN queue
        /\ q.pc = "resolving" => q.item # 0

RequestsOK == \A r \in Requests : RequestOK(r)

OwnersOK == \A s \in Sessions : session[s] # None => user[session[s].user] # None

Typed == TypeOK /\ RequestsOK /\ OwnersOK

LEMMA IdleRequest == Idle \in Request
BY DEF Idle, Request

LEMMA InitTyped == Init => Typed
BY IdleRequest DEF Init, Typed, TypeOK, RequestsOK, RequestOK, OwnersOK, InFlight, Idle

\* No row disappears, no session changes hands, no review item is removed.
RowsKept ==
    /\ \A s \in Sessions : session[s] # None =>
           session'[s] # None /\ session'[s].user = session[s].user
    /\ \A w \in Wallets : user[w] # None => user'[w] # None
    /\ DOMAIN queue \subseteq DOMAIN queue'

NewSessionsOwned ==
    \A s \in Sessions : session[s] = None /\ session'[s] # None =>
        user'[session'[s].user] # None

\* A step that keeps the rows and changes no request but r only has to
\* establish the types and what concerns r.
LEMMA Frame ==
    ASSUME Typed, TypeOK', RowsKept, NewSessionsOwned,
           NEW r \in Requests, \A q \in Requests \ {r} : req'[q] = req[q],
           RequestOK(r)'
    PROVE  Typed'
<1>1. OwnersOK'
  <2> SUFFICES ASSUME NEW s \in Sessions, session'[s] # None
               PROVE  user'[session'[s].user] # None
    BY DEF OwnersOK
  <2>1. CASE session[s] = None
    BY <2>1 DEF NewSessionsOwned
  <2>2. CASE session[s] # None
    <3>1. session[s] \in SessionRow /\ session[s].user \in Wallets
      BY <2>2 DEF Typed, TypeOK, SessionRow
    <3> QED
      BY <2>2, <3>1 DEF Typed, OwnersOK, RowsKept
  <2> QED
    BY <2>1, <2>2
<1>2. RequestsOK'
  <2> SUFFICES ASSUME NEW q \in Requests PROVE RequestOK(q)'
    BY DEF RequestsOK
  <2>1. CASE q = r
    BY <2>1
  <2>2. CASE q # r
    <3>1. req'[q] = req[q] /\ RequestOK(q)
      BY <2>2 DEF Typed, RequestsOK
    <3> QED
      BY <3>1 DEF RequestOK, InFlight, RowsKept
  <2> QED
    BY <2>1, <2>2
<1> QED
  BY <1>1, <1>2 DEF Typed

\* The same for a handler that ends.
LEMMA Closing ==
    ASSUME Typed, NEW r \in Requests, Close(r),
           user' \in [Wallets -> User \cup {None}],
           session' \in [Sessions -> SessionRow \cup {None}],
           identity' \subseteq IdentityRecord,
           queue' \in Seq(ReviewItem),
           decisions' \in [Sessions -> Nat],
           challenge' = challenge,
           RowsKept, NewSessionsOwned
    PROVE  Typed'
<1>1. req' \in [Requests -> Request] /\ req'[r] = Idle
      /\ \A q \in Requests \ {r} : req'[q] = req[q]
  BY IdleRequest DEF Close, Typed, TypeOK
<1>2. lock' \in [Sessions -> Requests \cup {None}]
  BY DEF Close, Unlocked, Typed, TypeOK
<1>3. TypeOK'
  BY <1>1, <1>2 DEF Typed, TypeOK
<1>4. RequestOK(r)'
  BY <1>1 DEF RequestOK, InFlight, Idle
<1> QED
  BY <1>1, <1>3, <1>4, Frame

\* The rows of a handler that writes its session and no other one.
LEMMA WriteRow ==
    ASSUME Typed, NEW s \in Sessions, session[s] # None,
           NEW row \in SessionRow, row.user = session[s].user,
           session' = [session EXCEPT ![s] = row]
    PROVE  /\ session' \in [Sessions -> SessionRow \cup {None}]
           /\ session'[s] = row
           /\ \A x \in Sessions : x # s => session'[x] = session[x]
           /\ \A x \in Sessions : session[x] # None =>
                  session'[x] # None /\ session'[x].user = session[x].user
           /\ \A x \in Sessions : session[x] = None => session'[x] = None
<1>1. session \in [Sessions -> SessionRow \cup {None}]
  BY DEF Typed, TypeOK
<1> QED
  BY <1>1, NoneAssumption

LEMMA WriteBack ==
    ASSUME Typed, NEW s \in Sessions, session[s] # None,
           NEW loaded \in SessionRow, NEW draft \in SessionRow,
           session' = [session EXCEPT ![s] = Flush(@, loaded, draft)]
    PROVE  /\ session' \in [Sessions -> SessionRow \cup {None}]
           /\ session'[s] = Flush(session[s], loaded, draft)
           /\ \A x \in Sessions : x # s => session'[x] = session[x]
           /\ \A x \in Sessions : session[x] # None =>
                  session'[x] # None /\ session'[x].user = session[x].user
           /\ \A x \in Sessions : session[x] = None => session'[x] = None
<1> DEFINE row == Flush(session[s], loaded, draft)
<1>1. session[s] \in SessionRow
  BY DEF Typed, TypeOK
<1>2. row \in SessionRow /\ row.user = session[s].user
  BY <1>1, FlushRow
<1>3. session' = [session EXCEPT ![s] = row]
  OBVIOUS
<1> HIDE DEF row
<1>4. row = Flush(session[s], loaded, draft)
  BY DEF row
<1> QED
  BY <1>2, <1>3, <1>4, WriteRow

LEMMA RequestType ==
    ASSUME Typed, NEW r \in Requests
    PROVE  /\ req[r] \in Request
           /\ InFlight(r) => /\ req[r].session \in Sessions
                             /\ session[req[r].session] # None
                             /\ session[req[r].session] \in SessionRow
                             /\ req[r].loaded \in SessionRow
                             /\ req[r].draft \in SessionRow
BY DEF Typed, TypeOK, RequestsOK, RequestOK

LEMMA OnboardTyped ==
    ASSUME Typed, NEW w \in Wallets, NEW c \in Countries, NEW p \in Phones,
           NEW d \in Devices, NEW s \in Sessions, Onboard(w, c, p, d, s)
    PROVE  Typed'
<1> DEFINE row == [user |-> w, status |-> "started", decision |-> None,
                   reject_reason |-> None,
                   signals |-> [device_risk |-> DeviceRisk(w, p, d),
                                high_risk_country |-> c \in HighRisk,
                                mrz_valid |-> FALSE, passport_seed |-> None,
                                passport_hash |-> None, person_seed |-> None,
                                attempts |-> 0]]
<1>1. row \in SessionRow
  BY NumberAssumption DEF SessionRow, Signals, Statuses, DeviceRisk
<1>2. session' = [session EXCEPT ![s] = row]
  BY DEF Onboard
<1>3. /\ session' \in [Sessions -> SessionRow \cup {None}]
      /\ session'[s] = row
      /\ \A x \in Sessions : x # s => session'[x] = session[x]
  BY <1>1, <1>2 DEF Typed, TypeOK
<1>4. /\ user' \in [Wallets -> User \cup {None}]
      /\ user'[w] # None
      /\ \A v \in Wallets : v # w => user'[v] = user[v]
  <2>1. user \in [Wallets -> User \cup {None}] /\ UpsertUser(w, c, p, d)
    BY DEF Typed, TypeOK, Onboard
  <2>2. CASE user[w] = None
    <3>1. user' = [user EXCEPT ![w] = [country |-> c, phone |-> p, device |-> d,
                                        identity |-> None]]
      BY <2>1, <2>2 DEF UpsertUser
    <3>2. [country |-> c, phone |-> p, device |-> d, identity |-> None] \in User
      BY DEF User
    <3> QED
      BY <2>1, <3>1, <3>2, NoneAssumption
  <2>3. CASE user[w] # None
    <3>1. user' = [user EXCEPT ![w] = [user[w] EXCEPT !.phone = p, !.device = d]]
      BY <2>1, <2>3 DEF UpsertUser
    <3>2. [user[w] EXCEPT !.phone = p, !.device = d] \in User
      BY <2>1, <2>3 DEF User
    <3> QED
      BY <2>1, <3>1, <3>2, NoneAssumption
  <2> QED
    BY <2>2, <2>3
<1>5. session[s] = None /\ UNCHANGED <<identity, queue, decisions, challenge, lock, req>>
  BY DEF Onboard
<1>6. TypeOK'
  BY <1>3, <1>4, <1>5 DEF Typed, TypeOK
<1>7. OwnersOK'
  <2> SUFFICES ASSUME NEW x \in Sessions, session'[x] # None
               PROVE  user'[session'[x].user] # None
    BY DEF OwnersOK
  <2>1. CASE x = s
    BY <2>1, <1>3, <1>4
  <2>2. CASE x # s
    <3>1. session'[x] = session[x] /\ session[x] \in SessionRow /\ session[x].user \in Wallets
      BY <2>2, <1>3 DEF Typed, TypeOK, SessionRow
    <3>2. user[session[x].user] # None
      BY <3>1 DEF Typed, OwnersOK
    <3> QED
      BY <3>1, <3>2, <1>4
  <2> QED
    BY <2>1, <2>2
<1>8. RequestsOK'
  <2> SUFFICES ASSUME NEW q \in Requests PROVE RequestOK(q)'
    BY DEF RequestsOK
  <2>1. RequestOK(q) /\ req'[q] = req[q] /\ queue' = queue
    BY <1>5 DEF Typed, RequestsOK
  <2>2. CASE ~InFlight(q)
    BY <2>1, <2>2 DEF RequestOK, InFlight
  <2>3. CASE InFlight(q)
    <3>1. session[req[q].session] # None /\ req[q].session \in Sessions
      BY <2>1, <2>3 DEF RequestOK
    <3>2. session'[req[q].session] = session[req[q].session]
      BY <3>1, <1>3, <1>5
    <3> QED
      BY <2>1, <3>2 DEF RequestOK, InFlight
  <2> QED
    BY <2>2, <2>3
<1> QED
  BY <1>6, <1>7, <1>8 DEF Typed

LEMMA ChallengeTyped ==
    ASSUME Typed, NEW n \in Nonces, IssueChallenge(n) \/ ExpireChallenge(n)
    PROVE  Typed'
<1>1. challenge' \in [Nonces -> {"unknown", "open", "gone"}]
  BY DEF IssueChallenge, ExpireChallenge, Typed, TypeOK
<1>2. UNCHANGED <<user, session, identity, queue, decisions, lock, req>>
  BY DEF IssueChallenge, ExpireChallenge
<1> QED
  BY <1>1, <1>2 DEF Typed, TypeOK, RequestsOK, RequestOK, InFlight, OwnersOK

LEMMA OpenPassportTyped ==
    ASSUME Typed, NEW r \in Requests, NEW s \in Sessions, NEW draft,
           OpenPassport(r, s, draft), draft \in SessionRow,
           draft.user = session[s].user, draft.status = "documents_submitted"
    PROVE  Typed'
<1> DEFINE new == [Idle EXCEPT !.pc = "passport", !.session = s,
                               !.loaded = session[s], !.draft = draft]
<1>1. session[s] # None /\ session[s] \in SessionRow
  BY DEF OpenPassport, CanStart, Typed, TypeOK
<1>2. /\ new \in Request
      /\ new.pc = "passport" /\ new.session = s /\ new.loaded = session[s]
      /\ new.draft = draft /\ new.item = 0
  BY <1>1 DEF Request, Idle
<1>3. req' = [req EXCEPT ![r] = new]
      /\ UNCHANGED <<user, session, identity, queue, decisions, challenge, lock>>
  BY DEF OpenPassport
<1>4. /\ req' \in [Requests -> Request] /\ req'[r] = new
      /\ \A q \in Requests \ {r} : req'[q] = req[q]
  BY <1>2, <1>3 DEF Typed, TypeOK
<1>5. TypeOK'
  BY <1>3, <1>4 DEF Typed, TypeOK
<1>6. RequestOK(r)'
  BY <1>1, <1>2, <1>3, <1>4 DEF RequestOK, InFlight
<1> QED
  BY <1>3, <1>4, <1>5, <1>6, Frame DEF RowsKept, NewSessionsOwned

LEMMA SubmitPassportTyped ==
    ASSUME Typed, NEW r \in Requests, NEW s \in Sessions,
           (\E p \in Passports : SubmitPassport(r, s, p)) \/ SubmitOtherDocument(r, s)
    PROVE  Typed'
<1>1. session[s] \in SessionRow
  BY DEF SubmitPassport, SubmitOtherDocument, OpenPassport, CanStart, Typed, TypeOK
<1>2. ASSUME NEW p \in Passports, SubmitPassport(r, s, p)
      PROVE  Typed'
  BY <1>1, <1>2, PassportRow, OpenPassportTyped DEF SubmitPassport
<1>3. CASE SubmitOtherDocument(r, s)
  BY <1>1, <1>3, OtherDocumentRow, OpenPassportTyped DEF SubmitOtherDocument
<1> QED
  BY <1>2, <1>3

LEMMA AbortTyped ==
    ASSUME Typed, NEW r \in Requests, Abort(r) \/ Conflict(r) \/ KeyError(r)
    PROVE  Typed'
<1>1. Close(r) /\ UNCHANGED <<user, session, identity, queue, decisions, challenge>>
  BY DEF Abort, Conflict, KeyError
<1> QED
  BY <1>1, Closing DEF Typed, TypeOK, RowsKept, NewSessionsOwned

LEMMA CommitPassportTyped ==
    ASSUME Typed, NEW r \in Requests, CommitPassport(r)
    PROVE  Typed'
<1> DEFINE q == req[r]
<1>1. /\ q.session \in Sessions /\ session[q.session] # None
      /\ q.loaded \in SessionRow /\ q.draft \in SessionRow
  BY RequestType DEF CommitPassport, InFlight
<1>2. /\ session' = [session EXCEPT ![q.session] = Flush(@, q.loaded, q.draft)]
      /\ Close(r) /\ UNCHANGED <<user, identity, queue, decisions, challenge>>
  BY DEF CommitPassport
<1>3. /\ session' \in [Sessions -> SessionRow \cup {None}]
      /\ RowsKept /\ NewSessionsOwned
  BY <1>1, <1>2, WriteBack DEF RowsKept, NewSessionsOwned
<1> QED
  BY <1>2, <1>3, Closing DEF Typed, TypeOK

LEMMA SubmitBiometricsTyped ==
    ASSUME Typed, NEW r \in Requests, NEW s \in Sessions, NEW seed \in Seeds,
           NEW n \in Nonces, NEW framesOk \in BOOLEAN, NEW score \in MatchScores,
           SubmitBiometrics(r, s, seed, n, framesOk, score)
    PROVE  Typed'
<1> DEFINE row == session[s]
           sig == [row.signals EXCEPT !.person_seed = seed, !.attempts = @ + 1]
           draft == [row EXCEPT !.status = "biometrics_submitted", !.reject_reason = None,
                                !.signals = sig]
           new == [Idle EXCEPT !.pc = "loaded", !.session = s, !.loaded = row,
                               !.draft = draft,
                               !.live = challenge[n] = "open" /\ framesOk,
                               !.score = score]
<1>1. /\ session[s] # None /\ session[s] \in SessionRow
      /\ session[s].signals.attempts < MaxAttempts
  BY DEF SubmitBiometrics, CanStart, Retryable, Typed, TypeOK
<1>2. sig \in Signals /\ sig.person_seed = seed
  <2>1. row.signals \in Signals /\ row.signals.attempts \in 0..MaxAttempts
    BY <1>1 DEF SessionRow, Signals
  <2>2. row.signals.attempts + 1 \in 0..MaxAttempts
    BY <2>1, <1>1, NumberAssumption
  <2> QED
    BY <2>1, <2>2 DEF Signals
<1>3. draft \in SessionRow /\ draft.user = row.user /\ draft.signals = sig
  BY <1>1, <1>2 DEF SessionRow, Statuses
<1>4. /\ new \in Request
      /\ new.pc = "loaded" /\ new.session = s /\ new.loaded = row
      /\ new.draft = draft /\ new.item = 0
  BY <1>1, <1>3 DEF Request, Idle
<1>5. /\ req' = [req EXCEPT ![r] = new]
      /\ UNCHANGED <<user, session, identity, queue, decisions, lock>>
      /\ challenge' = [challenge EXCEPT ![n] = IF @ = "open" THEN "gone" ELSE @]
  BY DEF SubmitBiometrics, WithBiometrics
<1>6. /\ req' \in [Requests -> Request] /\ req'[r] = new
      /\ \A q \in Requests \ {r} : req'[q] = req[q]
  BY <1>4, <1>5 DEF Typed, TypeOK
<1>7. TypeOK'
  BY <1>5, <1>6 DEF Typed, TypeOK
<1>8. RequestOK(r)'
  BY <1>1, <1>2, <1>3, <1>4, <1>5, <1>6, NoneAssumption DEF RequestOK, InFlight
<1> QED
  BY <1>5, <1>6, <1>7, <1>8, Frame DEF RowsKept, NewSessionsOwned

LEMMA SearchTyped ==
    ASSUME Typed, NEW r \in Requests, Search(r)
    PROVE  Typed'
<1> DEFINE q == req[r]
           out == DedupOutcome(FaceOf[q.draft.signals.person_seed])
           new == [q EXCEPT !.pc = "searched", !.dedup = out]
<1>1. /\ q \in Request /\ RequestOK(r) /\ InFlight(r) /\ q.pc = "loaded"
      /\ q.session \in Sessions
  BY RequestType DEF Search, InFlight, Typed, RequestsOK
<1>2. out \in {"clear", "review", "reject"}
  BY DEF DedupOutcome
<1>3. /\ new \in Request /\ new.pc = "searched" /\ new.session = q.session
      /\ new.loaded = q.loaded /\ new.draft = q.draft /\ new.item = q.item
  BY <1>1, <1>2 DEF Request
<1>4. req' = [req EXCEPT ![r] = new]
  BY DEF Search
<1>5. UNCHANGED <<user, session, identity, queue, decisions, challenge>>
  BY DEF Search
<1>6. /\ req' \in [Requests -> Request] /\ req'[r] = new
      /\ \A x \in Requests \ {r} : req'[x] = req[x]
  BY <1>3, <1>4 DEF Typed, TypeOK
<1>7. lock' \in [Sessions -> Requests \cup {None}]
  BY <1>1 DEF Search, Typed, TypeOK
<1>8. TypeOK'
  BY <1>5, <1>6, <1>7 DEF Typed, TypeOK
<1>9. RequestOK(r)'
  BY <1>1, <1>3, <1>5, <1>6 DEF RequestOK, InFlight
<1> QED
  BY <1>5, <1>6, <1>8, <1>9, Frame DEF RowsKept, NewSessionsOwned

LEMMA DecidedRow ==
    ASSUME NEW draft \in SessionRow
    PROVE  /\ \A reason \in Reasons :
                  [draft EXCEPT !.status = "rejected", !.decision = "reject",
                                !.reject_reason = reason] \in SessionRow
           /\ [draft EXCEPT !.status = "pending_review", !.decision = "review"]
                  \in SessionRow
           /\ [draft EXCEPT !.status = "approved", !.decision = "approve"] \in SessionRow
BY DEF SessionRow, Statuses

LEMMA LogType ==
    ASSUME Typed, NEW s \in Sessions, LogDecision(s)
    PROVE  decisions' \in [Sessions -> Nat]
BY DEF LogDecision, Typed, TypeOK

LEMMA DecideRejectTyped ==
    ASSUME Typed, NEW r \in Requests, DecideReject(r)
    PROVE  Typed'
<1> DEFINE q == req[r]
           row == [q.draft EXCEPT !.status = "rejected", !.decision = "reject",
                                  !.reject_reason = RejectReason(q)]
<1>1. /\ q.session \in Sessions /\ session[q.session] # None
      /\ q.loaded \in SessionRow /\ q.draft \in SessionRow
  BY RequestType DEF DecideReject, InFlight
<1>2. row \in SessionRow
  BY <1>1, DecidedRow DEF RejectReason, Reasons
<1>3. /\ session' = [session EXCEPT ![q.session] = FlushDecision(@, q, row)]
      /\ LogDecision(q.session)
      /\ Close(r) /\ UNCHANGED <<user, identity, queue, challenge>>
  BY DEF DecideReject
<1>4. /\ session' \in [Sessions -> SessionRow \cup {None}]
      /\ RowsKept /\ NewSessionsOwned
  <2> DEFINE new == FlushDecision(session[q.session], q, row)
  <2>1. session[q.session] \in SessionRow
    BY <1>1 DEF Typed, TypeOK
  <2>2. new \in SessionRow /\ new.user = session[q.session].user
    BY <1>1, <1>2, <2>1, FlushDecisionRow
  <2>3. session' = [session EXCEPT ![q.session] = new]
    BY <1>3
  <2> HIDE DEF new
  <2> QED
    BY <1>1, <1>2, <1>3, <2>2, <2>3, WriteRow DEF RowsKept, NewSessionsOwned
<1> QED
  BY <1>1, <1>3, <1>4, LogType, Closing DEF Typed, TypeOK

LEMMA DecideReviewTyped ==
    ASSUME Typed, NEW r \in Requests, DecideReview(r)
    PROVE  Typed'
<1> DEFINE q == req[r]
           row == [q.draft EXCEPT !.status = "pending_review", !.decision = "review"]
           it == [session |-> q.session, resolution |-> None]
<1>1. /\ q.session \in Sessions /\ session[q.session] # None
      /\ q.loaded \in SessionRow /\ q.draft \in SessionRow
  BY RequestType DEF DecideReview, InFlight
<1>2. row \in SessionRow
  BY <1>1, DecidedRow
<1>3. /\ session' = [session EXCEPT ![q.session] = FlushDecision(@, q, row)]
      /\ queue' = Append(queue, it)
      /\ LogDecision(q.session)
      /\ Close(r) /\ UNCHANGED <<user, identity, challenge>>
  BY DEF DecideReview
<1>4. it \in ReviewItem /\ queue \in Seq(ReviewItem)
  BY <1>1 DEF ReviewItem, Typed, TypeOK
<1>5. queue' \in Seq(ReviewItem) /\ DOMAIN queue \subseteq DOMAIN queue'
  BY <1>3, <1>4
<1>6. /\ session' \in [Sessions -> SessionRow \cup {None}]
      /\ RowsKept /\ NewSessionsOwned
  <2> DEFINE new == FlushDecision(session[q.session], q, row)
  <2>1. session[q.session] \in SessionRow
    BY <1>1 DEF Typed, TypeOK
  <2>2. new \in SessionRow /\ new.user = session[q.session].user
    BY <1>1, <1>2, <2>1, FlushDecisionRow
  <2>3. session' = [session EXCEPT ![q.session] = new]
    BY <1>3
  <2> HIDE DEF new
  <2> QED
    BY <1>1, <1>2, <1>3, <1>5, <2>2, <2>3, WriteRow DEF RowsKept, NewSessionsOwned
<1> QED
  BY <1>1, <1>3, <1>5, <1>6, LogType, Closing DEF Typed, TypeOK

\* finalize_identity: what Lookup does to a request that holds a person seed.
LEMMA LookupTyped ==
    ASSUME Typed, NEW r \in Requests, InFlight(r), Lookup(r),
           req[r].draft.signals.person_seed # None,
           UNCHANGED <<user, session, identity, queue, decisions, challenge, lock>>
    PROVE  Typed'
<1> DEFINE q == req[r]
           row == [q.draft EXCEPT !.status = "approved", !.decision = "approve"]
           f == \E i \in identity : i.hash = IdentityHash(q)
           new == [q EXCEPT !.pc = "enrolling", !.draft = row, !.found = f,
                            !.bound = user[q.draft.user].identity]
<1>1. /\ q \in Request /\ RequestOK(r)
      /\ q.session \in Sessions /\ session[q.session] # None
      /\ session[q.session] \in SessionRow /\ q.draft \in SessionRow
  BY RequestType DEF Typed, RequestsOK
<1>2. user[q.draft.user] # None /\ user[q.draft.user].identity \in Hashes \cup {None}
  <2>1. q.draft.user = session[q.session].user /\ q.draft.user \in Wallets
    BY <1>1 DEF RequestOK, SessionRow
  <2>2. user[q.draft.user] # None /\ user[q.draft.user] \in User
    BY <2>1, <1>1 DEF Typed, TypeOK, OwnersOK
  <2> QED
    BY <2>2 DEF User
<1>3. row \in SessionRow /\ row.status = "approved" /\ row.user = q.draft.user
      /\ row.signals = q.draft.signals
  BY <1>1, DecidedRow DEF SessionRow
<1>4. f \in BOOLEAN
  OBVIOUS
<1>5. /\ new \in Request /\ new.pc = "enrolling" /\ new.session = q.session
      /\ new.loaded = q.loaded /\ new.draft = row /\ new.item = q.item
  <2> HIDE DEF row, f
  <2> QED BY <1>1, <1>2, <1>3, <1>4 DEF Request
<1>6. req' = [req EXCEPT ![r] = new]
  BY DEF Lookup
<1>7. /\ req' \in [Requests -> Request] /\ req'[r] = new
      /\ \A x \in Requests \ {r} : req'[x] = req[x]
  <2> HIDE DEF new
  <2> QED BY <1>5, <1>6 DEF Typed, TypeOK
<1>8. TypeOK'
  BY <1>7 DEF Typed, TypeOK
<1>9. RequestOK(r)'
  <2>1. InFlight(r)
    BY DEF Lookup, InFlight
  <2>2. /\ q.loaded \in SessionRow /\ q.draft.user = session[q.session].user
        /\ q.draft.signals.person_seed # None
        /\ q.item # 0 => q.item \in DOMAIN queue
    BY <1>1, <2>1 DEF Lookup, RequestOK
  <2>3. UNCHANGED <<session, queue>>
    BY DEF Lookup
  <2> HIDE DEF new, row, q
  <2> QED BY <1>1, <1>3, <1>5, <1>7, <2>2, <2>3 DEF RequestOK
<1> QED
  BY <1>7, <1>8, <1>9, Frame DEF RowsKept, NewSessionsOwned

LEMMA DecideApproveTyped ==
    ASSUME Typed, NEW r \in Requests, DecideApprove(r)
    PROVE  Typed'
<1>1. InFlight(r) /\ RequestOK(r)
  BY DEF DecideApprove, InFlight, Typed, RequestsOK
<1>2. req[r].draft.signals.person_seed # None
  BY <1>1 DEF DecideApprove, RequestOK
<1> QED
  BY <1>1, <1>2, LookupTyped DEF DecideApprove

LEMMA ReviewApproveTyped ==
    ASSUME Typed, NEW r \in Requests, ReviewApprove(r)
    PROVE  Typed'
<1>1. InFlight(r)
  BY DEF ReviewApprove, InFlight
<1> QED
  BY <1>1, LookupTyped DEF ReviewApprove

LEMMA OpenReviewTyped ==
    ASSUME Typed, NEW r \in Requests, NEW i \in DOMAIN queue,
           NEW x \in {"approve", "reject"}, OpenReview(r, i, x)
    PROVE  Typed'
<1> DEFINE s == queue[i].session
           draft == Resolved(session[s], x)
           new == [Idle EXCEPT !.pc = "resolving", !.session = s, !.item = i,
                               !.loaded = session[s], !.draft = draft]
<1>1. i \in Nat \ {0} /\ queue[i] \in ReviewItem /\ s \in Sessions
  <2>1. queue \in Seq(ReviewItem) /\ i \in 1..Len(queue)
    BY DEF Typed, TypeOK
  <2>2. i \in Nat \ {0} /\ queue[i] \in ReviewItem
    BY <2>1
  <2> QED
    BY <2>2 DEF ReviewItem
<1>2. session[s] # None /\ session[s] \in SessionRow
  BY <1>1 DEF OpenReview, CanStart, Typed, TypeOK
<1>3. draft \in SessionRow /\ draft.user = session[s].user
  BY <1>2, ResolvedRow
<1>4. /\ new \in Request
      /\ new.pc = "resolving" /\ new.session = s /\ new.loaded = session[s]
      /\ new.draft = draft /\ new.item = i
  <2> HIDE DEF draft
  <2> QED BY <1>1, <1>2, <1>3 DEF Request, Idle
<1>5. /\ req' = [req EXCEPT ![r] = new]
      /\ UNCHANGED <<user, session, identity, queue, decisions, challenge, lock>>
  BY DEF OpenReview
<1>6. /\ req' \in [Requests -> Request] /\ req'[r] = new
      /\ \A q \in Requests \ {r} : req'[q] = req[q]
  <2> HIDE DEF new
  <2> QED BY <1>4, <1>5 DEF Typed, TypeOK
<1>7. TypeOK'
  BY <1>5, <1>6 DEF Typed, TypeOK
<1>8. RequestOK(r)'
  <2> HIDE DEF new, draft
  <2> QED BY <1>1, <1>2, <1>3, <1>4, <1>5, <1>6 DEF RequestOK, InFlight
<1> QED
  BY <1>5, <1>6, <1>7, <1>8, Frame DEF RowsKept, NewSessionsOwned

LEMMA FinalizeTyped ==
    ASSUME Typed, NEW r \in Requests, req[r].pc = "enrolling", FinalizeIdentity(req[r])
    PROVE  /\ user' \in [Wallets -> User \cup {None}]
           /\ session' \in [Sessions -> SessionRow \cup {None}]
           /\ identity' \subseteq IdentityRecord
           /\ \A x \in Sessions : session[x] # None =>
                  session'[x] # None /\ session'[x].user = session[x].user
           /\ \A x \in Sessions : session[x] = None => session'[x] = None
           /\ \A w \in Wallets : user[w] # None => user'[w] # None
<1> DEFINE q == req[r]
           w == q.draft.user
           ih == IdentityHash(q)
           rec == [hash |-> ih, document |-> q.draft.signals.passport_hash,
                   template |-> FaceOf[q.draft.signals.person_seed]]
<1>1. /\ q \in Request /\ RequestOK(r) /\ InFlight(r)
      /\ q.session \in Sessions /\ session[q.session] # None
      /\ session[q.session] \in SessionRow
      /\ q.loaded \in SessionRow /\ q.draft \in SessionRow
  BY RequestType DEF Typed, RequestsOK, InFlight
<1>2. w \in Wallets /\ user[w] # None /\ user[w] \in User
  <2>1. w = session[q.session].user /\ w \in Wallets
    BY <1>1 DEF RequestOK, SessionRow
  <2> QED
    BY <2>1, <1>1 DEF Typed, TypeOK, OwnersOK
<1>3. q.draft.signals \in Signals /\ q.draft.signals.person_seed \in Seeds
  <2>1. q.draft.signals.person_seed # None
    BY <1>1 DEF RequestOK
  <2> QED
    BY <2>1, <1>1 DEF SessionRow, Signals
<1>4. ih \in Hashes
  BY <1>2, <1>3 DEF IdentityHash, Hashes, User
<1>5. rec \in IdentityRecord
  BY <1>3, <1>4 DEF IdentityRecord, Signals
<1>6. identity' \subseteq IdentityRecord
  <2>1. identity' \subseteq identity \cup {rec}
    BY DEF FinalizeIdentity
  <2> QED
    BY <2>1, <1>5 DEF Typed, TypeOK
<1>7. /\ user' \in [Wallets -> User \cup {None}]
      /\ \A v \in Wallets : user[v] # None => user'[v] # None
  <2> DEFINE row == [user[w] EXCEPT !.identity = Net(@, q.bound, ih)]
  <2>1. user' = [user EXCEPT ![w] = row]
    BY DEF FinalizeIdentity
  <2>2. row \in User
    BY <1>2, <1>4 DEF User, Net
  <2>3. user \in [Wallets -> User \cup {None}]
    BY DEF Typed, TypeOK
  <2> HIDE DEF row
  <2> QED
    BY <2>1, <2>2, <2>3, <1>2, NoneAssumption
<1>8. session' = [session EXCEPT ![q.session] = Flush(@, q.loaded, q.draft)]
  BY DEF FinalizeIdentity
<1> QED
  BY <1>1, <1>6, <1>7, <1>8, WriteBack

LEMMA ItemType ==
    ASSUME Typed, NEW i \in DOMAIN queue, NEW x \in {"approve", "reject"},
           queue' = [queue EXCEPT ![i].resolution = x]
    PROVE  queue' \in Seq(ReviewItem) /\ DOMAIN queue' = DOMAIN queue
<1>1. queue \in Seq(ReviewItem) /\ i \in 1..Len(queue)
  BY DEF Typed, TypeOK
<1>2. queue[i] \in ReviewItem
  BY <1>1
<1>3. [queue[i] EXCEPT !.resolution = x] \in ReviewItem
  BY <1>2 DEF ReviewItem
<1> QED
  BY <1>1, <1>3

LEMMA CommitApprovalTyped ==
    ASSUME Typed, NEW r \in Requests, CommitApproval(r)
    PROVE  Typed'
<1>1. req[r].pc = "enrolling" /\ FinalizeIdentity(req[r])
      /\ LogDecision(req[r].session) /\ Close(r) /\ UNCHANGED <<queue, challenge>>
  BY DEF CommitApproval
<1>2. decisions' \in [Sessions -> Nat]
  BY <1>1, RequestType, LogType DEF InFlight
<1> QED
  BY <1>1, <1>2, FinalizeTyped, Closing DEF RowsKept, NewSessionsOwned, Typed, TypeOK

LEMMA CommitReviewApprovalTyped ==
    ASSUME Typed, NEW r \in Requests, CommitReviewApproval(r)
    PROVE  Typed'
<1>1. req[r].pc = "enrolling" /\ FinalizeIdentity(req[r]) /\ req[r].item # 0
      /\ queue' = [queue EXCEPT ![req[r].item].resolution = "approve"]
      /\ Close(r) /\ UNCHANGED <<decisions, challenge>>
  BY DEF CommitReviewApproval
<1>2. req[r].item \in DOMAIN queue
  BY <1>1 DEF Typed, RequestsOK, RequestOK, InFlight
<1>3. queue' \in Seq(ReviewItem) /\ DOMAIN queue' = DOMAIN queue
  BY <1>1, <1>2, ItemType
<1> QED
  BY <1>1, <1>3, FinalizeTyped, Closing DEF RowsKept, NewSessionsOwned, Typed, TypeOK

LEMMA ReviewRejectTyped ==
    ASSUME Typed, NEW r \in Requests, ReviewReject(r)
    PROVE  Typed'
<1> DEFINE q == req[r]
<1>1. /\ q.session \in Sessions /\ session[q.session] # None
      /\ q.loaded \in SessionRow /\ q.draft \in SessionRow
      /\ q.item \in DOMAIN queue
  BY RequestType DEF ReviewReject, InFlight, Typed, RequestsOK, RequestOK
<1>2. /\ session' = [session EXCEPT ![q.session] = Flush(@, q.loaded, q.draft)]
      /\ queue' = [queue EXCEPT ![q.item].resolution = "reject"]
      /\ Close(r) /\ UNCHANGED <<user, identity, decisions, challenge>>
  BY DEF ReviewReject
<1>3. queue' \in Seq(ReviewItem) /\ DOMAIN queue' = DOMAIN queue
  BY <1>1, <1>2, ItemType
<1>4. /\ session' \in [Sessions -> SessionRow \cup {None}]
      /\ RowsKept /\ NewSessionsOwned
  BY <1>1, <1>2, <1>3, WriteBack DEF RowsKept, NewSessionsOwned
<1> QED
  BY <1>2, <1>3, <1>4, Closing DEF Typed, TypeOK

-----------------------------------------------------------------------------

LEMMA NextTyped == Typed /\ [Next]_vars => Typed'
<1> SUFFICES ASSUME Typed, [Next]_vars PROVE Typed'
  OBVIOUS
<1>1. CASE Arrive
  BY <1>1, OnboardTyped, ChallengeTyped, SubmitPassportTyped, SubmitBiometricsTyped,
     OpenReviewTyped DEF Arrive
<1>2. ASSUME NEW r \in Requests, Step(r) \/ Abort(r)
      PROVE  Typed'
  BY <1>2, AbortTyped, CommitPassportTyped, SearchTyped, DecideRejectTyped,
     DecideReviewTyped, DecideApproveTyped, CommitApprovalTyped, ReviewApproveTyped,
     CommitReviewApprovalTyped, ReviewRejectTyped DEF Step
<1>3. CASE UNCHANGED vars
  BY <1>3 DEF vars, Typed, TypeOK, RequestsOK, RequestOK, InFlight, OwnersOK
<1> QED
  BY <1>1, <1>2, <1>3 DEF Next

LEMMA AlwaysTyped == Spec => []Typed
BY InitTyped, NextTyped, PTL DEF Spec

\* Every reachable state is well typed: no handler writes a row, a queue item or
\* a counter outside its domain, biometric_attempts <= MaxAttempts included.
THEOREM TypeCorrect == Spec => []TypeOK
<1>1. Typed => TypeOK
  BY DEF Typed
<1> QED
  BY AlwaysTyped, <1>1, PTL

-----------------------------------------------------------------------------
(* Identities and approved sessions.  ApprovedBound is not inductive: that *)
(* a binding stays valid rests on every bound user being bound to an       *)
(* enrolled identity, and on what a request about to enrol has looked up.  *)

ApprovedHasIdentity ==
    \A s \in Sessions : Is(s, "approved") => user[session[s].user].identity # None

UsersBound ==
    \A w \in Wallets : user[w] # None /\ user[w].identity # None =>
        Enrolled(user[w].identity) /\ user[w].identity[1] = user[w].country

EnrollOK(r) ==
    LET q == req[r] IN
    q.pc = "enrolling" =>
        /\ q.found => Enrolled(IdentityHash(q))
        /\ q.bound # None => user[q.draft.user].identity # None

Safe ==
    /\ ApprovedHasIdentity
    /\ UsersBound
    /\ HashUnique
    /\ \A r \in Requests : EnrollOK(r)

LEMMA SafeImplies == Typed /\ Safe => ApprovedBound /\ HashUnique
<1> SUFFICES ASSUME Typed, Safe, NEW s \in Sessions, Is(s, "approved")
             PROVE  /\ user[session[s].user] # None
                    /\ user[session[s].user].identity # None
                    /\ Enrolled(user[session[s].user].identity)
                    /\ user[session[s].user].identity[1] = user[session[s].user].country
  BY DEF ApprovedBound, Safe
<1>1. session[s] # None /\ session[s].user \in Wallets /\ user[session[s].user] # None
  BY DEF Is, Typed, TypeOK, SessionRow, OwnersOK
<1> QED
  BY <1>1 DEF Safe, ApprovedHasIdentity, UsersBound

LEMMA InitSafe == Init => Safe
BY DEF Init, Safe, ApprovedHasIdentity, UsersBound, HashUnique, EnrollOK, Is, Idle

\* Identities are never deleted; users keep their country and stay bound.
Grows ==
    /\ identity \subseteq identity'
    /\ \A w \in Wallets : user[w] # None =>
           /\ user'[w] # None
           /\ user'[w].country = user[w].country
           /\ user[w].identity # None => user'[w].identity # None

\* A session that is approved after the step was so before or has a bound user.
NewlyApprovedBound ==
    \A s \in Sessions : Is(s, "approved")' =>
        \/ Is(s, "approved") /\ session'[s].user = session[s].user
        \/ user'[session'[s].user].identity # None

LEMMA SafeFrame ==
    ASSUME Typed, Safe, Grows, NewlyApprovedBound, UsersBound', HashUnique',
           \A q \in Requests : req'[q] = req[q] \/ EnrollOK(q)'
    PROVE  Safe'
<1>1. ApprovedHasIdentity'
  <2> SUFFICES ASSUME NEW s \in Sessions, Is(s, "approved")'
               PROVE  user'[session'[s].user].identity # None
    BY DEF ApprovedHasIdentity
  <2>1. CASE Is(s, "approved") /\ session'[s].user = session[s].user
    <3>1. session[s].user \in Wallets /\ user[session[s].user] # None
      BY <2>1 DEF Is, Typed, TypeOK, SessionRow, OwnersOK
    <3> QED
      BY <2>1, <3>1 DEF Grows, Safe, ApprovedHasIdentity
  <2> QED
    BY <2>1 DEF NewlyApprovedBound
<1>2. ASSUME NEW q \in Requests PROVE EnrollOK(q)'
  <2>1. CASE req'[q] # req[q]
    BY <2>1
  <2>2. CASE req'[q] = req[q] /\ req[q].pc = "enrolling"
    <3>1. req'[q] = req[q] /\ EnrollOK(q) /\ RequestOK(q) /\ InFlight(q)
      BY <2>2 DEF Safe, Typed, RequestsOK, InFlight
    <3>2. req[q].draft.user \in Wallets /\ user[req[q].draft.user] # None
      <4>1. req[q].session \in Sessions /\ session[req[q].session] # None
            /\ req[q].draft.user = session[req[q].session].user
            /\ req[q].draft \in SessionRow
        BY <3>1 DEF RequestOK
      <4> QED
        BY <4>1 DEF SessionRow, Typed, OwnersOK
    <3>3. IdentityHash(req[q])' = IdentityHash(req[q])
      BY <3>1, <3>2 DEF IdentityHash, Grows
    <3>4. req[q].found => Enrolled(IdentityHash(req[q]))'
      BY <3>1, <3>3, <2>2 DEF EnrollOK, Enrolled, Grows
    <3>5. req[q].bound # None => user'[req[q].draft.user].identity # None
      BY <3>1, <3>2, <2>2 DEF EnrollOK, Grows
    <3> QED
      BY <3>1, <3>4, <3>5 DEF EnrollOK
  <2>3. CASE req'[q] = req[q] /\ req[q].pc # "enrolling"
    BY <2>3 DEF EnrollOK
  <2> QED
    BY <2>1, <2>2, <2>3
<1> QED
  BY <1>1, <1>2 DEF Safe

\* Steps that write neither users nor identities, and approve no session.
LEMMA NoEnrolment ==
    ASSUME Typed, Safe, UNCHANGED <<user, identity>>, NewlyApprovedBound,
           \A q \in Requests : req'[q] = req[q] \/ EnrollOK(q)'
    PROVE  Safe'
<1>1. Grows
  BY DEF Grows
<1>2. UsersBound' /\ HashUnique'
  BY DEF Safe, UsersBound, HashUnique, Enrolled
<1> QED
  BY <1>1, <1>2, SafeFrame

LEMMA CloseEffect ==
    ASSUME Typed, NEW r \in Requests, Close(r)
    PROVE  /\ req'[r].pc = "idle"
           /\ \A q \in Requests \ {r} : req'[q] = req[q]
BY DEF Close, Idle, Typed, TypeOK

\* A write that keeps the status or sets another one than approved approves nothing.
LEMMA WriteNotApproved ==
    ASSUME Typed, UNCHANGED user, NEW s \in Sessions, session[s] # None,
           NEW row \in SessionRow, row.user = session[s].user,
           row.status # "approved" \/ row.status = session[s].status,
           session' = [session EXCEPT ![s] = row]
    PROVE  NewlyApprovedBound
<1>1. \A x \in Sessions : Is(x, "approved")' => Is(x, "approved")
  BY WriteRow DEF Is
<1> QED
  BY <1>1, WriteRow DEF NewlyApprovedBound, Is

LEMMA OnboardSafe ==
    ASSUME Typed, Safe, NEW w \in Wallets, NEW c \in Countries, NEW p \in Phones,
           NEW d \in Devices, NEW s \in Sessions, Onboard(w, c, p, d, s)
    PROVE  Safe' /\ Grows
<1>1. UNCHANGED <<identity, req>> /\ UpsertUser(w, c, p, d) /\ session[s] = None
  BY DEF Onboard
<1>2. user \in [Wallets -> User \cup {None}]
  BY DEF Typed, TypeOK
<1>3. \A v \in Wallets \ {w} : user'[v] = user[v]
  BY <1>1, <1>2 DEF UpsertUser
<1>4. /\ user[w] = None => user'[w] # None /\ user'[w].identity = None
      /\ user[w] # None => /\ user'[w] # None
                           /\ user'[w].country = user[w].country
                           /\ user'[w].identity = user[w].identity
  <2>1. CASE user[w] = None
    <3>1. user'[w] = [country |-> c, phone |-> p, device |-> d, identity |-> None]
      BY <1>1, <1>2, <2>1 DEF UpsertUser
    <3>2. user'[w] \in User
      BY <3>1 DEF User
    <3> QED
      BY <2>1, <3>1, <3>2, NoneAssumption
  <2>2. CASE user[w] # None
    <3>1. user[w] \in User
      BY <1>2, <2>2
    <3>2. user'[w] = [user[w] EXCEPT !.phone = p, !.device = d]
      BY <1>1, <1>2, <2>2 DEF UpsertUser
    <3>3. user'[w] \in User /\ user'[w].country = user[w].country
          /\ user'[w].identity = user[w].identity
      BY <3>1, <3>2 DEF User
    <3> QED
      BY <2>2, <3>3, NoneAssumption
  <2> QED
    BY <2>1, <2>2
<1>5. Grows
  BY <1>1, <1>3, <1>4 DEF Grows
<1>6. UsersBound'
  <2> SUFFICES ASSUME NEW v \in Wallets, user'[v] # None, user'[v].identity # None
               PROVE  Enrolled(user[v].identity)' /\ user'[v].identity[1] = user'[v].country
    BY DEF UsersBound
  <2>1. /\ user[v] # None
        /\ user'[v].identity = user[v].identity /\ user'[v].country = user[v].country
    BY <1>3, <1>4
  <2> QED
    BY <1>1, <2>1 DEF Safe, UsersBound, Enrolled
<1>7. HashUnique'
  BY <1>1 DEF Safe, HashUnique
<1>8. NewlyApprovedBound
  <2>1. session \in [Sessions -> SessionRow \cup {None}]
    BY DEF Typed, TypeOK
  <2>2. session'[s].status = "started" /\ \A x \in Sessions \ {s} : session'[x] = session[x]
    BY <2>1 DEF Onboard
  <2> QED
    BY <2>2 DEF NewlyApprovedBound, Is
<1> QED
  BY <1>1, <1>5, <1>6, <1>7, <1>8, SafeFrame

\* Steps that only read the database on behalf of a request that will not enrol
\* in its next step.
LEMMA ReadOnlySafe ==
    ASSUME Typed, Safe, UNCHANGED <<user, session, identity>>,
           \A q \in Requests : req'[q] = req[q] \/ req'[q].pc # "enrolling"
    PROVE  Safe'
<1>1. NewlyApprovedBound
  BY DEF NewlyApprovedBound, Is
<1>2. \A q \in Requests : req'[q] = req[q] \/ EnrollOK(q)'
  BY DEF EnrollOK
<1> QED
  BY <1>1, <1>2, NoEnrolment

LEMMA ArriveSafe ==
    ASSUME Typed, Safe, Arrive
    PROVE  Safe'
<1> USE DEF Typed, TypeOK
<1>1. CASE \E w \in Wallets, c \in Countries, p \in Phones, d \in Devices, s \in Sessions :
               Onboard(w, c, p, d, s)
  BY <1>1, OnboardSafe
<1>2. CASE \E n \in Nonces : IssueChallenge(n) \/ ExpireChallenge(n)
  BY <1>2, ReadOnlySafe DEF IssueChallenge, ExpireChallenge
<1>3. ASSUME NEW r \in Requests, NEW s \in Sessions, NEW draft, OpenPassport(r, s, draft)
      PROVE  Safe'
  BY <1>3, ReadOnlySafe DEF OpenPassport, Idle
<1>4. ASSUME NEW r \in Requests, NEW s \in Sessions, NEW seed \in Seeds, NEW n \in Nonces,
             NEW framesOk \in BOOLEAN, NEW score \in MatchScores,
             SubmitBiometrics(r, s, seed, n, framesOk, score)
      PROVE  Safe'
  <2>1. \A q \in Requests : req'[q] = req[q] \/ req'[q].pc = "loaded"
    BY <1>4 DEF SubmitBiometrics, Idle
  <2>2. UNCHANGED <<user, session, identity>>
    BY <1>4 DEF SubmitBiometrics
  <2> QED
    BY <2>1, <2>2, ReadOnlySafe
<1>5. ASSUME NEW r \in Requests, NEW i \in DOMAIN queue, NEW x \in {"approve", "reject"},
             OpenReview(r, i, x)
      PROVE  Safe'
  BY <1>5, ReadOnlySafe DEF OpenReview, Idle
<1> QED
  BY <1>1, <1>2, <1>3, <1>4, <1>5 DEF Arrive, SubmitPassport, SubmitOtherDocument

LEMMA WriteSafe ==
    ASSUME Typed, Safe, NEW r \in Requests,
           CommitPassport(r) \/ DecideReject(r) \/ DecideReview(r) \/ ReviewReject(r)
    PROVE  Safe'
<1> DEFINE q == req[r]
<1>1. /\ q.session \in Sessions /\ session[q.session] # None
      /\ q.loaded \in SessionRow /\ q.draft \in SessionRow
      /\ RequestOK(r) /\ InFlight(r)
  BY RequestType DEF CommitPassport, DecideReject, DecideReview, ReviewReject, InFlight,
                     Typed, RequestsOK
<1>2. Close(r) /\ UNCHANGED <<user, identity>>
  BY DEF CommitPassport, DecideReject, DecideReview, ReviewReject
<1>3. session[q.session] \in SessionRow
  BY <1>1 DEF Typed, TypeOK
<1>4. NewlyApprovedBound
  <2>1. CASE CommitPassport(r) \/ ReviewReject(r)
    <3> DEFINE new == Flush(session[q.session], q.loaded, q.draft)
    <3>1. q.draft.status # "approved"
      BY <1>1, <2>1 DEF CommitPassport, ReviewReject, RequestOK
    <3>2. /\ new \in SessionRow /\ new.user = session[q.session].user
          /\ new.status \in {session[q.session].status, q.draft.status}
      BY <1>1, <1>3, FlushRow
    <3>3. session' = [session EXCEPT ![q.session] = new]
      BY <2>1 DEF CommitPassport, ReviewReject
    <3> HIDE DEF new
    <3> QED
      BY <1>1, <1>2, <3>1, <3>2, <3>3, WriteNotApproved
  <2>2. ASSUME NEW row \in SessionRow, row.status # "approved",
               q.draft.status = "biometrics_submitted",
               session' = [session EXCEPT ![q.session] = FlushDecision(@, q, row)]
        PROVE  NewlyApprovedBound
    <3> DEFINE new == FlushDecision(session[q.session], q, row)
    <3>1. /\ new \in SessionRow /\ new.user = session[q.session].user
          /\ new.status \in {session[q.session].status, q.draft.status, row.status}
      BY <1>1, <1>3, FlushDecisionRow
    <3>2. session' = [session EXCEPT ![q.session] = new]
      BY <2>2
    <3> HIDE DEF new
    <3> QED
      BY <1>1, <1>2, <2>2, <3>1, <3>2, WriteNotApproved
  <2>3. CASE DecideReject(r)
    <3> DEFINE row == [q.draft EXCEPT !.status = "rejected", !.decision = "reject",
                                      !.reject_reason = RejectReason(q)]
    <3>1. row \in SessionRow
      BY <1>1, DecidedRow DEF RejectReason, Reasons
    <3>2. row.status = "rejected"
      BY <1>1 DEF SessionRow
    <3>3. session' = [session EXCEPT ![q.session] = FlushDecision(@, q, row)]
      BY <2>3 DEF DecideReject
    <3>4. q.draft.status = "biometrics_submitted"
      BY <1>1, <2>3 DEF DecideReject, RequestOK
    <3> QED
      BY <2>2, <3>1, <3>2, <3>3, <3>4
  <2>4. CASE DecideReview(r)
    <3> DEFINE row == [q.draft EXCEPT !.status = "pending_review", !.decision = "review"]
    <3>1. row \in SessionRow
      BY <1>1, DecidedRow
    <3>2. row.status = "pending_review"
      BY <1>1 DEF SessionRow
    <3>3. session' = [session EXCEPT ![q.session] = FlushDecision(@, q, row)]
      BY <2>4 DEF DecideReview
    <3>4. q.draft.status = "biometrics_submitted"
      BY <1>1, <2>4 DEF DecideReview, RequestOK
    <3> QED
      BY <2>2, <3>1, <3>2, <3>3, <3>4
  <2> QED
    BY <2>1, <2>3, <2>4
<1>5. \A x \in Requests : req'[x] = req[x] \/ EnrollOK(x)'
  BY <1>2, CloseEffect DEF EnrollOK
<1> QED
  BY <1>2, <1>4, <1>5, NoEnrolment

LEMMA LookupSafe ==
    ASSUME Typed, Safe, NEW r \in Requests, DecideApprove(r) \/ ReviewApprove(r)
    PROVE  Safe'
<1> DEFINE q == req[r]
           row == [q.draft EXCEPT !.status = "approved", !.decision = "approve"]
           f == \E i \in identity : i.hash = IdentityHash(q)
           b == user[q.draft.user].identity
           new == [q EXCEPT !.pc = "enrolling", !.draft = row, !.found = f, !.bound = b]
<1>1. /\ q \in Request /\ q.draft \in SessionRow
  BY RequestType DEF DecideApprove, ReviewApprove, InFlight
<1>2. /\ UNCHANGED <<user, session, identity>>
      /\ req' = [req EXCEPT ![r] = new]
  BY DEF DecideApprove, ReviewApprove, Lookup
<1>3. row.user = q.draft.user /\ row.signals = q.draft.signals
  BY <1>1 DEF SessionRow
<1>4. new.draft = row /\ new.found = f /\ new.bound = b
  <2> HIDE DEF row, f, b
  <2> QED BY <1>1 DEF Request
<1>5. /\ req'[r] = new /\ \A x \in Requests \ {r} : req'[x] = req[x]
  <2> HIDE DEF new
  <2> QED BY <1>2 DEF Typed, TypeOK
<1>6. EnrollOK(r)'
  <2>1. IdentityHash(q) = IdentityHash(new)
    <3> HIDE DEF new, row
    <3> QED BY <1>3, <1>4 DEF IdentityHash
  <2>2. /\ req'[r].found => f
        /\ req'[r].bound = b /\ req'[r].draft.user = q.draft.user
        /\ IdentityHash(req[r])' = IdentityHash(q)
    <3> HIDE DEF new, row, f, b
    <3>1. IdentityHash(req[r])' = IdentityHash(new)
      BY <1>2, <1>5 DEF IdentityHash
    <3> QED BY <1>3, <1>4, <1>5, <2>1, <3>1
  <2> QED
    BY <1>2, <2>2 DEF EnrollOK, Enrolled
<1>7. NewlyApprovedBound
  BY <1>2 DEF NewlyApprovedBound, Is
<1> QED
  BY <1>2, <1>5, <1>6, <1>7, NoEnrolment

\* The step that enrols: the user ends up bound to an identity that is enrolled,
\* whether it was found, inserted, or bound by somebody else in the meantime.
LEMMA FinalizeSafe ==
    ASSUME Typed, Safe, NEW r \in Requests, req[r].pc = "enrolling",
           FinalizeIdentity(req[r]), Close(r)
    PROVE  /\ Safe' /\ Grows
           /\ \E i \in identity' : i.hash = IdentityHash(req[r])
<1> DEFINE q == req[r]
           w == q.draft.user
           ih == IdentityHash(q)
           rec == [hash |-> ih, document |-> q.draft.signals.passport_hash,
                   template |-> FaceOf[q.draft.signals.person_seed]]
           row == [user[w] EXCEPT !.identity = Net(@, q.bound, ih)]
<1>1. /\ RequestOK(r) /\ InFlight(r) /\ EnrollOK(r)
      /\ q.session \in Sessions /\ session[q.session] # None
      /\ session[q.session] \in SessionRow /\ session[q.session].user = w
      /\ q.loaded \in SessionRow /\ q.draft \in SessionRow
  BY RequestType DEF Safe, Typed, RequestsOK, InFlight, RequestOK
<1>2. w \in Wallets /\ user[w] # None /\ user[w] \in User
  <2>1. w \in Wallets
    BY <1>1 DEF SessionRow
  <2> QED
    BY <2>1, <1>1 DEF Typed, TypeOK, OwnersOK
<1>3. ih \in Hashes /\ ih[1] = user[w].country
  <2>1. q.draft.signals.person_seed \in Seeds
    BY <1>1 DEF RequestOK, SessionRow, Signals
  <2> QED
    BY <1>2, <2>1 DEF IdentityHash, Hashes, User
<1>4. identity \subseteq identity' /\ \E i \in identity' : i.hash = ih
  <2>1. CASE q.found
    <3>1. identity' = identity
      BY <2>1 DEF FinalizeIdentity
    <3>2. Enrolled(ih)
      BY <1>1, <2>1 DEF EnrollOK
    <3> QED
      BY <3>1, <3>2 DEF Enrolled
  <2>2. CASE ~q.found
    <3>1. identity' = identity \cup {rec}
      BY <2>2 DEF FinalizeIdentity
    <3>2. rec.hash = ih
      OBVIOUS
    <3> HIDE DEF rec
    <3> QED
      BY <3>1, <3>2
  <2> QED
    BY <2>1, <2>2
<1>5. HashUnique'
  <2>1. CASE q.found
    <3>1. identity' = identity
      BY <2>1 DEF FinalizeIdentity
    <3> QED
      BY <3>1 DEF Safe, HashUnique
  <2>2. CASE ~q.found
    <3>1. identity' = identity \cup {rec} /\ \A i \in identity : i.hash # ih
      BY <2>2 DEF FinalizeIdentity, HashTaken
    <3>2. rec.hash = ih
      OBVIOUS
    <3> HIDE DEF rec, ih
    <3> QED
      BY <3>1, <3>2 DEF Safe, HashUnique
  <2> QED
    BY <2>1, <2>2
<1>6. /\ user'[w] = row
      /\ \A v \in Wallets \ {w} : user'[v] = user[v]
  <2>1. user' = [user EXCEPT ![w] = row]
    BY DEF FinalizeIdentity
  <2> HIDE DEF row
  <2> QED
    BY <1>2, <2>1 DEF Typed, TypeOK
<1>7. /\ row # None
      /\ row.country = user[w].country
      /\ row.identity = IF q.bound = ih THEN user[w].identity ELSE ih
  <2>1. row \in User
    BY <1>2, <1>3 DEF User, Net
  <2>2. row.country = user[w].country
        /\ row.identity = IF q.bound = ih THEN user[w].identity ELSE ih
    BY <1>2 DEF User, Net
  <2> QED
    BY <2>1, <2>2, NoneAssumption
<1>8. row.identity # None
  <2>1. ih # None
    BY <1>3, NoneAssumption
  <2>2. q.bound = ih => user[w].identity # None
    BY <1>1, <2>1 DEF EnrollOK
  <2> HIDE DEF row, ih
  <2> QED
    BY <2>1, <2>2, <1>7
<1>9. Grows
  <2> HIDE DEF row
  <2> QED BY <1>4, <1>6, <1>7, <1>8 DEF Grows
<1>10. UsersBound'
  <2> SUFFICES ASSUME NEW v \in Wallets, user'[v] # None, user'[v].identity # None
               PROVE  Enrolled(user[v].identity)' /\ user'[v].identity[1] = user'[v].country
    BY DEF UsersBound
  <2>1. CASE v # w
    <3>1. user'[v] = user[v]
      BY <1>6, <2>1
    <3> QED
      BY <3>1, <1>4 DEF Safe, UsersBound, Enrolled
  <2>2. CASE v = w
    <3>1. user'[v].identity = (IF q.bound = ih THEN user[w].identity ELSE ih)
          /\ user'[v].country = user[w].country
      <4> HIDE DEF row
      <4> QED BY <1>6, <1>7, <2>2
    <3>2. CASE q.bound = ih
      <4>1. user'[v].identity = user[w].identity /\ user[w].identity # None
        BY <3>1, <3>2, <1>7, <1>8
      <4> QED
        BY <3>1, <4>1, <1>2, <1>4 DEF Safe, UsersBound, Enrolled
    <3>3. CASE q.bound # ih
      <4> HIDE DEF row, ih
      <4> QED BY <3>1, <3>3, <1>3, <1>4 DEF Enrolled
    <3> QED
      BY <3>2, <3>3
  <2> QED
    BY <2>1, <2>2
<1>11. NewlyApprovedBound
  <2>1. session' = [session EXCEPT ![q.session] = Flush(@, q.loaded, q.draft)]
    BY DEF FinalizeIdentity
  <2>2. /\ \A x \in Sessions : x # q.session => session'[x] = session[x]
        /\ session'[q.session].user = w
    BY <1>1, <2>1, WriteBack
  <2>3. user'[w].identity # None
    <3> HIDE DEF row
    <3> QED BY <1>6, <1>8
  <2> QED
    BY <2>2, <2>3 DEF NewlyApprovedBound, Is
<1>12. \A x \in Requests : req'[x] = req[x] \/ EnrollOK(x)'
  BY CloseEffect DEF EnrollOK
<1> QED
  BY <1>4, <1>5, <1>9, <1>10, <1>11, <1>12, SafeFrame

LEMMA NextSafe == Typed /\ Safe /\ [Next]_vars => Safe'
<1> SUFFICES ASSUME Typed, Safe, [Next]_vars PROVE Safe'
  OBVIOUS
<1>1. CASE Arrive
  BY <1>1, ArriveSafe
<1>2. ASSUME NEW r \in Requests, Abort(r) \/ Conflict(r) \/ KeyError(r)
      PROVE  Safe'
  <2>1. Close(r) /\ UNCHANGED <<user, session, identity>>
    BY <1>2 DEF Abort, Conflict, KeyError
  <2> QED
    BY <2>1, CloseEffect, ReadOnlySafe
<1>3. ASSUME NEW r \in Requests, Search(r)
      PROVE  Safe'
  <2>1. \A x \in Requests : req'[x] = req[x] \/ req'[x].pc = "searched"
    BY <1>3 DEF Search, Typed, TypeOK, Request
  <2> QED
    BY <1>3, <2>1, ReadOnlySafe DEF Search
<1>4. ASSUME NEW r \in Requests, CommitApproval(r) \/ CommitReviewApproval(r)
      PROVE  Safe'
  BY <1>4, FinalizeSafe DEF CommitApproval, CommitReviewApproval
<1>5. CASE UNCHANGED vars
  BY <1>5, ReadOnlySafe DEF vars
<1> QED
  BY <1>1, <1>2, <1>3, <1>4, <1>5, WriteSafe, LookupSafe DEF Next, Step

LEMMA AlwaysSafe == Spec => []Safe
BY InitTyped, InitSafe, AlwaysTyped, NextSafe, PTL DEF Spec

\* However many requests overlap, fail or are retried: a session is approved only
\* together with a user bound to an enrolled identity of the user's country.
THEOREM ApprovedIsBound == Spec => []ApprovedBound
BY SafeImplies, AlwaysTyped, AlwaysSafe, PTL

\* No two identity rows share an identity_hash, though every enrolment decides to
\* insert on a SELECT that may be stale by the time it inserts.
THEOREM HashesUnique == Spec => []HashUnique
BY SafeImplies, AlwaysTyped, AlwaysSafe, PTL

-----------------------------------------------------------------------------
(* What an overlap cannot do to the retry budget.  Two submissions that     *)
(* overlap may share one count (MCReprocess), but no count is charged       *)
(* without a decision.  A request in flight may hold one attempt more than  *)
(* the log has decisions: the one that it logs when it commits.             *)

Charged(row) == row.signals.attempts

Undecided(q) == q.item = 0 /\ q.pc \in {"loaded", "searched", "enrolling"}

\* A request of either kind: what it read was logged, and so is what it will write.
BackedRequest(r) ==
    LET q == req[r] IN
    InFlight(r) =>
        /\ Charged(q.loaded) <= decisions[q.session]
        /\ Charged(q.draft) <= decisions[q.session] + IF Undecided(q) THEN 1 ELSE 0
        /\ q.pc \in {"passport", "loaded", "searched"} => q.item = 0

ChargesLogged ==
    \A s \in Sessions : session[s] # None => Charged(session[s]) <= decisions[s]

Backed == ChargesLogged /\ \A r \in Requests : BackedRequest(r)

LEMMA InitBacked == Init => Backed
BY DEF Init, Backed, ChargesLogged, BackedRequest, InFlight, Idle

LEMMA ChargedType == \A row \in SessionRow : Charged(row) \in Int
BY NumberAssumption DEF SessionRow, Signals, Charged

LEMMA FlushCharges ==
    ASSUME NEW row \in SessionRow, NEW loaded \in SessionRow, NEW draft \in SessionRow
    PROVE  Charged(Flush(row, loaded, draft)) \in {Charged(row), Charged(draft)}
BY DEF Flush, Net, SessionRow, Charged

\* The flush of the decision writes the signals once, with the autoflush.
LEMMA DecisionCharges ==
    ASSUME NEW row \in SessionRow, NEW q, NEW decided \in SessionRow,
           q.loaded \in SessionRow, q.draft \in SessionRow,
           decided.signals = q.draft.signals
    PROVE  Charged(FlushDecision(row, q, decided)) \in {Charged(row), Charged(q.draft)}
<1> DEFINE first == Flush(row, q.loaded, q.draft)
<1>1. first \in SessionRow /\ Charged(first) \in {Charged(row), Charged(q.draft)}
  BY FlushRow, FlushCharges
<1>2. FlushDecision(row, q, decided) = Flush(first, q.draft, decided)
  BY DEF FlushDecision
<1> HIDE DEF first
<1>3. Charged(Flush(first, q.draft, decided)) = Charged(first)
  BY <1>1 DEF Flush, Net, SessionRow, Charged
<1> QED
  BY <1>1, <1>2, <1>3

\* The log only grows; a step has to account for the rows it writes and the requests
\* that it changes.
LEMMA BackedFrame ==
    ASSUME Typed, Backed, Typed',
           \A s \in Sessions : decisions[s] <= decisions'[s],
           \A s \in Sessions : session'[s] # None =>
               session'[s] = session[s] \/ Charged(session'[s]) <= decisions'[s],
           \A r \in Requests : req'[r] = req[r] \/ BackedRequest(r)'
    PROVE  Backed'
<1>1. \A s \in Sessions : decisions[s] \in Int /\ decisions'[s] \in Int
  BY DEF Typed, TypeOK
<1>2. ChargesLogged'
  <2> SUFFICES ASSUME NEW s \in Sessions, session'[s] # None, session'[s] = session[s]
               PROVE  Charged(session'[s]) <= decisions'[s]
    BY DEF ChargesLogged, Charged
  <2>1. session[s] \in SessionRow /\ Charged(session[s]) <= decisions[s]
    BY DEF Typed, TypeOK, Backed, ChargesLogged
  <2> QED
    BY <2>1, <1>1, ChargedType
<1>3. ASSUME NEW r \in Requests, req'[r] = req[r]
      PROVE  BackedRequest(r)'
  <2> SUFFICES ASSUME InFlight(r) PROVE BackedRequest(r)'
    BY <1>3 DEF BackedRequest, InFlight
  <2> DEFINE q == req[r]
             due == IF Undecided(q) THEN 1 ELSE 0
  <2>1. q.session \in Sessions /\ q.loaded \in SessionRow /\ q.draft \in SessionRow
    BY RequestType
  <2>2. /\ Charged(q.loaded) <= decisions[q.session]
        /\ Charged(q.draft) <= decisions[q.session] + due
        /\ q.pc \in {"passport", "loaded", "searched"} => q.item = 0
    BY DEF Backed, BackedRequest
  <2>3. due \in Int
    OBVIOUS
  <2>4. Charged(q.loaded) \in Int /\ Charged(q.draft) \in Int
    BY <2>1, ChargedType
  <2>5. decisions[q.session] \in Int /\ decisions'[q.session] \in Int
        /\ decisions[q.session] <= decisions'[q.session]
    BY <2>1, <1>1
  <2> HIDE DEF due
  <2>6. Charged(q.loaded) <= decisions'[q.session]
        /\ Charged(q.draft) <= decisions'[q.session] + due
    BY <2>2, <2>3, <2>4, <2>5
  <2> QED
    BY <1>3, <2>2, <2>6 DEF BackedRequest, Undecided, Charged, due
<1> QED
  BY <1>2, <1>3 DEF Backed

\* A handler that ends and writes row s, or none.
LEMMA BackedClose ==
    ASSUME Typed, Backed, Typed', NEW r \in Requests, Close(r),
           NEW s \in Sessions, NEW row,
           session' = session \/ session' = [session EXCEPT ![s] = row],
           \/ decisions' = decisions
           \/ decisions' = [decisions EXCEPT ![s] = @ + 1],
           session' # session => Charged(row) <= decisions'[s]
    PROVE  Backed'
<1>1. decisions \in [Sessions -> Nat] /\ session \in [Sessions -> SessionRow \cup {None}]
      /\ req \in [Requests -> Request]
  BY DEF Typed, TypeOK
<1>2. \A x \in Sessions : decisions[x] <= decisions'[x]
  BY <1>1
<1>3. \A x \in Sessions : session'[x] = session[x] \/ Charged(session'[x]) <= decisions'[x]
  <2> SUFFICES ASSUME NEW x \in Sessions, session'[x] # session[x]
               PROVE  Charged(session'[x]) <= decisions'[x]
    OBVIOUS
  <2>1. session' # session /\ session' = [session EXCEPT ![s] = row]
    OBVIOUS
  <2>2. x = s /\ session'[x] = row
    BY <2>1, <1>1
  <2> QED
    BY <2>1, <2>2
<1>4. req'[r] = Idle /\ \A x \in Requests \ {r} : req'[x] = req[x]
  BY <1>1 DEF Close
<1>5. BackedRequest(r)'
  BY <1>4 DEF BackedRequest, InFlight, Idle
<1> QED
  BY <1>2, <1>3, <1>4, <1>5, BackedFrame

\* A step of request r that writes no row and logs nothing.
LEMMA BackedRead ==
    ASSUME Typed, Backed, Typed', UNCHANGED <<session, decisions>>,
           NEW r \in Requests, NEW new, req' = [req EXCEPT ![r] = new],
           BackedRequest(r)'
    PROVE  Backed'
<1>1. decisions \in [Sessions -> Nat] /\ req \in [Requests -> Request]
  BY DEF Typed, TypeOK
<1>2. \A s \in Sessions : decisions[s] <= decisions'[s]
  BY <1>1
<1>3. \A x \in Requests : req'[x] = req[x] \/ BackedRequest(x)'
  BY <1>1
<1> QED
  BY <1>2, <1>3, BackedFrame

\* Everything but a decision leaves the log as it is.
LEMMA BackedIdle ==
    ASSUME Typed, Backed, Typed', UNCHANGED <<session, decisions, req>>
    PROVE  Backed'
<1>1. \A s \in Sessions : decisions[s] <= decisions'[s]
  BY DEF Typed, TypeOK
<1> QED
  BY <1>1, BackedFrame

LEMMA OnboardBacked ==
    ASSUME Typed, Backed, Typed', NEW w \in Wallets, NEW c \in Countries, NEW p \in Phones,
           NEW d \in Devices, NEW s \in Sessions, Onboard(w, c, p, d, s)
    PROVE  Backed'
<1>1. decisions \in [Sessions -> Nat] /\ session \in [Sessions -> SessionRow \cup {None}]
      /\ decisions' = decisions /\ req' = req
  BY DEF Typed, TypeOK, Onboard
<1>2. \A x \in Sessions : x # s => session'[x] = session[x]
  BY <1>1 DEF Onboard
<1>3. Charged(session'[s]) = 0
  BY <1>1 DEF Onboard, Charged
<1>4. \A x \in Sessions : decisions[x] <= decisions'[x]
  BY <1>1
<1>5. \A x \in Sessions : session'[x] = session[x] \/ Charged(session'[x]) <= decisions'[x]
  BY <1>1, <1>2, <1>3
<1> QED
  BY <1>1, <1>4, <1>5, BackedFrame

\* A request that reads its row starts within the budget of the row.
LEMMA StartBacked ==
    ASSUME Typed, Backed, Typed', UNCHANGED <<session, decisions>>,
           NEW r \in Requests, NEW s \in Sessions, session[s] # None, NEW new,
           new.session = s, new.loaded = session[s], new.draft \in SessionRow,
           \/ Charged(new.draft) = Charged(session[s])
           \/ Undecided(new) /\ Charged(new.draft) = Charged(session[s]) + 1,
           new.pc \in {"passport", "loaded", "searched"} => new.item = 0,
           req' = [req EXCEPT ![r] = new]
    PROVE  Backed'
<1>1. /\ session[s] \in SessionRow /\ decisions[s] \in Nat
      /\ req \in [Requests -> Request]
  BY DEF Typed, TypeOK
<1>2. Charged(session[s]) \in Int /\ Charged(session[s]) <= decisions[s]
  BY <1>1, ChargedType DEF Backed, ChargesLogged
<1>3. Charged(new.draft) <= decisions[s] + IF Undecided(new) THEN 1 ELSE 0
  <2>1. CASE Charged(new.draft) = Charged(session[s])
    BY <2>1, <1>1, <1>2
  <2>2. CASE Undecided(new) /\ Charged(new.draft) = Charged(session[s]) + 1
    BY <2>2, <1>1, <1>2
  <2> QED
    BY <2>1, <2>2
<1>4. req'[r] = new
  BY <1>1
<1>5. BackedRequest(r)'
  BY <1>2, <1>3, <1>4 DEF BackedRequest, Charged, Undecided
<1> QED
  BY <1>5, BackedRead

LEMMA SubmitPassportBacked ==
    ASSUME Typed, Backed, Typed', NEW r \in Requests, NEW s \in Sessions,
           \/ \E p \in Passports : SubmitPassport(r, s, p)
           \/ SubmitOtherDocument(r, s)
    PROVE  Backed'
<1>1. session[s] # None /\ session[s] \in SessionRow
  BY DEF SubmitPassport, SubmitOtherDocument, OpenPassport, CanStart, Typed, TypeOK
<1>2. PICK draft \in SessionRow :
          OpenPassport(r, s, draft) /\ Charged(draft) = Charged(session[s])
  <2>1. ASSUME NEW p \in Passports
        PROVE  /\ WithPassport(session[s], p) \in SessionRow
               /\ Charged(WithPassport(session[s], p)) = Charged(session[s])
    <3>1. WithPassport(session[s], p) \in SessionRow
      BY <1>1, PassportRow
    <3>2. session[s].signals \in Signals
      BY <1>1 DEF SessionRow
    <3> QED
      BY <1>1, <3>1, <3>2 DEF WithPassport, SessionRow, Signals, Charged
  <2>2. WithOtherDocument(session[s]) \in SessionRow
        /\ Charged(WithOtherDocument(session[s])) = Charged(session[s])
    BY <1>1, OtherDocumentRow DEF WithOtherDocument, SessionRow, Signals, Charged
  <2> QED
    BY <2>1, <2>2 DEF SubmitPassport, SubmitOtherDocument
<1> DEFINE new == [Idle EXCEPT !.pc = "passport", !.session = s,
                               !.loaded = session[s], !.draft = draft]
<1>3. /\ new.session = s /\ new.loaded = session[s] /\ new.draft = draft
      /\ new.item = 0
  BY DEF Idle
<1>4. req' = [req EXCEPT ![r] = new] /\ UNCHANGED <<session, decisions>>
  BY <1>2 DEF OpenPassport
<1> HIDE DEF new
<1> QED
  BY <1>1, <1>2, <1>3, <1>4, StartBacked

LEMMA SubmitBiometricsBacked ==
    ASSUME Typed, Backed, Typed', NEW r \in Requests, NEW s \in Sessions, NEW seed \in Seeds,
           NEW n \in Nonces, NEW framesOk \in BOOLEAN, NEW score \in MatchScores,
           SubmitBiometrics(r, s, seed, n, framesOk, score)
    PROVE  Backed'
<1> DEFINE draft == WithBiometrics(session[s], seed)
           new == [Idle EXCEPT !.pc = "loaded", !.session = s, !.loaded = session[s],
                               !.draft = draft, !.live = challenge[n] = "open" /\ framesOk,
                               !.score = score]
<1>1. session[s] # None /\ session[s] \in SessionRow /\ Retryable(session[s])
  BY DEF SubmitBiometrics, CanStart, Typed, TypeOK
<1>2. /\ req' = [req EXCEPT ![r] = new] /\ UNCHANGED <<session, decisions>>
  BY DEF SubmitBiometrics
<1>3. Charged(draft) = Charged(session[s]) + 1
  BY <1>1 DEF WithBiometrics, SessionRow, Signals, Charged
<1>4. /\ new.session = s /\ new.loaded = session[s] /\ new.draft = draft
      /\ new.item = 0 /\ new.pc = "loaded"
  BY DEF Idle
<1>5. req'[r] = new /\ InFlight(r)'
  BY <1>2, <1>4 DEF InFlight, Typed, TypeOK
<1> HIDE DEF new, draft
<1>6. draft \in SessionRow
  BY <1>4, <1>5 DEF Typed, RequestsOK, RequestOK
<1>7. Undecided(new)
  BY <1>4 DEF Undecided
<1> QED
  BY <1>1, <1>2, <1>3, <1>4, <1>6, <1>7, StartBacked

LEMMA OpenReviewBacked ==
    ASSUME Typed, Backed, Typed', NEW r \in Requests, NEW i \in DOMAIN queue,
           NEW x \in {"approve", "reject"}, OpenReview(r, i, x)
    PROVE  Backed'
<1> DEFINE s == queue[i].session
           new == [Idle EXCEPT !.pc = "resolving", !.session = s, !.item = i,
                               !.loaded = session[s], !.draft = Resolved(session[s], x)]
<1>1. s \in Sessions
  <2>1. queue \in Seq(ReviewItem) /\ i \in 1..Len(queue)
    BY DEF Typed, TypeOK
  <2>2. queue[i] \in ReviewItem
    BY <2>1
  <2> QED
    BY <2>2 DEF ReviewItem
<1>2. session[s] # None /\ session[s] \in SessionRow
  BY <1>1 DEF OpenReview, CanStart, Typed, TypeOK
<1>3. req' = [req EXCEPT ![r] = new] /\ UNCHANGED <<session, decisions>>
  BY DEF OpenReview
<1>4. Resolved(session[s], x) \in SessionRow
      /\ Charged(Resolved(session[s], x)) = Charged(session[s])
  BY <1>2, ResolvedRow DEF Charged
<1>5. /\ new.session = s /\ new.loaded = session[s] /\ new.pc = "resolving"
      /\ new.draft = Resolved(session[s], x)
  BY DEF Idle
<1> HIDE DEF new, s
<1> QED
  BY <1>1, <1>2, <1>3, <1>4, <1>5, StartBacked

\* A request that goes on keeps its copies; only what they are good for may change.
LEMMA GoesOnBacked ==
    ASSUME Typed, Backed, Typed', UNCHANGED <<session, decisions>>,
           NEW r \in Requests, InFlight(r), NEW new,
           new.session = req[r].session, new.loaded = req[r].loaded,
           Charged(new.draft) = Charged(req[r].draft),
           Undecided(new) = Undecided(req[r]),
           new.pc \in {"passport", "loaded", "searched"} => new.item = 0,
           req' = [req EXCEPT ![r] = new]
    PROVE  Backed'
<1>1. req'[r] = new
  BY DEF Typed, TypeOK
<1>2. /\ Charged(req[r].loaded) <= decisions[req[r].session]
      /\ Charged(req[r].draft) <=
            decisions[req[r].session] + IF Undecided(req[r]) THEN 1 ELSE 0
  BY DEF Backed, BackedRequest
<1>3. BackedRequest(r)'
  BY <1>1, <1>2 DEF BackedRequest, Charged, Undecided
<1> QED
  BY <1>3, BackedRead

LEMMA SearchBacked ==
    ASSUME Typed, Backed, Typed', NEW r \in Requests, Search(r)
    PROVE  Backed'
<1> DEFINE new == [req[r] EXCEPT !.pc = "searched",
                      !.dedup = DedupOutcome(FaceOf[req[r].draft.signals.person_seed])]
<1>1. /\ req[r].pc = "loaded" /\ InFlight(r)
      /\ req' = [req EXCEPT ![r] = new] /\ UNCHANGED <<session, decisions>>
  BY DEF Search, InFlight
<1>2. req[r] \in Request /\ req[r].item = 0
  BY <1>1 DEF Typed, TypeOK, Backed, BackedRequest
<1>3. /\ new.session = req[r].session /\ new.loaded = req[r].loaded
      /\ new.draft = req[r].draft /\ new.item = req[r].item /\ new.pc = "searched"
  BY <1>2 DEF Request
<1> HIDE DEF new
<1>4. Undecided(new) = Undecided(req[r])
  BY <1>1, <1>2, <1>3 DEF Undecided
<1> QED
  BY <1>1, <1>2, <1>3, <1>4, GoesOnBacked

\* The approval of a submission is still to be logged, that of a reviewer is not.
LEMMA LookupBacked ==
    ASSUME Typed, Backed, Typed', NEW r \in Requests, Lookup(r),
           \/ req[r].pc = "searched"
           \/ req[r].pc = "resolving",
           UNCHANGED <<session, decisions>>
    PROVE  Backed'
<1> DEFINE new == [req[r] EXCEPT !.pc = "enrolling",
                      !.draft = [req[r].draft EXCEPT !.status = "approved",
                                                     !.decision = "approve"],
                      !.found = \E i \in identity : i.hash = IdentityHash(req[r]),
                      !.bound = user[req[r].draft.user].identity]
<1>1. InFlight(r) /\ req' = [req EXCEPT ![r] = new]
  BY DEF Lookup, InFlight
<1>2. req[r] \in Request /\ req[r].draft \in SessionRow
  BY <1>1, RequestType
<1>3. /\ new.session = req[r].session /\ new.loaded = req[r].loaded
      /\ Charged(new.draft) = Charged(req[r].draft)
      /\ new.item = req[r].item /\ new.pc = "enrolling"
  BY <1>2 DEF Request, SessionRow, Charged
<1>4. IF req[r].pc = "searched" THEN req[r].item = 0 ELSE req[r].item # 0
  BY <1>1 DEF Typed, RequestsOK, RequestOK, Backed, BackedRequest
<1> HIDE DEF new
<1>5. Undecided(new) = Undecided(req[r])
  BY <1>3, <1>4 DEF Undecided
<1> QED
  BY <1>1, <1>3, <1>5, GoesOnBacked

\* The charges of a row that a request in flight writes back.
LEMMA WrittenCharges ==
    ASSUME Typed, Backed, NEW r \in Requests, InFlight(r), NEW row \in SessionRow,
           Charged(row) \in {Charged(session[req[r].session]), Charged(req[r].draft)}
    PROVE  Charged(row) <= decisions[req[r].session] + IF Undecided(req[r]) THEN 1 ELSE 0
<1> DEFINE s == req[r].session
           due == IF Undecided(req[r]) THEN 1 ELSE 0
<1>1. /\ s \in Sessions /\ session[s] # None /\ session[s] \in SessionRow
  BY RequestType
<1>2. decisions[s] \in Int /\ Charged(session[s]) \in Int
  BY <1>1, ChargedType DEF Typed, TypeOK
<1>3. Charged(session[s]) <= decisions[s] /\ Charged(req[r].draft) <= decisions[s] + due
  BY <1>1 DEF Backed, ChargesLogged, BackedRequest
<1>4. due \in Int /\ due >= 0
  OBVIOUS
<1> HIDE DEF due, s
<1>5. Charged(session[s]) <= decisions[s] + due
  BY <1>2, <1>3, <1>4
<1> QED
  BY <1>3, <1>5 DEF due, s

\* A handler that writes back its draft and logs nothing was charged for nothing.
LEMMA UnloggedBacked ==
    ASSUME Typed, Backed, Typed', NEW r \in Requests, InFlight(r), Close(r),
           ~Undecided(req[r]), UNCHANGED decisions,
           session' = [session EXCEPT ![req[r].session] =
                          Flush(@, req[r].loaded, req[r].draft)]
    PROVE  Backed'
<1> DEFINE s == req[r].session
           row == Flush(session[s], req[r].loaded, req[r].draft)
<1>1. /\ s \in Sessions /\ session[s] \in SessionRow
      /\ req[r].loaded \in SessionRow /\ req[r].draft \in SessionRow
  BY RequestType
<1>2. row \in SessionRow /\ Charged(row) \in {Charged(session[s]), Charged(req[r].draft)}
  BY <1>1, FlushRow, FlushCharges
<1>3. session' = [session EXCEPT ![s] = row]
  OBVIOUS
<1> HIDE DEF row
<1>4. Charged(row) <= decisions[s] + 0
  BY <1>2, WrittenCharges
<1>5. Charged(row) <= decisions'[s]
  BY <1>1, <1>4 DEF Typed, TypeOK
<1> QED
  BY <1>1, <1>3, <1>5, BackedClose

\* A decision is logged in the step that writes the row.
LEMMA LoggedBacked ==
    ASSUME Typed, Backed, Typed', NEW r \in Requests, InFlight(r), Close(r),
           LogDecision(req[r].session), NEW row \in SessionRow,
           Charged(row) \in {Charged(session[req[r].session]), Charged(req[r].draft)},
           session' = [session EXCEPT ![req[r].session] = row]
    PROVE  Backed'
<1> DEFINE s == req[r].session
<1>1. s \in Sessions
  BY RequestType
<1>2. decisions' = [decisions EXCEPT ![s] = @ + 1] /\ decisions'[s] = decisions[s] + 1
      /\ decisions[s] \in Nat
  BY <1>1 DEF LogDecision, Typed, TypeOK
<1>3. Charged(row) <= decisions[s] + IF Undecided(req[r]) THEN 1 ELSE 0
  BY WrittenCharges
<1>4. Charged(row) \in Int
  BY ChargedType
<1>5. Charged(row) <= decisions'[s]
  BY <1>2, <1>3, <1>4
<1> HIDE DEF s
<1> QED
  BY <1>1, <1>2, <1>5, BackedClose DEF s

LEMMA DecideRejectBacked ==
    ASSUME Typed, Backed, Typed', NEW r \in Requests, DecideReject(r)
    PROVE  Backed'
<1> DEFINE q == req[r]
           decided == [q.draft EXCEPT !.status = "rejected", !.decision = "reject",
                                      !.reject_reason = RejectReason(q)]
           row == FlushDecision(session[q.session], q, decided)
<1>1. /\ InFlight(r) /\ q.session \in Sessions /\ session[q.session] \in SessionRow
      /\ q.loaded \in SessionRow /\ q.draft \in SessionRow
  BY RequestType DEF DecideReject, InFlight
<1>2. decided \in SessionRow /\ decided.signals = q.draft.signals
  BY <1>1, DecidedRow DEF RejectReason, Reasons, SessionRow
<1>3. Close(r) /\ LogDecision(q.session) /\ session' = [session EXCEPT ![q.session] = row]
  BY DEF DecideReject
<1> HIDE DEF decided
<1>4. row \in SessionRow /\ Charged(row) \in {Charged(session[q.session]), Charged(q.draft)}
  BY <1>1, <1>2, FlushDecisionRow, DecisionCharges
<1> HIDE DEF row
<1> QED
  BY <1>1, <1>3, <1>4, LoggedBacked

LEMMA DecideReviewBacked ==
    ASSUME Typed, Backed, Typed', NEW r \in Requests, DecideReview(r)
    PROVE  Backed'
<1> DEFINE q == req[r]
           decided == [q.draft EXCEPT !.status = "pending_review", !.decision = "review"]
           row == FlushDecision(session[q.session], q, decided)
<1>1. /\ InFlight(r) /\ q.session \in Sessions /\ session[q.session] \in SessionRow
      /\ q.loaded \in SessionRow /\ q.draft \in SessionRow
  BY RequestType DEF DecideReview, InFlight
<1>2. decided \in SessionRow /\ decided.signals = q.draft.signals
  BY <1>1, DecidedRow DEF SessionRow
<1>3. Close(r) /\ LogDecision(q.session) /\ session' = [session EXCEPT ![q.session] = row]
  BY DEF DecideReview
<1> HIDE DEF decided
<1>4. row \in SessionRow /\ Charged(row) \in {Charged(session[q.session]), Charged(q.draft)}
  BY <1>1, <1>2, FlushDecisionRow, DecisionCharges
<1> HIDE DEF row
<1> QED
  BY <1>1, <1>3, <1>4, LoggedBacked

LEMMA CommitApprovalBacked ==
    ASSUME Typed, Backed, Typed', NEW r \in Requests, CommitApproval(r)
    PROVE  Backed'
<1> DEFINE q == req[r]
           row == Flush(session[q.session], q.loaded, q.draft)
<1>1. /\ InFlight(r) /\ q.session \in Sessions /\ session[q.session] \in SessionRow
      /\ q.loaded \in SessionRow /\ q.draft \in SessionRow
  BY RequestType DEF CommitApproval, InFlight
<1>2. Close(r) /\ LogDecision(q.session) /\ session' = [session EXCEPT ![q.session] = row]
  BY DEF CommitApproval, FinalizeIdentity
<1>3. row \in SessionRow /\ Charged(row) \in {Charged(session[q.session]), Charged(q.draft)}
  BY <1>1, FlushRow, FlushCharges
<1> HIDE DEF row
<1> QED
  BY <1>1, <1>2, <1>3, LoggedBacked

LEMMA NextBacked == Typed /\ Typed' /\ Backed /\ [Next]_vars => Backed'
<1> SUFFICES ASSUME Typed, Typed', Backed, [Next]_vars PROVE Backed'
  OBVIOUS
<1>1. CASE Arrive
  <2>1. ASSUME NEW n \in Nonces, IssueChallenge(n) \/ ExpireChallenge(n)
        PROVE  Backed'
    BY <2>1, BackedIdle DEF IssueChallenge, ExpireChallenge
  <2> QED
    BY <1>1, <2>1, OnboardBacked, SubmitPassportBacked, SubmitBiometricsBacked,
       OpenReviewBacked DEF Arrive
<1>2. ASSUME NEW r \in Requests, Abort(r) \/ Conflict(r) \/ KeyError(r)
      PROVE  Backed'
  <2>1. Close(r) /\ UNCHANGED <<session, decisions>>
    BY <1>2 DEF Abort, Conflict, KeyError
  <2>2. req[r].session \in Sessions
    BY <1>2, RequestType DEF Abort, Conflict, KeyError, InFlight
  <2> QED
    BY <2>1, <2>2, BackedClose
<1>3. ASSUME NEW r \in Requests, CommitPassport(r) \/ ReviewReject(r) \/ CommitReviewApproval(r)
      PROVE  Backed'
  <2>1. InFlight(r) /\ Close(r) /\ UNCHANGED decisions
        /\ session' = [session EXCEPT ![req[r].session] =
                          Flush(@, req[r].loaded, req[r].draft)]
    BY <1>3 DEF CommitPassport, ReviewReject, CommitReviewApproval, FinalizeIdentity, InFlight
  <2>2. ~Undecided(req[r])
    BY <1>3 DEF CommitPassport, ReviewReject, CommitReviewApproval, Undecided
  <2> QED
    BY <2>1, <2>2, UnloggedBacked
<1>4. ASSUME NEW r \in Requests, DecideApprove(r) \/ ReviewApprove(r)
      PROVE  Backed'
  BY <1>4, LookupBacked DEF DecideApprove, ReviewApprove
<1>5. CASE UNCHANGED vars
  BY <1>5, BackedIdle DEF vars
<1> QED
  BY <1>1, <1>2, <1>3, <1>4, <1>5, SearchBacked, DecideRejectBacked, DecideReviewBacked,
     CommitApprovalBacked DEF Next, Step

LEMMA AlwaysBacked == Spec => []Backed
BY InitBacked, AlwaysTyped, NextBacked, PTL DEF Spec

\* A request that overlaps others may write back fewer attempts than were decided; none
\* writes more (verification.py:143, 180).
THEOREM AttemptsWereDecided == Spec => []NoAttemptWithoutDecision
BY AlwaysBacked, PTL DEF Backed, ChargesLogged, Charged, NoAttemptWithoutDecision
=============================================================================
