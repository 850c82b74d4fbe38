---------------------------- MODULE WizardProofs ----------------------------
(***************************************************************************)
(* Invariants of Wizard for any number of visits and any attempt budget.   *)
(***************************************************************************)
EXTENDS Wizard, FiniteSetTheorems, TLAPS

-----------------------------------------------------------------------------
(* Types, and where the page stands.                                       *)

AnyReason == RowReason \cup {"already_verified", "in_manual_review", "too_many_attempts"}

Result == [status : Status, reason : AnyReason]

PageRecord == [step : 0..3, session : Visits \cup {Nil}, attempt : Tries,
               result : Result \cup {Nil}, challenge : Nat \cup {Nil}]

Answer == [code : {"ok"}, status : Status, reason : RowReason]
            \cup [code : {"conflict"}, reason : AnyReason]

PostRecord == {[code |-> "none"], [code |-> "sending"], [code |-> "error"], [code |-> "failed"]}
                \cup Answer

WizTyped ==
    /\ page \in PageRecord
    /\ cache \in [Visits \X Tries -> Nat \cup {Nil}]
    /\ post \in PostRecord
    /\ rows \in [Visits -> SessionRow \cup {Nil}]
    /\ jobs \subseteq {v \in Visits : rows[v] # Nil}

\* A request is out only from the liveness step; a visit begins with an empty page.
PagePlace ==
    /\ post # Idle => page.step = 2
    /\ page.step = 0 => page = Initial
    /\ page.step # 0 => page.session \in Visits /\ rows[page.session] # Nil
    /\ page.challenge # Nil => page.step = 2

Placed == WizTyped /\ PagePlace

-----------------------------------------------------------------------------
(* Nonces are numbered in the order of their issue, and kept for the       *)
(* session and attempt they were fetched for.                              *)

Issued == {k \in DOMAIN cache : cache[k] # Nil}

NoncesNumbered ==
    /\ \A k \in Issued : cache[k] \in 1..Cardinality(Issued)
    /\ sent \subseteq 1..Cardinality(Issued)

\* Nothing is cached for a session that does not exist or an attempt still to come, and
\* what is cached for the one at hand is sent only by the request now out.
CacheKeepsUp ==
    /\ \A v \in Visits : rows[v] = Nil => \A a \in Tries : cache[<<v, a>>] = Nil
    /\ page.step # 0 => \A a \in Tries : a > page.attempt => cache[<<page.session, a>>] = Nil
    /\ page.challenge # Nil => page.challenge = cache[<<page.session, page.attempt>>]
    /\ page.step \in {1, 2} /\ post = Idle => cache[<<page.session, page.attempt>>] \notin sent

FreshInv == Placed /\ NoncesNumbered /\ CacheKeepsUp

-----------------------------------------------------------------------------
(* What the page believes, when the API decides inline.                    *)

\* The row at the time the page may submit.
Submittable(row) ==
    /\ row.mrz
    /\ row.status = "rejected" \/ (row.status = "documents_submitted" /\ row.attempts = 0)

LockedOut(row) == row.status = "rejected" /\ row.attempts = Budget

\* What an answer or a result says of a row that can no longer change but by a retry.
Truthful(status, reason, row) ==
    \/ status \in {"approved", "pending_review"}
    \/ /\ row.status = "rejected" /\ row.reason = reason /\ row.mrz
       /\ reason \in {"liveness_failed", "face_mismatch_selfie_vs_passport", "duplicate_identity"}

PageBelieves(row) ==
    /\ page.step = 1 => row.status \in {"started", "documents_submitted"} /\ row.attempts = 0
    /\ page.step = 2 /\ post.code \in {"none", "sending"} => Submittable(row)
    /\ post.code = "ok" => Truthful(post.status, post.reason, row)
    /\ post.code = "conflict" => post.reason = "too_many_attempts" /\ LockedOut(row)
    /\ page.step = 3 => \/ Truthful(page.result.status, page.result.reason, row)
                        \/ page.result.reason = "too_many_attempts" /\ LockedOut(row)

Inline ==
    /\ jobs = {}
    /\ \A v \in Visits : rows[v] # Nil => rows[v].attempts <= Budget
    /\ page.step # 0 => PageBelieves(rows[page.session])

InlineInv == Placed /\ (dispatch = "inline" => Inline)

-----------------------------------------------------------------------------

LEMMA RowIsNotNil == ASSUME NEW row \in SessionRow PROVE row # Nil
BY WizardAssumption

LEMMA VerdictRow ==
    ASSUME NEW row \in SessionRow, NEW verdict \in Verdicts(row)
    PROVE  /\ AfterVerdict(row, verdict) \in SessionRow
           /\ AfterVerdict(row, verdict).status = verdict[1]
           /\ AfterVerdict(row, verdict).reason = verdict[2]
           /\ AfterVerdict(row, verdict).attempts = row.attempts + 1
           /\ AfterVerdict(row, verdict).mrz = row.mrz
<1>1. verdict[1] \in Status /\ verdict[2] \in RowReason
  <2>1. CASE ~row.mrz
    BY <2>1 DEF Verdicts, Status, RowReason
  <2>2. CASE row.mrz /\ verdict \in {<<"approved", Nil>>, <<"pending_review", Nil>>}
    BY <2>2 DEF Status, RowReason
  <2>3. CASE row.mrz /\ verdict \in {"rejected"} \X {"liveness_failed", "face_mismatch_selfie_vs_passport",
                                                    "duplicate_identity"}
    BY <2>3 DEF Status, RowReason
  <2> QED
    BY <2>1, <2>2, <2>3 DEF Verdicts
<1>2. row.attempts \in Nat /\ row.mrz \in BOOLEAN
  BY DEF SessionRow
<1>3. row.attempts + 1 \in Nat
  BY <1>2
<1> QED
  BY <1>1, <1>2, <1>3 DEF AfterVerdict, SessionRow

LEMMA PlacedInit == WizardInit => Placed
<1> SUFFICES ASSUME WizardInit PROVE Placed
  OBVIOUS
<1>1. 0 \in Tries
  BY WizardAssumption DEF Tries
<1>2. Initial \in PageRecord /\ Initial.step = 0 /\ Initial.challenge = Nil
  BY <1>1 DEF Initial, PageRecord
<1> QED
  BY <1>2 DEF WizardInit, Placed, WizTyped, PagePlace, Idle, PostRecord

\* What [page EXCEPT ...] is, for the actions that move the page.
PageIs(p, step, session, attempt, result, challenge) ==
    /\ p \in PageRecord
    /\ p.step = step /\ p.session = session /\ p.attempt = attempt
    /\ p.result = result /\ p.challenge = challenge

LEMMA PageMoved ==
    ASSUME page \in PageRecord
    PROVE  /\ \A v \in Visits : PageIs([page EXCEPT !.session = v, !.step = 1],
                                        1, v, page.attempt, page.result, page.challenge)
           /\ \A n \in 0..3 : PageIs([page EXCEPT !.step = n],
                                      n, page.session, page.attempt, page.result, page.challenge)
           /\ \A c \in Nat : PageIs([page EXCEPT !.challenge = c],
                                     page.step, page.session, page.attempt, page.result, c)
           /\ \A r \in Result : PageIs([page EXCEPT !.step = 3, !.result = r, !.challenge = Nil],
                                        3, page.session, page.attempt, r, Nil)
           /\ \A n \in 0..3 : page.attempt + 1 \in Tries =>
                  PageIs(BackTo(n), n, page.session, page.attempt + 1, Nil, page.challenge)
<1> USE DEF PageIs, PageRecord
<1>1. \A v \in Visits : PageIs([page EXCEPT !.session = v, !.step = 1],
                                        1, v, page.attempt, page.result, page.challenge)
  <2> TAKE v \in Visits
  <2>1. PICK p \in PageRecord : p = [page EXCEPT !.session = v]
    OBVIOUS
  <2>2. /\ p.session = v /\ p.attempt = page.attempt
        /\ p.result = page.result /\ p.challenge = page.challenge
    BY <2>1
  <2>3. PageIs([p EXCEPT !.step = 1], 1, p.session, p.attempt, p.result, p.challenge)
    OBVIOUS
  <2>4. [page EXCEPT !.session = v, !.step = 1] = [p EXCEPT !.step = 1]
    BY <2>1, Zenon
  <2> HIDE DEF PageIs, PageRecord
  <2> QED
    BY <2>2, <2>3, <2>4
<1>2. \A n \in 0..3 : PageIs([page EXCEPT !.step = n],
                                      n, page.session, page.attempt, page.result, page.challenge)
  OBVIOUS
<1>3. \A c \in Nat : PageIs([page EXCEPT !.challenge = c],
                                     page.step, page.session, page.attempt, page.result, c)
  OBVIOUS
<1>4. \A r \in Result : PageIs([page EXCEPT !.step = 3, !.result = r, !.challenge = Nil],
                                        3, page.session, page.attempt, r, Nil)
  <2> TAKE r \in Result
  <2>1. PICK p \in PageRecord :
          /\ p = [page EXCEPT !.step = 3]
          /\ PageIs(p, 3, page.session, page.attempt, page.result, page.challenge)
    <3>1. 3 \in 0..3
      OBVIOUS
    <3> QED
      BY <1>2, <3>1, Zenon
  <2>2. /\ p.step = 3 /\ p.session = page.session /\ p.attempt = page.attempt
        /\ p.challenge = page.challenge
    BY <2>1
  <2>3. PICK q \in PageRecord : q = [p EXCEPT !.result = r]
    OBVIOUS
  <2>4. /\ q.step = 3 /\ q.session = page.session /\ q.attempt = page.attempt
        /\ q.result = r
    BY <2>2, <2>3
  <2>5. PageIs([q EXCEPT !.challenge = Nil], q.step, q.session, q.attempt, q.result, Nil)
    OBVIOUS
  <2>6. [page EXCEPT !.step = 3, !.result = r, !.challenge = Nil] = [q EXCEPT !.challenge = Nil]
    BY <2>1, <2>3, Zenon
  <2> HIDE DEF PageIs, PageRecord
  <2> QED
    BY <2>4, <2>5, <2>6
<1>5. \A n \in 0..3 : page.attempt + 1 \in Tries =>
                  PageIs(BackTo(n), n, page.session, page.attempt + 1, Nil, page.challenge)
  BY DEF BackTo
<1> QED
  BY <1>1, <1>2, <1>3, <1>4, <1>5

\* The same for a row.
RowIs(r, status, reason, attempts, mrz) ==
    r \in SessionRow /\ r.status = status /\ r.reason = reason /\ r.attempts = attempts /\ r.mrz = mrz

LEMMA RowMoved ==
    ASSUME NEW row \in SessionRow
    PROVE  /\ \A s \in Status : RowIs([row EXCEPT !.status = s], s, row.reason, row.attempts, row.mrz)
           /\ \A s \in Status, t \in RowReason :
                  RowIs([row EXCEPT !.status = s, !.reason = t], s, t, row.attempts, row.mrz)
           /\ \A m \in BOOLEAN : RowIs([row EXCEPT !.status = "documents_submitted", !.mrz = m],
                                      "documents_submitted", row.reason, row.attempts, m)
<1> USE DEF RowIs, SessionRow
<1>1. \A s \in Status : RowIs([row EXCEPT !.status = s], s, row.reason, row.attempts, row.mrz)
  OBVIOUS
<1>2. ASSUME NEW s \in Status, NEW t \in RowReason
      PROVE  RowIs([row EXCEPT !.status = s, !.reason = t], s, t, row.attempts, row.mrz)
  OBVIOUS
<1>3. ASSUME NEW m \in BOOLEAN
      PROVE  RowIs([row EXCEPT !.status = "documents_submitted", !.mrz = m],
                   "documents_submitted", row.reason, row.attempts, m)
  BY DEF Status
<1> QED
  BY <1>1, <1>2, <1>3

LEMMA RowWritten ==
    ASSUME rows \in [Visits -> SessionRow \cup {Nil}], NEW v \in Visits, NEW r \in SessionRow,
           rows' = [rows EXCEPT ![v] = r]
    PROVE  /\ rows' \in [Visits -> SessionRow \cup {Nil}]
           /\ rows'[v] = r /\ r # Nil
           /\ \A w \in Visits \ {v} : rows'[w] = rows[w]
           /\ {w \in Visits : rows[w] # Nil} \cup {v} = {w \in Visits : rows'[w] # Nil}
<1>1. r # Nil
  BY RowIsNotNil
<1> HIDE DEF SessionRow
<1>2. /\ rows' \in [Visits -> SessionRow \cup {Nil}]
      /\ rows'[v] = r
      /\ \A w \in Visits \ {v} : rows'[w] = rows[w]
  OBVIOUS
<1> QED
  BY <1>1, <1>2

LEMMA SomeRow ==
    ASSUME WizTyped, NEW v \in Visits, rows[v] # Nil
    PROVE  rows[v] \in SessionRow
BY DEF WizTyped

-----------------------------------------------------------------------------
(* What each action that writes a row or moves the page does, and that it  *)
(* keeps Placed.                                                           *)

LEMMA OnboardEffect ==
    ASSUME Placed, NEW v \in Visits, OnboardVisit(v)
    PROVE  /\ PageIs(page', 1, v, 0, Nil, Nil)
           /\ RowIs(rows'[v], "started", Nil, 0, FALSE)
           /\ \A w \in Visits \ {v} : rows'[w] = rows[w]
           /\ Placed'
<1> DEFINE new == [status |-> "started", reason |-> Nil, attempts |-> 0, mrz |-> FALSE]
<1>1. RowIs(new, "started", Nil, 0, FALSE)
  BY DEF RowIs, SessionRow, Status, RowReason
<1>2. rows' = [rows EXCEPT ![v] = new]
  BY DEF OnboardVisit
<1>3. new \in SessionRow
  BY <1>1 DEF RowIs
<1> HIDE DEF new
<1>4. /\ rows' \in [Visits -> SessionRow \cup {Nil}]
      /\ rows'[v] = new /\ new # Nil
      /\ \A w \in Visits \ {v} : rows'[w] = rows[w]
      /\ {w \in Visits : rows[w] # Nil} \cup {v} = {w \in Visits : rows'[w] # Nil}
  BY <1>2, <1>3, RowWritten DEF Placed, WizTyped
<1>5. page = Initial /\ page \in PageRecord
  BY DEF Placed, WizTyped, PagePlace, OnboardVisit
<1>6. PageIs(page', 1, v, page.attempt, page.result, page.challenge)
  BY <1>5, PageMoved DEF OnboardVisit
<1>7. page.attempt = 0 /\ page.result = Nil /\ page.challenge = Nil
  BY <1>5 DEF Initial
<1>8. PageIs(page', 1, v, 0, Nil, Nil)
  BY <1>6, <1>7
<1>9. post' = Idle /\ cache' = cache /\ jobs' = jobs
  BY <1>5 DEF OnboardVisit, Placed, PagePlace, Initial
<1>10. WizTyped'
  BY <1>4, <1>8, <1>9 DEF Placed, WizTyped, PageIs, OnboardVisit
<1>11. PagePlace'
  BY <1>4, <1>8, <1>9 DEF PagePlace, PageIs, Initial, Idle
<1> QED
  BY <1>1, <1>4, <1>8, <1>10, <1>11 DEF Placed

LEMMA PassportEffect ==
    ASSUME Placed, NEW valid \in BOOLEAN, SendPassport(valid)
    PROVE  LET v == page.session IN
           /\ v \in Visits /\ rows[v] \in SessionRow
           /\ PageIs(page', IF valid THEN 2 ELSE 1, v, page.attempt, page.result, page.challenge)
           /\ RowIs(rows'[v], "documents_submitted", rows[v].reason, rows[v].attempts, valid)
           /\ \A w \in Visits \ {v} : rows'[w] = rows[w]
           /\ post = Idle /\ page.challenge = Nil
           /\ Placed'
<1> DEFINE v == page.session
           new == [rows[v] EXCEPT !.status = "documents_submitted", !.mrz = valid]
<1>1. page.step = 1 /\ v \in Visits /\ rows[v] # Nil /\ post = Idle /\ page.challenge = Nil
  BY DEF SendPassport, Placed, PagePlace
<1>2. rows[v] \in SessionRow /\ page \in PageRecord
  BY <1>1, SomeRow DEF Placed, WizTyped
<1>3. RowIs(new, "documents_submitted", rows[v].reason, rows[v].attempts, valid)
  BY <1>2, RowMoved
<1>4. rows' = [rows EXCEPT ![v] = new]
  BY DEF SendPassport
<1>5. new \in SessionRow
  BY <1>3 DEF RowIs
<1> HIDE DEF new
<1>6. /\ rows' \in [Visits -> SessionRow \cup {Nil}]
      /\ rows'[v] = new /\ new # Nil
      /\ \A w \in Visits \ {v} : rows'[w] = rows[w]
      /\ {w \in Visits : rows[w] # Nil} \cup {v} = {w \in Visits : rows'[w] # Nil}
  BY <1>1, <1>4, <1>5, RowWritten DEF Placed, WizTyped
<1>7. PageIs(page', IF valid THEN 2 ELSE 1, v, page.attempt, page.result, page.challenge)
  <2> DEFINE n == IF valid THEN 2 ELSE 1
  <2>1. n \in 0..3 /\ page' = [page EXCEPT !.step = n]
    BY DEF SendPassport
  <2> HIDE DEF n
  <2>2. PageIs(page', n, v, page.attempt, page.result, page.challenge)
    BY <1>2, <2>1, PageMoved
  <2> QED
    BY <2>2 DEF n
<1>8. WizTyped'
  BY <1>6, <1>7 DEF Placed, WizTyped, PageIs, SendPassport
<1>9. PagePlace'
  BY <1>1, <1>6, <1>7 DEF PagePlace, PageIs, SendPassport, Idle
<1> QED
  BY <1>1, <1>2, <1>3, <1>6, <1>7, <1>8, <1>9 DEF Placed

LEMMA IssuedAreFinite ==
    ASSUME Placed
    PROVE  IsFiniteSet(Issued) /\ Cardinality(Issued) \in Nat
<1>1. Budget + 1 \in Int /\ 0 \in Int
  BY WizardAssumption
<1>2. IsFiniteSet(Tries)
  BY <1>1, FS_Interval DEF Tries
<1>3. IsFiniteSet(Visits \X Tries)
  BY <1>2, WizardAssumption, FS_Product
<1>4. Issued \subseteq Visits \X Tries
  BY DEF Issued, Placed, WizTyped
<1> QED
  BY <1>3, <1>4, FS_Subset, FS_CardinalityType

LEMMA ChallengeEffect ==
    ASSUME Placed, GetChallenge
    PROVE  LET key == <<page.session, page.attempt>>
               c == IF cache[key] = Nil THEN Cardinality(Issued) + 1 ELSE cache[key]
           IN  /\ key \in Visits \X Tries /\ c \in Nat
               /\ IsFiniteSet(Issued) /\ Cardinality(Issued) \in Nat
               /\ cache' = [cache EXCEPT ![key] = c]
               /\ page.step = 2 /\ post = Idle
               /\ PageIs(page', page.step, page.session, page.attempt, page.result, c)
               /\ Placed'
<1> DEFINE key == <<page.session, page.attempt>>
           c == IF cache[key] = Nil THEN Cardinality(Issued) + 1 ELSE cache[key]
<1>1. page.step = 2 /\ post = Idle /\ page \in PageRecord /\ page.session \in Visits
  BY DEF GetChallenge, Placed, PagePlace, WizTyped
<1>2. key \in Visits \X Tries /\ cache \in [Visits \X Tries -> Nat \cup {Nil}]
  BY <1>1 DEF PageRecord, Placed, WizTyped
<1>3. IsFiniteSet(Issued) /\ Cardinality(Issued) \in Nat
  BY IssuedAreFinite
<1>4. c \in Nat
  BY <1>2, <1>3
<1>5. cache' = [cache EXCEPT ![key] = c] /\ page' = [page EXCEPT !.challenge = c]
  BY DEF GetChallenge, Issued
<1> HIDE DEF c
<1>6. PageIs(page', page.step, page.session, page.attempt, page.result, c)
  BY <1>1, <1>4, <1>5, PageMoved
<1>7. WizTyped'
  <2>1. cache' \in [Visits \X Tries -> Nat \cup {Nil}]
    BY <1>2, <1>4, <1>5
  <2> QED
    BY <2>1, <1>6 DEF Placed, WizTyped, PageIs, GetChallenge
<1>8. PagePlace'
  BY <1>1, <1>6 DEF Placed, PagePlace, PageIs, GetChallenge, Initial
<1> QED
  BY <1>1, <1>2, <1>3, <1>4, <1>5, <1>6, <1>7, <1>8 DEF Placed, c

LEMMA ReceiveEffect ==
    ASSUME Placed, ReceiveAnswer
    PROVE  /\ page.step = 2
           /\ \/ post' = [code |-> "failed"] /\ page' = page
              \/ \E r \in Result :
                     /\ PageIs(page', 3, page.session, page.attempt, r, Nil) /\ post' = Idle
                     /\ \/ /\ post.code = "ok"
                           /\ r = [status |-> post.status, reason |-> post.reason]
                        \/ /\ post.code = "conflict"
                           /\ r = [status |-> "rejected", reason |-> post.reason]
           /\ Placed'
<1>1. /\ post.code \notin {"none", "sending", "failed"} /\ page.step = 2
      /\ page.session \in Visits /\ rows[page.session] # Nil
      /\ page \in PageRecord /\ post \in PostRecord /\ rows' = rows
  <2>1. post.code \notin {"none", "sending", "failed"} /\ rows' = rows
    BY DEF ReceiveAnswer
  <2>2. post # Idle
    BY <2>1 DEF Idle
  <2> QED
    BY <2>1, <2>2 DEF Placed, PagePlace, WizTyped
<1>2. CASE post' = [code |-> "failed"] /\ page' = page
  BY <1>1, <1>2 DEF Placed, WizTyped, PagePlace, ReceiveAnswer, PostRecord, Idle
<1>3. CASE post' = Idle /\ \E r \in ResultOf(post) : page' = [page EXCEPT !.step = 3, !.result = r, !.challenge = Nil]
  <2>1. PICK r \in ResultOf(post) : page' = [page EXCEPT !.step = 3, !.result = r, !.challenge = Nil]
    BY <1>3
  <2>2. /\ r \in Result
        /\ \/ /\ post.code = "ok"
              /\ r = [status |-> post.status, reason |-> post.reason]
           \/ /\ post.code = "conflict"
              /\ r = [status |-> "rejected", reason |-> post.reason]
    <3>1. CASE post.code = "ok"
      <4>1. post.status \in Status /\ post.reason \in RowReason
        BY <1>1, <3>1 DEF PostRecord, Answer
      <4>2. r = [status |-> post.status, reason |-> post.reason]
        BY <2>1, <3>1 DEF ResultOf
      <4> QED
        BY <3>1, <4>1, <4>2 DEF Result, AnyReason
    <3>2. CASE post.code = "conflict"
      <4>1. post.reason \in AnyReason
        BY <1>1, <3>2 DEF PostRecord, Answer
      <4>2. r = [status |-> "rejected", reason |-> post.reason]
        BY <2>1, <3>2 DEF ResultOf
      <4> QED
        BY <3>2, <4>1, <4>2 DEF Result, Status
    <3> QED
      BY <2>1, <3>1, <3>2 DEF ResultOf
  <2>3. PageIs(page', 3, page.session, page.attempt, r, Nil)
    BY <1>1, <2>1, <2>2, PageMoved
  <2>4. WizTyped'
    BY <1>3, <2>3 DEF Placed, WizTyped, PageIs, ReceiveAnswer, PostRecord, Idle
  <2>5. PagePlace'
    BY <1>1, <1>3, <2>3 DEF PagePlace, PageIs
  <2> QED
    BY <1>1, <1>3, <2>2, <2>3, <2>4, <2>5 DEF Placed
<1> QED
  BY <1>2, <1>3 DEF ReceiveAnswer

LEMMA TryAgainEffect ==
    ASSUME Placed, TryAgain
    PROVE  /\ page.step = 3 /\ post' = Idle /\ page.attempt + 1 \in Tries /\ page.challenge = Nil
           /\ page.result.reason \in DOMAIN RetryStep
           /\ page.result.status \notin {"approved", "pending_review"}
           /\ PageIs(page', RetryStep[page.result.reason], page.session, page.attempt + 1, Nil, Nil)
           /\ Placed'
<1> DEFINE n == RetryStep[page.result.reason]
<1>1. /\ page.step = 3 /\ page.attempt + 1 \in Tries /\ post' = post /\ rows' = rows /\ cache' = cache
      /\ jobs' = jobs /\ page' = BackTo(n)
      /\ page.result.reason \in DOMAIN RetryStep
      /\ page.result.status \notin {"approved", "pending_review"}
  BY DEF TryAgain, ShownRetryable, ShownFailed
<1>2. /\ page \in PageRecord /\ post = Idle /\ page.challenge = Nil
      /\ page.session \in Visits /\ rows[page.session] # Nil
  BY <1>1 DEF Placed, WizTyped, PagePlace
<1>3. n \in {1, 2}
  BY <1>1 DEF RetryStep
<1> HIDE DEF n
<1>4. PageIs(page', n, page.session, page.attempt + 1, Nil, Nil)
  <2>1. n \in 0..3
    BY <1>3
  <2> QED
    BY <1>1, <1>2, <2>1, PageMoved
<1>5. Placed'
  <2>1. WizTyped'
    BY <1>1, <1>4 DEF Placed, WizTyped, PageIs
  <2>2. PagePlace'
    BY <1>1, <1>2, <1>3, <1>4 DEF PagePlace, PageIs
  <2> QED
    BY <2>1, <2>2 DEF Placed
<1> QED
  BY <1>1, <1>2, <1>4, <1>5 DEF n

LEMMA StartOverEffect ==
    ASSUME Placed, StartOver
    PROVE  page' = Initial /\ post' = Idle /\ rows' = rows /\ Placed'
<1>1. /\ page.step = 3 /\ page' = Initial /\ post' = post /\ rows' = rows /\ cache' = cache
      /\ jobs' = jobs
  BY DEF StartOver, ShownTerminal, ShownFailed
<1>2. post = Idle
  BY <1>1 DEF Placed, PagePlace
<1>3. Initial \in PageRecord /\ Initial.step = 0 /\ Initial.challenge = Nil
  BY WizardAssumption DEF Initial, PageRecord, Tries
<1>4. WizTyped'
  BY <1>1, <1>3 DEF Placed, WizTyped
<1>5. PagePlace'
  BY <1>1, <1>2, <1>3 DEF PagePlace
<1> QED
  BY <1>1, <1>2, <1>4, <1>5 DEF Placed

\* GetChallengeFails, SubmitOnce and LoseBiometrics only move the request.
LEMMA PostMoved ==
    ASSUME Placed, post' \in PostRecord, page.step = 2,
           page' = page, rows' = rows, cache' = cache, jobs' = jobs
    PROVE  Placed'
BY DEF Placed, WizTyped, PagePlace

LEMMA SubmitEffect ==
    ASSUME Placed, SubmitOnce
    PROVE  Placed' /\ post'.code = "sending" /\ post' # Idle
<1>1. post' = [code |-> "sending"] /\ page.step = 2
  BY DEF SubmitOnce
<1>2. post' \in PostRecord /\ post'.code = "sending" /\ post' # Idle
  BY <1>1 DEF PostRecord, Idle
<1>3. Placed'
  BY <1>1, <1>2, PostMoved DEF SubmitOnce
<1> QED
  BY <1>2, <1>3

LEMMA FailEffect ==
    ASSUME Placed, GetChallengeFails \/ LoseBiometrics
    PROVE  /\ Placed' /\ post'.code \in {"failed", "error"} /\ page.step = 2 /\ post' # Idle
           /\ UNCHANGED <<dispatch, page, cache, sent, rows, jobs>>
<1>1. UNCHANGED <<dispatch, page, cache, sent, rows, jobs>>
  BY DEF GetChallengeFails, LoseBiometrics
<1>2. post' \in {[code |-> "failed"], [code |-> "error"]}
  BY DEF GetChallengeFails, LoseBiometrics
<1>3. page.step = 2
  <2>1. LoseBiometrics => post # Idle
    BY DEF LoseBiometrics, Idle
  <2> QED
    BY <2>1 DEF GetChallengeFails, Placed, PagePlace
<1>4. post' \in PostRecord /\ post'.code \in {"failed", "error"} /\ post' # Idle
  BY <1>2 DEF PostRecord, Idle
<1>5. Placed'
  BY <1>1, <1>3, <1>4, PostMoved
<1> QED
  BY <1>1, <1>3, <1>4, <1>5

\* ServeBiometrics, RunJob and ResolveReview leave the page where it is.
LEMMA PageStays ==
    ASSUME Placed, page' = page, cache' = cache, NEW v \in Visits, rows[v] # Nil,
           NEW r \in SessionRow, rows' = [rows EXCEPT ![v] = r],
           post' \in PostRecord, post' # Idle => page.step = 2, jobs' \subseteq jobs \cup {v}
    PROVE  Placed'
<1>1. /\ rows' \in [Visits -> SessionRow \cup {Nil}]
      /\ rows'[v] = r /\ r # Nil
      /\ \A w \in Visits \ {v} : rows'[w] = rows[w]
      /\ {w \in Visits : rows[w] # Nil} \cup {v} = {w \in Visits : rows'[w] # Nil}
  BY RowWritten DEF Placed, WizTyped
<1>2. WizTyped'
  BY <1>1 DEF Placed, WizTyped
<1>3. PagePlace'
  BY <1>1 DEF Placed, PagePlace
<1> QED
  BY <1>2, <1>3 DEF Placed

LEMMA StatusAnswers ==
    ASSUME NEW row \in SessionRow
    PROVE  /\ StatusOf(row) \in PostRecord /\ StatusOf(row) # Idle
           /\ StatusOf(row).code = "ok" /\ StatusOf(row).status = row.status
           /\ StatusOf(row).reason = row.reason
BY DEF StatusOf, PostRecord, Answer, SessionRow, Idle

LEMMA ServeEffect ==
    ASSUME Placed, ServeBiometrics
    PROVE  LET v == page.session
               row == rows[v]
           IN  /\ v \in Visits /\ row \in SessionRow /\ page.step = 2 /\ post.code = "sending"
               /\ UNCHANGED <<dispatch, page, cache, sent>>
               /\ \/ /\ ~Accepts(row) /\ rows' = rows /\ jobs' = jobs
                     /\ post'.code = "conflict" /\ post'.reason = ConflictOf(row)
                  \/ /\ Accepts(row) /\ jobs' = jobs
                     /\ \E verdict \in Verdicts(row) : rows'[v] = AfterVerdict(row, verdict)
                     /\ post'.code = "ok"
                     /\ post'.status = rows'[v].status /\ post'.reason = rows'[v].reason
                  \/ dispatch = "arq"
               /\ \A w \in Visits \ {v} : rows'[w] = rows[w]
               /\ post' # Idle /\ Placed'
<1> DEFINE v == page.session
           row == rows[v]
<1>1. post.code = "sending" /\ UNCHANGED <<dispatch, page, cache, sent>>
  BY DEF ServeBiometrics
<1>2. page.step = 2 /\ v \in Visits /\ row # Nil
  <2>1. post # Idle
    BY <1>1 DEF Idle
  <2> QED
    BY <2>1 DEF Placed, PagePlace
<1>3. row \in SessionRow
  BY <1>2, SomeRow DEF Placed
<1>4. CASE ~Accepts(row) /\ post' = [code |-> "conflict", reason |-> ConflictOf(row)]
           /\ UNCHANGED <<rows, jobs>>
  <2>1. ConflictOf(row) \in AnyReason
    BY DEF ConflictOf, AnyReason
  <2>2. post' \in PostRecord /\ post' # Idle /\ post'.code = "conflict" /\ post'.reason = ConflictOf(row)
    BY <1>4, <2>1 DEF PostRecord, Answer, Idle
  <2>3. Placed'
    BY <1>1, <1>2, <1>4, <2>2, PostMoved
  <2> QED
    BY <1>1, <1>2, <1>3, <1>4, <2>2, <2>3
<1>5. CASE /\ Accepts(row) /\ jobs' = jobs /\ post' = StatusOf(rows'[v])
           /\ \E verdict \in Verdicts(row) : rows' = [rows EXCEPT ![v] = AfterVerdict(@, verdict)]
  <2>1. PICK verdict \in Verdicts(row) : rows' = [rows EXCEPT ![v] = AfterVerdict(@, verdict)]
    BY <1>5
  <2> DEFINE new == AfterVerdict(row, verdict)
  <2>2. new \in SessionRow /\ rows' = [rows EXCEPT ![v] = new]
    BY <1>3, <2>1, VerdictRow
  <2> HIDE DEF new
  <2>3. rows'[v] = new /\ \A w \in Visits \ {v} : rows'[w] = rows[w]
    BY <1>2, <2>2, RowWritten DEF Placed, WizTyped
  <2>4. /\ post' \in PostRecord /\ post' # Idle
        /\ post'.code = "ok" /\ post'.status = new.status /\ post'.reason = new.reason
    BY <1>5, <2>2, <2>3, StatusAnswers
  <2>5. Placed'
    BY <1>1, <1>2, <1>5, <2>2, <2>4, PageStays
  <2> QED
    BY <1>1, <1>2, <1>3, <1>5, <2>3, <2>4, <2>5 DEF new
<1>6. CASE /\ dispatch = "arq" /\ jobs' = jobs \cup {v} /\ post' = StatusOf(rows'[v])
           /\ rows' = [rows EXCEPT ![v] = [@ EXCEPT !.status = "biometrics_submitted"]]
  <2> DEFINE new == [row EXCEPT !.status = "biometrics_submitted"]
  <2>1. RowIs(new, "biometrics_submitted", row.reason, row.attempts, row.mrz)
    BY <1>3, RowMoved DEF Status
  <2>2. new \in SessionRow /\ rows' = [rows EXCEPT ![v] = new]
    BY <1>6, <2>1 DEF RowIs
  <2> HIDE DEF new
  <2>3. rows'[v] = new /\ \A w \in Visits \ {v} : rows'[w] = rows[w]
    BY <1>2, <2>2, RowWritten DEF Placed, WizTyped
  <2>4. post' \in PostRecord /\ post' # Idle
    BY <1>6, <2>2, <2>3, StatusAnswers
  <2>5. Placed'
    BY <1>1, <1>2, <1>6, <2>2, <2>4, PageStays
  <2> QED
    BY <1>1, <1>2, <1>3, <1>6, <2>3, <2>4, <2>5
<1> QED
  BY <1>4, <1>5, <1>6 DEF ServeBiometrics

LEMMA JobEffect ==
    ASSUME Placed, NEW v \in Visits, RunJob(v)
    PROVE  /\ v \in jobs /\ rows[v] # Nil /\ UNCHANGED <<dispatch, page, cache, post, sent>>
           /\ \A w \in Visits \ {v} : rows'[w] = rows[w]
           /\ Placed'
<1>1. v \in jobs /\ UNCHANGED <<dispatch, page, cache, post, sent>> /\ jobs' = jobs \ {v}
  BY DEF RunJob
<1>2. rows[v] # Nil
  BY <1>1 DEF Placed, WizTyped
<1>3. rows[v] \in SessionRow
  BY <1>2, SomeRow DEF Placed
<1>4. PICK verdict \in Verdicts(rows[v]) : rows' = [rows EXCEPT ![v] = AfterVerdict(@, verdict)]
  BY DEF RunJob
<1> DEFINE new == AfterVerdict(rows[v], verdict)
<1>5. new \in SessionRow /\ rows' = [rows EXCEPT ![v] = new]
  BY <1>3, <1>4, VerdictRow
<1> HIDE DEF new
<1>6. \A w \in Visits \ {v} : rows'[w] = rows[w]
  BY <1>5, RowWritten DEF Placed, WizTyped
<1>7. post' \in PostRecord /\ (post' # Idle => page.step = 2)
  BY <1>1 DEF Placed, WizTyped, PagePlace
<1>8. Placed'
  BY <1>1, <1>2, <1>5, <1>7, PageStays
<1> QED
  BY <1>1, <1>2, <1>6, <1>8

LEMMA ResolveEffect ==
    ASSUME Placed, NEW v \in Visits, ResolveReview(v)
    PROVE  /\ rows[v] \in SessionRow /\ rows[v].status = "pending_review"
           /\ UNCHANGED <<dispatch, page, cache, post, sent, jobs>>
           /\ \E s \in {"approved", "rejected"}, r \in RowReason :
                  RowIs(rows'[v], s, r, rows[v].attempts, rows[v].mrz)
           /\ \A w \in Visits \ {v} : rows'[w] = rows[w]
           /\ Placed'
<1>1. rows[v] # Nil /\ rows[v].status = "pending_review" /\ UNCHANGED <<dispatch, page, cache, post, sent, jobs>>
  BY DEF ResolveReview
<1>2. rows[v] \in SessionRow
  BY <1>1, SomeRow DEF Placed
<1>3. PICK verdict \in {<<"approved", Nil>>, <<"rejected", "manual_review_rejected">>} :
        rows' = [rows EXCEPT ![v] = [@ EXCEPT !.status = verdict[1], !.reason = verdict[2]]]
  BY DEF ResolveReview
<1>4. PICK s \in {"approved", "rejected"}, r \in RowReason :
        rows' = [rows EXCEPT ![v] = [rows[v] EXCEPT !.status = s, !.reason = r]]
  <2>1. verdict[1] \in {"approved", "rejected"} /\ verdict[2] \in RowReason
    BY DEF RowReason
  <2> QED
    BY <1>3, <2>1
<1> DEFINE new == [rows[v] EXCEPT !.status = s, !.reason = r]
<1>5. RowIs(new, s, r, rows[v].attempts, rows[v].mrz)
  <2>1. s \in Status
    BY DEF Status
  <2> QED
    BY <1>2, <2>1, RowMoved
<1>6. new \in SessionRow /\ rows' = [rows EXCEPT ![v] = new]
  BY <1>4, <1>5 DEF RowIs
<1> HIDE DEF new
<1>7. rows'[v] = new /\ \A w \in Visits \ {v} : rows'[w] = rows[w]
  BY <1>6, RowWritten DEF Placed, WizTyped
<1>8. post' \in PostRecord /\ (post' # Idle => page.step = 2)
  BY <1>1 DEF Placed, WizTyped, PagePlace
<1>9. Placed'
  BY <1>1, <1>6, <1>8, PageStays
<1> QED
  BY <1>1, <1>2, <1>5, <1>7, <1>9

LEMMA PlacedStep == Placed /\ [WizardNext]_wizVars => Placed'
<1> SUFFICES ASSUME Placed, [WizardNext]_wizVars PROVE Placed'
  OBVIOUS
<1>1. CASE UNCHANGED wizVars
  BY <1>1 DEF wizVars, Placed, WizTyped, PagePlace
<1> QED
  BY <1>1, OnboardEffect, JobEffect, ResolveEffect, PassportEffect, ChallengeEffect, FailEffect,
     SubmitEffect, ServeEffect, ReceiveEffect, TryAgainEffect, StartOverEffect DEF WizardNext

-----------------------------------------------------------------------------
(* No nonce is sent twice.                                                 *)

LEMMA FreshInit == WizardInit => FreshInv
<1> SUFFICES ASSUME WizardInit PROVE FreshInv
  OBVIOUS
<1>1. Placed
  BY PlacedInit
<1>2. Issued = {} /\ sent = {}
  BY DEF WizardInit, Issued
<1>3. CacheKeepsUp
  BY DEF WizardInit, CacheKeepsUp, Initial
<1> QED
  BY <1>1, <1>2, <1>3 DEF FreshInv, NoncesNumbered

\* A new challenge has a number of its own.
LEMMA FreshChallenge ==
    ASSUME FreshInv, GetChallenge
    PROVE  FreshInv'
<1> DEFINE key == <<page.session, page.attempt>>
           c == IF cache[key] = Nil THEN Cardinality(Issued) + 1 ELSE cache[key]
<1>1. /\ key \in Visits \X Tries /\ c \in Nat
      /\ IsFiniteSet(Issued) /\ Cardinality(Issued) \in Nat
      /\ cache' = [cache EXCEPT ![key] = c]
      /\ page.step = 2 /\ post = Idle
      /\ PageIs(page', page.step, page.session, page.attempt, page.result, c)
      /\ Placed'
  BY ChallengeEffect DEF FreshInv
<1>2. sent' = sent /\ rows' = rows
  BY DEF GetChallenge
<1>3. cache \in [Visits \X Tries -> Nat \cup {Nil}] /\ c # Nil /\ page.session \in Visits
      /\ page.attempt \in Tries
  BY <1>1, WizardAssumption DEF FreshInv, Placed, WizTyped
<1>4. /\ cache[key] = Nil => c = Cardinality(Issued) + 1
      /\ cache[key] # Nil => c = cache[key]
  OBVIOUS
<1> HIDE DEF c
<1>5. Issued' = Issued \cup {key}
  BY <1>1, <1>3 DEF Issued
<1>6. /\ Cardinality(Issued') \in Nat /\ Cardinality(Issued) <= Cardinality(Issued')
      /\ c \in 1..Cardinality(Issued')
  <2>1. CASE cache[key] = Nil
    <3>1. key \notin Issued
      BY <2>1 DEF Issued
    <3>2. Cardinality(Issued') = Cardinality(Issued) + 1
      BY <1>1, <1>5, <3>1, FS_AddElement
    <3> QED
      BY <1>1, <1>4, <2>1, <3>2
  <2>2. CASE cache[key] # Nil
    <3>1. key \in Issued
      BY <1>1, <1>3, <2>2 DEF Issued
    <3>2. Issued' = Issued
      BY <1>5, <3>1
    <3>3. c \in 1..Cardinality(Issued)
      BY <1>4, <2>2, <3>1 DEF FreshInv, NoncesNumbered
    <3> QED
      BY <1>1, <3>2, <3>3
  <2> QED
    BY <2>1, <2>2
<1>7. NoncesNumbered'
  <2>1. ASSUME NEW k \in Issued' PROVE cache'[k] \in 1..Cardinality(Issued')
    <3>1. CASE k = key
      BY <1>1, <1>3, <1>6, <3>1
    <3>2. CASE k # key
      <4>1. k \in Issued /\ k \in Visits \X Tries
        BY <1>3, <1>5, <2>1, <3>2 DEF Issued
      <4>2. cache'[k] = cache[k]
        BY <1>1, <1>3, <3>2, <4>1
      <4>3. cache[k] \in 1..Cardinality(Issued)
        BY <4>1 DEF FreshInv, NoncesNumbered
      <4> QED
        BY <1>1, <1>6, <4>2, <4>3
    <3> QED
      BY <3>1, <3>2
  <2>2. sent' \subseteq 1..Cardinality(Issued')
    BY <1>1, <1>2, <1>6 DEF FreshInv, NoncesNumbered
  <2> QED
    BY <2>1, <2>2 DEF NoncesNumbered
<1>8. CacheKeepsUp'
  <2>1. rows[page.session] # Nil
    BY <1>1 DEF FreshInv, Placed, PagePlace
  <2>2. ASSUME NEW v \in Visits, NEW a \in Tries, <<v, a>> # key
        PROVE  cache'[<<v, a>>] = cache[<<v, a>>]
    BY <1>1, <1>3, <2>2
  <2>3. cache'[key] = c
    BY <1>1, <1>3
  <2>4. c \notin sent
    <3>1. CASE cache[key] = Nil
      BY <1>1, <1>4, <3>1 DEF FreshInv, NoncesNumbered
    <3>2. CASE cache[key] # Nil
      BY <1>1, <1>4, <3>2 DEF FreshInv, CacheKeepsUp
    <3> QED
      BY <3>1, <3>2
  <2>5. page'.session = page.session /\ page'.attempt = page.attempt /\ page'.challenge = c
        /\ page'.step = 2
    BY <1>1 DEF PageIs
  <2>6. ASSUME NEW v \in Visits, rows'[v] = Nil, NEW a \in Tries PROVE cache'[<<v, a>>] = Nil
    BY <1>2, <2>1, <2>2, <2>6 DEF FreshInv, CacheKeepsUp
  <2>7. ASSUME NEW a \in Tries, a > page'.attempt PROVE cache'[<<page'.session, a>>] = Nil
    <3>1. a # page.attempt
      BY <1>3, <2>5, <2>7, WizardAssumption DEF Tries
    <3> QED
      BY <1>1, <1>3, <2>2, <2>5, <2>7, <3>1 DEF FreshInv, CacheKeepsUp
  <2> QED
    BY <1>2, <2>3, <2>4, <2>5, <2>6, <2>7 DEF CacheKeepsUp
<1> QED
  BY <1>1, <1>7, <1>8 DEF FreshInv

LEMMA FreshStep == FreshInv /\ [WizardNext]_wizVars => FreshInv'
<1> SUFFICES ASSUME FreshInv, [WizardNext]_wizVars PROVE FreshInv'
  OBVIOUS
<1>1. Placed /\ Placed'
  BY PlacedStep DEF FreshInv
<1>2. Nil \notin sent
  <2>1. Cardinality(Issued) \in Nat
    BY <1>1, IssuedAreFinite
  <2>2. sent \subseteq Nat
    BY <2>1 DEF FreshInv, NoncesNumbered
  <2>3. Nil \notin Nat
    BY WizardAssumption
  <2> QED
    BY <2>2, <2>3
<1>3. ASSUME UNCHANGED <<cache, sent>>, CacheKeepsUp' PROVE FreshInv'
  BY <1>1, <1>3 DEF FreshInv, NoncesNumbered, Issued
<1>4. ASSUME UNCHANGED <<page, cache, sent>>, \A v \in Visits : rows'[v] = Nil => rows[v] = Nil,
             post' = Idle => post = Idle
      PROVE  FreshInv'
  BY <1>3, <1>4 DEF FreshInv, CacheKeepsUp
<1>5. CASE UNCHANGED wizVars
  BY <1>4, <1>5 DEF wizVars
<1>6. ASSUME NEW v \in Visits, OnboardVisit(v) PROVE FreshInv'
  <2>1. /\ PageIs(page', 1, v, 0, Nil, Nil)
        /\ \A w \in Visits \ {v} : rows'[w] = rows[w]
    BY <1>1, <1>6, OnboardEffect
  <2>2. rows[v] = Nil /\ UNCHANGED <<cache, sent>>
    BY <1>6 DEF OnboardVisit
  <2>3. \A a \in Tries : cache[<<v, a>>] = Nil
    BY <2>2 DEF FreshInv, CacheKeepsUp
  <2>4. rows'[v] # Nil /\ 0 \in Tries
    BY <1>1, <2>1, WizardAssumption DEF Placed, PagePlace, PageIs, Tries
  <2>5. CacheKeepsUp'
    BY <1>2, <2>1, <2>2, <2>3, <2>4 DEF FreshInv, CacheKeepsUp, PageIs
  <2> QED
    BY <1>3, <2>2, <2>5
<1>7. ASSUME NEW v \in Visits, RunJob(v) PROVE FreshInv'
  <2>1. rows'[v] # Nil
    BY <1>1, <1>7, JobEffect, RowIsNotNil, VerdictRow, SomeRow DEF Placed, WizTyped, RunJob
  <2> QED
    BY <1>1, <1>4, <1>7, <2>1, JobEffect
<1>8. ASSUME NEW v \in Visits, ResolveReview(v) PROVE FreshInv'
  <2>1. rows'[v] # Nil
    BY <1>1, <1>8, ResolveEffect, RowIsNotNil DEF RowIs
  <2> QED
    BY <1>1, <1>4, <1>8, <2>1, ResolveEffect
<1>9. ASSUME NEW valid \in BOOLEAN, SendPassport(valid) PROVE FreshInv'
  <2>1. /\ page.step = 1 /\ post = Idle /\ page.challenge = Nil /\ page.session \in Visits
        /\ PageIs(page', IF valid THEN 2 ELSE 1, page.session, page.attempt, page.result, page.challenge)
        /\ \A w \in Visits \ {page.session} : rows'[w] = rows[w]
        /\ RowIs(rows'[page.session], "documents_submitted", rows[page.session].reason,
                 rows[page.session].attempts, valid)
    BY <1>1, <1>9, PassportEffect DEF SendPassport
  <2>2. UNCHANGED <<cache, sent>>
    BY <1>9 DEF SendPassport
  <2>3. rows'[page.session] # Nil
    BY <2>1, RowIsNotNil DEF RowIs
  <2>4. CacheKeepsUp'
    BY <2>1, <2>2, <2>3 DEF FreshInv, CacheKeepsUp, PageIs
  <2> QED
    BY <1>3, <2>2, <2>4
<1>10. CASE SubmitOnce
  <2>1. post' # Idle /\ UNCHANGED <<page, cache, rows>> /\ sent' = sent \cup {page.challenge}
        /\ page.challenge # Nil /\ page.step = 2
    BY <1>1, <1>10, SubmitEffect DEF SubmitOnce
  <2>2. page.challenge = cache[<<page.session, page.attempt>>]
    BY <2>1 DEF FreshInv, CacheKeepsUp
  <2>3. <<page.session, page.attempt>> \in Issued
    BY <1>1, <2>1, <2>2 DEF Placed, WizTyped, PagePlace, PageRecord, Issued
  <2>4. NoncesNumbered'
    BY <2>1, <2>2, <2>3 DEF FreshInv, NoncesNumbered, Issued
  <2>5. CacheKeepsUp'
    BY <2>1 DEF FreshInv, CacheKeepsUp
  <2> QED
    BY <1>1, <2>4, <2>5 DEF FreshInv
<1>11. CASE ServeBiometrics
  <2>1. /\ UNCHANGED <<page, cache, sent>> /\ post' # Idle
        /\ \A w \in Visits \ {page.session} : rows'[w] = rows[w]
    BY <1>1, <1>11, ServeEffect
  <2>2. rows'[page.session] # Nil
    BY <1>1, <1>11, <2>1, ServeEffect DEF Placed, PagePlace
  <2> QED
    BY <1>4, <2>1, <2>2
<1>12. CASE GetChallengeFails \/ LoseBiometrics
  BY <1>1, <1>4, <1>12, FailEffect
<1>13. CASE ReceiveAnswer
  <2>1. CASE post' = [code |-> "failed"] /\ page' = page
    BY <1>4, <1>13, <2>1 DEF ReceiveAnswer, Idle
  <2>2. CASE \E r \in Result : PageIs(page', 3, page.session, page.attempt, r, Nil)
    <3>1. page.step = 2 /\ UNCHANGED <<cache, sent, rows>>
      BY <1>1, <1>13, ReceiveEffect DEF ReceiveAnswer
    <3>2. CacheKeepsUp'
      BY <2>2, <3>1 DEF FreshInv, CacheKeepsUp, PageIs
    <3> QED
      BY <1>3, <3>1, <3>2
  <2> QED
    BY <1>1, <1>13, <2>1, <2>2, ReceiveEffect
<1>14. CASE TryAgain
  <2>1. /\ page.step = 3 /\ page.attempt + 1 \in Tries /\ UNCHANGED <<cache, sent, rows>>
        /\ page'.session = page.session /\ page'.attempt = page.attempt + 1 /\ page'.challenge = Nil
    BY <1>1, <1>14, TryAgainEffect DEF TryAgain, PageIs
  <2>2. page.attempt \in Int /\ Tries \subseteq Int
    BY <1>1, WizardAssumption DEF Placed, WizTyped, PageRecord, Tries
  <2>3. \A a \in Tries : a > page.attempt => cache[<<page.session, a>>] = Nil
    BY <2>1 DEF FreshInv, CacheKeepsUp
  <2>4. /\ cache[<<page.session, page.attempt + 1>>] = Nil
        /\ \A a \in Tries : a > page.attempt + 1 => cache[<<page.session, a>>] = Nil
    BY <2>1, <2>2, <2>3
  <2>5. \A v \in Visits : rows'[v] = Nil => \A a \in Tries : cache'[<<v, a>>] = Nil
    BY <2>1 DEF FreshInv, CacheKeepsUp
  <2>6. CacheKeepsUp'
    BY <1>2, <2>1, <2>4, <2>5 DEF CacheKeepsUp
  <2> QED
    BY <1>3, <2>1, <2>6
<1>15. CASE StartOver
  <2>1. page'.step = 0 /\ page'.challenge = Nil /\ UNCHANGED <<cache, sent, rows>>
    BY <1>15 DEF StartOver, Initial
  <2>2. CacheKeepsUp'
    BY <2>1 DEF FreshInv, CacheKeepsUp
  <2> QED
    BY <1>3, <2>1, <2>2
<1> QED
  BY <1>5, <1>6, <1>7, <1>8, <1>9, <1>10, <1>11, <1>12, <1>13, <1>14, <1>15, FreshChallenge DEF WizardNext

\* Over all sessions and attempts, whatever is answered, refused or lost and in either
\* dispatch mode, the page never submits a nonce it has submitted before.
THEOREM NoNonceTwice == WizardSpec => ChallengeIsFresh
<1>1. ASSUME FreshInv, [WizardNext]_wizVars, post = Idle, post'.code = "sending"
      PROVE  page.challenge \notin sent
  <2>1. post.code = "none"
    BY <1>1 DEF Idle
  <2>2. SubmitOnce
    <3>1. post' # Idle
      BY <1>1 DEF Idle
    <3>2. post' # [code |-> "failed"] /\ post' # [code |-> "error"]
      BY <1>1
    <3> QED
      BY <1>1, <2>1, <3>1, <3>2 DEF WizardNext, wizVars, OnboardVisit, RunJob, ResolveReview, SendPassport,
         GetChallenge, GetChallengeFails, ServeBiometrics, LoseBiometrics, ReceiveAnswer, TryAgain, StartOver
  <2>3. page.step = 2 /\ page.challenge # Nil
    BY <2>2 DEF SubmitOnce
  <2> QED
    BY <1>1, <2>3 DEF FreshInv, CacheKeepsUp
<1>2. FreshInv /\ [WizardNext]_wizVars
        => [post = Idle /\ post'.code = "sending" => page.challenge \notin sent]_wizVars
  BY <1>1
<1> QED
  BY FreshInit, FreshStep, <1>2, PTL DEF WizardSpec, ChallengeIsFresh

-----------------------------------------------------------------------------
(* Inline, what the page shows as terminal is final in the API.  With a    *)
(* budget of zero the first request is refused as one too many, for a      *)
(* session that nobody has rejected: hence the premise.                    *)

LEMMA InlineInit == WizardInit => InlineInv
<1> SUFFICES ASSUME WizardInit PROVE InlineInv
  OBVIOUS
<1>1. page.step = 0 /\ jobs = {} /\ \A v \in Visits : rows[v] = Nil
  BY DEF WizardInit, Initial
<1> QED
  BY <1>1, PlacedInit DEF InlineInv, Inline

\* The decision of an attempt within the budget, and the page that is told of it.
LEMMA InlineServes ==
    ASSUME Budget > 0, Placed, Inline, dispatch = "inline", ServeBiometrics
    PROVE  Inline'
<1> DEFINE v == page.session
           row == rows[v]
<1>1. /\ v \in Visits /\ row \in SessionRow /\ page.step = 2 /\ post.code = "sending"
      /\ page' = page
      /\ \A w \in Visits \ {v} : rows'[w] = rows[w]
  BY ServeEffect
<1>2. row # Nil
  BY <1>1, RowIsNotNil
<1>3. Submittable(row) /\ row.attempts \in Nat /\ row.attempts <= Budget /\ jobs = {}
  BY <1>1, <1>2 DEF Inline, PageBelieves, SessionRow
<1>4. ~Decided(row)
  BY <1>3 DEF Submittable, Decided
<1>5. CASE /\ ~Accepts(row) /\ rows' = rows /\ jobs' = jobs
           /\ post'.code = "conflict" /\ post'.reason = ConflictOf(row)
  <2>1. row.attempts = Budget
    BY <1>3, <1>4, <1>5, WizardAssumption DEF Accepts
  <2>2. post'.reason = "too_many_attempts"
    BY <1>4, <1>5 DEF ConflictOf, Decided
  <2>3. row.status = "rejected"
    BY <1>3, <2>1 DEF Submittable
  <2>4. PageBelieves(rows[v])'
    BY <1>1, <1>5, <2>1, <2>2, <2>3 DEF PageBelieves, LockedOut
  <2> QED
    BY <1>1, <1>3, <1>5, <2>4 DEF Inline
<1>6. CASE /\ Accepts(row) /\ jobs' = jobs
           /\ \E verdict \in Verdicts(row) : rows'[v] = AfterVerdict(row, verdict)
           /\ post'.code = "ok"
           /\ post'.status = rows'[v].status /\ post'.reason = rows'[v].reason
  <2>1. PICK verdict \in Verdicts(row) : rows'[v] = AfterVerdict(row, verdict)
    BY <1>6
  <2>2. /\ rows'[v].status = verdict[1] /\ rows'[v].reason = verdict[2]
        /\ rows'[v].attempts = row.attempts + 1 /\ rows'[v].mrz
    BY <1>1, <1>3, <2>1, VerdictRow DEF Submittable
  <2>3. \/ verdict[1] \in {"approved", "pending_review"}
        \/ /\ verdict[1] = "rejected"
           /\ verdict[2] \in {"liveness_failed", "face_mismatch_selfie_vs_passport", "duplicate_identity"}
    BY <1>3 DEF Submittable, Verdicts
  <2>4. Truthful(post'.status, post'.reason, rows'[v])
    BY <1>6, <2>2, <2>3 DEF Truthful
  <2>5. rows'[v].attempts <= Budget
    BY <1>3, <1>6, <2>2, WizardAssumption DEF Accepts
  <2>6. PageBelieves(rows[v])'
    BY <1>1, <1>6, <2>4 DEF PageBelieves
  <2> QED
    BY <1>1, <1>3, <1>6, <2>5, <2>6 DEF Inline
<1> QED
  BY <1>5, <1>6, ServeEffect

LEMMA InlineStep ==
    ASSUME Budget > 0, InlineInv, [WizardNext]_wizVars
    PROVE  InlineInv'
<1>1. Placed /\ Placed'
  BY PlacedStep DEF InlineInv
<1> SUFFICES ASSUME dispatch' = "inline" PROVE Inline'
  BY <1>1 DEF InlineInv
<1>2. dispatch = "inline" /\ Inline
  BY DEF InlineInv, WizardNext, wizVars, OnboardVisit, RunJob, ResolveReview, SendPassport,
     GetChallenge, GetChallengeFails, SubmitOnce, ServeBiometrics, LoseBiometrics, ReceiveAnswer,
     TryAgain, StartOver
<1>3. CASE UNCHANGED wizVars
  BY <1>2, <1>3 DEF wizVars, Inline, PageBelieves
<1>4. ASSUME NEW v \in Visits, OnboardVisit(v) PROVE Inline'
  <2>1. /\ PageIs(page', 1, v, 0, Nil, Nil)
        /\ RowIs(rows'[v], "started", Nil, 0, FALSE)
        /\ \A w \in Visits \ {v} : rows'[w] = rows[w]
        /\ jobs' = jobs
    BY <1>1, <1>4, OnboardEffect DEF OnboardVisit
  <2>2. post' = Idle
    BY <1>1, <2>1 DEF Placed, PagePlace, PageIs
  <2>3. PageBelieves(rows[v])'
    BY <2>1, <2>2 DEF PageBelieves, PageIs, RowIs, Idle
  <2>4. \A w \in Visits : rows'[w] # Nil => rows'[w].attempts <= Budget
    BY <1>2, <2>1, WizardAssumption DEF Inline, RowIs
  <2> QED
    BY <1>2, <2>1, <2>3, <2>4 DEF Inline, PageIs
<1>5. ASSUME NEW v \in Visits, RunJob(v) PROVE Inline'
  BY <1>2, <1>5 DEF RunJob, Inline
<1>6. ASSUME NEW v \in Visits, ResolveReview(v) PROVE Inline'
  <2>1. /\ rows[v] \in SessionRow /\ rows[v].status = "pending_review"
        /\ UNCHANGED <<page, post, jobs>>
        /\ \A w \in Visits \ {v} : rows'[w] = rows[w]
    BY <1>1, <1>6, ResolveEffect
  <2>2. PICK s \in {"approved", "rejected"}, r \in RowReason :
          RowIs(rows'[v], s, r, rows[v].attempts, rows[v].mrz)
    BY <1>1, <1>6, ResolveEffect
  <2>3. \A w \in Visits : rows'[w] # Nil => rows'[w].attempts <= Budget
    BY <1>2, <2>1, <2>2, RowIsNotNil DEF Inline, RowIs
  <2>4. page.step # 0 => PageBelieves(rows[page.session])'
    <3>1. CASE page.session = v /\ page.step # 0
      <4>1. PageBelieves(rows[v])
        BY <1>2, <3>1 DEF Inline
      <4> QED
        BY <2>1, <3>1, <4>1 DEF PageBelieves, Submittable, Truthful, LockedOut
    <3>2. CASE page.session # v /\ page.step # 0
      BY <1>1, <1>2, <2>1, <3>2 DEF Inline, PageBelieves, Placed, PagePlace
    <3> QED
      BY <3>1, <3>2
  <2> QED
    BY <1>2, <2>1, <2>3, <2>4 DEF Inline
<1>7. ASSUME NEW valid \in BOOLEAN, SendPassport(valid) PROVE Inline'
  <2> DEFINE v == page.session
  <2>1. /\ v \in Visits /\ rows[v] \in SessionRow /\ page.step = 1
        /\ PageIs(page', IF valid THEN 2 ELSE 1, v, page.attempt, page.result, page.challenge)
        /\ RowIs(rows'[v], "documents_submitted", rows[v].reason, rows[v].attempts, valid)
        /\ \A w \in Visits \ {v} : rows'[w] = rows[w]
        /\ post' = Idle /\ jobs' = jobs
    BY <1>1, <1>7, PassportEffect DEF SendPassport
  <2>2. rows[v].attempts = 0
    BY <1>2, <2>1 DEF Inline, PageBelieves
  <2>3. PageBelieves(rows[page.session])'
    BY <2>1, <2>2 DEF PageBelieves, PageIs, RowIs, Idle, Submittable
  <2>4. \A w \in Visits : rows'[w] # Nil => rows'[w].attempts <= Budget
    BY <1>2, <2>1, <2>2, WizardAssumption DEF Inline, RowIs
  <2> QED
    BY <1>2, <2>1, <2>3, <2>4 DEF Inline, PageIs
<1>8. CASE GetChallenge
  <2>1. \E c : PageIs(page', page.step, page.session, page.attempt, page.result, c)
    BY <1>1, <1>8, ChallengeEffect
  <2>2. page.step = 2 /\ post' = post /\ UNCHANGED <<rows, jobs>>
    BY <1>8 DEF GetChallenge
  <2>3. page'.step = 2 /\ page'.session = page.session
    BY <2>1, <2>2 DEF PageIs
  <2>4. PageBelieves(rows[page.session])'
    BY <1>2, <2>2, <2>3 DEF Inline, PageBelieves
  <2> QED
    BY <1>2, <2>2, <2>3, <2>4 DEF Inline
<1>9. CASE SubmitOnce
  <2>1. /\ page.step = 2 /\ post.code = "none" /\ post'.code = "sending"
        /\ UNCHANGED <<page, rows, jobs>>
    BY <1>9 DEF SubmitOnce, Idle
  <2>2. PageBelieves(rows[page.session])'
    BY <1>2, <2>1 DEF Inline, PageBelieves
  <2> QED
    BY <1>2, <2>1, <2>2 DEF Inline
<1>10. CASE GetChallengeFails \/ LoseBiometrics
  <2>1. post'.code \in {"failed", "error"} /\ page.step = 2 /\ UNCHANGED <<page, rows, jobs>>
    BY <1>1, <1>10, FailEffect
  <2>2. PageBelieves(rows[page.session])'
    BY <2>1 DEF PageBelieves
  <2> QED
    BY <1>2, <2>1, <2>2 DEF Inline
<1>11. CASE ServeBiometrics
  BY <1>1, <1>2, <1>11, InlineServes
<1>12. CASE ReceiveAnswer
  <2>1. page.step = 2 /\ UNCHANGED <<rows, jobs>>
    BY <1>1, <1>12, ReceiveEffect DEF ReceiveAnswer
  <2>2. CASE post' = [code |-> "failed"] /\ page' = page
    <3>1. PageBelieves(rows[page.session])'
      BY <2>1, <2>2 DEF PageBelieves
    <3> QED
      BY <1>2, <2>1, <2>2, <3>1 DEF Inline
  <2>3. CASE \E r \in Result :
               /\ PageIs(page', 3, page.session, page.attempt, r, Nil) /\ post' = Idle
               /\ \/ /\ post.code = "ok"
                     /\ r = [status |-> post.status, reason |-> post.reason]
                  \/ /\ post.code = "conflict"
                     /\ r = [status |-> "rejected", reason |-> post.reason]
    <3>1. PICK r \in Result :
            /\ PageIs(page', 3, page.session, page.attempt, r, Nil) /\ post' = Idle
            /\ \/ /\ post.code = "ok"
                  /\ r.status = post.status /\ r.reason = post.reason
               \/ /\ post.code = "conflict"
                  /\ r.reason = post.reason
      BY <2>3
    <3>2. PageBelieves(rows[page.session])
      BY <1>2, <2>1 DEF Inline
    <3>3. page'.step = 3 /\ page'.session = page.session /\ page'.result = r /\ post'.code = "none"
      BY <3>1 DEF PageIs, Idle
    <3>4. PageBelieves(rows[page.session])'
      BY <2>1, <3>1, <3>2, <3>3 DEF PageBelieves
    <3> QED
      BY <1>2, <2>1, <3>3, <3>4 DEF Inline
  <2> QED
    BY <1>1, <1>12, <2>2, <2>3, ReceiveEffect
<1>13. CASE TryAgain
  <2>1. /\ page.step = 3 /\ post' = Idle /\ UNCHANGED <<rows, jobs>>
        /\ page.result.reason \in DOMAIN RetryStep
        /\ page.result.status \notin {"approved", "pending_review"}
        /\ page'.step = RetryStep[page.result.reason] /\ page'.session = page.session
    BY <1>1, <1>13, TryAgainEffect DEF TryAgain, PageIs
  <2>2. page.result.reason # "too_many_attempts"
    BY <2>1 DEF RetryStep
  <2>3. /\ rows[page.session].status = "rejected" /\ rows[page.session].mrz
        /\ page.result.reason # "passport_mrz_invalid"
    BY <1>2, <2>1, <2>2 DEF Inline, PageBelieves, Truthful
  <2>4. page'.step = 2
    BY <2>1, <2>3 DEF RetryStep
  <2>5. PageBelieves(rows[page.session])'
    BY <2>1, <2>3, <2>4 DEF PageBelieves, Submittable, Idle
  <2> QED
    BY <1>2, <2>1, <2>4, <2>5 DEF Inline
<1>14. CASE StartOver
  <2>1. page'.step = 0 /\ UNCHANGED <<rows, jobs>>
    BY <1>14 DEF StartOver, Initial
  <2> QED
    BY <1>2, <2>1 DEF Inline
<1> QED
  BY <1>3, <1>4, <1>5, <1>6, <1>7, <1>8, <1>9, <1>10, <1>11, <1>12, <1>13, <1>14 DEF WizardNext

\* When the API decides inline, a session that the page gives up, without a retry, is
\* one that the API has rejected, as a duplicate or with its budget spent.
THEOREM GivenUpIsSettled == Budget > 0 => (WizardSpec => []InlineTerminalIsSettled)
<1> SUFFICES ASSUME Budget > 0 PROVE WizardSpec => []InlineTerminalIsSettled
  OBVIOUS
<1>1. InlineInv => InlineTerminalIsSettled
  <2> SUFFICES ASSUME InlineInv, dispatch = "inline", ShownTerminal
               PROVE  Settled(rows[page.session])
    BY DEF InlineTerminalIsSettled, TerminalIsSettled
  <2>1. /\ page.step = 3 /\ page.result.status \notin {"approved", "pending_review"}
        /\ page.result.reason \notin DOMAIN RetryStep
    BY DEF ShownTerminal, ShownRetryable, ShownFailed
  <2>2. PageBelieves(rows[page.session])
    BY <2>1 DEF InlineInv, Inline
  <2> QED
    BY <2>1, <2>2, WizardAssumption DEF PageBelieves, Truthful, LockedOut, Settled, Accepts, RetryStep
<1>2. InlineInv /\ [WizardNext]_wizVars => InlineInv'
  BY InlineStep
<1> QED
  BY InlineInit, <1>1, <1>2, PTL DEF WizardSpec
=============================================================================
