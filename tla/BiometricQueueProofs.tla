------------------------ MODULE BiometricQueueProofs ------------------------
(***************************************************************************)
(* Invariants of BiometricQueue for any number of processes, submissions   *)
(* and nonces.                                                             *)
(***************************************************************************)
EXTENDS BiometricQueue, FiniteSetTheorems, TLAPS

-----------------------------------------------------------------------------
(* The inductive invariant.                                                *)

\* The handler's copy of the row, and who may have sent a job by then.
PostOK(m) ==
    /\ post[m].pc \in {"checked", "marked", "sent"} => mode = "arq" /\ post[m].loaded \in Row
    /\ post[m].pc \in {"idle", "checked", "marked"} => job[m].state = "none" /\ run[m].pc = "idle"
    /\ job[m].state # "none" => mode = "arq"

\* Whoever runs a submission passed the guard on its copy, and is still answered for.
RunOK(m) ==
    run[m].pc # "idle" =>
        /\ run[m].loaded \in Row /\ Retryable(run[m].loaded)
        /\ \/ mode = "inline" /\ post[m].pc = "inline" /\ run[m].pc # "decided"
           \/ mode = "arq" /\ job[m].state = "running"

\* A mark that is flushed and not committed holds the row, against the job as well.
MarkHoldsRow(m) ==
    /\ post[m].pc \in {"marked", "sent"} /\ Marks(m) => lock = <<"post", m>>
    /\ post[m].pc = "sent" /\ Marks(m) => job[m].state # "done" /\ run[m].pc # "decided"

NonceOK(n) == counted[n] \in 0..1 /\ (counted[n] = 1 => challenge[n] = "gone")

\* Submissions that do not overlap find the row undecided until they decide it.
Undecided(r) == r.status \notin {"approved", "pending_review"}

WillWrite(m) ==
    \/ post[m].pc \in {"checked", "marked"}
    \/ post[m].pc = "sent" /\ Marks(m)
    \/ run[m].pc \in {"loaded", "searched"}

Alone == \A m, o \in Submissions : UnderWay(m) /\ UnderWay(o) => m = o

WritesOpenRow == ~overlapped => Alone /\ \A m \in Submissions : WillWrite(m) => Undecided(row)

-----------------------------------------------------------------------------
(* Types, and who is doing what.                                           *)

Core == TypeOK /\ \A m \in Submissions : PostOK(m) /\ RunOK(m)

\* A submission that a step does not touch, or touches in its other parts only.
LEMMA Untouched ==
    ASSUME NEW m \in Submissions, UNCHANGED mode,
           post'[m] = post[m], job'[m] = job[m], run'[m] = run[m], PostOK(m), RunOK(m)
    PROVE  PostOK(m)' /\ RunOK(m)'
BY DEF PostOK, RunOK, Retryable

LEMMA LoadTypes ==
    ASSUME TypeOK, NEW m \in Submissions, NEW e \in Web \cup Workers, NEW n,
           Retryable(row), Load(m, e, n)
    PROVE  /\ run' \in [Submissions -> Run] /\ challenge' \in [Nonces -> Web \cup {"unissued", "gone"}]
           /\ run'[m].pc = "loaded" /\ run'[m].loaded \in Row /\ Retryable(run'[m].loaded)
           /\ \A o \in Submissions \ {m} : run'[o] = run[o]
<1> DEFINE new == [pc |-> "loaded", at |-> e, loaded |-> row, live |-> challenge[n] = e]
<1>1. new \in Run /\ new.pc = "loaded" /\ new.loaded = row
  BY DEF Run, TypeOK
<1>2. run' = [run EXCEPT ![m] = new]
  BY DEF Load
<1>3. challenge' \in [Nonces -> Web \cup {"unissued", "gone"}]
  BY DEF Load, Pop, TypeOK
<1> HIDE DEF new
<1> QED
  BY <1>1, <1>2, <1>3 DEF TypeOK

LEMMA IdleRunType == IdleRun \in Run
BY DEF IdleRun, Run

LEMMA HandlerCore ==
    ASSUME Core, NEW m \in Submissions,
           Mark(m) \/ Enqueue(m) \/ Commit(m) \/ Abort(m)
    PROVE  Core'
<1> USE DEF Core, TypeOK
<1>1. /\ UNCHANGED <<mode, challenge, run>>
      /\ \A o \in Submissions \ {m} : post'[o] = post[o] /\ job'[o] = job[o]
  BY DEF Mark, Enqueue, Commit, Abort
<1>2. \A o \in Submissions \ {m} : PostOK(o)' /\ RunOK(o)'
  BY <1>1, Untouched
<1>3. row' \in Row
  <2>1. CASE Commit(m)
    BY <2>1 DEF Commit, Row, Statuses
  <2> QED
    BY <2>1 DEF Mark, Enqueue, Abort
<1>4. lock' \in ({"post", "run"} \X Submissions) \cup {None}
  BY DEF Mark, Enqueue, Commit, Abort, Unlocked
<1>5. CASE Mark(m)
  <2>1. post' = [post EXCEPT ![m].pc = "marked"] /\ job' = job /\ post[m].pc = "checked"
    BY <1>5 DEF Mark
  <2>2. post' \in [Submissions -> Post]
    BY <2>1 DEF Post
  <2>3. post'[m].pc = "marked" /\ post'[m].loaded = post[m].loaded
    BY <2>1 DEF Post
  <2>4. PostOK(m)' /\ RunOK(m)'
    BY <1>1, <2>1, <2>3 DEF PostOK, RunOK
  <2> QED
    BY <1>1, <1>2, <1>3, <1>4, <2>1, <2>2, <2>4
<1>6. CASE Enqueue(m)
  <2>1. /\ post' = [post EXCEPT ![m].pc = "sent"] /\ job' = [job EXCEPT ![m].state = "queued"]
        /\ post[m].pc = "marked"
    BY <1>6 DEF Enqueue
  <2>2. post' \in [Submissions -> Post] /\ job' \in [Submissions -> Job]
    <3>1. post' \in [Submissions -> Post]
      BY <2>1 DEF Post
    <3>2. job' \in [Submissions -> Job]
      BY <2>1 DEF Job
    <3> QED
      BY <3>1, <3>2
  <2>3. /\ post'[m].pc = "sent" /\ post'[m].loaded = post[m].loaded
        /\ job'[m].state = "queued"
    BY <2>1 DEF Post, Job
  <2>4. PostOK(m)' /\ RunOK(m)'
    BY <1>1, <2>1, <2>3 DEF PostOK, RunOK
  <2> QED
    BY <1>1, <1>2, <1>3, <1>4, <2>1, <2>2, <2>4
<1>7. CASE Commit(m) \/ Abort(m)
  <2>1. PICK pc \in {"done", "failed"} : post' = [post EXCEPT ![m].pc = pc, ![m].loaded = None]
    BY <1>7 DEF Commit, Abort
  <2>2. job' = job /\ post[m].pc \in {"checked", "marked", "sent"}
    BY <1>7 DEF Commit, Abort
  <2>3. post' \in [Submissions -> Post] /\ post'[m].pc \in {"done", "failed"}
    <3>1. [post[m] EXCEPT !.pc = pc, !.loaded = None] \in Post
      BY DEF Post
    <3>2. post' = [post EXCEPT ![m] = [post[m] EXCEPT !.pc = pc, !.loaded = None]]
      BY <2>1
    <3>3. [post[m] EXCEPT !.pc = pc, !.loaded = None].pc = pc
      BY DEF Post
    <3> QED
      BY <3>1, <3>2, <3>3
  <2>4. PostOK(m)' /\ RunOK(m)'
    BY <1>1, <2>2, <2>3 DEF PostOK, RunOK
  <2> QED
    BY <1>1, <1>2, <1>3, <1>4, <2>2, <2>3, <2>4
<1> QED
  BY <1>5, <1>6, <1>7

LEMMA ArrivalCore ==
    ASSUME Core, NEW m \in Submissions, NEW p \in Web, NEW n \in Nonces,
           SubmitInline(m, p, n) \/ Check(m, n)
    PROVE  Core'
<1> USE DEF Core, TypeOK
<1>1. /\ UNCHANGED <<mode, row, lock, job>> /\ Retryable(row) /\ post[m].pc = "idle"
      /\ \A o \in Submissions \ {m} : post'[o] = post[o]
  BY DEF SubmitInline, Check
<1>2. CASE SubmitInline(m, p, n)
  <2>1. /\ run' \in [Submissions -> Run]
        /\ challenge' \in [Nonces -> Web \cup {"unissued", "gone"}]
        /\ run'[m].pc = "loaded" /\ run'[m].loaded \in Row /\ Retryable(run'[m].loaded)
        /\ \A o \in Submissions \ {m} : run'[o] = run[o]
    BY <1>1, <1>2, LoadTypes DEF SubmitInline
  <2>2. post' = [post EXCEPT ![m] = [pc |-> "inline", nonce |-> n, loaded |-> None]] /\ mode = "inline"
    BY <1>2 DEF SubmitInline
  <2>3. post' \in [Submissions -> Post] /\ post'[m].pc = "inline"
    BY <2>2 DEF Post
  <2>4. PostOK(m)' /\ RunOK(m)'
    BY <1>1, <2>1, <2>2, <2>3 DEF PostOK, RunOK, Retryable
  <2>5. \A o \in Submissions \ {m} : PostOK(o)' /\ RunOK(o)'
    BY <1>1, <2>1, Untouched
  <2> QED
    BY <1>1, <2>1, <2>3, <2>4, <2>5
<1>3. CASE Check(m, n)
  <2>1. /\ post' = [post EXCEPT ![m] = [pc |-> "checked", nonce |-> n, loaded |-> row]]
        /\ mode = "arq" /\ UNCHANGED <<run, challenge>>
    BY <1>3 DEF Check
  <2>2. post' \in [Submissions -> Post] /\ post'[m].pc = "checked" /\ post'[m].loaded = row
    BY <2>1 DEF Post
  <2>3. PostOK(m)' /\ RunOK(m)'
    BY <1>1, <2>1, <2>2 DEF PostOK, RunOK
  <2>4. \A o \in Submissions \ {m} : PostOK(o)' /\ RunOK(o)'
    BY <1>1, <2>1, Untouched
  <2> QED
    BY <1>1, <2>1, <2>2, <2>3, <2>4
<1> QED
  BY <1>2, <1>3

LEMMA WorkerCore ==
    ASSUME Core, NEW m \in Submissions, NEW w \in Workers, TakeJob(m, w)
    PROVE  Core'
<1> USE DEF Core, TypeOK
<1>1. /\ UNCHANGED <<mode, row, lock, post>> /\ job[m].state = "queued" /\ job[m].tries < MaxTries
  BY DEF TakeJob
<1>2. post[m].pc \notin {"idle", "checked", "marked"} /\ mode = "arq"
  BY <1>1 DEF PostOK
<1>3. run[m].pc = "idle"
  BY <1>1, <1>2 DEF RunOK
<1>4. CASE Retryable(row)
  <2>1. /\ run' \in [Submissions -> Run]
        /\ challenge' \in [Nonces -> Web \cup {"unissued", "gone"}]
        /\ run'[m].pc = "loaded" /\ run'[m].loaded \in Row /\ Retryable(run'[m].loaded)
        /\ \A o \in Submissions \ {m} : run'[o] = run[o]
    BY <1>4, LoadTypes DEF TakeJob
  <2>2. job' = [job EXCEPT ![m] = [state |-> "running", tries |-> job[m].tries + 1]]
    BY <1>4 DEF TakeJob
  <2>3. job[m].tries + 1 \in 0..MaxTries
    BY <1>1, QueueAssumption DEF Job
  <2>4. job' \in [Submissions -> Job] /\ job'[m].state = "running"
    BY <2>2, <2>3 DEF Job
  <2>5. PostOK(m)' /\ RunOK(m)'
    BY <1>1, <1>2, <2>1, <2>4 DEF PostOK, RunOK, Retryable
  <2>6. \A o \in Submissions \ {m} : PostOK(o)' /\ RunOK(o)'
    BY <1>1, <2>1, <2>2, Untouched
  <2> QED
    BY <1>1, <2>1, <2>4, <2>5, <2>6
<1>5. CASE ~Retryable(row)
  <2>1. job' = [job EXCEPT ![m].state = "refused"] /\ UNCHANGED <<challenge, run>>
    BY <1>5 DEF TakeJob
  <2>2. job' \in [Submissions -> Job] /\ job'[m].state = "refused"
    BY <2>1 DEF Job
  <2>3. PostOK(m)' /\ RunOK(m)'
    BY <1>1, <1>2, <1>3, <2>1, <2>2 DEF PostOK, RunOK
  <2>4. \A o \in Submissions \ {m} : PostOK(o)' /\ RunOK(o)'
    BY <1>1, <2>1, Untouched
  <2> QED
    BY <1>1, <2>1, <2>2, <2>3, <2>4
<1> QED
  BY <1>4, <1>5

LEMMA RunCore ==
    ASSUME Core, NEW m \in Submissions, Search(m) \/ Finish(m) \/ Fail(m) \/ Crash(m)
    PROVE  Core'
<1> USE DEF Core, TypeOK
<1>1. /\ UNCHANGED <<mode, row, challenge>>
      /\ \A o \in Submissions \ {m} :
            post'[o] = post[o] /\ job'[o] = job[o] /\ run'[o] = run[o]
  BY DEF Search, Finish, Fail, Crash
<1>2. \A o \in Submissions \ {m} : PostOK(o)' /\ RunOK(o)'
  BY <1>1, Untouched
<1>3. lock' \in ({"post", "run"} \X Submissions) \cup {None}
  BY DEF Search, Finish, Fail, Crash, Unlocked
<1>4. CASE Search(m)
  <2>1. run' = [run EXCEPT ![m].pc = "searched"] /\ UNCHANGED <<post, job>> /\ run[m].pc = "loaded"
    BY <1>4 DEF Search
  <2>2. /\ run' \in [Submissions -> Run]
        /\ run'[m].pc = "searched" /\ run'[m].loaded = run[m].loaded
    BY <2>1 DEF Run
  <2>3. PostOK(m)' /\ RunOK(m)'
    BY <1>1, <2>1, <2>2 DEF PostOK, RunOK, Retryable
  <2> QED
    BY <1>1, <1>2, <1>3, <2>1, <2>2, <2>3
<1>5. CASE Finish(m) \/ Fail(m) \/ Crash(m)
  <2>1. run' = [run EXCEPT ![m] = IdleRun] /\ (run[m].pc # "idle" \/ job[m].state = "running")
    BY <1>5 DEF Finish, Fail, Crash
  <2>2. run' \in [Submissions -> Run] /\ run'[m].pc = "idle"
    BY <2>1, IdleRunType DEF IdleRun
  <2>3. \/ /\ \E x \in {"done", "failed", "queued"} : job' = [job EXCEPT ![m].state = x]
           /\ UNCHANGED post /\ (mode = "arq" \/ job[m].state = "running" \/ run[m].pc = "decided")
        \/ UNCHANGED job /\ post' = [post EXCEPT ![m].pc = "failed"] /\ mode # "arq"
    BY <1>5 DEF Finish, Fail, Crash
  <2>4. CASE /\ \E x \in {"done", "failed", "queued"} : job' = [job EXCEPT ![m].state = x]
             /\ UNCHANGED post /\ (mode = "arq" \/ job[m].state = "running" \/ run[m].pc = "decided")
    <3>1. job' \in [Submissions -> Job]
      BY <2>4 DEF Job
    <3>2. mode = "arq" /\ post[m].pc \notin {"idle", "checked", "marked"}
      BY <2>4, <2>1 DEF PostOK, RunOK
    <3>3. PostOK(m)' /\ RunOK(m)'
      BY <1>1, <2>2, <2>4, <3>2 DEF PostOK, RunOK
    <3> QED
      BY <1>1, <1>2, <1>3, <2>2, <2>4, <3>1, <3>3
  <2>5. CASE UNCHANGED job /\ post' = [post EXCEPT ![m].pc = "failed"] /\ mode # "arq"
    <3>1. post' \in [Submissions -> Post] /\ post'[m].pc = "failed"
      BY <2>5 DEF Post
    <3>2. PostOK(m)' /\ RunOK(m)'
      BY <1>1, <2>2, <2>5, <3>1 DEF PostOK, RunOK
    <3> QED
      BY <1>1, <1>2, <1>3, <2>2, <2>5, <3>1, <3>2
  <2> QED
    BY <2>3, <2>4, <2>5
<1> QED
  BY <1>4, <1>5

LEMMA DecideCore ==
    ASSUME Core, NEW m \in Submissions,
           NEW x \in {"approved", "pending_review", "rejected"}, Decide(m, x)
    PROVE  Core'
<1> USE DEF Core, TypeOK
<1>1. UNCHANGED <<mode, challenge, job>> /\ run[m].pc = "searched"
  BY DEF Decide
<1>2. lock' \in ({"post", "run"} \X Submissions) \cup {None}
  BY DEF Decide, Unlocked
<1>3. row' \in Row
  <2>1. run[m].loaded \in Row /\ run[m].loaded.attempts < MaxAttempts
    BY <1>1 DEF RunOK, Retryable
  <2>2. run[m].loaded.attempts + 1 \in 0..MaxAttempts
    BY <2>1, QueueAssumption DEF Row
  <2>3. row' = [status |-> x, attempts |-> run[m].loaded.attempts + 1,
                reason |-> x = "rejected" \/ (~run[m].loaded.reason /\ row.reason)]
    BY DEF Decide
  <2>4. (x = "rejected" \/ (~run[m].loaded.reason /\ row.reason)) \in BOOLEAN /\ x \in Statuses
    BY DEF Statuses
  <2> QED
    BY <2>2, <2>3, <2>4 DEF Row
<1>4. CASE mode = "arq"
  <2>1. run' = [run EXCEPT ![m].pc = "decided"] /\ UNCHANGED post
    BY <1>4 DEF Decide
  <2>2. /\ run' \in [Submissions -> Run]
        /\ run'[m].pc = "decided" /\ run'[m].loaded = run[m].loaded
    BY <2>1 DEF Run
  <2>3. PostOK(m)' /\ RunOK(m)'
    BY <1>1, <1>4, <2>1, <2>2 DEF PostOK, RunOK, Retryable
  <2>4. \A o \in Submissions \ {m} : PostOK(o)' /\ RunOK(o)'
    BY <1>1, <2>1, Untouched
  <2> QED
    BY <1>1, <1>2, <1>3, <2>1, <2>2, <2>3, <2>4
<1>5. CASE mode # "arq"
  <2>1. run' = [run EXCEPT ![m] = IdleRun] /\ post' = [post EXCEPT ![m].pc = "done"]
    BY <1>5 DEF Decide
  <2>2. run' \in [Submissions -> Run] /\ run'[m].pc = "idle"
    BY <2>1, IdleRunType DEF IdleRun
  <2>3. post' \in [Submissions -> Post] /\ post'[m].pc = "done"
    BY <2>1 DEF Post
  <2>4. PostOK(m)' /\ RunOK(m)'
    BY <1>1, <1>5, <2>2, <2>3 DEF PostOK, RunOK
  <2>5. \A o \in Submissions \ {m} : PostOK(o)' /\ RunOK(o)'
    BY <1>1, <2>1, Untouched
  <2> QED
    BY <1>1, <1>2, <1>3, <2>2, <2>3, <2>4, <2>5
<1> QED
  BY <1>4, <1>5

LEMMA CoreKept == Core /\ [Next]_vars => Core'
<1> SUFFICES ASSUME Core, [Next]_vars PROVE Core'
  OBVIOUS
<1>1. ASSUME NEW p \in Web, NEW n \in Nonces, IssueChallenge(p, n)
      PROVE  Core'
  <2>1. TypeOK'
    BY <1>1 DEF IssueChallenge, Core, TypeOK
  <2> QED
    BY <1>1, <2>1, Untouched DEF IssueChallenge, Core
<1>2. ASSUME NEW p \in Web, Restart(p)
      PROVE  Core'
  <2>1. TypeOK'
    BY <1>2 DEF Restart, Core, TypeOK
  <2> QED
    BY <1>2, <2>1, Untouched DEF Restart, Core
<1>3. ASSUME NEW x \in {"approved", "rejected"}, Resolve(x)
      PROVE  Core'
  <2>1. row' \in Row
    BY <1>3 DEF Resolve, Core, TypeOK, Row, Statuses
  <2>2. TypeOK'
    BY <1>3, <2>1 DEF Resolve, Core, TypeOK
  <2> QED
    BY <1>3, <2>2, Untouched DEF Resolve, Core
<1>4. CASE UNCHANGED vars
  <2>1. TypeOK'
    BY <1>4 DEF vars, Core, TypeOK
  <2> QED
    BY <1>4, <2>1, Untouched DEF vars, Core
<1> QED
  BY <1>1, <1>2, <1>3, <1>4, HandlerCore, ArrivalCore, WorkerCore, RunCore, DecideCore
  DEF Next, Environment, Progress

LEMMA InitCore == Init => Core
<1> SUFFICES ASSUME Init PROVE Core
  OBVIOUS
<1>1. TypeOK
  BY QueueAssumption, IdleRunType DEF Init, TypeOK, Row, Statuses, Post, Job
<1>2. \A m \in Submissions : post[m].pc = "idle" /\ job[m].state = "none" /\ run[m].pc = "idle"
  BY DEF Init, IdleRun
<1> QED
  BY <1>1, <1>2 DEF Core, PostOK, RunOK

LEMMA AlwaysCore == Spec => []Core
BY InitCore, CoreKept, PTL DEF Spec

\* The row, the copies of it and the messages stay in their types; the attempts stay
\* within the cap because the guard runs again on the copy that the attempt is added to.
THEOREM TypeCorrect == Spec => []TypeOK
BY AlwaysCore, PTL DEF Core
-----------------------------------------------------------------------------
(* The row lock.                                                           *)

Marked(m) == post[m].pc \in {"marked", "sent"} /\ Marks(m)

LEMMA OwnMarkKept ==
    ASSUME NEW m \in Submissions, MarkHoldsRow(m), post'[m] = post[m],
           Marked(m) => /\ lock' = lock
                        /\ job'[m].state # "done" \/ job'[m] = job[m]
                        /\ run'[m].pc # "decided" \/ run'[m] = run[m]
    PROVE  MarkHoldsRow(m)'
BY DEF MarkHoldsRow, Marked, Marks

\* Nobody takes the row from a submission that holds it for its mark.
LEMMA LockHeld ==
    ASSUME NEW m \in Submissions, NEW o \in Submissions, lock = <<"post", o>>,
           \/ m # o /\ (Mark(m) \/ Commit(m) \/ Abort(m))
           \/ Search(m) \/ Fail(m) \/ Crash(m)
    PROVE  lock' = lock
<1>1. lock # None
  BY QueueAssumption
<1>2. lock # <<"run", m>> /\ (m # o => lock # <<"post", m>>)
  OBVIOUS
<1> QED
  BY <1>1, <1>2 DEF Mark, Commit, Abort, Search, Fail, Crash, CanLock, Unlocked

\* Only its own handler writes the row while a mark holds it.
LEMMA RowHeld ==
    ASSUME NEW o \in Submissions, lock = <<"post", o>>, NEW m \in Submissions,
           NEW x \in {"approved", "pending_review", "rejected"}
    PROVE  ~Decide(m, x)
<1>1. lock # None /\ lock # <<"run", m>>
  BY QueueAssumption
<1> QED
  BY <1>1 DEF Decide, CanLock

MarksHold == \A m \in Submissions : MarkHoldsRow(m)

LEMMA HandlerMarks ==
    ASSUME Core, Core', MarksHold, NEW m \in Submissions,
           Mark(m) \/ Enqueue(m) \/ Commit(m) \/ Abort(m)
    PROVE  MarksHold'
<1>1. ASSUME NEW o \in Submissions \ {m} PROVE MarkHoldsRow(o)'
  <2>1. post'[o] = post[o] /\ job'[o] = job[o] /\ run'[o] = run[o]
    BY DEF Mark, Enqueue, Commit, Abort, Core, TypeOK
  <2>2. Marked(o) => lock = <<"post", o>>
    BY DEF MarksHold, MarkHoldsRow, Marked
  <2>3. Marked(o) => lock' = lock
    <3>1. CASE Enqueue(m)
      BY <3>1 DEF Enqueue
    <3> QED
      BY <2>2, <3>1, LockHeld
  <2> QED
    BY <2>1, <2>3, OwnMarkKept DEF MarksHold
<1>2. CASE Mark(m)
  <2>1. post'[m].pc = "marked" /\ post'[m].loaded = post[m].loaded
    BY <1>2 DEF Mark, Core, TypeOK, Post
  <2>2. Marks(m) => lock' = <<"post", m>>
    BY <1>2 DEF Mark
  <2> QED
    BY <1>1, <2>1, <2>2 DEF MarksHold, MarkHoldsRow, Marks
<1>3. CASE Enqueue(m)
  <2>1. /\ post[m].pc = "marked" /\ post'[m].pc = "sent" /\ post'[m].loaded = post[m].loaded
        /\ UNCHANGED <<lock, run>> /\ job'[m].state = "queued"
    BY <1>3 DEF Enqueue, Core, TypeOK, Post, Job
  <2>2. run[m].pc = "idle"
    BY <2>1 DEF Core, PostOK
  <2> QED
    BY <1>1, <2>1, <2>2 DEF MarksHold, MarkHoldsRow, Marks
<1>4. CASE Commit(m) \/ Abort(m)
  <2>1. post'[m].pc \in {"done", "failed"}
    <3>1. PICK pc \in {"done", "failed"} : post' = [post EXCEPT ![m].pc = pc, ![m].loaded = None]
      BY <1>4 DEF Commit, Abort
    <3>2. post' = [post EXCEPT ![m] = [post[m] EXCEPT !.pc = pc, !.loaded = None]]
      BY <3>1
    <3>3. [post[m] EXCEPT !.pc = pc, !.loaded = None].pc = pc
      BY DEF Core, TypeOK, Post
    <3> QED
      BY <3>2, <3>3 DEF Core, TypeOK
  <2> QED
    BY <1>1, <2>1 DEF MarksHold, MarkHoldsRow
<1> QED
  BY <1>2, <1>3, <1>4

LEMMA ArrivalMarks ==
    ASSUME Core, MarksHold, NEW m \in Submissions, NEW p \in Web, NEW n \in Nonces,
           SubmitInline(m, p, n) \/ Check(m, n)
    PROVE  MarksHold'
<1>1. /\ UNCHANGED <<lock, job>> /\ post'[m].pc \in {"inline", "checked"}
      /\ \A o \in Submissions \ {m} : post'[o] = post[o] /\ run'[o] = run[o]
  BY DEF SubmitInline, Check, Load, Core, TypeOK
<1>2. ASSUME NEW o \in Submissions \ {m} PROVE MarkHoldsRow(o)'
  BY <1>1, OwnMarkKept DEF MarksHold
<1>3. MarkHoldsRow(m)'
  BY <1>1 DEF MarkHoldsRow
<1> QED
  BY <1>2, <1>3 DEF MarksHold

LEMMA JobMarks ==
    ASSUME Core, MarksHold, NEW m \in Submissions,
           \/ \E w \in Workers : TakeJob(m, w)
           \/ Search(m) \/ Finish(m) \/ Crash(m)
    PROVE  MarksHold'
<1> USE DEF Core, TypeOK
<1>1. /\ UNCHANGED post
      /\ \A o \in Submissions \ {m} : job'[o] = job[o] /\ run'[o] = run[o]
  BY DEF TakeJob, Search, Finish, Crash, Load
<1>2. ASSUME NEW o \in Submissions, Marked(o) PROVE lock' = lock
  <2>1. lock = <<"post", o>>
    BY <1>2 DEF MarksHold, MarkHoldsRow, Marked
  <2>2. CASE Finish(m) \/ \E w \in Workers : TakeJob(m, w)
    BY <2>2 DEF Finish, TakeJob
  <2> QED
    BY <2>1, <2>2, LockHeld
<1>3. ASSUME NEW o \in Submissions \ {m} PROVE MarkHoldsRow(o)'
  BY <1>1, <1>2, <1>3, OwnMarkKept DEF MarksHold
<1>4. MarkHoldsRow(m)'
  <2>1. CASE Finish(m)
    <3>1. run[m].pc = "decided"
      BY <2>1 DEF Finish
    <3>2. ~Marked(m)
      BY <3>1 DEF MarksHold, MarkHoldsRow, Marked, PostOK
    <3> QED
      BY <1>1, <3>2, OwnMarkKept DEF MarksHold
  <2>2. CASE Search(m) \/ Crash(m)
    <3>1. /\ job'[m].state # "done" \/ job'[m] = job[m]
          /\ run'[m].pc # "decided"
      BY <2>2 DEF Search, Crash, IdleRun, Job, Run
    <3> QED
      BY <1>1, <1>2, <3>1, OwnMarkKept DEF MarksHold
  <2>3. ASSUME NEW w \in Workers, TakeJob(m, w) PROVE MarkHoldsRow(m)'
    <3>1. /\ job'[m].state # "done"
          /\ run'[m].pc # "decided" \/ run'[m] = run[m]
      BY <2>3 DEF TakeJob, Load, Job, Run
    <3> QED
      BY <1>1, <1>2, <3>1, OwnMarkKept DEF MarksHold
  <2> QED
    BY <2>1, <2>2, <2>3
<1> QED
  BY <1>3, <1>4 DEF MarksHold

LEMMA FailMarks ==
    ASSUME Core, MarksHold, NEW m \in Submissions, Fail(m)
    PROVE  MarksHold'
<1> USE DEF Core, TypeOK
<1>1. /\ run'[m].pc = "idle"
      /\ \A o \in Submissions \ {m} :
            post'[o] = post[o] /\ job'[o] = job[o] /\ run'[o] = run[o]
  BY DEF Fail, IdleRun
<1>2. ASSUME NEW o \in Submissions, Marked(o) PROVE lock' = lock
  BY <1>2, LockHeld DEF MarksHold, MarkHoldsRow, Marked
<1>3. ASSUME NEW o \in Submissions \ {m} PROVE MarkHoldsRow(o)'
  BY <1>1, <1>2, <1>3, OwnMarkKept DEF MarksHold
<1>4. MarkHoldsRow(m)'
  <2>1. CASE mode = "arq"
    <3>1. post' = post /\ job'[m].state = "failed"
      BY <2>1 DEF Fail, Job
    <3> QED
      BY <1>1, <1>2, <3>1, OwnMarkKept DEF MarksHold
  <2>2. CASE mode # "arq"
    <3>1. post'[m].pc = "failed"
      BY <2>2 DEF Fail, Post
    <3> QED
      BY <3>1 DEF MarkHoldsRow
  <2> QED
    BY <2>1, <2>2
<1> QED
  BY <1>3, <1>4 DEF MarksHold

LEMMA DecideMarks ==
    ASSUME Core, MarksHold, NEW m \in Submissions,
           NEW x \in {"approved", "pending_review", "rejected"}, Decide(m, x)
    PROVE  MarksHold'
<1> USE DEF Core, TypeOK
<1>1. \A o \in Submissions : ~Marked(o)
  BY RowHeld DEF MarksHold, MarkHoldsRow, Marked
<1>2. \A o \in Submissions : post'[o] = post[o] \/ post'[o].pc = "done"
  BY DEF Decide, Post
<1> QED
  BY <1>1, <1>2 DEF MarksHold, MarkHoldsRow, Marked, Marks

LEMMA MarksKept == Core /\ Core' /\ MarksHold /\ [Next]_vars => MarksHold'
<1> SUFFICES ASSUME Core, Core', MarksHold, [Next]_vars PROVE MarksHold'
  OBVIOUS
<1>1. CASE UNCHANGED <<lock, post, job, run>>
  BY <1>1, OwnMarkKept DEF MarksHold
<1>2. CASE UNCHANGED vars
  BY <1>1, <1>2 DEF vars
<1>3. CASE \/ \E p \in Web : Restart(p) \/ \E n \in Nonces : IssueChallenge(p, n)
           \/ \E x \in {"approved", "rejected"} : Resolve(x)
  BY <1>1, <1>3 DEF Restart, IssueChallenge, Resolve
<1> QED
  BY <1>2, <1>3, HandlerMarks, ArrivalMarks, JobMarks, FailMarks, DecideMarks
  DEF Next, Environment, Progress

LEMMA AlwaysMarksHold == Spec => []MarksHold
<1>1. Init => MarksHold
  BY DEF Init, MarksHold, MarkHoldsRow
<1> QED
  BY <1>1, MarksKept, AlwaysCore, PTL DEF Spec

\* The row lock that the mark takes when it is flushed, and nothing else, makes the
\* job wait for its handler.
THEOREM MarkComesFirst == Spec => []OwnMarkFirst
<1>1. MarksHold => OwnMarkFirst
  BY DEF MarksHold, MarkHoldsRow, OwnMarkFirst
<1> QED
  BY <1>1, AlwaysMarksHold, PTL

-----------------------------------------------------------------------------
(* The nonces.                                                             *)

NoncesCount == counted \in [Nonces -> Nat] /\ \A n \in Nonces : NonceOK(n)

LEMMA LoadCounts ==
    ASSUME Core, NoncesCount, NEW m, NEW e \in Web \cup Workers, NEW n, Load(m, e, n)
    PROVE  NoncesCount'
<1> SUFFICES ASSUME NEW x \in Nonces PROVE counted'[x] \in Nat /\ NonceOK(x)'
  BY DEF Load, NoncesCount
<1>1. e # "gone"
  BY QueueAssumption
<1>2. counted[x] \in 0..1 /\ (counted[x] = 1 => challenge[x] = "gone")
  BY DEF NoncesCount, NonceOK
<1>3. CASE x = n /\ challenge[n] = e
  <2>1. counted[x] = 0
    BY <1>1, <1>2, <1>3
  <2>2. counted'[x] = 1 /\ challenge'[x] = "gone"
    BY <1>3, <2>1 DEF Load, Pop, Core, TypeOK, NoncesCount
  <2> QED
    BY <2>2 DEF NonceOK
<1>4. CASE ~(x = n /\ challenge[n] = e)
  <2>1. counted'[x] = counted[x] /\ challenge'[x] = challenge[x]
    BY <1>4 DEF Load, Pop, Core, TypeOK, NoncesCount
  <2> QED
    BY <1>2, <2>1 DEF NonceOK
<1> QED
  BY <1>3, <1>4

LEMMA NoncesKept == Core /\ NoncesCount /\ [Next]_vars => NoncesCount'
<1> SUFFICES ASSUME Core, NoncesCount, [Next]_vars PROVE NoncesCount'
  OBVIOUS
<1>1. CASE UNCHANGED <<challenge, counted>>
  BY <1>1 DEF NoncesCount, NonceOK
<1>2. ASSUME NEW p \in Web, NEW n \in Nonces, IssueChallenge(p, n)
      PROVE  NoncesCount'
  <2>1. challenge[n] # "gone"
    BY <1>2 DEF IssueChallenge
  <2> QED
    BY <1>2, <2>1 DEF IssueChallenge, NoncesCount, NonceOK, Core, TypeOK
<1>3. ASSUME NEW p \in Web, Restart(p)
      PROVE  NoncesCount'
  BY <1>3 DEF Restart, NoncesCount, NonceOK
<1>4. ASSUME NEW m \in Submissions, NEW p \in Web, NEW n \in Nonces, SubmitInline(m, p, n)
      PROVE  NoncesCount'
  BY <1>4, LoadCounts DEF SubmitInline
<1>5. ASSUME NEW m \in Submissions, NEW w \in Workers, TakeJob(m, w)
      PROVE  NoncesCount'
  BY <1>1, <1>5, LoadCounts DEF TakeJob
<1>6. ASSUME NEW m \in Submissions,
             \/ \E n \in Nonces : Check(m, n)
             \/ Mark(m) \/ Enqueue(m) \/ Commit(m) \/ Abort(m)
             \/ Search(m) \/ \E x \in {"approved", "pending_review", "rejected"} : Decide(m, x)
             \/ Finish(m) \/ Fail(m) \/ Crash(m)
      PROVE  NoncesCount'
  BY <1>1, <1>6 DEF Check, Mark, Enqueue, Commit, Abort, Search, Decide, Finish, Fail, Crash
<1>7. CASE UNCHANGED vars \/ \E x \in {"approved", "rejected"} : Resolve(x)
  BY <1>1, <1>7 DEF vars, Resolve
<1> QED
  BY <1>2, <1>3, <1>4, <1>5, <1>6, <1>7 DEF Next, Environment, Progress

\* A nonce that has counted is gone from every process, and no restart, redelivery or
\* second process brings it back.
THEOREM NoncesAreSingleUse == Spec => []NonceCountsOnce
<1>1. Init => NoncesCount
  BY DEF Init, NoncesCount, NonceOK
<1>2. NoncesCount => NonceCountsOnce
  BY DEF NoncesCount, NonceOK, NonceCountsOnce
<1> QED
  BY <1>1, <1>2, NoncesKept, AlwaysCore, PTL DEF Spec
-----------------------------------------------------------------------------
(* Decided sessions.                                                       *)

LEMMA NotedAlone ==
    ASSUME NoteOverlap, ~overlapped'
    PROVE  ~overlapped /\ Alone'
<1> DEFINE Busy2 == {m \in Submissions : UnderWay(m)'}
<1>1. ~overlapped /\ ~(Cardinality(Busy2) > 1)
  BY DEF NoteOverlap
<1>2. ASSUME NEW m \in Submissions, NEW o \in Submissions, UnderWay(m)', UnderWay(o)', m # o
      PROVE  FALSE
  <2>1. {m, o} \in SUBSET Busy2
    BY <1>2
  <2>2. IsFiniteSet(Busy2) /\ Cardinality(Busy2) \in Nat
    <3>1. Busy2 \in SUBSET Submissions
      OBVIOUS
    <3> QED
      BY <3>1, QueueAssumption, FS_Subset, FS_CardinalityType
  <2>3. Cardinality({m, o}) = 2
    <3>1. {m, o} = {m} \cup {o} /\ o \notin {m}
      BY <1>2
    <3>2. IsFiniteSet({m}) /\ Cardinality({m}) = 1
      BY FS_Singleton
    <3> QED
      BY <3>1, <3>2, FS_AddElement
  <2>4. 2 <= Cardinality(Busy2)
    BY <2>1, <2>2, <2>3, FS_Subset
  <2> QED
    BY <1>1, <2>2, <2>4
<1> QED
  BY <1>1, <1>2 DEF Alone

LEMMA WritersAreUnderWay ==
    ASSUME Core, NEW m \in Submissions, WillWrite(m)
    PROVE  UnderWay(m)
BY DEF Core, WillWrite, UnderWay, RunOK

OpenForWriters == \A m \in Submissions : WillWrite(m) => Undecided(row)

\* A step that does not change the row, and starts writers only on an open row.
LEMMA OpenKept ==
    ASSUME OpenForWriters, UNCHANGED row,
           \A m \in Submissions : WillWrite(m)' => WillWrite(m) \/ Undecided(row)
    PROVE  OpenForWriters'
BY DEF OpenForWriters, Undecided

LEMMA HandlerOpens ==
    ASSUME Core, MarksHold, OpenForWriters, NEW m \in Submissions,
           Mark(m) \/ Enqueue(m) \/ Commit(m) \/ Abort(m)
    PROVE  OpenForWriters'
<1> USE DEF Core, TypeOK
<1>1. /\ UNCHANGED run
      /\ \A o \in Submissions \ {m} : post'[o] = post[o]
  BY DEF Mark, Enqueue, Commit, Abort
<1>2. \A o \in Submissions \ {m} : WillWrite(o)' => WillWrite(o)
  BY <1>1 DEF WillWrite, Marks
<1>3. CASE Mark(m) \/ Enqueue(m)
  <2>1. /\ \/ post[m].pc = "checked" /\ post'[m].pc = "marked"
           \/ post[m].pc = "marked" /\ post'[m].pc = "sent"
        /\ post'[m].loaded = post[m].loaded
    BY <1>3 DEF Mark, Enqueue, Post
  <2>2. WillWrite(m)' => WillWrite(m)
    BY <2>1 DEF WillWrite
  <2> QED
    BY <1>2, <1>3, <2>2, OpenKept DEF Mark, Enqueue
<1>4. CASE Commit(m) \/ Abort(m)
  <2>1. post'[m].pc \in {"done", "failed"}
    <3>1. PICK pc \in {"done", "failed"} : post' = [post EXCEPT ![m].pc = pc, ![m].loaded = None]
      BY <1>4 DEF Commit, Abort
    <3>2. post' = [post EXCEPT ![m] = [post[m] EXCEPT !.pc = pc, !.loaded = None]]
      BY <3>1
    <3>3. [post[m] EXCEPT !.pc = pc, !.loaded = None].pc = pc
      BY DEF Post
    <3> QED
      BY <3>2, <3>3
  <2>2. WillWrite(m)' => WillWrite(m)
    BY <1>1, <2>1 DEF WillWrite
  <2>3. CASE UNCHANGED row
    BY <1>2, <2>2, <2>3, OpenKept
  <2>4. CASE row' = [row EXCEPT !.status = "biometrics_submitted"]
    <3>1. Undecided(row)'
      BY <2>4 DEF Undecided, Row
    <3> QED
      BY <3>1 DEF OpenForWriters
  <2> QED
    BY <1>4, <2>3, <2>4 DEF Commit, Abort
<1> QED
  BY <1>3, <1>4

LEMMA GuardOpens ==
    ASSUME Core, OpenForWriters, NEW m \in Submissions,
           \/ \E p \in Web, n \in Nonces : SubmitInline(m, p, n) \/ Check(m, n)
           \/ \E w \in Workers : TakeJob(m, w)
    PROVE  OpenForWriters'
<1>1. /\ UNCHANGED row
      /\ \A o \in Submissions \ {m} : post'[o] = post[o] /\ run'[o] = run[o]
  BY DEF SubmitInline, Check, TakeJob, Load, Core, TypeOK
<1>2. Undecided(row) \/ (post'[m] = post[m] /\ run'[m] = run[m])
  BY DEF SubmitInline, Check, TakeJob, Retryable, Undecided
<1>3. \A o \in Submissions : WillWrite(o)' => WillWrite(o) \/ Undecided(row)
  BY <1>1, <1>2 DEF WillWrite, Marks
<1> QED
  BY <1>1, <1>3, OpenKept

LEMMA RunOpens ==
    ASSUME Core, OpenForWriters, NEW m \in Submissions,
           Search(m) \/ Finish(m) \/ Fail(m) \/ Crash(m)
    PROVE  OpenForWriters'
<1> USE DEF Core, TypeOK
<1>1. /\ UNCHANGED row
      /\ \A o \in Submissions \ {m} : post'[o] = post[o] /\ run'[o] = run[o]
  BY DEF Search, Finish, Fail, Crash
<1>2. /\ run'[m].pc = "idle" \/ run[m].pc = "loaded"
      /\ post'[m] = post[m] \/ post'[m].pc = "failed"
  BY DEF Search, Finish, Fail, Crash, IdleRun, Post
<1>3. \A o \in Submissions : WillWrite(o)' => WillWrite(o)
  BY <1>1, <1>2 DEF WillWrite, Marks
<1> QED
  BY <1>1, <1>3, OpenKept

\* The one that decides was the only one under way.
LEMMA DecideOpens ==
    ASSUME Core, MarksHold, Alone, OpenForWriters, NEW m \in Submissions,
           NEW x \in {"approved", "pending_review", "rejected"}, Decide(m, x)
    PROVE  OpenForWriters'
<1> USE DEF Core, TypeOK
<1>1. run[m].pc = "searched" /\ run'[m].pc \in {"decided", "idle"}
  BY DEF Decide, IdleRun, Run
<1>2. \A o \in Submissions \ {m} : ~WillWrite(o)
  BY <1>1, WritersAreUnderWay DEF Alone, WillWrite
<1>3. \A o \in Submissions \ {m} : post'[o] = post[o] /\ run'[o] = run[o]
  BY DEF Decide
<1>4. \A o \in Submissions \ {m} : ~WillWrite(o)'
  BY <1>2, <1>3 DEF WillWrite, Marks
<1>5. ~WillWrite(m)'
  <2>1. post'[m] = post[m] \/ post'[m].pc = "done"
    BY DEF Decide, Post
  <2>2. post[m].pc \notin {"checked", "marked"}
    BY <1>1 DEF PostOK
  <2>3. ~Marked(m)
    BY RowHeld DEF MarksHold, MarkHoldsRow, Marked
  <2> QED
    BY <1>1, <2>1, <2>2, <2>3 DEF WillWrite, Marked, Marks
<1> QED
  BY <1>4, <1>5 DEF OpenForWriters

LEMMA ResolveOpens ==
    ASSUME OpenForWriters, NEW x \in {"approved", "rejected"}, Resolve(x)
    PROVE  OpenForWriters'
BY DEF OpenForWriters, Resolve, Undecided, WillWrite, Marks

LEMMA WritesKept ==
    Core /\ MarksHold /\ WritesOpenRow /\ [Next]_vars => WritesOpenRow'
<1> SUFFICES ASSUME Core, MarksHold, WritesOpenRow, [Next]_vars, ~overlapped'
             PROVE  Alone' /\ OpenForWriters'
  BY DEF WritesOpenRow, OpenForWriters
<1>1. CASE UNCHANGED vars
  <2>1. Alone /\ OpenForWriters
    BY <1>1 DEF vars, WritesOpenRow, OpenForWriters
  <2> QED
    BY <1>1, <2>1 DEF vars, Alone, UnderWay, OpenForWriters, WillWrite, Marks, Undecided
<1>2. CASE Next
  <2>1. ~overlapped /\ Alone'
    BY <1>2, NotedAlone DEF Next, Environment, Progress
  <2>2. Alone /\ OpenForWriters
    BY <2>1 DEF WritesOpenRow, OpenForWriters
  <2>3. ASSUME \E p \in Web : Restart(p) \/ \E n \in Nonces : IssueChallenge(p, n)
        PROVE  OpenForWriters'
    BY <2>2, <2>3 DEF Restart, IssueChallenge, OpenForWriters, WillWrite, Marks, Undecided
  <2> QED
    BY <1>2, <2>1, <2>2, <2>3, HandlerOpens, GuardOpens, RunOpens, DecideOpens, ResolveOpens
    DEF Next, Environment, Progress
<1> QED
  BY <1>1, <1>2

LEMMA AlwaysWritesOpenRow == Spec => []WritesOpenRow
<1>1. Init => WritesOpenRow
  BY DEF Init, WritesOpenRow, Alone, UnderWay, WillWrite, IdleRun
<1> QED
  BY <1>1, WritesKept, AlwaysCore, AlwaysMarksHold, PTL DEF Spec

\* Redelivered or repeated, a submission that does not overlap another one writes a
\* session only while it is undecided; after that only a reviewer does.
THEOREM DecisionsStick == Spec => DecisionSticks
<1> DEFINE Sticks ==
      row.status \in {"approved", "pending_review"} /\ row' # row
        => overlapped' \/ (row.status = "pending_review" /\ \E x \in Statuses : Resolve(x))
<1>1. Core /\ MarksHold /\ WritesOpenRow /\ [Next]_vars => [Sticks]_vars
  <2> SUFFICES ASSUME Core, MarksHold, WritesOpenRow, Next, ~overlapped',
                      ~Undecided(row), row' # row
               PROVE  row.status = "pending_review" /\ \E x \in Statuses : Resolve(x)
    BY DEF Undecided
  <2>1. ~overlapped
    BY NotedAlone DEF Next, Environment, Progress
  <2>2. \A m \in Submissions : ~WillWrite(m)
    BY <2>1 DEF WritesOpenRow
  <2>3. ASSUME NEW m \in Submissions, NEW x \in {"approved", "pending_review", "rejected"}
        PROVE  ~Decide(m, x)
    BY <2>2 DEF WillWrite, Decide
  <2>4. ASSUME NEW m \in Submissions, Commit(m) PROVE FALSE
    BY <2>2, <2>4 DEF WillWrite, Commit
  <2>5. ASSUME NEW m \in Submissions,
               \/ \E p \in Web, n \in Nonces : SubmitInline(m, p, n) \/ Check(m, n)
               \/ \E w \in Workers : TakeJob(m, w)
               \/ Mark(m) \/ Enqueue(m) \/ Abort(m)
               \/ Search(m) \/ Finish(m) \/ Fail(m) \/ Crash(m)
        PROVE  UNCHANGED row
    BY <2>5 DEF SubmitInline, Check, TakeJob, Mark, Enqueue, Abort, Search, Finish, Fail, Crash
  <2>6. ASSUME \E p \in Web : Restart(p) \/ \E n \in Nonces : IssueChallenge(p, n)
        PROVE  UNCHANGED row
    BY <2>6 DEF Restart, IssueChallenge
  <2>7. \E x \in {"approved", "rejected"} : Resolve(x)
    BY <2>3, <2>4, <2>5, <2>6 DEF Next, Environment, Progress
  <2> QED
    BY <2>7 DEF Resolve, Statuses
<1> QED
  BY <1>1, AlwaysCore, AlwaysMarksHold, AlwaysWritesOpenRow, PTL DEF Spec, DecisionSticks
=============================================================================
