-------------------------- MODULE SessionLifecycle --------------------------
(***************************************************************************)
(* What the verification service promises an integrator about a session,  *)
(* without requests, rows or signals: a session stays open for at most     *)
(* MaxAttempts biometric attempts; an attempt, counted as it is decided,   *)
(* leaves it open, sends it to a reviewer or approves it; only a reviewer  *)
(* moves it out of review; nothing moves it out of approval.               *)
(***************************************************************************)
EXTENDS Naturals

CONSTANTS Sessions, MaxAttempts

VARIABLES phase, attempts

vars == <<phase, attempts>>

Init ==
    /\ phase = [s \in Sessions |-> "absent"]
    /\ attempts = [s \in Sessions |-> 0]

Create(s) ==
    /\ phase[s] = "absent"
    /\ phase' = [phase EXCEPT ![s] = "open"]
    /\ UNCHANGED attempts

Attempt(s, outcome) ==
    /\ phase[s] = "open"
    /\ attempts[s] < MaxAttempts
    /\ attempts' = [attempts EXCEPT ![s] = @ + 1]
    /\ phase' = [phase EXCEPT ![s] = outcome]

Resolve(s, outcome) ==
    /\ phase[s] = "review"
    /\ phase' = [phase EXCEPT ![s] = outcome]
    /\ UNCHANGED attempts

Next == \E s \in Sessions :
    \/ Create(s)
    \/ \E outcome \in {"open", "review", "approved"} : Attempt(s, outcome)
    \/ \E outcome \in {"open", "approved"} : Resolve(s, outcome)

Spec == Init /\ [][Next]_vars
=============================================================================
