----------------------------- MODULE RateLimit -----------------------------
(***************************************************************************)
(* The in-process rate limiter of the abusable routes                      *)
(* (app/security.py:63-103), for one key: one route and one client.        *)
(* A request reads the time first and takes the lock later, so that the    *)
(* bucket is trimmed and filled with times that are not in order.          *)
(***************************************************************************)
EXTENDS Integers, FiniteSets

CONSTANTS
    Threads,     \* request threads (bound)
    Quota,       \* KYC_RATELIMIT_..._PER_MIN
    Window,      \* _WINDOW_SECONDS
    LastSecond   \* time.time() stops here (bound)

ASSUME RateAssumption ==
    /\ Quota \in Nat /\ Window \in Nat /\ LastSecond \in Nat
    /\ IsFiniteSet(Threads) /\ Threads # {}

\* An entry <<t, n>> is the n-th request that read time t and was let in.
VARIABLES
    now,        \* time.time()
    arrived,    \* the time a thread has read, or -1
    hits,       \* _hits[key], the entries of the list
    admitted    \* every entry there has been

rateVars == <<now, arrived, hits, admitted>>

RateInit ==
    /\ now = 0
    /\ arrived = [r \in Threads |-> -1]
    /\ hits = {}
    /\ admitted = {}

Second ==
    /\ now < LastSecond
    /\ now' = now + 1
    /\ UNCHANGED <<arrived, hits, admitted>>

\* dependency() evaluates time.time() before _allow takes the lock.
Arrive(r) ==
    /\ arrived[r] = -1
    /\ arrived' = [arrived EXCEPT ![r] = now]
    /\ UNCHANGED <<now, hits, admitted>>

\* Entries of the window's first second are dropped.
TrimmedEarly(t) == {h \in hits : h[1] > t - Window}

\* bucket[:] = [t for t in bucket if t >= cutoff]
Trimmed(t) == {h \in hits : h[1] >= t - Window}

AdmittedAt(t) == {h \in admitted : h[1] = t}

\* _allow, under _lock.
Allow(r) ==
    LET t == arrived[r]
        entry == <<t, Cardinality(AdmittedAt(t)) + 1>>
    IN  /\ t # -1
        /\ IF Cardinality(Trimmed(t)) >= Quota
           THEN hits' = Trimmed(t) /\ UNCHANGED admitted    \* 429
           ELSE hits' = Trimmed(t) \cup {entry} /\ admitted' = admitted \cup {entry}
        /\ arrived' = [arrived EXCEPT ![r] = -1]
        /\ UNCHANGED now

RateNext == Second \/ \E r \in Threads : Arrive(r) \/ Allow(r)

RateSpec == RateInit /\ [][RateNext]_rateVars

-----------------------------------------------------------------------------

InWindow(a) == {h \in admitted : a <= h[1] /\ h[1] <= a + Window}

\* "enforces the per-minute limit" (security.py:96): of the requests that arrive in
\* any window, a boundary of it included, at most the quota is let in.  A thread that
\* waits for the lock while the window moves on can add one to that; alone, none does.
QuotaHolds ==
    \A a \in 0..LastSecond : Cardinality(InWindow(a)) <= Quota + Cardinality(Threads) - 1
=============================================================================
