----------------------------- MODULE RateLimiter -----------------------------
(***************************************************************************)
(* The attempt counters with lockout behind /auth/login and /auth/register *)
(* (services/users/app/rate_limit.py), called by the worker threads of one *)
(* process.  A thread reads the clock before it takes the limiter's lock,  *)
(* so it may act with a reading older than that of the thread before it.   *)
(* Each id belongs to one limiter: the ids of a limiter share its eviction *)
(* counter, and nothing else.                                              *)
(***************************************************************************)
EXTENDS Integers, Sequences, FiniteSets

CONSTANTS
    Threads,      \* worker threads
    Limiters,     \* the RateLimiter objects
    Ids,          \* what attempts are counted by: client addresses, user names
    LimiterOf,    \* the limiter of each id
    MaxAttempts, Window, Lockout,   \* the limiter's parameters
    SampleSize,   \* every how many checks stale buckets are evicted
    MaxWait,      \* environment: how long a thread may wait for the lock
    MaxClock,     \* bound: when the clock stops
    NoBucket      \* the absence of an entry in _buckets

ASSUME LimiterAssumption ==
    /\ LimiterOf \in [Ids -> Limiters]
    /\ MaxAttempts \in Nat \ {0}
    /\ Window \in Nat \ {0}
    /\ Lockout \in Nat \ {0}
    /\ SampleSize \in Nat \ {0}
    /\ MaxWait \in Nat
    /\ MaxWait < Window
    /\ MaxClock \in Nat
    /\ "idle" \notin Ids
    /\ NoBucket \notin [count : Nat, windowStart : Nat, lockedUntil : Nat]

VARIABLES
    clock,      \* time.monotonic()
    buckets,    \* _buckets: id -> bucket
    checks,     \* _eviction_counter of each limiter, modulo SampleSize
    now,        \* the reading of each thread, 0 when it has none
    checking,   \* the id each thread waits to check, or "idle"
    admitted,   \* history: when attempts were let through, since the last reset
    lockEnd     \* history: the end of the last lockout, 0 after a reset

limiterVars == <<clock, buckets, checks, now, checking, admitted, lockEnd>>

Bucket == [count : Nat, windowStart : Nat, lockedUntil : Nat]

LimiterTypeOK ==
    /\ clock \in Nat
    /\ buckets \in [Ids -> Bucket \cup {NoBucket}]
    /\ checks \in [Limiters -> 0..(SampleSize - 1)]
    /\ now \in [Threads -> Nat]
    /\ checking \in [Threads -> Ids \cup {"idle"}]
    /\ admitted \in [Ids -> Seq(Nat)]
    /\ lockEnd \in [Ids -> Nat]

LimiterInit ==
    /\ clock = 0
    /\ buckets = [k \in Ids |-> NoBucket]
    /\ checks = [m \in Limiters |-> 0]
    /\ now = [t \in Threads |-> 0]
    /\ checking = [t \in Threads |-> "idle"]
    /\ admitted = [k \in Ids |-> <<>>]
    /\ lockEnd = [k \in Ids |-> 0]
-----------------------------------------------------------------------------
(* The parts of check *)

FreshBucket(n) == [count |-> 0, windowStart |-> n, lockedUntil |-> 0]

\* Variant: a bucket is stale once its window is over, locked or not.
StaleByWindow(b, n) == b.windowStart < n - Window * 2

Stale(b, n) == b.lockedUntil <= n /\ b.windowStart < n - Window * 2

\* _evict_stale of k's limiter, when its counter becomes a multiple of the
\* sample size.
Swept(k, n) ==
    IF (checks[LimiterOf[k]] + 1) % SampleSize # 0 THEN buckets
    ELSE [j \in Ids |-> IF /\ LimiterOf[j] = LimiterOf[k]
                           /\ buckets[j] # NoBucket
                           /\ Stale(buckets[j], n)
                        THEN NoBucket ELSE buckets[j]]

\* The bucket check works on.
Found(k, n) == IF Swept(k, n)[k] = NoBucket THEN FreshBucket(n) ELSE Swept(k, n)[k]

\* Variant: an expired lockout is lifted and the count is kept.
RefreshedKeepsCount(b, n) ==
    IF b.lockedUntil # 0 THEN [b EXCEPT !.lockedUntil = 0]
    ELSE IF n - b.windowStart >= Window THEN FreshBucket(n)
    ELSE b

\* An expired lockout or window gives the id a clean window.
Refreshed(b, n) ==
    IF b.lockedUntil # 0 \/ n - b.windowStart >= Window THEN FreshBucket(n) ELSE b

\* Variant: the attempt is compared with the budget before it is counted.
WithinBudgetOffByOne(b) == b.count <= MaxAttempts

WithinBudget(b) == b.count + 1 <= MaxAttempts

Counted(b) == [b EXCEPT !.count = @ + 1]

Locked(b, n) == [b EXCEPT !.lockedUntil = n + Lockout]

Put(k, b, n) == buckets' = [Swept(k, n) EXCEPT ![k] = b]

\* What every outcome of check does.
Answered(t, k) ==
    /\ checks' = [checks EXCEPT ![LimiterOf[k]] = (@ + 1) % SampleSize]
    /\ checking' = [checking EXCEPT ![t] = "idle"]
    /\ now' = [now EXCEPT ![t] = 0]
    /\ UNCHANGED clock
-----------------------------------------------------------------------------
(* Actions *)

Tick ==
    /\ clock < MaxClock
    /\ \A t \in Threads : checking[t] # "idle" => clock - now[t] < MaxWait
    /\ clock' = clock + 1
    /\ UNCHANGED <<buckets, checks, now, checking, admitted, lockEnd>>

\* A request calls check: the clock is read outside the lock.
Call(t, k) ==
    /\ checking[t] = "idle"
    /\ checking' = [checking EXCEPT ![t] = k]
    /\ now' = [now EXCEPT ![t] = clock]
    /\ UNCHANGED <<clock, buckets, checks, admitted, lockEnd>>

\* The id is locked out: RateLimitExceeded.
RefuseLocked(t, k) ==
    LET b == Found(k, now[t])
    IN  /\ checking[t] = k
        /\ b.lockedUntil > now[t]
        /\ Put(k, b, now[t])
        /\ Answered(t, k)
        /\ UNCHANGED <<admitted, lockEnd>>

\* One attempt more, within the budget.
Admit(t, k) ==
    LET b == Found(k, now[t])
        r == Refreshed(b, now[t])
    IN  /\ checking[t] = k
        /\ b.lockedUntil <= now[t]
        /\ WithinBudget(r)
        /\ Put(k, Counted(r), now[t])
        /\ admitted' = [admitted EXCEPT ![k] = Append(@, clock)]
        /\ Answered(t, k)
        /\ UNCHANGED lockEnd

\* One attempt too many: the lockout starts, RateLimitExceeded.
LockOut(t, k) ==
    LET b == Found(k, now[t])
        r == Refreshed(b, now[t])
    IN  /\ checking[t] = k
        /\ b.lockedUntil <= now[t]
        /\ ~WithinBudget(r)
        /\ Put(k, Locked(Counted(r), now[t]), now[t])
        /\ lockEnd' = [lockEnd EXCEPT ![k] = now[t] + Lockout]
        /\ Answered(t, k)
        /\ UNCHANGED admitted

\* A login of k succeeded.
Reset(k) ==
    /\ buckets' = [buckets EXCEPT ![k] = NoBucket]
    /\ admitted' = [admitted EXCEPT ![k] = <<>>]
    /\ lockEnd' = [lockEnd EXCEPT ![k] = 0]
    /\ UNCHANGED <<clock, checks, now, checking>>

LimiterNext ==
    \/ Tick
    \/ \E t \in Threads, k \in Ids :
          Call(t, k) \/ RefuseLocked(t, k) \/ Admit(t, k) \/ LockOut(t, k)
    \/ \E k \in Ids : Reset(k)

LimiterSpec == LimiterInit /\ [][LimiterNext]_limiterVars
-----------------------------------------------------------------------------
(* Properties *)

\* While an id is locked out nobody gets through: neither a thread that waited
\* at the lock, nor an eviction, nor an expiring window ends a lockout early;
\* only a reset does (rate_limit.py:26-29).
LockoutHolds ==
    [][\A k \in Ids : Len(admitted'[k]) > Len(admitted[k]) => clock >= lockEnd[k]]_limiterVars

\* The attempts of k let through less than a window before the reading n, and
\* after its last lockout.
RecentlyAdmitted(k, n) ==
    {i \in 1..Len(admitted[k]) : admitted[k][i] > n - Window /\ admitted[k][i] >= lockEnd[k]}

\* An id is locked out only after a full budget of attempts within one window,
\* all of them since its previous lockout: an expired lockout does not trigger
\* the next one at once (rate_limit.py:61-67).
LockoutIsDeserved ==
    [][\A t \in Threads, k \in Ids :
          LockOut(t, k) => Cardinality(RecentlyAdmitted(k, now[t])) >= MaxAttempts]_limiterVars

\* Fixed windows let a burst through at the end of one and at the start of the
\* next, but not more: of any 2 * MaxAttempts + 1 attempts the first and the
\* last are a window apart, less what a thread may wait at the lock.  Eviction
\* does not widen this (rate_limit.py:85-96); a lockout shorter than a window
\* would, for its end gives the id a clean window.
BurstBound ==
    \A k \in Ids : \A i \in 1..(Len(admitted[k]) - 2 * MaxAttempts) :
        admitted[k][i + 2 * MaxAttempts] - admitted[k][i] >= Window - MaxWait
-----------------------------------------------------------------------------
(* The inductive invariant behind LockoutHolds *)

Readings == \A t \in Threads : now[t] <= clock

\* A lockout that lasts is recorded in the bucket, and no bucket claims more.
LocksRecorded ==
    \A k \in Ids :
        /\ clock < lockEnd[k] => buckets[k] # NoBucket /\ buckets[k].lockedUntil = lockEnd[k]
        /\ buckets[k] # NoBucket => buckets[k].lockedUntil \in {0, lockEnd[k]}

\* The budget of a window is never exceeded by more than the attempt that
\* starts the lockout.
Budget ==
    \A k \in Ids : buckets[k] # NoBucket =>
        /\ buckets[k].count <= MaxAttempts + 1
        /\ buckets[k].count > MaxAttempts => buckets[k].lockedUntil # 0

LimiterInv == LimiterTypeOK /\ Readings /\ LocksRecorded /\ Budget
=============================================================================
