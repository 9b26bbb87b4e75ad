----------------------------- MODULE Login_proofs -----------------------------
(***************************************************************************)
(* For any threads, addresses, names, parameters and waiting times: the    *)
(* inductive invariants of the limiters and of the logins; that a lockout  *)
(* holds until it ends, follows a full budget, and is ended before only by *)
(* a login it has overtaken; and how much gets through within a window.    *)
(***************************************************************************)
EXTENDS Login, FiniteSetTheorems, TLAPS

(* The limiters, whoever calls them *)

\* A bucket that a check leaves to work on is the one that was there, unless it
\* was evicted (_evict_stale), which no bucket is whose lockout lasts.
LEMMA SweptBuckets ==
    ASSUME LimiterInv, NEW k \in Ids, NEW n \in Nat, n <= clock
    PROVE  /\ Swept(k, n) \in [Ids -> Bucket \cup {NoBucket}]
           /\ \A j \in Ids :
                /\ Swept(k, n)[j] \in {buckets[j], NoBucket}
                /\ clock < lockEnd[j] => Swept(k, n)[j] = buckets[j]
<1> USE LimiterAssumption DEF LimiterInv, LimiterTypeOK, LocksRecorded
<1>1. CASE (checks[LimiterOf[k]] + 1) % SampleSize # 0
  BY <1>1 DEF Swept
<1>2. CASE (checks[LimiterOf[k]] + 1) % SampleSize = 0
  <2>1. Swept(k, n) = [j \in Ids |-> IF /\ LimiterOf[j] = LimiterOf[k]
                                        /\ buckets[j] # NoBucket
                                        /\ Stale(buckets[j], n)
                                     THEN NoBucket ELSE buckets[j]]
    BY <1>2 DEF Swept
  <2>2. ASSUME NEW j \in Ids, clock < lockEnd[j]
        PROVE  ~Stale(buckets[j], n)
    BY <2>2 DEF Stale, Bucket
  <2> QED
    BY <2>1, <2>2
<1> QED
  BY <1>1, <1>2

\* What Found returns: a bucket that keeps to the invariant.
LEMMA FoundBucket ==
    ASSUME LimiterInv, NEW n \in Nat, n <= clock, NEW k \in Ids
    PROVE  /\ Found(k, n) \in Bucket
           /\ Found(k, n).lockedUntil \in {0, lockEnd[k]}
           /\ Found(k, n).count <= MaxAttempts + 1
           /\ Found(k, n).count > MaxAttempts => Found(k, n).lockedUntil # 0
           /\ clock < lockEnd[k] => Found(k, n).lockedUntil = lockEnd[k]
<1> USE LimiterAssumption
<1>1. /\ Swept(k, n)[k] \in Bucket \cup {NoBucket}
      /\ Swept(k, n)[k] \in {buckets[k], NoBucket}
      /\ clock < lockEnd[k] => Swept(k, n)[k] = buckets[k]
  BY SweptBuckets
<1>2. CASE Swept(k, n)[k] = NoBucket
  BY <1>1, <1>2 DEF Found, FreshBucket, Bucket, LimiterInv, LimiterTypeOK, LocksRecorded
<1>3. CASE Swept(k, n)[k] # NoBucket
  BY <1>1, <1>3 DEF Found, Bucket, LimiterInv, LimiterTypeOK, LocksRecorded, Budget
<1> QED
  BY <1>2, <1>3

\* A clean window, or the one that runs: never a locked one.
LEMMA RefreshedBucket ==
    ASSUME LimiterInv, NEW n \in Nat, n <= clock, NEW k \in Ids
    PROVE  LET r == Refreshed(Found(k, n), n)
           IN  r \in Bucket /\ r.lockedUntil = 0 /\ r.count <= MaxAttempts
<1> USE LimiterAssumption
<1> DEFINE b == Found(k, n)
<1>1. /\ b \in Bucket
      /\ b.count > MaxAttempts => b.lockedUntil # 0
  BY FoundBucket
<1> HIDE DEF b
<1>2. LET r == Refreshed(b, n) IN r \in Bucket /\ r.lockedUntil = 0 /\ r.count <= MaxAttempts
  BY <1>1 DEF Refreshed, FreshBucket, Bucket
<1> QED
  BY <1>2 DEF b

\* Putting a good bucket for k on top of a sweep keeps the rest of the state's
\* invariant, whatever the new end of k's lockout is.
LEMMA PutKeeps ==
    ASSUME LimiterInv, NEW n \in Nat, n <= clock, NEW k \in Ids, NEW b \in Bucket,
           Put(k, b, n), clock' = clock, lockEnd' \in [Ids -> Nat],
           \A j \in Ids \ {k} : lockEnd'[j] = lockEnd[j],
           b.lockedUntil \in {0, lockEnd'[k]},
           clock < lockEnd'[k] => b.lockedUntil = lockEnd'[k],
           b.count <= MaxAttempts + 1,
           b.count > MaxAttempts => b.lockedUntil # 0
    PROVE  buckets' \in [Ids -> Bucket \cup {NoBucket}] /\ LocksRecorded' /\ Budget'
<1> USE LimiterAssumption
<1>1. /\ Swept(k, n) \in [Ids -> Bucket \cup {NoBucket}]
      /\ \A j \in Ids : /\ Swept(k, n)[j] \in {buckets[j], NoBucket}
                        /\ clock < lockEnd[j] => Swept(k, n)[j] = buckets[j]
  BY SweptBuckets
<1>2. buckets' = [Swept(k, n) EXCEPT ![k] = b]
  BY DEF Put
<1>3. buckets' \in [Ids -> Bucket \cup {NoBucket}]
  BY <1>1, <1>2
<1>4. buckets'[k] = b /\ b # NoBucket
  BY <1>1, <1>2 DEF Bucket
<1>5. \A j \in Ids \ {k} : buckets'[j] = Swept(k, n)[j]
  BY <1>1, <1>2
<1>6. LocksRecorded'
  <2> SUFFICES ASSUME NEW j \in Ids
               PROVE  /\ clock < lockEnd'[j] => buckets'[j] # NoBucket /\ buckets'[j].lockedUntil = lockEnd'[j]
                      /\ buckets'[j] # NoBucket => buckets'[j].lockedUntil \in {0, lockEnd'[j]}
    BY DEF LocksRecorded
  <2>1. CASE j = k
    BY <1>4, <2>1
  <2>2. CASE j # k
    BY <1>1, <1>5, <2>2 DEF LimiterInv, LocksRecorded
  <2> QED
    BY <2>1, <2>2
<1>7. Budget'
  <2> SUFFICES ASSUME NEW j \in Ids, buckets'[j] # NoBucket
               PROVE  /\ buckets'[j].count <= MaxAttempts + 1
                      /\ buckets'[j].count > MaxAttempts => buckets'[j].lockedUntil # 0
    BY DEF Budget
  <2>1. CASE j = k
    BY <1>4, <2>1
  <2>2. CASE j # k
    BY <1>1, <1>5, <2>2 DEF LimiterInv, Budget
  <2> QED
    BY <2>1, <2>2
<1> QED
  BY <1>3, <1>6, <1>7

\* The part of the state that every outcome of check treats alike.
LEMMA AnsweredKeeps ==
    ASSUME LimiterInv, NEW t \in Threads, NEW k \in Ids, Answered(t, k)
    PROVE  /\ clock' \in Nat /\ clock' = clock
           /\ checks' \in [Limiters -> 0..(SampleSize - 1)]
           /\ now' \in [Threads -> Nat]
           /\ checking' \in [Threads -> Ids \cup {"idle"}]
           /\ Readings'
BY LimiterAssumption DEF LimiterInv, LimiterTypeOK, Readings, Answered

LEMMA RefuseKeepsInv ==
    ASSUME LimiterInv, NEW t \in Threads, NEW k \in Ids, RefuseLocked(t, k)
    PROVE  LimiterInv'
<1> USE LimiterAssumption
<1>1. now[t] \in Nat /\ now[t] <= clock
  BY DEF LimiterInv, LimiterTypeOK, Readings
<1> DEFINE b == Found(k, now[t])
<1>2. /\ b \in Bucket
      /\ b.lockedUntil \in {0, lockEnd[k]}
      /\ b.count <= MaxAttempts + 1
      /\ b.count > MaxAttempts => b.lockedUntil # 0
      /\ clock < lockEnd[k] => b.lockedUntil = lockEnd[k]
  BY <1>1, FoundBucket
<1>3. Put(k, b, now[t]) /\ Answered(t, k) /\ UNCHANGED <<admitted, lockEnd>>
  BY DEF RefuseLocked
<1>4. lockEnd' \in [Ids -> Nat]
  BY <1>3 DEF LimiterInv, LimiterTypeOK
<1> HIDE DEF b
<1>5. buckets' \in [Ids -> Bucket \cup {NoBucket}] /\ LocksRecorded' /\ Budget'
  BY <1>1, <1>2, <1>3, <1>4, PutKeeps DEF Answered
<1> QED
  BY <1>3, <1>5, AnsweredKeeps DEF LimiterInv, LimiterTypeOK

LEMMA AdmitKeepsInv ==
    ASSUME LimiterInv, NEW t \in Threads, NEW k \in Ids, Admit(t, k)
    PROVE  LimiterInv' /\ clock >= lockEnd[k]
<1> USE LimiterAssumption
<1>1. now[t] \in Nat /\ now[t] <= clock /\ clock \in Nat /\ lockEnd[k] \in Nat
  BY DEF LimiterInv, LimiterTypeOK, Readings
<1> DEFINE b == Found(k, now[t])
           r == Refreshed(b, now[t])
           c == Counted(r)
<1>2. /\ b \in Bucket
      /\ clock < lockEnd[k] => b.lockedUntil = lockEnd[k]
  BY <1>1, FoundBucket
<1>3. r \in Bucket /\ r.lockedUntil = 0 /\ r.count <= MaxAttempts
  BY <1>1, RefreshedBucket
<1>4. /\ b.lockedUntil <= now[t] /\ WithinBudget(r)
      /\ Put(k, c, now[t]) /\ Answered(t, k) /\ UNCHANGED lockEnd
      /\ admitted' = [admitted EXCEPT ![k] = Append(@, clock)]
  BY DEF Admit
<1> HIDE DEF b
<1>5. clock >= lockEnd[k]
  BY <1>1, <1>2, <1>4
<1> HIDE DEF r
<1>6. c \in Bucket /\ c.lockedUntil = 0 /\ c.count <= MaxAttempts
  BY <1>3, <1>4 DEF Bucket, WithinBudget, Counted
<1> HIDE DEF c
<1>7. lockEnd' \in [Ids -> Nat]
  BY <1>4 DEF LimiterInv, LimiterTypeOK
<1>8. buckets' \in [Ids -> Bucket \cup {NoBucket}] /\ LocksRecorded' /\ Budget'
  <2>1. /\ c.count <= MaxAttempts + 1
        /\ ~(c.count > MaxAttempts)
        /\ ~(clock < lockEnd'[k])
    BY <1>1, <1>4, <1>5, <1>6 DEF Bucket
  <2> QED
    BY <2>1, <1>1, <1>4, <1>6, <1>7, PutKeeps DEF Answered
<1>9. admitted' \in [Ids -> Seq(Nat)]
  BY <1>1, <1>4 DEF LimiterInv, LimiterTypeOK
<1> QED
  BY <1>4, <1>5, <1>7, <1>8, <1>9, AnsweredKeeps DEF LimiterInv, LimiterTypeOK

LEMMA LockOutKeepsInv ==
    ASSUME LimiterInv, NEW t \in Threads, NEW k \in Ids, LockOut(t, k)
    PROVE  LimiterInv' /\ clock >= lockEnd[k]
<1> USE LimiterAssumption
<1>1. now[t] \in Nat /\ now[t] <= clock
  BY DEF LimiterInv, LimiterTypeOK, Readings
<1> DEFINE b == Found(k, now[t])
           r == Refreshed(b, now[t])
           c == Locked(Counted(r), now[t])
<1>2. r \in Bucket /\ r.lockedUntil = 0 /\ r.count <= MaxAttempts
  BY <1>1, RefreshedBucket
<1>0. clock >= lockEnd[k]
  <2>1. clock < lockEnd[k] => b.lockedUntil = lockEnd[k]
    BY <1>1, FoundBucket
  <2>2. b \in Bucket /\ b.lockedUntil <= now[t]
    BY <1>1, FoundBucket DEF LockOut
  <2> QED
    BY <1>1, <2>1, <2>2 DEF LimiterInv, LimiterTypeOK, Bucket
<1>3. /\ Put(k, c, now[t]) /\ Answered(t, k) /\ UNCHANGED admitted
      /\ lockEnd' = [lockEnd EXCEPT ![k] = now[t] + Lockout]
  BY DEF LockOut
<1> HIDE DEF b, r
<1>4. c \in Bucket /\ c.lockedUntil = now[t] + Lockout /\ c.count <= MaxAttempts + 1
  <2>1. Counted(r) \in Bucket /\ Counted(r).count <= MaxAttempts + 1
    BY <1>2 DEF Bucket, Counted
  <2>2. now[t] + Lockout \in Nat
    BY <1>1
  <2> QED
    BY <2>1, <2>2 DEF Bucket, Locked
<1>5. c.lockedUntil # 0
  BY <1>1, <1>4
<1> HIDE DEF c
<1>6. /\ lockEnd' \in [Ids -> Nat]
      /\ lockEnd'[k] = now[t] + Lockout
      /\ \A j \in Ids \ {k} : lockEnd'[j] = lockEnd[j]
  BY <1>1, <1>3 DEF LimiterInv, LimiterTypeOK
<1>7. buckets' \in [Ids -> Bucket \cup {NoBucket}] /\ LocksRecorded' /\ Budget'
  BY <1>1, <1>3, <1>4, <1>5, <1>6, PutKeeps DEF Answered
<1> QED
  BY <1>0, <1>3, <1>6, <1>7, AnsweredKeeps DEF LimiterInv, LimiterTypeOK

LEMMA LimiterStep ==
    ASSUME LimiterInv, [LimiterNext]_limiterVars
    PROVE  /\ LimiterInv'
           /\ [\A k \in Ids : Len(admitted'[k]) > Len(admitted[k]) => clock >= lockEnd[k]]_limiterVars
<1> USE LimiterAssumption DEF LimiterInv, LimiterTypeOK
<1>1. CASE Tick
  BY <1>1 DEF Tick, Readings, LocksRecorded, Budget
<1>2. ASSUME NEW t \in Threads, NEW k \in Ids, Call(t, k)
      PROVE  LimiterInv' /\ admitted' = admitted
  BY <1>2 DEF Call, Readings, LocksRecorded, Budget
<1>3. ASSUME NEW t \in Threads, NEW k \in Ids, RefuseLocked(t, k)
      PROVE  LimiterInv' /\ admitted' = admitted
  BY <1>3, RefuseKeepsInv DEF RefuseLocked
<1>4. ASSUME NEW t \in Threads, NEW k \in Ids, Admit(t, k)
      PROVE  /\ LimiterInv'
             /\ \A j \in Ids : Len(admitted'[j]) > Len(admitted[j]) => clock >= lockEnd[j]
  <2>1. LimiterInv' /\ clock >= lockEnd[k]
    BY <1>4, AdmitKeepsInv
  <2>2. \A j \in Ids \ {k} : admitted'[j] = admitted[j]
    BY <1>4 DEF Admit
  <2>3. ASSUME NEW j \in Ids, Len(admitted'[j]) > Len(admitted[j])
        PROVE  clock >= lockEnd[j]
    <3>1. ~(Len(admitted[j]) > Len(admitted[j]))
      <4>1. Len(admitted[j]) \in Nat
        OBVIOUS
      <4> QED
        BY <4>1
    <3> QED
      BY <2>1, <2>2, <2>3, <3>1
  <2> QED
    BY <2>1, <2>3
<1>5. ASSUME NEW t \in Threads, NEW k \in Ids, LockOut(t, k)
      PROVE  LimiterInv' /\ admitted' = admitted
  BY <1>5, LockOutKeepsInv DEF LockOut
<1>6. ASSUME NEW k \in Ids, Reset(k)
      PROVE  /\ LimiterInv'
             /\ \A j \in Ids : ~(Len(admitted'[j]) > Len(admitted[j]))
  <2>1. LimiterInv'
    BY <1>6 DEF Reset, Readings, LocksRecorded, Budget
  <2>2. \A j \in Ids : admitted'[j] = admitted[j] \/ admitted'[j] = <<>>
    BY <1>6 DEF Reset
  <2>3. \A j \in Ids : Len(admitted[j]) \in Nat
    OBVIOUS
  <2> QED
    BY <2>1, <2>2, <2>3
<1>7. CASE UNCHANGED limiterVars
  BY <1>7 DEF limiterVars, Readings, LocksRecorded, Budget
<1>8. ASSUME admitted' = admitted
      PROVE  \A k \in Ids : ~(Len(admitted'[k]) > Len(admitted[k]))
  BY <1>8
<1>9. CASE UNCHANGED limiterVars \/ Tick
  BY <1>1, <1>7, <1>8, <1>9 DEF Tick, limiterVars
<1> QED
  BY <1>2, <1>3, <1>4, <1>5, <1>6, <1>8, <1>9 DEF LimiterNext

\* The invariant of the limiter holds for any threads, ids and parameters.
THEOREM LimiterInvariant == LimiterSpec => []LimiterInv
<1>1. LimiterInit => LimiterInv
  BY LimiterAssumption DEF LimiterInit, LimiterInv, LimiterTypeOK, Readings, LocksRecorded, Budget
<1>2. LimiterInv /\ [LimiterNext]_limiterVars => LimiterInv'
  BY LimiterStep
<1> QED
  BY <1>1, <1>2, PTL DEF LimiterSpec

\* Nobody gets through while a lockout lasts, whatever waits, evictions and
\* windows do (rate_limit.py:26-29).
THEOREM LimiterLockoutHolds == LimiterSpec => LockoutHolds
<1>1. LimiterInv /\ [LimiterNext]_limiterVars
        => [\A k \in Ids : Len(admitted'[k]) > Len(admitted[k]) => clock >= lockEnd[k]]_limiterVars
  BY LimiterStep
<1>2. LimiterSpec => [][\A k \in Ids : Len(admitted'[k]) > Len(admitted[k])
                                           => clock >= lockEnd[k]]_limiterVars
  BY <1>1, LimiterInvariant, PTL DEF LimiterSpec
<1> QED
  BY <1>2 DEF LockoutHolds
-----------------------------------------------------------------------------
(* The attempts let through: what the bucket of an id knows of them.  Here a *)
(* stands for admitted[k], c for the clock, e for lockEnd[k], b for a bucket *)
(* of k and n for the reading of a thread.                                   *)

\* The attempts of b's window that were let through: the one that starts a
\* lockout is counted, and refused.
Spent(b) == IF b.lockedUntil # 0 THEN b.count - 1 ELSE b.count

\* The last attempts of a are those of b's window, made after it began and
\* after the last lockout.
Charged(a, c, e, b) ==
    /\ Spent(b) \in 0..MaxAttempts
    /\ Spent(b) <= Len(a)
    /\ b.windowStart <= c
    /\ \A x \in 1..Len(a) : x > Len(a) - Spent(b)
          => a[x] >= b.windowStart /\ (b.lockedUntil = 0 => a[x] >= e)

\* The attempts before b's window had been let through when it began, give or
\* take a wait at the lock; those before the window before it, a window earlier;
\* and a lockout lasts from after all of them.
Spaced(a, b) ==
    /\ \A x \in 1..Len(a) : x <= Len(a) - Spent(b) => a[x] <= b.windowStart + MaxWait
    /\ \A x \in 1..Len(a) : x <= Len(a) - Spent(b) - MaxAttempts
          => a[x] + Window <= b.windowStart + MaxWait
    /\ b.lockedUntil # 0 => \A x \in 1..Len(a) : a[x] + Lockout <= b.lockedUntil + MaxWait

\* All but one budget of the attempts were let through a window before n.
Over(a, n) == \A x \in 1..Len(a) : x <= Len(a) - MaxAttempts => a[x] + Window <= n

\* What BurstBound says of one id.
Burst(a) ==
    \A x \in 1..(Len(a) - 2 * MaxAttempts) : a[x + 2 * MaxAttempts] - a[x] >= Window - MaxWait

LEMMA FreshCharged ==
    ASSUME NEW a \in Seq(Nat), NEW c \in Nat, NEW e \in Nat, NEW n \in Nat, n <= c
    PROVE  Charged(a, c, e, FreshBucket(n))
BY LimiterAssumption DEF Charged, Spent, FreshBucket

LEMMA FreshSpaced ==
    ASSUME NEW a \in Seq(Nat), NEW n \in Nat, Over(a, n + MaxWait),
           \A x \in 1..Len(a) : a[x] <= n + MaxWait
    PROVE  Spaced(a, FreshBucket(n))
BY LimiterAssumption DEF Spaced, Spent, FreshBucket, Over

\* A clean window leaves only attempts of earlier windows behind it.
LEMMA RefreshedCharged ==
    ASSUME NEW a \in Seq(Nat), NEW c \in Nat, NEW e \in Nat, NEW n \in Nat, n <= c,
           NEW b \in Bucket, Charged(a, c, e, b)
    PROVE  Charged(a, c, e, Refreshed(b, n))
BY FreshCharged DEF Refreshed

LEMMA RefreshedSpaced ==
    ASSUME NEW a \in Seq(Nat), NEW c \in Nat, NEW e \in Nat, NEW n \in Nat,
           NEW b \in Bucket, Charged(a, c, e, b), Spaced(a, b),
           \A x \in 1..Len(a) : a[x] <= n + MaxWait,
           b.lockedUntil <= n, Window <= Lockout
    PROVE  Spaced(a, Refreshed(b, n))
<1>0. /\ MaxAttempts \in Nat \ {0} /\ Window \in Nat /\ Lockout \in Nat
      /\ MaxWait \in Nat /\ MaxWait < Window
  BY LimiterAssumption
<1>1. CASE b.lockedUntil = 0 /\ n - b.windowStart < Window
  BY <1>0, <1>1 DEF Refreshed, Bucket
<1>2. CASE b.lockedUntil # 0
  <2>1. Over(a, n + MaxWait)
    <3> SUFFICES ASSUME NEW x \in 1..Len(a)
                 PROVE  a[x] + Window <= n + MaxWait
      BY DEF Over
    <3> DEFINE v == a[x]
               u == b.lockedUntil
    <3>1. v + Lockout <= u + MaxWait
      BY <1>2 DEF Spaced
    <3>2. v \in Nat /\ u \in Nat /\ u <= n
      BY DEF Bucket
    <3> HIDE DEF v, u
    <3>3. v + Window <= n + MaxWait
      BY <1>0, <3>1, <3>2
    <3> QED
      BY <3>3 DEF v
  <2> QED
    BY <1>2, <2>1, FreshSpaced DEF Refreshed
<1>3. CASE n - b.windowStart >= Window
  <2>1. Over(a, n + MaxWait)
    <3> SUFFICES ASSUME NEW x \in 1..Len(a), x <= Len(a) - MaxAttempts
                 PROVE  a[x] + Window <= n + MaxWait
      BY DEF Over
    <3>1. Spent(b) \in 0..MaxAttempts /\ Len(a) \in Nat
      BY DEF Charged
    <3>2. x <= Len(a) - Spent(b)
      BY <1>0, <3>1
    <3>3. a[x] <= b.windowStart + MaxWait
      BY <3>2 DEF Spaced
    <3> DEFINE v == a[x]
               s == b.windowStart
    <3>4. v \in Nat /\ s \in Nat
      BY DEF Bucket
    <3>5. v <= s + MaxWait /\ n - s >= Window
      BY <1>3, <3>3
    <3> HIDE DEF v, s
    <3>6. v + Window <= n + MaxWait
      BY <1>0, <3>4, <3>5
    <3> QED
      BY <3>6 DEF v
  <2> QED
    BY <1>3, <2>1, FreshSpaced DEF Refreshed
<1> QED
  BY <1>0, <1>1, <1>2, <1>3 DEF Bucket

\* An attempt let through is charged to the window it is counted in.
LEMMA CountedCharged ==
    ASSUME NEW a \in Seq(Nat), NEW c \in Nat, NEW e \in Nat, e <= c,
           NEW b \in Bucket, Charged(a, c, e, b), b.lockedUntil = 0, WithinBudget(b)
    PROVE  Charged(Append(a, c), c, e, Counted(b))
<1> USE LimiterAssumption
<1> DEFINE d == Append(a, c)
<1>1. /\ d \in Seq(Nat) /\ Len(a) \in Nat /\ Len(d) = Len(a) + 1
      /\ d[Len(a) + 1] = c
      /\ \A x \in 1..Len(a) : d[x] = a[x] /\ d[x] \in Nat
  OBVIOUS
<1>2. /\ Spent(Counted(b)) = Spent(b) + 1 /\ Spent(b) = b.count
      /\ Counted(b).windowStart = b.windowStart /\ Counted(b).lockedUntil = 0
      /\ b.count \in Nat /\ b.windowStart \in Nat
  BY DEF Spent, Counted, Bucket
<1> HIDE DEF d
<1>3. ASSUME NEW x \in 1..Len(d), x > Len(d) - Spent(Counted(b))
      PROVE  d[x] >= b.windowStart /\ d[x] >= e
  <2>1. CASE x = Len(a) + 1
    BY <1>1, <2>1 DEF Charged
  <2>2. CASE x \in 1..Len(a)
    <3>1. x > Len(a) - Spent(b)
      BY <1>1, <1>2, <1>3, <2>2
    <3> QED
      BY <1>1, <1>2, <2>2, <3>1 DEF Charged
  <2> QED
    BY <1>1, <2>1, <2>2
<1>4. Spent(Counted(b)) \in 0..MaxAttempts /\ Spent(Counted(b)) <= Len(d) /\ b.windowStart <= c
  BY <1>1, <1>2 DEF Charged, WithinBudget
<1>5. Charged(d, c, e, Counted(b))
  BY <1>2, <1>3, <1>4 DEF Charged
<1> QED
  BY <1>5 DEF d

LEMMA CountedSpaced ==
    ASSUME NEW a \in Seq(Nat), NEW c \in Nat,
           NEW b \in Bucket, Spaced(a, b), b.lockedUntil = 0
    PROVE  Spaced(Append(a, c), Counted(b))
<1> USE LimiterAssumption
<1> DEFINE d == Append(a, c)
<1>1. /\ Len(a) \in Nat /\ Len(d) = Len(a) + 1
      /\ \A x \in 1..Len(a) : d[x] = a[x]
  OBVIOUS
<1>2. /\ Spent(Counted(b)) = Spent(b) + 1 /\ Spent(b) \in Nat
      /\ Counted(b).windowStart = b.windowStart /\ Counted(b).lockedUntil = 0
  BY DEF Spent, Counted, Bucket
<1> HIDE DEF d
<1> DEFINE s == Spent(b)
<1>3. s \in Nat /\ Len(d) - Spent(Counted(b)) = Len(a) - s
  BY <1>1, <1>2
<1>4. \A x \in 1..Len(d) : x <= Len(a) - s => x \in 1..Len(a)
  BY <1>1, <1>3
<1>5. \A x \in 1..Len(d) : x <= Len(a) - s - MaxAttempts => x <= Len(a) - s
  BY <1>1, <1>3
<1>6. /\ \A x \in 1..Len(a) : x <= Len(a) - s => a[x] <= b.windowStart + MaxWait
      /\ \A x \in 1..Len(a) : x <= Len(a) - s - MaxAttempts
            => a[x] + Window <= b.windowStart + MaxWait
  BY DEF Spaced
<1> HIDE DEF s
<1>7. Spaced(d, Counted(b))
  BY <1>1, <1>2, <1>3, <1>4, <1>5, <1>6 DEF Spaced
<1> QED
  BY <1>7 DEF d

\* The attempt 2 * MaxAttempts before a new one belongs neither to its window
\* nor to the one before.
LEMMA AppendBurst ==
    ASSUME NEW a \in Seq(Nat), NEW c \in Nat, NEW e \in Nat, Burst(a),
           NEW b \in Bucket, Charged(a, c, e, b), Spaced(a, b),
           b.lockedUntil = 0, WithinBudget(b)
    PROVE  Burst(Append(a, c))
<1>0. /\ MaxAttempts \in Nat \ {0} /\ Window \in Nat /\ Lockout \in Nat
      /\ MaxWait \in Nat /\ MaxWait < Window
  BY LimiterAssumption
<1> DEFINE d == Append(a, c)
<1>1. /\ Len(a) \in Nat /\ Len(d) = Len(a) + 1 /\ d[Len(a) + 1] = c
      /\ \A x \in 1..Len(a) : d[x] = a[x]
  OBVIOUS
<1> HIDE DEF d
<1> SUFFICES ASSUME NEW x \in 1..(Len(d) - 2 * MaxAttempts)
             PROVE  d[x + 2 * MaxAttempts] - d[x] >= Window - MaxWait
  BY DEF Burst, d
<1>2. x \in 1..Len(a) /\ d[x] = a[x] /\ a[x] \in Nat
  BY <1>0, <1>1
<1>3. CASE x <= Len(a) - 2 * MaxAttempts
  <2>1. x + 2 * MaxAttempts \in 1..Len(a)
    BY <1>0, <1>1, <1>3
  <2>2. x \in 1..(Len(a) - 2 * MaxAttempts)
    BY <1>0, <1>1, <1>3
  <2>3. a[x + 2 * MaxAttempts] - a[x] >= Window - MaxWait
    BY <2>2 DEF Burst
  <2> QED
    BY <1>1, <1>2, <2>1, <2>3
<1>4. CASE x = Len(a) + 1 - 2 * MaxAttempts
  <2> DEFINE s == Spent(b)
             v == a[x]
             w == b.windowStart
  <2>1. s \in Nat /\ s + 1 <= MaxAttempts
    BY DEF Spent, WithinBudget, Bucket
  <2> HIDE DEF s
  <2>2. x <= Len(a) - s - MaxAttempts
    BY <1>0, <1>1, <1>4, <2>1
  <2>3. v + Window <= w + MaxWait
    BY <1>2, <2>2 DEF Spaced, s
  <2>4. v \in Nat /\ w \in Nat /\ w <= c
    BY <1>2 DEF Charged, Bucket
  <2>5. x + 2 * MaxAttempts = Len(a) + 1
    BY <1>0, <1>1, <1>4
  <2>6. d[x + 2 * MaxAttempts] = c /\ d[x] = v
    BY <1>1, <1>2, <2>5
  <2> HIDE DEF v, w
  <2>7. c - v >= Window - MaxWait
    BY <1>0, <2>3, <2>4
  <2> QED
    BY <2>6, <2>7
<1>5. x <= Len(a) - 2 * MaxAttempts \/ x = Len(a) + 1 - 2 * MaxAttempts
  BY <1>0, <1>1
<1> QED
  BY <1>3, <1>4, <1>5

\* A lockout starts with a full budget in the window.
LEMMA LockedCharged ==
    ASSUME NEW a \in Seq(Nat), NEW c \in Nat, NEW e \in Nat, NEW f \in Nat, NEW n \in Nat,
           NEW b \in Bucket, Charged(a, c, e, b), b.lockedUntil = 0
    PROVE  Charged(a, c, f, Locked(Counted(b), n))
<1> USE LimiterAssumption
<1> DEFINE l == Locked(Counted(b), n)
<1>1. /\ Spent(l) = Spent(b) /\ l.windowStart = b.windowStart /\ l.lockedUntil # 0
  BY DEF Spent, Locked, Counted, Bucket
<1> HIDE DEF l
<1> QED
  BY <1>1 DEF Charged, l

LEMMA LockedSpaced ==
    ASSUME NEW a \in Seq(Nat), NEW n \in Nat,
           NEW b \in Bucket, Spaced(a, b), b.lockedUntil = 0,
           \A x \in 1..Len(a) : a[x] <= n + MaxWait
    PROVE  Spaced(a, Locked(Counted(b), n))
<1> USE LimiterAssumption
<1> DEFINE l == Locked(Counted(b), n)
<1>1. /\ Spent(l) = Spent(b) /\ l.windowStart = b.windowStart /\ l.lockedUntil = n + Lockout
  BY DEF Spent, Locked, Counted, Bucket
<1> HIDE DEF l
<1> QED
  BY <1>1 DEF Spaced, l

\* A bucket that is evicted takes nothing along that a later window needs.
LEMMA StaleOver ==
    ASSUME NEW a \in Seq(Nat), NEW c \in Nat, NEW e \in Nat, NEW n \in Nat, n <= c,
           NEW b \in Bucket, Charged(a, c, e, b), Spaced(a, b), Stale(b, n)
    PROVE  Over(a, c)
<1>0. /\ MaxAttempts \in Nat \ {0} /\ Window \in Nat /\ Lockout \in Nat
      /\ MaxWait \in Nat /\ MaxWait < Window
  BY LimiterAssumption
<1> SUFFICES ASSUME NEW x \in 1..Len(a), x <= Len(a) - MaxAttempts
             PROVE  a[x] + Window <= c
  BY DEF Over
<1> DEFINE s == Spent(b)
           v == a[x]
           w == b.windowStart
<1>1. s \in 0..MaxAttempts /\ Len(a) \in Nat
  BY DEF Charged
<1> HIDE DEF s
<1>2. x <= Len(a) - s
  BY <1>0, <1>1
<1>3. v <= w + MaxWait
  BY <1>2 DEF Spaced, s
<1>4. v \in Nat /\ w \in Nat /\ w < n - Window * 2
  BY DEF Bucket, Stale
<1> HIDE DEF v, w
<1>5. v + Window <= c
  BY <1>0, <1>3, <1>4
<1> QED
  BY <1>5 DEF v

(* The attempts let through, in the state of the limiters *)

\* Nobody waits at the lock for longer than MaxWait.
Waits == \A t \in Threads : checking[t] # "idle" => clock <= now[t] + MaxWait

\* Every attempt counted is on record, and every bucket counts the last ones.
Tallied ==
    \A k \in Ids :
        /\ \A x \in 1..Len(admitted[k]) : admitted[k][x] <= clock
        /\ buckets[k] # NoBucket => Charged(admitted[k], clock, lockEnd[k], buckets[k])

\* The windows of an id lie apart, also those whose bucket was evicted.
SpacedOut ==
    \A k \in Ids : IF buckets[k] = NoBucket THEN Over(admitted[k], clock)
                   ELSE Spaced(admitted[k], buckets[k])

TallyInv == LimiterInv /\ Waits /\ Tallied

\* The bucket a check works on counts as the one on record did.
LEMMA FoundTally ==
    ASSUME TallyInv, NEW k \in Ids, NEW n \in Nat, n <= clock, clock <= n + MaxWait
    PROVE  /\ Charged(admitted[k], clock, lockEnd[k], Found(k, n))
           /\ SpacedOut => Spaced(admitted[k], Found(k, n))
           /\ SpacedOut => \A j \in Ids : Swept(k, n)[j] = NoBucket => Over(admitted[j], clock)
<1> USE LimiterAssumption
<1>0. LimiterInv /\ Tallied /\ clock \in Nat
  BY DEF TallyInv, LimiterInv, LimiterTypeOK
<1>1. \A j \in Ids : /\ admitted[j] \in Seq(Nat) /\ lockEnd[j] \in Nat
                     /\ buckets[j] \in Bucket \cup {NoBucket}
                     /\ \A x \in 1..Len(admitted[j]) : admitted[j][x] <= clock
                     /\ buckets[j] # NoBucket
                          => Charged(admitted[j], clock, lockEnd[j], buckets[j])
  BY <1>0 DEF Tallied, LimiterInv, LimiterTypeOK
<1>2. \A j \in Ids : Swept(k, n)[j] \in {buckets[j], NoBucket}
  BY <1>0, SweptBuckets
<1>3. ASSUME SpacedOut, NEW j \in Ids, Swept(k, n)[j] = NoBucket
      PROVE  Over(admitted[j], clock)
  <2>1. CASE buckets[j] = NoBucket
    BY <1>3, <2>1 DEF SpacedOut
  <2>2. CASE buckets[j] # NoBucket
    <3>1. Stale(buckets[j], n)
      BY <1>3, <2>2 DEF Swept
    <3>2. Spaced(admitted[j], buckets[j]) /\ Charged(admitted[j], clock, lockEnd[j], buckets[j])
      BY <1>1, <1>3, <2>2 DEF SpacedOut
    <3> QED
      BY <1>0, <1>1, <2>2, <3>1, <3>2, StaleOver
  <2> QED
    BY <2>1, <2>2
<1>4. CASE Swept(k, n)[k] = NoBucket
  <2>1. Found(k, n) = FreshBucket(n)
    BY <1>4 DEF Found
  <2>2. Charged(admitted[k], clock, lockEnd[k], Found(k, n))
    BY <1>0, <1>1, <2>1, FreshCharged
  <2>3. ASSUME SpacedOut PROVE Spaced(admitted[k], Found(k, n))
    <3>1. Over(admitted[k], clock)
      BY <1>3, <1>4, <2>3
    <3>2. \A x \in 1..Len(admitted[k]) : admitted[k][x] \in Nat /\ admitted[k][x] <= clock
      BY <1>1
    <3>3. Over(admitted[k], n + MaxWait)
      BY <1>0, <3>1, <3>2 DEF Over
    <3>4. \A x \in 1..Len(admitted[k]) : admitted[k][x] <= n + MaxWait
      BY <1>0, <3>2
    <3> QED
      BY <1>1, <2>1, <3>3, <3>4, FreshSpaced
  <2> QED
    BY <1>3, <2>2, <2>3
<1>5. CASE Swept(k, n)[k] # NoBucket
  <2>1. Found(k, n) = buckets[k] /\ buckets[k] # NoBucket
    BY <1>2, <1>5 DEF Found
  <2> QED
    BY <1>1, <1>3, <2>1 DEF SpacedOut
<1> QED
  BY <1>4, <1>5

\* What a check puts in place of the bucket decides about k; the other ids are
\* left as they were, or evicted.
LEMMA PutTally ==
    ASSUME TallyInv, NEW k \in Ids, NEW n \in Nat, n <= clock, clock <= n + MaxWait,
           NEW b \in Bucket, Put(k, b, n), clock' = clock,
           \A j \in Ids \ {k} : admitted'[j] = admitted[j] /\ lockEnd'[j] = lockEnd[j],
           \A x \in 1..Len(admitted'[k]) : admitted'[k][x] <= clock,
           Charged(admitted'[k], clock, lockEnd'[k], b)
    PROVE  /\ Tallied'
           /\ SpacedOut /\ Spaced(admitted'[k], b) => SpacedOut'
<1> USE LimiterAssumption
<1>1. /\ Swept(k, n) \in [Ids -> Bucket \cup {NoBucket}]
      /\ \A j \in Ids : Swept(k, n)[j] \in {buckets[j], NoBucket}
  BY SweptBuckets DEF TallyInv
<1>2. /\ buckets'[k] = b /\ b # NoBucket
      /\ \A j \in Ids \ {k} : buckets'[j] = Swept(k, n)[j]
  BY <1>1 DEF Put, Bucket
<1>3. Tallied'
  <2> SUFFICES ASSUME NEW j \in Ids
               PROVE  /\ \A x \in 1..Len(admitted'[j]) : admitted'[j][x] <= clock'
                      /\ buckets'[j] # NoBucket
                           => Charged(admitted'[j], clock', lockEnd'[j], buckets'[j])
    BY DEF Tallied, Charged, Spent
  <2>1. CASE j = k
    BY <1>2, <2>1
  <2>2. CASE j # k
    BY <1>1, <1>2, <2>2 DEF TallyInv, Tallied
  <2> QED
    BY <2>1, <2>2
<1>4. ASSUME SpacedOut, Spaced(admitted'[k], b) PROVE SpacedOut'
  <2> SUFFICES ASSUME NEW j \in Ids
               PROVE  IF buckets'[j] = NoBucket THEN Over(admitted'[j], clock')
                      ELSE Spaced(admitted'[j], buckets'[j])
    BY DEF SpacedOut, Over, Spaced, Spent
  <2>1. CASE j = k
    BY <1>2, <1>4, <2>1
  <2>2. CASE j # k
    BY <1>1, <1>2, <1>4, <2>2, FoundTally DEF SpacedOut
  <2> QED
    BY <2>1, <2>2
<1> QED
  BY <1>3, <1>4

LEMMA RefuseTally ==
    ASSUME TallyInv, NEW t \in Threads, NEW k \in Ids, RefuseLocked(t, k)
    PROVE  Tallied' /\ (SpacedOut => SpacedOut') /\ admitted' = admitted
<1> DEFINE n == now[t]
           b == Found(k, n)
<1>1. n \in Nat /\ n <= clock /\ clock <= n + MaxWait
  BY LimiterAssumption DEF TallyInv, LimiterInv, LimiterTypeOK, Readings, Waits, RefuseLocked
<1>2. /\ Charged(admitted[k], clock, lockEnd[k], b) /\ b \in Bucket
      /\ SpacedOut => Spaced(admitted[k], b)
  BY <1>1, FoundTally, FoundBucket DEF TallyInv
<1>3. Put(k, b, n) /\ clock' = clock /\ admitted' = admitted /\ lockEnd' = lockEnd
  BY DEF RefuseLocked, Answered
<1>4. \A x \in 1..Len(admitted[k]) : admitted[k][x] <= clock
  BY DEF TallyInv, Tallied
<1> HIDE DEF n, b
<1> QED
  BY <1>1, <1>2, <1>3, <1>4, PutTally

LEMMA AdmitTally ==
    ASSUME TallyInv, NEW t \in Threads, NEW k \in Ids, Admit(t, k)
    PROVE  /\ Tallied'
           /\ Window <= Lockout /\ SpacedOut => SpacedOut'
           /\ Window <= Lockout /\ SpacedOut /\ Burst(admitted[k]) => Burst(admitted'[k])
           /\ \A j \in Ids \ {k} : admitted'[j] = admitted[j]
<1> USE LimiterAssumption
<1> DEFINE n == now[t]
           b == Found(k, n)
           r == Refreshed(b, n)
           a == admitted[k]
           e == lockEnd[k]
<1>1. n \in Nat /\ n <= clock /\ clock <= n + MaxWait /\ clock \in Nat
  BY DEF TallyInv, LimiterInv, LimiterTypeOK, Readings, Waits, Admit
<1>2. /\ Charged(a, clock, e, b) /\ b \in Bucket
      /\ SpacedOut => Spaced(a, b)
  BY <1>1, FoundTally, FoundBucket DEF TallyInv
<1>3. /\ b.lockedUntil <= n /\ WithinBudget(r)
      /\ Put(k, Counted(r), n) /\ clock' = clock /\ lockEnd' = lockEnd
      /\ admitted' = [admitted EXCEPT ![k] = Append(@, clock)]
  BY DEF Admit, Answered
<1>4. r \in Bucket /\ r.lockedUntil = 0 /\ Counted(r) \in Bucket
  <2>1. r \in Bucket /\ r.lockedUntil = 0
    BY <1>1, RefreshedBucket DEF TallyInv
  <2> HIDE DEF r
  <2> QED
    BY <2>1 DEF Counted, Bucket
<1>5. /\ a \in Seq(Nat) /\ e \in Nat
      /\ \A x \in 1..Len(a) : a[x] \in Nat /\ a[x] <= clock
  BY DEF TallyInv, Tallied, LimiterInv, LimiterTypeOK
<1>6. e <= clock
  <2>1. clock >= lockEnd[k]
    BY AdmitKeepsInv DEF TallyInv
  <2> QED
    BY <1>1, <1>5, <2>1
<1>7. /\ admitted'[k] = Append(a, clock) /\ lockEnd'[k] = e
      /\ \A j \in Ids \ {k} : admitted'[j] = admitted[j] /\ lockEnd'[j] = lockEnd[j]
  BY <1>3 DEF TallyInv, LimiterInv, LimiterTypeOK
<1> HIDE DEF n, b, a, e
<1>8. Charged(a, clock, e, r)
  BY <1>1, <1>2, <1>5, RefreshedCharged
<1>9. ASSUME Window <= Lockout, SpacedOut PROVE Spaced(a, r)
  <2>1. \A x \in 1..Len(a) : a[x] <= n + MaxWait
    BY <1>1, <1>5
  <2> QED
    BY <1>1, <1>2, <1>3, <1>5, <1>9, <2>1, RefreshedSpaced
<1> HIDE DEF r
<1>10. Charged(admitted'[k], clock, lockEnd'[k], Counted(r))
  <2>1. Charged(Append(a, clock), clock, e, Counted(r))
    BY <1>1, <1>3, <1>4, <1>5, <1>6, <1>8, CountedCharged
  <2> QED
    BY <1>7, <2>1
<1>11. \A x \in 1..Len(admitted'[k]) : admitted'[k][x] <= clock
  <2>1. \A x \in 1..Len(Append(a, clock)) : Append(a, clock)[x] <= clock
    BY <1>1, <1>5
  <2> QED
    BY <1>7, <2>1
<1>12. ASSUME Window <= Lockout, SpacedOut
       PROVE  Spaced(admitted'[k], Counted(r)) /\ (Burst(a) => Burst(admitted'[k]))
  <2>1. Spaced(a, r)
    BY <1>9, <1>12
  <2>2. Spaced(Append(a, clock), Counted(r))
    BY <1>1, <1>4, <1>5, <2>1, CountedSpaced
  <2>3. Burst(a) => Burst(Append(a, clock))
    BY <1>1, <1>3, <1>4, <1>5, <1>8, <2>1, AppendBurst
  <2> QED
    BY <1>7, <2>2, <2>3
<1>13. Tallied' /\ (SpacedOut /\ Spaced(admitted'[k], Counted(r)) => SpacedOut')
  BY <1>1, <1>3, <1>4, <1>7, <1>10, <1>11, PutTally
<1> QED
  BY <1>7, <1>12, <1>13 DEF a

\* A lockout starts with the budget of the window used up.
LEMMA LockOutTally ==
    ASSUME TallyInv, NEW t \in Threads, NEW k \in Ids, LockOut(t, k)
    PROVE  /\ Tallied'
           /\ Window <= Lockout /\ SpacedOut => SpacedOut'
           /\ admitted' = admitted
           /\ Cardinality(RecentlyAdmitted(k, now[t])) >= MaxAttempts
<1> USE LimiterAssumption
<1> DEFINE n == now[t]
           b == Found(k, n)
           r == Refreshed(b, n)
           l == Locked(Counted(r), n)
           a == admitted[k]
           e == lockEnd[k]
<1>1. n \in Nat /\ n <= clock /\ clock <= n + MaxWait /\ clock \in Nat
  BY DEF TallyInv, LimiterInv, LimiterTypeOK, Readings, Waits, LockOut
<1>2. /\ Charged(a, clock, e, b) /\ b \in Bucket
      /\ SpacedOut => Spaced(a, b)
  BY <1>1, FoundTally, FoundBucket DEF TallyInv
<1>3. /\ b.lockedUntil <= n /\ ~WithinBudget(r)
      /\ Put(k, l, n) /\ clock' = clock /\ admitted' = admitted
      /\ lockEnd' = [lockEnd EXCEPT ![k] = n + Lockout]
  BY DEF LockOut, Answered
<1>4. r \in Bucket /\ r.lockedUntil = 0 /\ l \in Bucket
  <2>1. r \in Bucket /\ r.lockedUntil = 0
    BY <1>1, RefreshedBucket DEF TallyInv
  <2>2. n + Lockout \in Nat
    BY <1>1
  <2> HIDE DEF r, n
  <2>3. Counted(r) \in Bucket
    BY <2>1 DEF Counted, Bucket
  <2> QED
    BY <2>1, <2>2, <2>3 DEF Locked, Bucket
<1>5. /\ a \in Seq(Nat) /\ e \in Nat
      /\ \A x \in 1..Len(a) : a[x] \in Nat /\ a[x] <= clock
  BY DEF TallyInv, Tallied, LimiterInv, LimiterTypeOK
<1>6. /\ lockEnd'[k] = n + Lockout /\ n + Lockout \in Nat
      /\ \A j \in Ids \ {k} : lockEnd'[j] = lockEnd[j]
  BY <1>1, <1>3 DEF TallyInv, LimiterInv, LimiterTypeOK
<1>7. n - r.windowStart < Window
  <2>1. r # FreshBucket(n)
    BY <1>3 DEF WithinBudget, FreshBucket
  <2> HIDE DEF b
  <2> QED
    BY <1>1, <1>2, <2>1 DEF Refreshed, Bucket
<1> HIDE DEF n, b
<1>8. Charged(a, clock, e, r)
  <2> HIDE DEF a, e
  <2> QED
    BY <1>1, <1>2, <1>5, RefreshedCharged
<1>9. ASSUME Window <= Lockout, SpacedOut PROVE Spaced(a, l)
  <2>1. \A x \in 1..Len(a) : a[x] <= n + MaxWait
    BY <1>1, <1>5
  <2> HIDE DEF a, e
  <2>2. Spaced(a, r)
    BY <1>1, <1>2, <1>3, <1>5, <1>9, <2>1, RefreshedSpaced
  <2> HIDE DEF r
  <2> QED
    BY <1>1, <1>4, <1>5, <2>1, <2>2, LockedSpaced
<1> HIDE DEF r
<1>10. Charged(a, clock, lockEnd'[k], l)
  <2> HIDE DEF a, e
  <2> QED
    BY <1>1, <1>4, <1>5, <1>6, <1>8, LockedCharged
<1> HIDE DEF l
<1>11. Tallied' /\ (SpacedOut /\ Spaced(admitted'[k], l) => SpacedOut')
  BY <1>1, <1>3, <1>4, <1>5, <1>6, <1>10, PutTally
<1>12. Cardinality(RecentlyAdmitted(k, n)) >= MaxAttempts
  <2> DEFINE S == (Len(a) - MaxAttempts + 1)..Len(a)
  <2>1. Spent(r) = MaxAttempts /\ MaxAttempts <= Len(a) /\ Len(a) \in Nat
    BY <1>3, <1>4, <1>5, <1>8 DEF Charged, Spent, WithinBudget, Bucket
  <2>2. \A x \in S : x \in 1..Len(a) /\ x > Len(a) - Spent(r)
    BY <2>1
  <2>3. \A x \in S : /\ x \in 1..Len(a)
                     /\ a[x] \in Nat /\ a[x] >= r.windowStart /\ a[x] >= e
    BY <1>4, <1>5, <1>8, <2>2 DEF Charged
  <2>4. \A x \in S : a[x] > n - Window
    BY <1>1, <1>4, <1>7, <2>3 DEF Bucket
  <2>5. S \subseteq RecentlyAdmitted(k, n)
    BY <2>3, <2>4 DEF RecentlyAdmitted
  <2>6. IsFiniteSet(S) /\ Cardinality(S) = MaxAttempts
    <3>1. /\ Len(a) - MaxAttempts + 1 \in Int /\ Len(a) \in Int
          /\ Len(a) - MaxAttempts + 1 <= Len(a)
          /\ Len(a) - (Len(a) - MaxAttempts + 1) + 1 = MaxAttempts
      BY <2>1
    <3> QED
      BY <3>1, FS_Interval
  <2>7. IsFiniteSet(RecentlyAdmitted(k, n))
    <3>1. RecentlyAdmitted(k, n) \subseteq 1..Len(a)
      BY DEF RecentlyAdmitted, a
    <3>2. IsFiniteSet(1..Len(a))
      BY <2>1, FS_Interval
    <3> QED
      BY <3>1, <3>2, FS_Subset
  <2>8. Cardinality(S) <= Cardinality(RecentlyAdmitted(k, n))
    BY <2>5, <2>7, FS_Subset
  <2>9. Cardinality(RecentlyAdmitted(k, n)) \in Nat
    BY <2>7, FS_CardinalityType
  <2> HIDE DEF S
  <2> QED
    BY <2>6, <2>8, <2>9
<1> QED
  BY <1>3, <1>9, <1>11, <1>12 DEF n

\* The clock and resets do not disturb the tally.
LEMMA TickTally ==
    ASSUME TallyInv, Tick
    PROVE  Tallied' /\ (SpacedOut => SpacedOut') /\ admitted' = admitted
<1> USE LimiterAssumption
<1>1. /\ clock \in Nat /\ clock' = clock + 1
      /\ buckets' = buckets /\ admitted' = admitted /\ lockEnd' = lockEnd
  BY DEF Tick, TallyInv, LimiterInv, LimiterTypeOK
<1>2. \A k \in Ids : /\ \A x \in 1..Len(admitted[k]) : admitted[k][x] \in Nat
                     /\ buckets[k] # NoBucket => buckets[k].windowStart \in Nat
  BY DEF TallyInv, LimiterInv, LimiterTypeOK, Bucket
<1>3. Tallied'
  <2> SUFFICES ASSUME NEW k \in Ids
               PROVE  /\ \A x \in 1..Len(admitted[k]) : admitted[k][x] <= clock'
                      /\ buckets[k] # NoBucket
                           => Charged(admitted[k], clock', lockEnd[k], buckets[k])
    BY <1>1 DEF Tallied, Charged, Spent
  <2>1. /\ \A x \in 1..Len(admitted[k]) : admitted[k][x] <= clock
        /\ buckets[k] # NoBucket => Charged(admitted[k], clock, lockEnd[k], buckets[k])
    BY DEF TallyInv, Tallied
  <2>2. \A x \in 1..Len(admitted[k]) : admitted[k][x] <= clock'
    BY <1>1, <1>2, <2>1
  <2>3. buckets[k] # NoBucket => Charged(admitted[k], clock', lockEnd[k], buckets[k])
    BY <1>1, <1>2, <2>1 DEF Charged
  <2> QED
    BY <2>2, <2>3
<1>4. ASSUME SpacedOut PROVE SpacedOut'
  <2>1. \A k \in Ids : Over(admitted[k], clock) => Over(admitted[k], clock')
    BY <1>1, <1>2 DEF Over
  <2> QED
    BY <1>1, <1>4, <2>1 DEF SpacedOut, Over, Spaced, Spent
<1> QED
  BY <1>1, <1>3, <1>4

LEMMA ResetTally ==
    ASSUME TallyInv, NEW k \in Ids, Reset(k)
    PROVE  /\ Tallied' /\ (SpacedOut => SpacedOut')
           /\ \A j \in Ids : admitted'[j] = admitted[j] \/ admitted'[j] = <<>>
<1> USE LimiterAssumption
<1>1. /\ clock' = clock
      /\ buckets'[k] = NoBucket /\ admitted'[k] = <<>>
      /\ \A j \in Ids \ {k} : /\ buckets'[j] = buckets[j]
                              /\ admitted'[j] = admitted[j]
                              /\ lockEnd'[j] = lockEnd[j]
  BY DEF Reset, TallyInv, LimiterInv, LimiterTypeOK
<1>2. /\ \A x \in 1..Len(admitted'[k]) : admitted'[k][x] <= clock'
      /\ Over(admitted'[k], clock')
  BY <1>1 DEF Over
<1>3. Tallied'
  <2> SUFFICES ASSUME NEW j \in Ids
               PROVE  /\ \A x \in 1..Len(admitted'[j]) : admitted'[j][x] <= clock'
                      /\ buckets'[j] # NoBucket
                           => Charged(admitted'[j], clock', lockEnd'[j], buckets'[j])
    BY DEF Tallied, Charged, Spent
  <2> QED
    BY <1>1, <1>2 DEF TallyInv, Tallied
<1>4. ASSUME SpacedOut PROVE SpacedOut'
  <2> SUFFICES ASSUME NEW j \in Ids
               PROVE  IF buckets'[j] = NoBucket THEN Over(admitted'[j], clock')
                      ELSE Spaced(admitted'[j], buckets'[j])
    BY DEF SpacedOut, Over, Spaced, Spent
  <2> QED
    BY <1>1, <1>2, <1>4 DEF SpacedOut
<1> QED
  BY <1>1, <1>3, <1>4

LEMMA WaitsKept ==
    ASSUME TallyInv, LimiterNext
    PROVE  Waits'
<1> USE LimiterAssumption DEF TallyInv, LimiterInv, LimiterTypeOK, Waits
<1>1. CASE Tick
  <2>1. clock' = clock + 1 /\ now' = now /\ checking' = checking
    BY <1>1 DEF Tick
  <2> SUFFICES ASSUME NEW t \in Threads, checking[t] # "idle"
               PROVE  clock + 1 <= now[t] + MaxWait
    BY <2>1
  <2>2. clock - now[t] < MaxWait /\ clock \in Nat /\ now[t] \in Nat
    BY <1>1 DEF Tick
  <2> QED
    BY <2>2
<1>2. ASSUME NEW t \in Threads, NEW k \in Ids, Call(t, k)
      PROVE  Waits'
  BY <1>2 DEF Call
<1>3. ASSUME NEW t \in Threads, NEW k \in Ids, Answered(t, k)
      PROVE  Waits'
  BY <1>3 DEF Answered
<1>4. ASSUME NEW k \in Ids, Reset(k)
      PROVE  Waits'
  BY <1>4 DEF Reset
<1> QED
  BY <1>1, <1>2, <1>3, <1>4 DEF LimiterNext, RefuseLocked, Admit, LockOut

\* Every lockout follows a full budget, and the windows stay apart when no
\* lockout is shorter than a window.
LEMMA TallyStep ==
    ASSUME TallyInv, [LimiterNext]_limiterVars
    PROVE  /\ TallyInv'
           /\ [\A t \in Threads, k \in Ids :
                  LockOut(t, k) => Cardinality(RecentlyAdmitted(k, now[t])) >= MaxAttempts]_limiterVars
           /\ Window <= Lockout /\ SpacedOut /\ BurstBound => SpacedOut' /\ BurstBound'
<1> DEFINE Apart == Window <= Lockout /\ SpacedOut /\ BurstBound
<1>1. LimiterInv'
  BY LimiterStep DEF TallyInv
<1>2. BurstBound <=> \A k \in Ids : Burst(admitted[k])
  BY DEF BurstBound, Burst
<1>3. BurstBound' <=> \A k \in Ids : Burst(admitted'[k])
  BY DEF BurstBound, Burst
<1>4. Burst(<<>>)
  BY LimiterAssumption DEF Burst
<1>5. CASE LimiterNext
  <2>1. ASSUME Tick
        PROVE  Tallied' /\ (Apart => SpacedOut' /\ BurstBound')
    BY <1>2, <1>3, <2>1, TickTally
  <2>2. ASSUME NEW t \in Threads, NEW k \in Ids, Call(t, k)
        PROVE  Tallied' /\ (Apart => SpacedOut' /\ BurstBound')
    BY <1>2, <1>3, <2>2 DEF Call, TallyInv, Tallied, SpacedOut, Charged, Spaced, Spent, Over
  <2>3. ASSUME NEW t \in Threads, NEW k \in Ids, RefuseLocked(t, k)
        PROVE  Tallied' /\ (Apart => SpacedOut' /\ BurstBound')
    BY <1>2, <1>3, <2>3, RefuseTally
  <2>4. ASSUME NEW t \in Threads, NEW k \in Ids, Admit(t, k)
        PROVE  Tallied' /\ (Apart => SpacedOut' /\ BurstBound')
    BY <1>2, <1>3, <2>4, AdmitTally
  <2>5. ASSUME NEW t \in Threads, NEW k \in Ids, LockOut(t, k)
        PROVE  Tallied' /\ (Apart => SpacedOut' /\ BurstBound')
    BY <1>2, <1>3, <2>5, LockOutTally
  <2>6. ASSUME NEW k \in Ids, Reset(k)
        PROVE  Tallied' /\ (Apart => SpacedOut' /\ BurstBound')
    BY <1>2, <1>3, <1>4, <2>6, ResetTally
  <2>7. Tallied' /\ (Apart => SpacedOut' /\ BurstBound')
    BY <1>5, <1>2, <1>3, <2>1, <2>2, <2>3, <2>4, <2>5, <2>6 DEF LimiterNext
  <2>8. Waits'
    BY <1>5, WaitsKept
  <2>9. \A t \in Threads, k \in Ids :
           LockOut(t, k) => Cardinality(RecentlyAdmitted(k, now[t])) >= MaxAttempts
    BY LockOutTally
  <2> QED
    BY <1>1, <2>7, <2>8, <2>9 DEF TallyInv
<1>6. CASE UNCHANGED limiterVars
  <2>1. Tallied' /\ Waits' /\ (SpacedOut => SpacedOut') /\ admitted' = admitted
    BY <1>6 DEF limiterVars, TallyInv, Tallied, Waits, SpacedOut, Charged, Spaced, Spent, Over
  <2>2. BurstBound => BurstBound'
    BY <2>1 DEF BurstBound
  <2>3. TallyInv'
    BY <1>1, <2>1 DEF TallyInv
  <2> QED
    BY <1>6, <2>1, <2>2, <2>3
<1> QED
  BY <1>5, <1>6

LEMMA TallyInit == LimiterInit => TallyInv /\ SpacedOut /\ BurstBound
BY LimiterAssumption
   DEF LimiterInit, TallyInv, LimiterInv, LimiterTypeOK, Readings, LocksRecorded, Budget, Waits,
       Tallied, SpacedOut, Over, BurstBound

\* A bucket never counts more attempts than were made in its window since the
\* last lockout, whoever waits at the lock and whatever is evicted.
THEOREM LimiterTally == LimiterSpec => []TallyInv
<1>1. TallyInv /\ [LimiterNext]_limiterVars => TallyInv'
  BY TallyStep
<1> QED
  BY <1>1, TallyInit, PTL DEF LimiterSpec

\* A lockout starts only after a full budget of attempts within one window,
\* since the lockout before (rate_limit.py:61-67).
THEOREM LimiterLockoutIsDeserved == LimiterSpec => LockoutIsDeserved
<1>1. TallyInv /\ [LimiterNext]_limiterVars
        => [\A t \in Threads, k \in Ids :
              LockOut(t, k) => Cardinality(RecentlyAdmitted(k, now[t])) >= MaxAttempts]_limiterVars
  BY TallyStep
<1>2. LimiterSpec
        => [][\A t \in Threads, k \in Ids :
              LockOut(t, k) => Cardinality(RecentlyAdmitted(k, now[t])) >= MaxAttempts]_limiterVars
  BY <1>1, LimiterTally, PTL DEF LimiterSpec
<1> QED
  BY <1>2 DEF LockoutIsDeserved

\* Two windows' budgets are the most that gets through in less than a window,
\* also across evictions (rate_limit.py:85-96), as long as no lockout is shorter
\* than a window: an expired one gives the id a clean window at once.
THEOREM LimiterBurstBound ==
    ASSUME Window <= Lockout
    PROVE  LimiterSpec => []BurstBound
<1>1. TallyInv /\ SpacedOut /\ BurstBound /\ [LimiterNext]_limiterVars
        => (TallyInv /\ SpacedOut /\ BurstBound)'
  BY TallyStep
<1>2. LimiterInit => TallyInv /\ SpacedOut /\ BurstBound
  BY TallyInit
<1> QED
  BY <1>1, <1>2, PTL DEF LimiterSpec
-----------------------------------------------------------------------------
(* The logins *)

\* A request that is not over has an address and a name to be checked by.
LEMMA RequestOf ==
    ASSUME LoginInv, NEW t \in Threads, step[t] # "idle"
    PROVE  Address(t) \in Addresses /\ Name(t) \in Names
           /\ Address(t) \in Ids /\ Name(t) \in Ids
BY LoginAssumption DEF LoginInv, LoginTypeOK, ChecksMatch, Address, Name

\* Every step of a login is a step of the limiters, or leaves them alone.
LEMMA LoginStepsLimiters ==
    ASSUME LoginInv, [LoginNext]_loginVars
    PROVE  [LimiterNext]_limiterVars
<1>1. CASE LoginTick
  BY <1>1 DEF LoginTick, LimiterNext
<1>2. ASSUME NEW t \in Threads, NEW i \in Addresses, NEW u \in Names, Begin(t, i, u)
      PROVE  LimiterNext
  BY <1>2, LoginAssumption DEF Begin, LimiterNext
<1>3. ASSUME NEW t \in Threads, step[t] # "idle",
             AddressPasses(t) \/ CallName(t) \/ NamePasses(t)
                \/ ResetAddress(t) \/ ResetName(t)
      PROVE  LimiterNext
  BY <1>3, RequestOf DEF AddressPasses, CallName, NamePasses, ResetAddress, ResetName, LimiterNext
<1>4. ASSUME NEW t \in Threads, step[t] # "idle", Refused(t) \/ LocksOut(t)
      PROVE  LimiterNext
  <2>1. Checked(t) \in Ids
    BY <1>4, RequestOf DEF Checked
  <2> QED
    BY <1>4, <2>1 DEF Refused, LocksOut, LimiterNext
<1>5. ASSUME NEW t \in Threads, Rejected(t)
      PROVE  UNCHANGED limiterVars
  BY <1>5 DEF Rejected
<1>6. \A t \in Threads :
        AddressPasses(t) \/ CallName(t) \/ NamePasses(t) \/ ResetAddress(t) \/ ResetName(t)
            \/ Refused(t) \/ LocksOut(t) => step[t] # "idle"
  BY DEF AddressPasses, CallName, NamePasses, ResetAddress, ResetName, Refused, LocksOut
<1>7. CASE UNCHANGED loginVars
  BY <1>7 DEF loginVars
<1> QED
  BY <1>1, <1>2, <1>3, <1>4, <1>5, <1>6, <1>7 DEF LoginNext

\* What a thread has passed depends on its own request and step only.
LEMMA PassedKept ==
    ASSUME NEW t \in Threads, request'[t] = request[t], step'[t] = step[t]
    PROVE  Passed(t)' = Passed(t)
BY DEF Passed, Address, Name

\* A step of thread t leaves the requests of the others, what they wait for and
\* what has overtaken them, as they were: then only t is left to look at.
LEMMA OthersKept ==
    ASSUME LoginInv, NEW t \in Threads, clock' = clock,
           \A u \in Threads \ {t} : /\ request'[u] = request[u]
                                    /\ step'[u] = step[u]
                                    /\ checking'[u] = checking[u],
           \A u \in Threads \ {t} : \A k \in Passed(u) :
                clock < lockEnd'[k] => k \in overtaken'[u],
           step'[t] # "idle" => request'[t] # NoRequest,
           step'[t] = "address" => checking'[t] = request'[t][1],
           step'[t] = "name" => checking'[t] = request'[t][2],
           step'[t] \notin {"address", "name"} => checking'[t] = "idle",
           \A k \in Passed(t)' : clock < lockEnd'[k] => k \in overtaken'[t]
    PROVE  ChecksMatch' /\ LateLockouts'
<1>1. ChecksMatch'
  BY DEF LoginInv, ChecksMatch, Address, Name
<1>2. \A u \in Threads \ {t} : Passed(u)' = Passed(u)
  BY PassedKept
<1>3. LateLockouts'
  <2> SUFFICES ASSUME NEW u \in Threads, NEW k \in Passed(u)', clock' < lockEnd'[k]
               PROVE  k \in overtaken'[u]
    BY DEF LateLockouts
  <2>1. CASE u = t
    BY <2>1
  <2>2. CASE u # t
    BY <1>2, <2>2
  <2> QED
    BY <2>1, <2>2
<1> QED
  BY <1>1, <1>3

\* The invariant of the logins is kept, and who may end a running lockout.
LEMMA LoginStep ==
    ASSUME LoginInv, [LoginNext]_loginVars
    PROVE  /\ LoginInv'
           /\ [\A k \in Ids : clock < lockEnd[k] /\ lockEnd'[k] # lockEnd[k]
                 => \E t \in Threads :
                       k \in overtaken[t] /\ (ResetAddress(t) \/ ResetName(t))]_loginVars
<1> DEFINE Forgiven ==
        \A k \in Ids : clock < lockEnd[k] /\ lockEnd'[k] # lockEnd[k]
            => \E t \in Threads : k \in overtaken[t] /\ (ResetAddress(t) \/ ResetName(t))
<1>1. LimiterInv'
  BY LoginStepsLimiters, LimiterStep DEF LoginInv
<1>2. ASSUME LoginTick
      PROVE  LoginInv' /\ Forgiven
  <2>1. /\ UNCHANGED <<request, step, begun, overtaken, checking, lockEnd>>
        /\ clock' = clock + 1
    BY <1>2 DEF LoginTick, Tick
  <2>2. LoginTypeOK' /\ ChecksMatch'
    BY <2>1 DEF LoginInv, LoginTypeOK, ChecksMatch, Address, Name
  <2>3. \A k \in Ids : lockEnd[k] \in Nat
    BY DEF LoginInv, LimiterInv, LimiterTypeOK
  <2>4. LateLockouts'
    <3>1. \A t \in Threads : Passed(t)' = Passed(t)
      BY <2>1, PassedKept
    <3>2. \A t \in Threads : Passed(t) \subseteq Ids
      BY LoginAssumption DEF Passed
    <3> QED
      BY <2>1, <2>3, <3>1, <3>2 DEF LoginInv, LateLockouts, LimiterInv, LimiterTypeOK
  <2> QED
    BY <1>1, <2>1, <2>2, <2>4 DEF LoginInv
<1>3. ASSUME NEW t \in Threads, NEW i \in Addresses, NEW u \in Names, Begin(t, i, u)
      PROVE  LoginInv' /\ Forgiven
  <2>1. /\ request' = [request EXCEPT ![t] = <<i, u>>]
        /\ step' = [step EXCEPT ![t] = "address"]
        /\ checking' = [checking EXCEPT ![t] = i]
        /\ begun < MaxRequests /\ begun' = begun + 1
        /\ UNCHANGED <<clock, lockEnd, overtaken>>
    BY <1>3 DEF Begin, Call, To
  <2>2. LoginTypeOK'
    BY <2>1, LoginAssumption DEF LoginInv, LoginTypeOK, Steps
  <2>3. Passed(t)' = {}
    BY <2>1 DEF LoginInv, LoginTypeOK, Passed
  <2>4. ChecksMatch' /\ LateLockouts'
    <3>1. /\ request'[t] = <<i, u>> /\ step'[t] = "address" /\ checking'[t] = i
          /\ \A v \in Threads \ {t} : /\ request'[v] = request[v]
                                      /\ step'[v] = step[v]
                                      /\ checking'[v] = checking[v]
      BY <2>1 DEF LoginInv, LoginTypeOK, LimiterInv, LimiterTypeOK
    <3>2. \A v \in Threads \ {t} : \A k \in Passed(v) :
              clock < lockEnd'[k] => k \in overtaken'[v]
      BY <2>1, <2>3 DEF LoginInv, LateLockouts, LoginTypeOK
    <3>3. \A k \in Passed(t)' : clock < lockEnd'[k] => k \in overtaken'[t]
      BY <2>1, <2>3 DEF LoginInv, LateLockouts
    <3>4. <<i, u>> # NoRequest /\ <<i, u>>[1] = i
      BY LoginAssumption
    <3> QED
      BY <2>1, <3>1, <3>2, <3>3, <3>4, OthersKept
  <2> QED
    BY <1>1, <2>1, <2>2, <2>4 DEF LoginInv
<1>4. ASSUME NEW t \in Threads, AddressPasses(t)
      PROVE  LoginInv' /\ Forgiven
  <2>1. /\ step' = [step EXCEPT ![t] = "between"]
        /\ checking' = [checking EXCEPT ![t] = "idle"]
        /\ UNCHANGED <<request, begun, clock, lockEnd, overtaken>>
        /\ step[t] = "address"
        /\ Admit(t, Address(t))
    BY <1>4 DEF AddressPasses, Admit, Answered, To, LoginInv, LoginTypeOK
  <2>2. Address(t) \in Ids /\ request[t] # NoRequest
    BY <2>1, RequestOf DEF LoginInv, ChecksMatch
  <2>3. ~(clock < lockEnd[Address(t)])
    BY <2>1, <2>2, AdmitKeepsInv DEF LoginInv, LimiterInv, LimiterTypeOK
  <2>4. LoginTypeOK'
    BY <2>1 DEF LoginInv, LoginTypeOK, Steps
  <2>5. Passed(t)' \subseteq {Address(t)}
    BY <2>1 DEF LoginInv, LoginTypeOK, Passed, Address, Name
  <2>6. ChecksMatch' /\ LateLockouts'
    <3>1. /\ request'[t] = request[t] /\ step'[t] = "between" /\ checking'[t] = "idle"
          /\ \A v \in Threads \ {t} : /\ request'[v] = request[v]
                                      /\ step'[v] = step[v]
                                      /\ checking'[v] = checking[v]
      BY <2>1 DEF LoginInv, LoginTypeOK, LimiterInv, LimiterTypeOK
    <3>2. \A v \in Threads \ {t} : \A k \in Passed(v) :
              clock < lockEnd'[k] => k \in overtaken'[v]
      BY <2>1, <2>2, <2>3, <2>5 DEF LoginInv, LateLockouts, LoginTypeOK
    <3>3. \A k \in Passed(t)' : clock < lockEnd'[k] => k \in overtaken'[t]
      BY <2>1, <2>2, <2>3, <2>5 DEF LoginInv, LateLockouts
    <3> QED
      BY <2>1, <2>2, <3>1, <3>2, <3>3, OthersKept
  <2> QED
    BY <1>1, <2>1, <2>4, <2>6 DEF LoginInv
<1>5. ASSUME NEW t \in Threads, CallName(t)
      PROVE  LoginInv' /\ Forgiven
  <2>1. /\ step' = [step EXCEPT ![t] = "name"]
        /\ checking' = [checking EXCEPT ![t] = request[t][2]]
        /\ UNCHANGED <<request, begun, clock, lockEnd, overtaken>>
        /\ step[t] = "between"
    BY <1>5 DEF CallName, Call, To, Name, LoginInv, LoginTypeOK
  <2>2. request[t] # NoRequest
    BY <2>1 DEF LoginInv, ChecksMatch
  <2>3. LoginTypeOK'
    BY <2>1 DEF LoginInv, LoginTypeOK, Steps
  <2>4. Passed(t)' = Passed(t)
    BY <2>1 DEF LoginInv, LoginTypeOK, Passed, Address, Name
  <2>5. ChecksMatch' /\ LateLockouts'
    <3>1. /\ request'[t] = request[t] /\ step'[t] = "name" /\ checking'[t] = request[t][2]
          /\ \A v \in Threads \ {t} : /\ request'[v] = request[v]
                                      /\ step'[v] = step[v]
                                      /\ checking'[v] = checking[v]
      BY <2>1 DEF LoginInv, LoginTypeOK, LimiterInv, LimiterTypeOK
    <3>2. \A v \in Threads \ {t} : \A k \in Passed(v) :
              clock < lockEnd'[k] => k \in overtaken'[v]
      BY <2>1, <2>2, <2>4 DEF LoginInv, LateLockouts, LoginTypeOK
    <3>3. \A k \in Passed(t)' : clock < lockEnd'[k] => k \in overtaken'[t]
      BY <2>1, <2>2, <2>4 DEF LoginInv, LateLockouts
    <3> QED
      BY <2>1, <2>2, <3>1, <3>2, <3>3, OthersKept
  <2> QED
    BY <1>1, <2>1, <2>3, <2>5 DEF LoginInv
<1>6. ASSUME NEW t \in Threads, NamePasses(t)
      PROVE  LoginInv' /\ Forgiven
  <2>1. /\ step' = [step EXCEPT ![t] = "verifying"]
        /\ checking' = [checking EXCEPT ![t] = "idle"]
        /\ UNCHANGED <<request, begun, clock, lockEnd, overtaken>>
        /\ step[t] = "name"
        /\ Admit(t, Name(t))
    BY <1>6 DEF NamePasses, Admit, Answered, To, LoginInv, LoginTypeOK
  <2>2. Name(t) \in Ids /\ request[t] # NoRequest
    BY <2>1, RequestOf DEF LoginInv, ChecksMatch
  <2>3. ~(clock < lockEnd[Name(t)])
    BY <2>1, <2>2, AdmitKeepsInv DEF LoginInv, LimiterInv, LimiterTypeOK
  <2>4. LoginTypeOK'
    BY <2>1 DEF LoginInv, LoginTypeOK, Steps
  <2>5. Passed(t)' \subseteq Passed(t) \cup {Name(t)}
    BY <2>1 DEF LoginInv, LoginTypeOK, Passed, Address, Name
  <2>6. ChecksMatch' /\ LateLockouts'
    <3>1. /\ request'[t] = request[t] /\ step'[t] = "verifying" /\ checking'[t] = "idle"
          /\ \A v \in Threads \ {t} : /\ request'[v] = request[v]
                                      /\ step'[v] = step[v]
                                      /\ checking'[v] = checking[v]
      BY <2>1 DEF LoginInv, LoginTypeOK, LimiterInv, LimiterTypeOK
    <3>2. \A v \in Threads \ {t} : \A k \in Passed(v) :
              clock < lockEnd'[k] => k \in overtaken'[v]
      BY <2>1, <2>2, <2>3, <2>5 DEF LoginInv, LateLockouts, LoginTypeOK
    <3>3. \A k \in Passed(t)' : clock < lockEnd'[k] => k \in overtaken'[t]
      BY <2>1, <2>2, <2>3, <2>5 DEF LoginInv, LateLockouts
    <3> QED
      BY <2>1, <2>2, <3>1, <3>2, <3>3, OthersKept
  <2> QED
    BY <1>1, <2>1, <2>4, <2>6 DEF LoginInv
<1>7. ASSUME NEW t \in Threads, Refused(t) \/ Rejected(t)
      PROVE  LoginInv' /\ Forgiven
  <2>1. /\ request' = [request EXCEPT ![t] = NoRequest]
        /\ step' = [step EXCEPT ![t] = "idle"]
        /\ overtaken' = [overtaken EXCEPT ![t] = {}]
        /\ UNCHANGED <<begun, clock, lockEnd>>
    BY <1>7 DEF Refused, Rejected, RefuseLocked, Answered, To, Done, limiterVars
  <2>2. checking' = [checking EXCEPT ![t] = "idle"]
    <3>1. CASE Refused(t)
      BY <3>1 DEF Refused, RefuseLocked, Answered
    <3>2. CASE Rejected(t)
      <4>1. step[t] = "verifying" /\ checking' = checking
        BY <3>2 DEF Rejected, limiterVars
      <4> QED
        BY <4>1 DEF LoginInv, ChecksMatch, LimiterInv, LimiterTypeOK
    <3> QED
      BY <1>7, <3>1, <3>2
  <2>3. LoginTypeOK'
    BY <2>1 DEF LoginInv, LoginTypeOK, Steps
  <2>4. Passed(t)' = {}
    BY <2>1 DEF LoginInv, LoginTypeOK, Passed
  <2>5. ChecksMatch' /\ LateLockouts'
    <3>1. /\ request'[t] = NoRequest /\ step'[t] = "idle" /\ checking'[t] = "idle"
          /\ \A v \in Threads \ {t} : /\ request'[v] = request[v]
                                      /\ step'[v] = step[v]
                                      /\ checking'[v] = checking[v]
      BY <2>1, <2>2 DEF LoginInv, LoginTypeOK, LimiterInv, LimiterTypeOK
    <3>2. \A v \in Threads \ {t} : \A k \in Passed(v) :
              clock < lockEnd'[k] => k \in overtaken'[v]
      BY <2>1, <2>4 DEF LoginInv, LateLockouts, LoginTypeOK
    <3>3. \A k \in Passed(t)' : clock < lockEnd'[k] => k \in overtaken'[t]
      BY <2>1, <2>4 DEF LoginInv, LateLockouts
    <3> QED
      BY <2>1, <3>1, <3>2, <3>3, OthersKept
  <2> QED
    BY <1>1, <2>1, <2>3, <2>5 DEF LoginInv
<1>8. ASSUME NEW t \in Threads, LocksOut(t)
      PROVE  LoginInv' /\ Forgiven
  <2> DEFINE c == Checked(t)
  <2>1. /\ request' = [request EXCEPT ![t] = NoRequest]
        /\ step' = [step EXCEPT ![t] = "idle"]
        /\ checking' = [checking EXCEPT ![t] = "idle"]
        /\ overtaken' = [u \in Threads |-> IF u = t THEN {}
                                           ELSE overtaken[u] \cup ({c} \cap Passed(u))]
        /\ UNCHANGED <<begun, clock>>
        /\ step[t] \in {"address", "name"}
        /\ LockOut(t, c)
    BY <1>8 DEF LocksOut, LockOut, Answered, To, Done
  <2>2. c \in Ids
    BY <2>1, RequestOf DEF Checked
  <2>3. /\ ~(clock < lockEnd[c])
        /\ \A k \in Ids \ {c} : lockEnd'[k] = lockEnd[k]
    <3> HIDE DEF c
    <3>1. clock >= lockEnd[c]
      BY <2>1, <2>2, LockOutKeepsInv DEF LoginInv
    <3>2. lockEnd' = [lockEnd EXCEPT ![c] = now[t] + Lockout]
      BY <2>1 DEF LockOut
    <3> QED
      BY <2>2, <3>1, <3>2 DEF LoginInv, LimiterInv, LimiterTypeOK
  <2>4. \A u \in Threads : Passed(u) \subseteq Ids
    BY LoginAssumption DEF Passed
  <2> HIDE DEF c
  <2>5. LoginTypeOK'
    BY <2>1, <2>2 DEF LoginInv, LoginTypeOK, Steps
  <2>6. Passed(t)' = {}
    BY <2>1 DEF LoginInv, LoginTypeOK, Passed
  <2>7. \A u \in Threads \ {t} : \A k \in Passed(u) :
            clock < lockEnd'[k] => k \in overtaken'[u]
    BY <2>1, <2>3, <2>4 DEF LoginInv, LateLockouts
  <2>8. ChecksMatch' /\ LateLockouts'
    <3>1. /\ request'[t] = NoRequest /\ step'[t] = "idle" /\ checking'[t] = "idle"
          /\ \A v \in Threads \ {t} : /\ request'[v] = request[v]
                                      /\ step'[v] = step[v]
                                      /\ checking'[v] = checking[v]
      BY <2>1 DEF LoginInv, LoginTypeOK, LimiterInv, LimiterTypeOK
    <3>2. \A v \in Threads \ {t} : \A k \in Passed(v) :
              clock < lockEnd'[k] => k \in overtaken'[v]
      BY <2>1, <2>6, <2>7 DEF LoginInv, LateLockouts, LoginTypeOK
    <3>3. \A k \in Passed(t)' : clock < lockEnd'[k] => k \in overtaken'[t]
      BY <2>1, <2>6, <2>7 DEF LoginInv, LateLockouts
    <3> QED
      BY <2>1, <3>1, <3>2, <3>3, OthersKept
  <2> QED
    BY <1>1, <2>3, <2>5, <2>8 DEF LoginInv
<1>9. ASSUME NEW t \in Threads, ResetAddress(t)
      PROVE  LoginInv' /\ Forgiven
  <2>1. /\ step' = [step EXCEPT ![t] = "resetting"]
        /\ lockEnd' = [lockEnd EXCEPT ![Address(t)] = 0]
        /\ UNCHANGED <<request, begun, clock, checking, overtaken>>
        /\ step[t] = "verifying"
    BY <1>9 DEF ResetAddress, Reset, To, LoginInv, LoginTypeOK
  <2>2. checking' = [checking EXCEPT ![t] = "idle"] /\ request[t] # NoRequest
    BY <2>1 DEF LoginInv, ChecksMatch, LimiterInv, LimiterTypeOK
  <2>3. Address(t) \in Addresses /\ Address(t) \in Ids
    BY <2>1, RequestOf
  <2>4. /\ ~(clock < lockEnd'[Address(t)])
        /\ \A k \in Ids \ {Address(t)} : lockEnd'[k] = lockEnd[k]
    BY <2>1, <2>3 DEF LoginInv, LimiterInv, LimiterTypeOK
  <2>5. \A u \in Threads : Passed(u) \subseteq Ids
    BY LoginAssumption DEF Passed
  <2>6. LoginTypeOK'
    BY <2>1 DEF LoginInv, LoginTypeOK, Steps
  <2>7. Passed(t)' \subseteq Passed(t)
    BY <2>1 DEF LoginInv, LoginTypeOK, Passed, Address, Name
  <2>8. Address(t) \in Passed(t)
    BY <2>1, <2>3 DEF Passed
  <2>9. \A u \in Threads : \A k \in Passed(u) : clock < lockEnd'[k] => k \in overtaken'[u]
    BY <2>1, <2>4, <2>5 DEF LoginInv, LateLockouts
  <2>10. ChecksMatch' /\ LateLockouts'
    <3>1. /\ request'[t] = request[t] /\ step'[t] = "resetting" /\ checking'[t] = "idle"
          /\ \A v \in Threads \ {t} : /\ request'[v] = request[v]
                                      /\ step'[v] = step[v]
                                      /\ checking'[v] = checking[v]
      BY <2>1, <2>2 DEF LoginInv, LoginTypeOK, LimiterInv, LimiterTypeOK
    <3>2. \A v \in Threads \ {t} : \A k \in Passed(v) :
              clock < lockEnd'[k] => k \in overtaken'[v]
      BY <2>1, <2>2, <2>7, <2>9 DEF LoginInv, LateLockouts, LoginTypeOK
    <3>3. \A k \in Passed(t)' : clock < lockEnd'[k] => k \in overtaken'[t]
      BY <2>1, <2>2, <2>7, <2>9 DEF LoginInv, LateLockouts
    <3> QED
      BY <2>1, <2>2, <3>1, <3>2, <3>3, OthersKept
  <2>11. clock < lockEnd[Address(t)] => Address(t) \in overtaken[t]
    BY <2>8 DEF LoginInv, LateLockouts
  <2>12. Forgiven
    BY <1>9, <2>4, <2>11
  <2> QED
    BY <1>1, <2>6, <2>10, <2>12 DEF LoginInv
<1>10. ASSUME NEW t \in Threads, ResetName(t)
       PROVE  LoginInv' /\ Forgiven
  <2>1. /\ request' = [request EXCEPT ![t] = NoRequest]
        /\ step' = [step EXCEPT ![t] = "idle"]
        /\ overtaken' = [overtaken EXCEPT ![t] = {}]
        /\ lockEnd' = [lockEnd EXCEPT ![Name(t)] = 0]
        /\ UNCHANGED <<begun, clock, checking>>
        /\ step[t] = "resetting"
    BY <1>10 DEF ResetName, Reset, Done, To
  <2>2. checking' = [checking EXCEPT ![t] = "idle"]
    BY <2>1 DEF LoginInv, ChecksMatch, LimiterInv, LimiterTypeOK
  <2>3. Name(t) \in Names /\ Name(t) \in Ids
    BY <2>1, RequestOf
  <2>4. /\ ~(clock < lockEnd'[Name(t)])
        /\ \A k \in Ids \ {Name(t)} : lockEnd'[k] = lockEnd[k]
    BY <2>1, <2>3 DEF LoginInv, LimiterInv, LimiterTypeOK
  <2>5. \A u \in Threads : Passed(u) \subseteq Ids
    BY LoginAssumption DEF Passed
  <2>6. LoginTypeOK'
    BY <2>1 DEF LoginInv, LoginTypeOK, Steps
  <2>7. Passed(t)' = {}
    BY <2>1 DEF LoginInv, LoginTypeOK, Passed
  <2>8. Name(t) \in Passed(t)
    BY <2>1, <2>3 DEF Passed
  <2>9. \A u \in Threads \ {t} : \A k \in Passed(u) :
            clock < lockEnd'[k] => k \in overtaken'[u]
    BY <2>1, <2>4, <2>5 DEF LoginInv, LateLockouts, LoginTypeOK
  <2>10. ChecksMatch' /\ LateLockouts'
    <3>1. /\ request'[t] = NoRequest /\ step'[t] = "idle" /\ checking'[t] = "idle"
          /\ \A v \in Threads \ {t} : /\ request'[v] = request[v]
                                      /\ step'[v] = step[v]
                                      /\ checking'[v] = checking[v]
      BY <2>1, <2>2 DEF LoginInv, LoginTypeOK, LimiterInv, LimiterTypeOK
    <3>2. \A v \in Threads \ {t} : \A k \in Passed(v) :
              clock < lockEnd'[k] => k \in overtaken'[v]
      BY <2>1, <2>7, <2>9 DEF LoginInv, LateLockouts, LoginTypeOK
    <3>3. \A k \in Passed(t)' : clock < lockEnd'[k] => k \in overtaken'[t]
      BY <2>1, <2>7, <2>9 DEF LoginInv, LateLockouts
    <3> QED
      BY <2>1, <3>1, <3>2, <3>3, OthersKept
  <2>11. clock < lockEnd[Name(t)] => Name(t) \in overtaken[t]
    BY <2>8 DEF LoginInv, LateLockouts
  <2>12. Forgiven
    BY <1>10, <2>4, <2>11
  <2> QED
    BY <1>1, <2>6, <2>10, <2>12 DEF LoginInv
<1>11. CASE UNCHANGED loginVars
  <2>1. LoginTypeOK' /\ ChecksMatch'
    BY <1>11 DEF LoginInv, loginVars, limiterVars, LoginTypeOK, ChecksMatch, Address, Name
  <2>2. \A t \in Threads : Passed(t)' = Passed(t)
    BY <1>11, PassedKept DEF loginVars
  <2>3. LateLockouts'
    BY <1>11, <2>2 DEF LoginInv, loginVars, limiterVars, LateLockouts
  <2> QED
    BY <1>1, <1>11, <2>1, <2>3 DEF LoginInv
<1> HIDE DEF Forgiven
<1>12. LoginNext => LoginInv' /\ Forgiven
  BY <1>2, <1>3, <1>4, <1>5, <1>6, <1>7, <1>8, <1>9, <1>10 DEF LoginNext
<1> QED
  BY <1>11, <1>12 DEF Forgiven

\* The invariant of the logins holds for any threads, addresses, names and
\* parameters: whoever is past a check that a lockout now bars was there first.
THEOREM LoginInvariant == LoginSpec => []LoginInv
<1>1. LoginInit => LoginInv
  BY LimiterAssumption, LoginAssumption
  DEF LoginInit, LimiterInit, LoginInv, LimiterInv, LimiterTypeOK, Readings, LocksRecorded,
      Budget, LoginTypeOK, Steps, ChecksMatch, LateLockouts, Passed
<1>2. LoginInv /\ [LoginNext]_loginVars => LoginInv'
  BY LoginStep
<1> QED
  BY <1>1, <1>2, PTL DEF LoginSpec

\* The logins use the limiters as LimiterSpec lets any client use them, so what
\* holds of the limiters holds here.
THEOREM LoginImplementsLimiter == LoginSpec => LimiterSpec
<1>1. LoginInit => LimiterInit
  BY DEF LoginInit
<1>2. LoginInv /\ [LoginNext]_loginVars => [LimiterNext]_limiterVars
  BY LoginStepsLimiters
<1> QED
  BY <1>1, <1>2, LoginInvariant, PTL DEF LoginSpec, LimiterSpec

\* Nobody logs in, nor has a password verified, while a lockout bars the way
\* (rate_limit.py:26-29).
THEOREM LoginLockoutHolds == LoginSpec => LockoutHolds
BY LoginImplementsLimiter, LimiterLockoutHolds

\* No login starts a lockout that was not earned (rate_limit.py:61-67).
THEOREM LoginLockoutIsDeserved == LoginSpec => LockoutIsDeserved
BY LoginImplementsLimiter, LimiterLockoutIsDeserved

\* Logins, too, get two windows' budgets through in a window at most, however
\* the two limiters evict (rate_limit.py:85-96).
THEOREM LoginBurstBound ==
    ASSUME Window <= Lockout
    PROVE  LoginSpec => []BurstBound
<1>1. LimiterSpec => []BurstBound
  BY LimiterBurstBound
<1> QED
  BY <1>1, LoginImplementsLimiter

\* A running lockout is ended only by a login that it has overtaken
\* (auth.py:97-98, 122-123).
THEOREM LoginForgivesOvertaken == LoginSpec => OnlyOvertakenLoginsForgive
<1>1. LoginInv /\ [LoginNext]_loginVars
        => [\A k \in Ids : clock < lockEnd[k] /\ lockEnd'[k] # lockEnd[k]
              => \E t \in Threads :
                    k \in overtaken[t] /\ (ResetAddress(t) \/ ResetName(t))]_loginVars
  BY LoginStep
<1>2. LoginSpec
        => [][\A k \in Ids : clock < lockEnd[k] /\ lockEnd'[k] # lockEnd[k]
                => \E t \in Threads :
                      k \in overtaken[t] /\ (ResetAddress(t) \/ ResetName(t))]_loginVars
  BY <1>1, LoginInvariant, PTL DEF LoginSpec
<1> QED
  BY <1>2 DEF OnlyOvertakenLoginsForgive
=============================================================================
