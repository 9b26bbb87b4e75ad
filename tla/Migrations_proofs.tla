-------------------------- MODULE Migrations_proofs --------------------------
(* Any number of pods, revisions and faults: each revision is applied once,  *)
(* and a pod that serves finds the schema of its own release.                *)
EXTENDS Migrations, TLAPS

USE MigrationsAssumption

\* What a pod is at after its step.
LEMMA GoesTo ==
    ASSUME pc \in [Pods -> Phases], NEW p \in Pods, NEW from, NEW to \in Phases, Goes(p, from, to)
    PROVE  /\ pc' \in [Pods -> Phases]
           /\ pc[p] = from
           /\ pc'[p] = to
           /\ \A q \in Pods : q # p => pc'[q] = pc[q]
BY DEF Goes

\* An abandoned lock is freed, or kept by a session without a pod.
LEMMA AbandonedLeaves ==
    ASSUME NEW p \in Pods, Abandoned(p), holder \in Pods \cup {Nobody, Orphan}
    PROVE  /\ holder' \in Pods \cup {Nobody, Orphan}
           /\ holder' # p
           /\ \A q \in Pods : q # p => (holder' = q <=> holder = q)
BY DEF Abandoned

\* A commit by a pod that holds the lock applies the revisions that were
\* missing, once.
LEMMA CommitApplies ==
    ASSUME MigrationsInv, NEW p \in Pods, pc[p] = "upgrading", p \notin lost,
           draft[p] = Head, Committed(p)
    PROVE  /\ revision' = Head
           /\ revision' \in 0..Head
           /\ applied' \in [1..Head -> Nat]
           /\ clash' = clash
           /\ EachRevisionOnce'
<1>1. revision \in 0..Head /\ base[p] = revision /\ applied \in [1..Head -> Nat]
  BY DEF MigrationsInv, MigrationsTypeOK, BaseIsCurrent
<1>2. /\ revision' = Head /\ clash' = clash
      /\ applied' = [v \in 1..Head |->
                       IF base[p] < v /\ v <= draft[p] THEN applied[v] + 1 ELSE applied[v]]
  BY DEF Committed
<1>3. \A v \in 1..Head : applied[v] = IF v <= revision THEN 1 ELSE 0
  BY DEF MigrationsInv, EachRevisionOnce
<1>4. \A v \in 1..Head : applied'[v] = 1
  <2> TAKE v \in 1..Head
  <2>1. CASE v <= revision
    BY <2>1, <1>1, <1>2, <1>3
  <2>2. CASE ~(v <= revision)
    BY <2>2, <1>1, <1>2, <1>3
  <2> QED BY <2>1, <2>2
<1>5. applied' \in [1..Head -> Nat]
  BY <1>1, <1>2
<1>6. EachRevisionOnce'
  BY <1>2, <1>4 DEF EachRevisionOnce
<1> QED BY <1>1, <1>2, <1>5, <1>6
-----------------------------------------------------------------------------
\* A pod that is elsewhere than in the upgrade and holds nothing disturbs
\* nobody: the steps that leave the database and every other pod alone.
LEMMA QuietStep ==
    ASSUME MigrationsInv, NEW p \in Pods, NEW to \in Phases,
           pc' = [pc EXCEPT ![p] = to],
           UNCHANGED <<database, base>>,
           draft' = draft,
           faults' \in 0..MaxFaults,
           lost' \subseteq Pods,
           \A q \in Pods : q # p => (q \in lost' <=> q \in lost),
           holder' \in Pods \cup {Nobody, Orphan},
           \A q \in Pods : q # p => (holder' = q <=> holder = q),
           holder' = p => p \notin lost' /\ to \in {"locked", "upgrading", "releasing", "aborting"},
           to \in {"locked", "upgrading"} /\ p \notin lost' => holder' = p,
           to = "upgrading" /\ p \notin lost' => base[p] = revision /\ base[p] <= draft[p],
           to \in {"releasing", "serving"} => revision = Head
    PROVE  MigrationsInv'
<1> USE DEF MigrationsInv, database
<1>1. pc \in [Pods -> Phases] BY DEF MigrationsTypeOK
<1>2. pc' \in [Pods -> Phases] /\ pc'[p] = to /\ \A q \in Pods : q # p => pc'[q] = pc[q]
  BY <1>1
<1>3. MigrationsTypeOK' BY <1>2 DEF MigrationsTypeOK
<1>4. LockHeldByUpgrade' BY <1>2 DEF LockHeldByUpgrade
<1>5. BaseIsCurrent' BY <1>2 DEF BaseIsCurrent
<1>6. ReleasedAtHead' /\ ServingAtHead' BY <1>2 DEF ReleasedAtHead, ServingAtHead
<1>7. EachRevisionOnce' BY DEF EachRevisionOnce
<1> QED BY <1>3, <1>4, <1>5, <1>6, <1>7

LEMMA InitHolds ==
    ASSUME MigrationsInit
    PROVE  MigrationsInv
<1> USE DEF MigrationsInit
<1>1. MigrationsTypeOK
  <2>1. applied \in [1..Head -> Nat] /\ pc \in [Pods -> Phases]
    BY DEF Phases
  <2>2. base \in [Pods -> 0..Head] /\ draft \in [Pods -> 0..Head]
    OBVIOUS
  <2> QED BY <2>1, <2>2 DEF MigrationsTypeOK
<1>2. \A p \in Pods : pc[p] = "down" /\ holder # p
  OBVIOUS
<1>3. LockHeldByUpgrade /\ BaseIsCurrent /\ ReleasedAtHead /\ ServingAtHead
  BY <1>2 DEF LockHeldByUpgrade, BaseIsCurrent, ReleasedAtHead, ServingAtHead
<1>4. EachRevisionOnce
  BY DEF EachRevisionOnce
<1> QED BY <1>1, <1>3, <1>4 DEF MigrationsInv

\* Each step of a pod keeps the invariant.
LEMMA PodStepKeeps ==
    ASSUME MigrationsInv, NEW p \in Pods, PodStep(p)
    PROVE  MigrationsInv'
<1>1. MigrationsTypeOK /\ LockHeldByUpgrade /\ BaseIsCurrent
  BY DEF MigrationsInv
<1>2. CASE Start(p)
  BY <1>1, <1>2, QuietStep DEF Start, Goes, transaction, database, MigrationsTypeOK, Phases, LockHeldByUpgrade
<1>3. CASE Acquire(p)
  BY <1>1, <1>3, QuietStep DEF Acquire, Goes, transaction, database, MigrationsTypeOK, Phases, LockHeldByUpgrade
<1>4. CASE GiveUp(p)
  BY <1>1, <1>4, QuietStep DEF GiveUp, Goes, transaction, database, MigrationsTypeOK, Phases, LockHeldByUpgrade
<1>5. CASE ReadRevision(p)
  <2> USE <1>5 DEF ReadRevision
  <2>1. holder = p /\ revision \in 0..Head
    BY <1>1 DEF Goes, LockHeldByUpgrade, MigrationsTypeOK
  <2>2. /\ pc' \in [Pods -> Phases]
        /\ pc'[p] = "upgrading"
        /\ \A q \in Pods : q # p => pc'[q] = pc[q]
    BY <1>1, GoesTo DEF MigrationsTypeOK, Phases
  <2>3. /\ base' \in [Pods -> 0..Head] /\ draft' \in [Pods -> 0..Head]
        /\ base'[p] = revision /\ draft'[p] = revision
    BY <1>1, <2>1 DEF MigrationsTypeOK
  <2>4. MigrationsTypeOK'
    BY <1>1, <2>2, <2>3 DEF MigrationsTypeOK, database
  <2>5. LockHeldByUpgrade'
    BY <1>1, <2>1, <2>2 DEF LockHeldByUpgrade
  <2>6. \A q \in Pods \ {p} : pc'[q] = "upgrading" => q \in lost
    BY <1>1, <2>1, <2>2 DEF LockHeldByUpgrade
  <2>7. BaseIsCurrent'
    BY <2>1, <2>3, <2>6 DEF BaseIsCurrent, database
  <2>8. ReleasedAtHead' /\ ServingAtHead'
    BY <2>2 DEF MigrationsInv, ReleasedAtHead, ServingAtHead, database
  <2>9. EachRevisionOnce'
    BY DEF MigrationsInv, EachRevisionOnce, database
  <2> QED BY <2>4, <2>5, <2>7, <2>8, <2>9 DEF MigrationsInv
<1>6. CASE RunScript(p)
  <2> USE <1>6 DEF RunScript
  <2>1. /\ draft' \in [Pods -> 0..Head]
        /\ draft'[p] = draft[p] + 1
        /\ \A q \in Pods : q # p => draft'[q] = draft[q]
    BY <1>1 DEF MigrationsTypeOK
  <2>2. MigrationsTypeOK'
    BY <1>1, <2>1 DEF MigrationsTypeOK, database
  <2>3. base[p] \in 0..Head /\ draft[p] \in 0..Head
    BY <1>1 DEF MigrationsTypeOK
  <2>4. BaseIsCurrent'
    BY <1>1, <2>1, <2>3 DEF BaseIsCurrent, database
  <2>5. LockHeldByUpgrade' /\ ReleasedAtHead' /\ ServingAtHead' /\ EachRevisionOnce'
    BY DEF MigrationsInv, LockHeldByUpgrade, ReleasedAtHead, ServingAtHead, EachRevisionOnce, database
  <2> QED BY <2>2, <2>4, <2>5 DEF MigrationsInv
<1>7. CASE ScriptFails(p)
  BY <1>1, <1>7, QuietStep DEF ScriptFails, Goes, transaction, database, MigrationsTypeOK, Phases, LockHeldByUpgrade
<1>8. CASE Commit(p)
  <2> USE <1>8 DEF Commit
  <2>1. holder = p
    BY <1>1 DEF Goes, LockHeldByUpgrade
  <2>2. /\ pc[p] = "upgrading"
        /\ pc' \in [Pods -> Phases]
        /\ pc'[p] = "releasing"
        /\ \A q \in Pods : q # p => pc'[q] = pc[q]
    BY <1>1, GoesTo DEF MigrationsTypeOK, Phases
  <2>3. revision' = Head /\ applied' \in [1..Head -> Nat] /\ clash' = clash /\ EachRevisionOnce'
    BY <2>2, CommitApplies
  <2>4. MigrationsTypeOK'
    BY <1>1, <2>2, <2>3 DEF MigrationsTypeOK, transaction
  <2>5. LockHeldByUpgrade'
    BY <1>1, <2>1, <2>2 DEF LockHeldByUpgrade
  <2>6. \A q \in Pods : pc'[q] = "upgrading" => q \in lost
    BY <1>1, <2>1, <2>2 DEF LockHeldByUpgrade
  <2>7. BaseIsCurrent'
    BY <2>6 DEF BaseIsCurrent
  <2>8. ReleasedAtHead' /\ ServingAtHead'
    BY <2>3 DEF ReleasedAtHead, ServingAtHead
  <2> QED BY <2>3, <2>4, <2>5, <2>7, <2>8 DEF MigrationsInv
<1>9. CASE StatementFails(p)
  <2>1. CASE Goes(p, "polling", "down")
    BY <1>1, <1>9, <2>1, QuietStep DEF StatementFails, Goes, transaction, database, MigrationsTypeOK, Phases, LockHeldByUpgrade
  <2>2. CASE \E phase \in {"locked", "upgrading"} : Goes(p, phase, "aborting")
    BY <1>1, <1>9, <2>2, QuietStep DEF StatementFails, Goes, transaction, database, MigrationsTypeOK, Phases, LockHeldByUpgrade
  <2> QED BY <1>9, <2>1, <2>2 DEF StatementFails
<1>10. CASE Unlock(p)
  <2>1. holder' = (IF holder = p THEN Nobody ELSE holder) /\ UNCHANGED <<database, lost, transaction, faults>>
    BY <1>10 DEF Unlock
  <2>2. CASE Goes(p, "releasing", "serving")
    BY <1>1, <2>1, <2>2, QuietStep DEF Goes, transaction, database, MigrationsTypeOK, Phases, LockHeldByUpgrade, MigrationsInv, ReleasedAtHead
  <2>3. CASE Goes(p, "aborting", "down")
    BY <1>1, <2>1, <2>3, QuietStep DEF Goes, transaction, database, MigrationsTypeOK, Phases, LockHeldByUpgrade
  <2> QED BY <1>10, <2>2, <2>3 DEF Unlock, Finishes
<1> QED BY <1>2, <1>3, <1>4, <1>5, <1>6, <1>7, <1>8, <1>9, <1>10 DEF PodStep

\* So does each fault.
LEMMA PodFaultKeeps ==
    ASSUME MigrationsInv, NEW p \in Pods, PodFault(p)
    PROVE  MigrationsInv'
<1>1. MigrationsTypeOK /\ LockHeldByUpgrade /\ BaseIsCurrent /\ ReleasedAtHead
  BY DEF MigrationsInv
<1>2. CASE ConnectionDrops(p)
  <2> USE <1>2 DEF ConnectionDrops
  <2>1. /\ holder' \in Pods \cup {Nobody, Orphan}
        /\ holder' # p
        /\ \A q \in Pods : q # p => (holder' = q <=> holder = q)
    BY <1>1, AbandonedLeaves DEF MigrationsTypeOK
  <2>2. pc' = [pc EXCEPT ![p] = pc[p]] /\ pc[p] \in Phases \ {"down", "serving"}
    BY <1>1 DEF MigrationsTypeOK
  <2>3. faults' \in 0..MaxFaults
    BY <1>1 DEF Fault, MigrationsTypeOK
  <2> QED BY <1>1, <2>1, <2>2, <2>3, QuietStep DEF transaction, database, MigrationsTypeOK, ReleasedAtHead
<1>3. CASE CommitUnanswered(p)
  <2> USE <1>3 DEF CommitUnanswered
  <2>1. /\ holder' \in Pods \cup {Nobody, Orphan}
        /\ holder' # p
        /\ \A q \in Pods : q # p => (holder' = q <=> holder = q)
    BY <1>1, AbandonedLeaves DEF MigrationsTypeOK
  <2>2. holder = p
    BY <1>1 DEF Goes, LockHeldByUpgrade
  <2>3. /\ pc[p] = "upgrading"
        /\ pc' \in [Pods -> Phases]
        /\ pc'[p] = "aborting"
        /\ \A q \in Pods : q # p => pc'[q] = pc[q]
    BY <1>1, GoesTo DEF MigrationsTypeOK, Phases
  <2>4. revision' = Head /\ applied' \in [1..Head -> Nat] /\ clash' = clash /\ EachRevisionOnce'
    BY <2>3, CommitApplies
  <2>5. MigrationsTypeOK'
    BY <1>1, <2>1, <2>3, <2>4 DEF MigrationsTypeOK, transaction, Fault
  <2>6. LockHeldByUpgrade'
    BY <1>1, <2>1, <2>3 DEF LockHeldByUpgrade
  <2>7. \A q \in Pods : pc'[q] = "upgrading" => q \in lost'
    BY <1>1, <2>2, <2>3 DEF LockHeldByUpgrade
  <2>8. BaseIsCurrent'
    BY <2>7 DEF BaseIsCurrent
  <2>9. ReleasedAtHead' /\ ServingAtHead'
    BY <2>4 DEF ReleasedAtHead, ServingAtHead
  <2> QED BY <2>4, <2>5, <2>6, <2>8, <2>9 DEF MigrationsInv
<1>4. CASE UnlockFails(p)
  <2>1. /\ holder' \in {Nobody, Orphan} /\ holder = p
        /\ faults' \in 0..MaxFaults /\ UNCHANGED <<database, lost, transaction>>
    BY <1>1, <1>4 DEF UnlockFails, Fault, MigrationsTypeOK
  <2>2. CASE Goes(p, "releasing", "serving")
    BY <1>1, <2>1, <2>2, QuietStep DEF Goes, transaction, database, MigrationsTypeOK, Phases, LockHeldByUpgrade, ReleasedAtHead
  <2>3. CASE Goes(p, "aborting", "down")
    BY <1>1, <2>1, <2>3, QuietStep DEF Goes, transaction, database, MigrationsTypeOK, Phases, LockHeldByUpgrade
  <2> QED BY <1>4, <2>2, <2>3 DEF UnlockFails, Finishes
<1>5. CASE Crash(p)
  <2>1. /\ holder' \in Pods \cup {Nobody, Orphan}
        /\ holder' # p
        /\ \A q \in Pods : q # p => (holder' = q <=> holder = q)
    BY <1>1, <1>5, AbandonedLeaves DEF Crash, MigrationsTypeOK
  <2>2. faults' \in 0..MaxFaults
    BY <1>1, <1>5 DEF Crash, Fault, MigrationsTypeOK
  <2> QED BY <1>1, <1>5, <2>1, <2>2, QuietStep DEF Crash, transaction, database, MigrationsTypeOK, Phases
<1> QED BY <1>2, <1>3, <1>4, <1>5 DEF PodFault

\* The migrations keep their invariant, in every behaviour of the pods.
THEOREM MigrationsInvariant == MigrationsSpec => []MigrationsInv
<1>1. MigrationsInv /\ [MigrationsNext]_migrationsVars => MigrationsInv'
  <2> SUFFICES ASSUME MigrationsInv, [MigrationsNext]_migrationsVars
               PROVE  MigrationsInv'
    OBVIOUS
  <2>1. CASE \E p \in Pods : PodStep(p) \/ PodFault(p)
    BY <2>1, PodStepKeeps, PodFaultKeeps
  <2>2. CASE OrphanEnds
    BY <2>2 DEF OrphanEnds, MigrationsInv, MigrationsTypeOK, LockHeldByUpgrade, BaseIsCurrent,
                ReleasedAtHead, ServingAtHead, EachRevisionOnce, database, transaction
  <2>3. CASE UNCHANGED migrationsVars
    BY <2>3 DEF migrationsVars, MigrationsInv, MigrationsTypeOK, LockHeldByUpgrade, BaseIsCurrent,
                ReleasedAtHead, ServingAtHead, EachRevisionOnce
  <2> QED BY <2>1, <2>2, <2>3 DEF MigrationsNext
<1> QED BY <1>1, InitHolds, PTL DEF MigrationsSpec

\* Each script is applied once, whatever the pods race for and whatever breaks.
THEOREM MigrationsEachRevisionOnce == MigrationsSpec => []EachRevisionOnce
<1>1. MigrationsInv => EachRevisionOnce
  BY DEF MigrationsInv
<1> QED BY <1>1, MigrationsInvariant, PTL

\* No pod serves before the schema is at its head.
THEOREM MigrationsServingAtHead == MigrationsSpec => []ServingAtHead
<1>1. MigrationsInv => ServingAtHead
  BY DEF MigrationsInv
<1> QED BY <1>1, MigrationsInvariant, PTL
=============================================================================
