------------------------------ MODULE Migrations ------------------------------
(***************************************************************************)
(* The migrations a pod of the users service runs before it serves         *)
(* (services/users/app/migrations.py, called by the lifespan of            *)
(* app/main.py).  The pods that start together poll one advisory lock.  It *)
(* belongs to a database session, not to a pod, and the scripts run in one *)
(* transaction of that same session.  Sessions break, pods crash, and a    *)
(* session whose pod is gone may keep the lock.                            *)
(***************************************************************************)
EXTENDS Integers

CONSTANTS
    Pods,
    Head,        \* the last revision of alembic/versions
    UniqueAt,    \* the revision whose indexes refuse case-variant rows
    Nobody, Orphan,   \* no session, a session that has outlived its pod
    MaxFaults    \* bound: broken sessions, crashes and failed clean-ups

ASSUME MigrationsAssumption ==
    /\ Head \in Nat
    /\ UniqueAt \in 1..Head
    /\ MaxFaults \in Nat
    /\ Nobody # Orphan
    /\ {Nobody, Orphan} \cap Pods = {}

VARIABLES
    revision,   \* the committed content of alembic_version, 0 when there is none
    clash,      \* users that differ in case only, written before UniqueAt
    applied,    \* history: how often each revision was applied to the database
    holder,     \* whose session holds the advisory lock
    pc,         \* what each pod is at
    lost,       \* the pods whose session is broken
    base,       \* the revision each pod has read
    draft,      \* the revision inside each pod's transaction
    faults

migrationsVars == <<revision, clash, applied, holder, pc, lost, base, draft, faults>>

\* A pod in "releasing" has committed; one in "aborting" has failed.  Both are
\* in the finally clause of upgrade_to_head.
Phases == {"down", "polling", "locked", "upgrading", "releasing", "aborting", "serving"}

MigrationsTypeOK ==
    /\ revision \in 0..Head
    /\ clash \in BOOLEAN
    /\ applied \in [1..Head -> Nat]
    /\ holder \in Pods \cup {Nobody, Orphan}
    /\ pc \in [Pods -> Phases]
    /\ lost \subseteq Pods
    /\ base \in [Pods -> 0..Head]
    /\ draft \in [Pods -> 0..Head]
    /\ faults \in 0..MaxFaults

\* The database of any earlier release; a database at UniqueAt has no clash,
\* and one without tables has no users.
MigrationsInit ==
    /\ revision \in 0..Head
    /\ clash \in {c \in BOOLEAN : c => revision \in 1..(UniqueAt - 1)}
    /\ applied = [v \in 1..Head |-> IF v <= revision THEN 1 ELSE 0]
    /\ holder = Nobody
    /\ pc = [p \in Pods |-> "down"]
    /\ lost = {}
    /\ base = [p \in Pods |-> 0]
    /\ draft = [p \in Pods |-> 0]
    /\ faults = 0

database == <<revision, clash, applied>>
transaction == <<base, draft>>

Goes(p, from, to) == pc[p] = from /\ pc' = [pc EXCEPT ![p] = to]
-----------------------------------------------------------------------------
(* upgrade_to_head *)

\* The pod (re)starts and opens its session.
Start(p) ==
    /\ Goes(p, "down", "polling")
    /\ lost' = lost \ {p}
    /\ UNCHANGED <<database, holder, transaction, faults>>

\* Variant: the lock is not asked for.
AcquireUnasked(p) ==
    /\ Goes(p, "polling", "locked")
    /\ p \notin lost
    /\ holder' = p
    /\ UNCHANGED <<database, lost, transaction, faults>>

\* pg_try_advisory_lock answers true.
Acquire(p) ==
    /\ Goes(p, "polling", "locked")
    /\ p \notin lost
    /\ holder = Nobody
    /\ holder' = p
    /\ UNCHANGED <<database, lost, transaction, faults>>

\* Variant: pg_advisory_lock, which waits for its holder.
GiveUpNever(p) == FALSE /\ UNCHANGED migrationsVars

\* The deadline has passed and the lock is still held elsewhere: RuntimeError.
GiveUp(p) ==
    /\ Goes(p, "polling", "down")
    /\ holder # Nobody
    /\ UNCHANGED <<database, holder, lost, transaction, faults>>

\* Alembic reads alembic_version, in the session that holds the lock.
ReadRevision(p) ==
    /\ Goes(p, "locked", "upgrading")
    /\ p \notin lost
    /\ base' = [base EXCEPT ![p] = revision]
    /\ draft' = [draft EXCEPT ![p] = revision]
    /\ UNCHANGED <<database, holder, lost, faults>>

\* The next script of alembic/versions succeeds.
RunScript(p) ==
    /\ pc[p] = "upgrading" /\ p \notin lost
    /\ draft[p] < Head
    /\ ~(clash /\ draft[p] + 1 = UniqueAt)
    /\ draft' = [draft EXCEPT ![p] = @ + 1]
    /\ UNCHANGED <<database, holder, pc, lost, base, faults>>

\* It cannot create its unique index: IntegrityError.
ScriptFails(p) ==
    /\ Goes(p, "upgrading", "aborting")
    /\ clash /\ draft[p] + 1 = UniqueAt
    /\ UNCHANGED <<database, holder, lost, transaction, faults>>

Committed(p) ==
    /\ revision' = draft[p]
    /\ applied' = [v \in 1..Head |->
                     IF base[p] < v /\ v <= draft[p] THEN applied[v] + 1 ELSE applied[v]]
    /\ UNCHANGED clash

\* All scripts have run: connection.commit().
Commit(p) ==
    /\ Goes(p, "upgrading", "releasing")
    /\ p \notin lost
    /\ draft[p] = Head
    /\ Committed(p)
    /\ UNCHANGED <<holder, lost, transaction, faults>>

\* A statement fails because the session is broken.
StatementFails(p) ==
    /\ p \in lost
    /\ \/ Goes(p, "polling", "down")
       \/ \E phase \in {"locked", "upgrading"} : Goes(p, phase, "aborting")
    /\ UNCHANGED <<database, holder, lost, transaction, faults>>

\* Variant: the pod serves whatever the migrations did.
FinishesRegardless(p) == \E phase \in {"releasing", "aborting"} : Goes(p, phase, "serving")

\* The end of the finally clause: a failed clean-up is swallowed, so that the
\* pod serves if it has committed, and else the first error stops it.
Finishes(p) == Goes(p, "releasing", "serving") \/ Goes(p, "aborting", "down")

\* rollback, then pg_advisory_unlock, or nothing to unlock in a new session.
Unlock(p) ==
    /\ Finishes(p)
    /\ holder' = IF holder = p THEN Nobody ELSE holder
    /\ UNCHANGED <<database, lost, transaction, faults>>
-----------------------------------------------------------------------------
(* Faults *)

Fault == faults < MaxFaults /\ faults' = faults + 1

\* What the end of p's session leaves of the lock: the server may not notice,
\* and it may have granted a poll whose answer is lost.
Abandoned(p) ==
    \/ holder' = Orphan /\ (holder = p \/ (pc[p] = "polling" /\ holder = Nobody))
    \/ holder' = IF holder = p THEN Nobody ELSE holder

ConnectionDrops(p) ==
    /\ Fault
    /\ pc[p] \in Phases \ {"down", "serving"} /\ p \notin lost
    /\ lost' = lost \cup {p}
    /\ Abandoned(p)
    /\ UNCHANGED <<database, pc, transaction>>

\* The commit is executed and its answer lost.
CommitUnanswered(p) ==
    /\ Fault
    /\ Goes(p, "upgrading", "aborting")
    /\ p \notin lost
    /\ draft[p] = Head
    /\ Committed(p)
    /\ lost' = lost \cup {p}
    /\ Abandoned(p)
    /\ UNCHANGED transaction

\* Variant: the connection goes back to the pool as it is.
UnlockFailsKeepsConnection(p) ==
    /\ Fault
    /\ Finishes(p)
    /\ holder = p
    /\ UNCHANGED <<database, holder, lost, transaction>>

\* The unlock fails: the connection is invalidated, which ends its session, or
\* that fails too and the lock leaks.
UnlockFails(p) ==
    /\ Fault
    /\ Finishes(p)
    /\ holder = p
    /\ holder' \in {Nobody, Orphan}
    /\ UNCHANGED <<database, lost, transaction>>

Crash(p) ==
    /\ Fault
    /\ pc[p] # "down"
    /\ pc' = [pc EXCEPT ![p] = "down"]
    /\ lost' = lost \cup {p}
    /\ Abandoned(p)
    /\ UNCHANGED <<database, transaction>>

\* The server ends a session without a client.
OrphanEnds ==
    /\ holder = Orphan
    /\ holder' = Nobody
    /\ UNCHANGED <<database, pc, lost, transaction, faults>>

PodStep(p) ==
    \/ Start(p) \/ Acquire(p) \/ GiveUp(p) \/ ReadRevision(p) \/ RunScript(p)
    \/ ScriptFails(p) \/ Commit(p) \/ StatementFails(p) \/ Unlock(p)

PodFault(p) == ConnectionDrops(p) \/ CommitUnanswered(p) \/ UnlockFails(p) \/ Crash(p)

MigrationsNext ==
    \/ \E p \in Pods : PodStep(p) \/ PodFault(p)
    \/ OrphanEnds

\* A pod runs until it serves, and the kubelet restarts one that has stopped.
MigrationsFairness == \A p \in Pods : WF_migrationsVars(PodStep(p))

MigrationsSpec == MigrationsInit /\ [][MigrationsNext]_migrationsVars /\ MigrationsFairness
-----------------------------------------------------------------------------
(* Properties *)

\* However many pods start at once, and whatever breaks, no script is applied
\* to the database twice and none is skipped (migrations.py:54-56).
EachRevisionOnce ==
    \A v \in 1..Head : applied[v] = IF v <= revision THEN 1 ELSE 0

\* A pod serves the schema of its own release, also when its clean-up failed
\* (migrations.py:83-104).
ServingAtHead ==
    \A p \in Pods : pc[p] = "serving" => revision = Head

\* A lock that its session has leaked surfaces as an error of the pods that
\* wait for it, and hangs none of them (migrations.py:24-29).
StartupEnds ==
    \A p \in Pods : pc[p] = "polling" ~> pc[p] # "polling"

\* Every pod comes up at last, through crashes, broken sessions and failed
\* clean-ups, unless the data refuses the unique indexes or the server never
\* ends an abandoned session (migrations.py:85-100).
AllServe ==
    ~clash /\ []<>(holder # Orphan) => <>[](\A p \in Pods : pc[p] = "serving")
-----------------------------------------------------------------------------
(* The inductive invariant behind EachRevisionOnce and ServingAtHead *)

\* The lock is held by a session whose pod is between its grant and its
\* release, and a pod that migrates in a working session holds it.
LockHeldByUpgrade ==
    \A p \in Pods :
        /\ holder = p => p \notin lost /\ pc[p] \in {"locked", "upgrading", "releasing", "aborting"}
        /\ pc[p] \in {"locked", "upgrading"} /\ p \notin lost => holder = p

\* Nothing has been committed since the holder of the lock read the revision.
BaseIsCurrent ==
    \A p \in Pods : pc[p] = "upgrading" /\ p \notin lost => base[p] = revision /\ base[p] <= draft[p]

ReleasedAtHead == \A p \in Pods : pc[p] = "releasing" => revision = Head

MigrationsInv ==
    /\ MigrationsTypeOK /\ LockHeldByUpgrade /\ BaseIsCurrent /\ ReleasedAtHead
    /\ EachRevisionOnce /\ ServingAtHead
=============================================================================
