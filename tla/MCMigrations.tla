---------------------------- MODULE MCMigrations ----------------------------
(* Three pods that start together on the database of any release, the two      *)
(* revisions of alembic/versions, and two faults: one for the pod that holds *)
(* the lock and one for the pod that takes over.                             *)
EXTENDS Migrations

CONSTANTS p1, p2, p3

MCPods == {p1, p2, p3}
=============================================================================
