----------------------------- MODULE MCMigrator -----------------------------
(***************************************************************************)
(* A small instance of Migrator and of ReplicaLife for TLC.                *)
(***************************************************************************)
EXTENDS ReplicaLife

CONSTANTS r1, r2, r3
=============================================================================
