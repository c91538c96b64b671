------------------------------ MODULE Migrator ------------------------------
(***************************************************************************)
(* The migrations of the schema: every replica runs those that are missing *)
(* before it serves, each "in a transaction" with its record.  Some of the *)
(* files have a COMMIT of their own, which ends that transaction before    *)
(* the record is made.  Replicas migrate at the same time, exit when a     *)
(* statement fails, are started again, and may stop at any point.          *)
(***************************************************************************)
EXTENDS Naturals

CONSTANTS
    Replicas,
    Last,        \* the migrations are 1..Last
    OwnCommit,   \* those whose file has a COMMIT
    Repeatable,  \* those that may run again on a schema that has them
    MaxStops,    \* bound on the stops of replicas
    NoReplica

Migrations == 1..Last

ASSUME MigratorAssumption ==
    /\ Last \in Nat
    /\ OwnCommit \subseteq Migrations
    /\ Repeatable \subseteq Migrations
    /\ MaxStops \in Nat
    /\ NoReplica \notin Replicas

VARIABLES
    schema,    \* the migrations whose changes are committed
    recorded,  \* the rows of schema_migrations
    pc,        \* where the start of a replica is
    pending,   \* the migrations that it has to apply
    locked,    \* the replica whose open transaction has changed the schema
    stops

vars == <<schema, recorded, pc, pending, locked, stops>>

TypeOK ==
    /\ schema \subseteq Migrations
    /\ recorded \subseteq Migrations
    /\ pc \in [Replicas -> {"down", "start", "execute", "record", "commit", "migrated"}]
    /\ pending \in [Replicas -> SUBSET Migrations]
    /\ locked \in Replicas \cup {NoReplica}
    /\ stops \in 0..MaxStops

Init ==
    /\ schema = {}
    /\ recorded = {}
    /\ pc = [r \in Replicas |-> "down"]
    /\ pending = [r \in Replicas |-> {}]
    /\ locked = NoReplica
    /\ stops = 0

Goto(r, from, to) ==
    /\ pc[r] = from
    /\ pc' = [pc EXCEPT ![r] = to]

\* Slip: a migration is known by its position, from zero, not its version.
PositionOfCurrent(r) == (CHOOSE m \in pending[r] : \A n \in pending[r] : m <= n) - 1

\* Slip: the pending migrations are not sorted.
AnyPending(r) == CHOOSE m \in pending[r] : \A n \in pending[r] : n <= m

\* The migrations are sorted by version.
Current(r) == CHOOSE m \in pending[r] : \A n \in pending[r] : m <= n

-----------------------------------------------------------------------------
Start(r) ==
    /\ Goto(r, "down", "start")
    /\ UNCHANGED <<schema, recorded, pending, locked, stops>>

\* Slip: only the greatest version that is recorded is looked at.
GetGreatestApplied(r) ==
    LET missing == {m \in Migrations : \A n \in recorded : m > n + 1}
    IN /\ Goto(r, "start", IF missing = {} THEN "migrated" ELSE "execute")
       /\ pending' = [pending EXCEPT ![r] = missing]
       /\ UNCHANGED <<schema, recorded, locked, stops>>

\* getAppliedMigrations; what it finds is not looked at again.
GetApplied(r) ==
    LET missing == Migrations \ recorded
    IN /\ Goto(r, "start", IF missing = {} THEN "migrated" ELSE "execute")
       /\ pending' = [pending EXCEPT ![r] = missing]
       /\ UNCHANGED <<schema, recorded, locked, stops>>

Executable(m) == m \notin schema \/ m \in Repeatable

\* The SQL of the file, which waits for a transaction that has changed the
\* schema.  A COMMIT at its end makes the changes permanent at once.
Execute(r) ==
    LET m == Current(r)
    IN /\ Goto(r, "execute", "record")
       /\ locked = NoReplica
       /\ Executable(m)
       /\ IF m \in OwnCommit
          THEN schema' = schema \cup {m} /\ locked' = locked
          ELSE schema' = schema /\ locked' = r
       /\ UNCHANGED <<recorded, pending, stops>>

\* Slip: the record is made on the pool, not in the transaction of the changes, and
\* others see it before them.
RecordOutsideTransaction(r) ==
    LET m == Current(r)
    IN /\ Goto(r, "record", "commit")
       /\ m \notin recorded
       /\ recorded' = recorded \cup {m}
       /\ UNCHANGED <<schema, pending, locked, stops>>

\* INSERT INTO schema_migrations: in the transaction, or, when the file has
\* ended it, a transaction of its own.
Record(r) ==
    LET m == Current(r)
    IN /\ Goto(r, "record", "commit")
       /\ m \notin recorded
       /\ recorded' = IF m \in OwnCommit THEN recorded \cup {m} ELSE recorded
       /\ UNCHANGED <<schema, pending, locked, stops>>

\* tx.Commit, which has nothing to commit when the file has.
Commit(r) ==
    LET m == Current(r)
    IN /\ pc[r] = "commit"
       /\ Goto(r, "commit", IF pending[r] = {m} THEN "migrated" ELSE "execute")
       /\ IF m \in OwnCommit
          THEN UNCHANGED <<schema, recorded, locked>>
          ELSE /\ schema' = schema \cup {m}
               /\ recorded' = recorded \cup {m}
               /\ locked' = NoReplica
       /\ pending' = [pending EXCEPT ![r] = @ \ {m}]
       /\ UNCHANGED stops

\* Slip: the transaction is left open.
ExitWithoutRollback(r) ==
    /\ pc' = [pc EXCEPT ![r] = "down"]
    /\ UNCHANGED <<schema, recorded, pending, locked>>

\* The start fails and the process ends; its transaction is rolled back.
Exit(r) ==
    /\ pc' = [pc EXCEPT ![r] = "down"]
    /\ locked' = IF locked = r THEN NoReplica ELSE locked
    /\ UNCHANGED <<schema, recorded, pending>>

\* The changes are there already, or the record is.
StatementFails(r) ==
    /\ \/ pc[r] = "execute" /\ locked = NoReplica /\ ~Executable(Current(r))
       \/ pc[r] = "record" /\ Current(r) \in recorded
    /\ Exit(r)
    /\ UNCHANGED stops

Stop(r) ==
    /\ stops < MaxStops
    /\ pc[r] # "down"
    /\ Exit(r)
    /\ stops' = stops + 1

Migrate(r) ==
    Start(r) \/ GetApplied(r) \/ Execute(r) \/ Record(r) \/ Commit(r) \/ StatementFails(r)

Next == \E r \in Replicas : Migrate(r) \/ Stop(r)

\* Kubernetes starts a replica again, statements end and locks are granted.
Spec == Init /\ [][Next]_vars /\ \A r \in Replicas : WF_vars(Migrate(r))

-----------------------------------------------------------------------------
\* The changes of a migration are made after those of the ones before it,
\* however many replicas migrate with a stale view of what is missing.
AppliedInOrder == \A m \in schema : 1..m \subseteq schema

\* A migration that is recorded has been applied, so none is ever skipped.
RecordedWereApplied == recorded \subseteq schema

\* A replica serves on a schema that has all migrations.
ServesMigrated == \A r \in Replicas : pc[r] = "migrated" => schema = Migrations

\* Changes that are there without their record and cannot be made again.
Stranded ==
    \E m \in schema \ (recorded \cup Repeatable) :
        \A r \in Replicas : ~(pc[r] = "record" /\ Current(r) = m)

\* "applyMigration applies a single migration in a transaction": when nobody
\* migrates, the changes of a migration are there exactly when its record is.
AppliedWithRecord ==
    (\A r \in Replicas : pc[r] \in {"down", "start", "migrated"}) => schema = recorded
=============================================================================
