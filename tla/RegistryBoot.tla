---------------------------- MODULE RegistryBoot ----------------------------
(***************************************************************************)
(* The start of a replica: main.go deletes every row of "servers" and      *)
(* imports the seed, one CreateServer for each of its entries, before it   *)
(* serves.  The deployment runs several replicas over one database, so a   *)
(* replica may start while another serves, or starts too.                  *)
(***************************************************************************)
EXTENDS Registry, Sequences

CONSTANTS
    Replicas,
    Importer,  \* the slot of Tx in which a replica imports
    Seed,      \* the valid records of seed.json
    MaxStarts  \* bound on the starts of replicas

ImportSlots == {Importer[r] : r \in Replicas}

ASSUME BootAssumption ==
    /\ Importer \in [Replicas -> Tx]
    /\ \A r1, r2 \in Replicas : Importer[r1] = Importer[r2] => r1 = r2
    /\ Replicas # {}
    /\ Seed \in Seq(Requests)
    /\ \A i \in DOMAIN Seed : Seed[i].kind = "publish"
    /\ MaxStarts \in Nat

VARIABLES
    boot,             \* where main.go is, in each replica
    toDelete,         \* the rows its DELETE has seen and has yet to take
    deleted,          \* the rows it has taken: locked until it ends
    nextRecord,       \* the record of the seed to import next
    failedCreations,  \* the records that it failed to import
    starts

startup == <<boot, toDelete, deleted, nextRecord, failedCreations, starts>>

Set(r, from, to) ==
    /\ boot[r] = from
    /\ boot' = [boot EXCEPT ![r] = to]

Start(r) ==
    /\ starts < MaxStarts
    /\ Set(r, "down", "clear")
    /\ starts' = starts + 1
    /\ nextRecord' = [nextRecord EXCEPT ![r] = 1]
    /\ failedCreations' = [failedCreations EXCEPT ![r] = {}]
    /\ UNCHANGED <<toDelete, deleted, vars>>

\* DELETE FROM servers: the statement sees the rows committed when it begins.
BeginDelete(r) ==
    /\ Set(r, "clear", "deleting")
    /\ FreeConnection
    /\ toDelete' = [toDelete EXCEPT ![r] = {k \in Key : servers[k] # NoRow}]
    /\ UNCHANGED <<deleted, nextRecord, failedCreations, starts, vars>>

\* It takes them one by one, in any order, and waits for the transaction or the
\* other DELETE that has a row, not for the advisory locks.
DeleteRow(r) ==
    /\ boot[r] = "deleting"
    /\ \E k \in toDelete[r] :
          /\ RowFree(Importer[r], k)
          /\ \A q \in Replicas : k \notin deleted[q]
          /\ toDelete' = [toDelete EXCEPT ![r] = @ \ {k}]
          /\ deleted' = [deleted EXCEPT ![r] = @ \cup {k}]
    /\ UNCHANGED <<boot, nextRecord, failedCreations, starts, vars>>

\* Its COMMIT, after which other DELETEs do not find the rows they have seen; or
\* its failure, of two that wait for each other the choice of the database, which
\* is logged before the import goes on.
Delete(r) ==
    /\ Set(r, "deleting", "import")
    /\ \/ /\ toDelete[r] = {}
          /\ servers' = [k \in Key |-> IF k \in deleted[r] THEN NoRow ELSE servers[k]]
          /\ toDelete' = [q \in Replicas |-> toDelete[q] \ deleted[r]]
       \/ /\ servers' = servers
          /\ toDelete' = [toDelete EXCEPT ![r] = {}]
    /\ deleted' = [deleted EXCEPT ![r] = {}]
    /\ UNCHANGED <<nextRecord, failedCreations, starts, now, lockOwner, pc, locals, writes>>

\* The rows that the next statement of t locks, or finds in its way.
NextRows(t) ==
    (IF pc[t] \in {"insert", "update", "setStatus"} THEN {KeyOf(t)} ELSE {})
    \cup (IF pc[t] = "unmark" \/ (pc[t] = "insert" /\ isNewLatest[t]) THEN Marked(t) ELSE {})

\* The next statement of t waits for a DELETE.
WaitsForDelete(t) == \E r \in Replicas : NextRows(t) \cap deleted[r] # {}

ServeUnlessDeleting(t) == Serve(t) /\ ~WaitsForDelete(t)

\* Slip: the import ends with the first record that fails.
AtEndOrFailure(r) ==
    nextRecord[r] > Len(Seed) \/ (nextRecord[r] > 1 /\ pc[Importer[r]] = "error")

AtEnd(r) == nextRecord[r] > Len(Seed)

\* CreateServer of the next record.
ImportRecord(r) ==
    /\ boot[r] = "import"
    /\ ~AtEnd(r)
    /\ Submit(Importer[r], Seed[nextRecord[r]])
    /\ nextRecord' = [nextRecord EXCEPT ![r] = @ + 1]
    /\ UNCHANGED <<boot, toDelete, deleted, failedCreations, starts>>

\* A statement of that CreateServer, or its failure.  Of the failures that
\* ImportFromPath collects the model keeps those that are not "the version is
\* there already".
ImportStep(r) ==
    LET t == Importer[r]
        failed == pc'[t] \in {"error", "constraint"} /\ ~CheckVersionExists(t)
    IN /\ ServeUnlessDeleting(t) \/ Abort(t)
       /\ failedCreations' = IF failed
             THEN [failedCreations EXCEPT ![r] = @ \cup {nextRecord[r] - 1}]
             ELSE failedCreations
       /\ UNCHANGED <<boot, toDelete, deleted, nextRecord, starts>>

\* seed.json is not read: the replica serves what there is.
SeedUnreadable(r) ==
    /\ nextRecord[r] = 1
    /\ Set(r, "import", "serving")
    /\ failedCreations' = [failedCreations EXCEPT ![r] = DOMAIN Seed]
    /\ UNCHANGED <<toDelete, deleted, nextRecord, starts, vars>>

\* The import ends, with failures or without, and the replica serves.
EndImport(r) ==
    /\ AtEnd(r)
    /\ pc[Importer[r]] \in Resting
    /\ Set(r, "import", "serving")
    /\ UNCHANGED <<toDelete, deleted, nextRecord, failedCreations, starts, vars>>

\* A replica stops, at any point; its transaction is rolled back.  The bound
\* leaves it a start.
Stop(r) ==
    /\ starts < MaxStarts
    /\ boot[r] # "down"
    /\ boot' = [boot EXCEPT ![r] = "down"]
    /\ toDelete' = [toDelete EXCEPT ![r] = {}]
    /\ deleted' = [deleted EXCEPT ![r] = {}]
    /\ IF pc[Importer[r]] \in Resting
       THEN UNCHANGED vars
       ELSE Rollback(Importer[r], "error")
    /\ UNCHANGED <<nextRecord, failedCreations, starts>>

\* A request of a client, to a replica that serves.
ClientStep(t) ==
    /\ \/ /\ \E r \in Replicas : boot[r] = "serving"
          /\ \E r \in Requests : Submit(t, r)
       \/ ServeUnlessDeleting(t)
       \/ Abort(t)
    /\ UNCHANGED startup

BootInit ==
    /\ Init
    /\ boot = [r \in Replicas |-> "down"]
    /\ toDelete = [r \in Replicas |-> {}]
    /\ deleted = [r \in Replicas |-> {}]
    /\ nextRecord = [r \in Replicas |-> 1]
    /\ failedCreations = [r \in Replicas |-> {}]
    /\ starts = 0

BootNext ==
    \/ \E r \in Replicas :
          \/ Start(r) \/ BeginDelete(r) \/ DeleteRow(r) \/ Delete(r)
          \/ ImportRecord(r) \/ ImportStep(r) \/ SeedUnreadable(r) \/ EndImport(r) \/ Stop(r)
    \/ \E t \in Tx \ ImportSlots : ClientStep(t)
    \/ Tick /\ UNCHANGED startup

BootSpec == BootInit /\ [][BootNext]_<<vars, startup>>

-----------------------------------------------------------------------------
SeedKey(i) == <<Seed[i].name, Seed[i].version>>

\* Once every replica serves, the seed is in the table but for the records
\* that a replica failed to import, whatever the order in which the replicas
\* cleared and imported, stopped and started again.
SeedServed ==
    (\A r \in Replicas : boot[r] = "serving") =>
        \A i \in DOMAIN Seed :
            \/ servers[SeedKey(i)] # NoRow
            \/ \E r \in Replicas : i \in failedCreations[r]

\* Of the versions of this server that are ever published none is as great.
Greatest(k) ==
    /\ k[2] \in Semvers
    /\ \A r \in Requests :
          r.kind = "publish" /\ r.name = k[1] /\ r.version # k[2] =>
             /\ r.version \in Semvers
             /\ Precedence[r.version] < Precedence[k[2]]

\* The greatest version of a server is its latest again once every replica
\* serves, although a publish may have decided on the latest mark before the
\* DELETE of a replica took away the row it was compared with.  It is not so
\* for a version greater than those of the seed: that one is gone for good,
\* and one that was compared with it may keep its "not the latest".
SeedLatest ==
    (\A r \in Replicas : boot[r] = "serving" /\ failedCreations[r] = {}) =>
        \A i \in DOMAIN Seed :
            Greatest(SeedKey(i)) =>
                servers[SeedKey(i)] # NoRow /\ servers[SeedKey(i)].isLatest
=============================================================================
