------------------------------ MODULE Registry ------------------------------
(***************************************************************************)
(* The write path of the registry: concurrent publishes and edits, each in *)
(* a READ COMMITTED transaction over the PostgreSQL table "servers", one   *)
(* action per SQL statement.  internal/service/registry_service.go,        *)
(* internal/database/postgres.go and the handlers publish.go and edit.go.  *)
(*                                                                         *)
(* A slot t \in Tx is a request being served by one of the replicas; when  *)
(* the request has its answer the slot may take another one.               *)
(***************************************************************************)
EXTENDS Versioning, FiniteSets

CONSTANTS
    Names,             \* server names
    Urls,              \* remote URLs
    Tx,                \* request slots
    LockIds,           \* keys of PostgreSQL's advisory locks
    HashServerName,    \* hashServerName: the lock of a server name
    Requests,          \* the requests that clients may send
    MaxServerVersions, \* maxServerVersionsPerServer
    MaxUrlRows,        \* rows that a check of a remote URL reads at most
    MaxConns,          \* size of the connection pool
    Times,             \* readings of clocks
    Stored,            \* Stored[s]: what time s is in a timestamptz column
    ClockSkew,         \* distance of a replica's clock from the database's
    MaxNow,            \* bound of the database's clock
    NoRow, NoWrite, NoTx, NoRequest

Key == Names \X Versions

Status == {"active", "deprecated", "deleted"}

\* A row of "servers".  Of the JSON value the model keeps the remote URLs and
\* whether its packages pass the validation against their package registries.
Row == [status: Status, publishedAt: Times, updatedAt: Times, isLatest: BOOLEAN,
        remotes: SUBSET Urls, packagesOK: BOOLEAN]

\* A publish, or an edit; an edit changes the status unless newStatus = "none".
Request == [kind: {"publish", "edit"}, name: Names, version: Versions,
            remotes: SUBSET Urls, packagesOK: BOOLEAN,
            newStatus: Status \cup {"none"}]

ASSUME RegistryAssumption ==
    /\ HashServerName \in [Names -> LockIds]
    /\ Requests \subseteq Request
    /\ MaxServerVersions \in Nat \ {0}
    /\ MaxUrlRows \in Nat \ {0}
    /\ MaxConns \in Nat \ {0}
    /\ ClockSkew \in Nat
    /\ MaxNow \in Nat
    /\ NoRow \notin Row
    /\ NoWrite \notin Row \cup {NoRow}
    /\ NoTx \notin Tx
    /\ NoRequest \notin Request

\* The replicas read nanoseconds, a timestamptz column keeps microseconds.
ASSUME StoredAssumption ==
    /\ Times \subseteq Nat
    /\ 0..MaxNow \subseteq Times
    /\ Stored \in [Times -> Times]
    /\ \A s \in Times : Stored[s] <= s /\ Stored[Stored[s]] = Stored[s]
    /\ \A s1, s2 \in Times : s1 <= s2 => Stored[s1] <= Stored[s2]

VARIABLES
    servers,      \* the committed table
    now,          \* the clock of the database
    lockOwner,    \* the transaction that holds each advisory lock
    pc,           \* where each slot is in the code
    req,          \* the request it serves
    publishTime,  \* createServerInTransaction's publishTime
    startTime,    \* NOW(): the time its transaction began
    unchecked,    \* remote URLs validateNoDuplicateRemoteURLs has yet to check
    isNewLatest,  \* createServerInTransaction's isNewLatest
    writes        \* uncommitted row versions of its transaction

locals == <<req, publishTime, startTime, unchecked, isNewLatest>>
vars == <<servers, now, lockOwner, pc, locals, writes>>

Outcomes == {"ok", "error", "constraint"}
Resting  == {"idle"} \cup Outcomes
InTx     == {"validate", "load", "lock", "urls", "count", "exists", "latest",
             "unmark", "insert", "update", "setStatus", "commit"}
Holding  == InTx \ {"validate", "load", "lock"}

NoWrites == [k \in Key |-> NoWrite]

-----------------------------------------------------------------------------
\* What a statement of transaction t reads: READ COMMITTED, so the table as
\* committed when the statement runs, under the transaction's own writes.
Read(t, k) == IF writes[t][k] = NoWrite THEN servers[k] ELSE writes[t][k]

Exists(t, k) == Read(t, k) # NoRow

VersionsOf(t, n) == {v \in Versions : Exists(t, <<n, v>>)}

LatestOf(t, n) == {v \in VersionsOf(t, n) : Read(t, <<n, v>>).isLatest}

\* A statement that writes a row waits for the transaction that has written
\* it and has not ended.
RowFree(t, k) == \A u \in Tx \ {t} : writes[u][k] = NoWrite

KeyOf(t) == <<req[t].name, req[t].version>>

Step(t, from, to) ==
    /\ pc[t] = from
    /\ pc' = [pc EXCEPT ![t] = to]

Write(t, k, row) == writes' = [writes EXCEPT ![t][k] = row]

\* Slip: the transaction of a request that has ended keeps its connection.
LeakedConnections ==
    Cardinality({t \in Tx : pc[t] \notin {"idle", "handler", "begin"}}) < MaxConns

FreeConnection == Cardinality({t \in Tx : pc[t] \in InTx}) < MaxConns

\* An advisory lock of the transaction is released when it ends.
Released(t) ==
    [l \in LockIds |-> IF lockOwner[l] = t THEN NoTx ELSE lockOwner[l]]

\* The end of transaction and request; the slot's locals mean nothing any more.
End(t, outcome) ==
    /\ pc' = [pc EXCEPT ![t] = outcome]
    /\ lockOwner' = Released(t)
    /\ writes' = [writes EXCEPT ![t] = NoWrites]
    /\ req' = [req EXCEPT ![t] = NoRequest]
    /\ publishTime' = [publishTime EXCEPT ![t] = 0]
    /\ startTime' = [startTime EXCEPT ![t] = 0]
    /\ unchecked' = [unchecked EXCEPT ![t] = {}]
    /\ isNewLatest' = [isNewLatest EXCEPT ![t] = FALSE]

Rollback(t, outcome) ==
    /\ End(t, outcome)
    /\ UNCHANGED <<servers, now>>

-----------------------------------------------------------------------------
Init ==
    /\ servers = [k \in Key |-> NoRow]
    /\ now = 0
    /\ lockOwner = [l \in LockIds |-> NoTx]
    /\ pc = [t \in Tx |-> "idle"]
    /\ req = [t \in Tx |-> NoRequest]
    /\ publishTime = [t \in Tx |-> 0]
    /\ startTime = [t \in Tx |-> 0]
    /\ unchecked = [t \in Tx |-> {}]
    /\ isNewLatest = [t \in Tx |-> FALSE]
    /\ writes = [t \in Tx |-> NoWrites]

\* A request reaches its handler.
Submit(t, r) ==
    /\ pc[t] \in Resting
    /\ pc' = [pc EXCEPT ![t] = IF r.kind = "publish" THEN "begin" ELSE "handler"]
    /\ req' = [req EXCEPT ![t] = r]
    /\ UNCHANGED <<servers, now, lockOwner, publishTime, startTime, unchecked,
                   isNewLatest, writes>>

\* Slip: only "active" counts as an undelete.
UndeletesToActive(t) ==
    req[t].newStatus = "active" /\ servers[KeyOf(t)].status = "deleted"

Undeletes(t) ==
    req[t].newStatus \notin {"none", "deleted"} /\ servers[KeyOf(t)].status = "deleted"

\* The edit handler reads the current row outside any transaction, answers
\* 404 without one, and refuses to change the status of a deleted server.
ReadCurrent(t) ==
    /\ pc[t] = "handler"
    /\ FreeConnection
    /\ IF servers[KeyOf(t)] = NoRow \/ Undeletes(t)
       THEN Rollback(t, "error")
       ELSE /\ Step(t, "handler", "begin")
            /\ UNCHANGED <<servers, now, lockOwner, locals, writes>>

\* InTransaction: a connection of the pool, and BEGIN, which fixes NOW().
Begin(t) ==
    /\ Step(t, "begin", IF req[t].kind = "publish" THEN "validate" ELSE "load")
    /\ FreeConnection
    /\ startTime' = [startTime EXCEPT ![t] = Stored[now]]
    /\ UNCHANGED <<servers, now, lockOwner, req, publishTime, unchecked,
                   isNewLatest, writes>>

\* ValidatePublishRequest, then publishTime := time.Now() of the replica; the
\* lock is not yet held.
ValidatePublish(t) ==
    /\ pc[t] = "validate"
    /\ IF ~req[t].packagesOK
       THEN Rollback(t, "error")
       ELSE /\ Step(t, "validate", "lock")
            /\ \E s \in Times :
                  /\ now - ClockSkew <= s /\ s <= now + ClockSkew
                  /\ publishTime' = [publishTime EXCEPT ![t] = s]
            /\ UNCHANGED <<servers, now, lockOwner, req, startTime, unchecked,
                           isNewLatest, writes>>

\* Slip: a request that changes the status is not validated.
SkipOnStatusChange(t) == req[t].newStatus # "none"

\* skipRegistryValidation: the row is deleted, or about to be.
SkipRegistryValidation(t) ==
    "deleted" \in {Read(t, KeyOf(t)).status, req[t].newStatus}

\* updateServerInTransaction before the lock: the row is read, and the packages
\* of the request are validated or not.
LoadAndValidate(t) ==
    /\ pc[t] = "load"
    /\ IF \/ ~Exists(t, KeyOf(t))
          \/ ~SkipRegistryValidation(t) /\ ~req[t].packagesOK
       THEN Rollback(t, "error")
       ELSE /\ Step(t, "load", "lock")
            /\ UNCHANGED <<servers, now, lockOwner, locals, writes>>

LockOf(t) == HashServerName[req[t].name]

\* Also a slip in place of AcquirePublishLock: pg_try_advisory_xact_lock, its
\* answer ignored.
TakeLock(t) ==
    /\ Step(t, "lock", "urls")
    /\ lockOwner' = [lockOwner EXCEPT ![LockOf(t)] = t]
    /\ unchecked' = [unchecked EXCEPT ![t] = req[t].remotes]
    /\ UNCHANGED <<servers, now, req, publishTime, startTime, isNewLatest, writes>>

\* pg_advisory_xact_lock(hashServerName(name)): waits, and lasts until the
\* transaction ends.
AcquirePublishLock(t) ==
    /\ pc[t] = "lock"
    /\ lockOwner[LockOf(t)] = NoTx
    /\ TakeLock(t)

\* The rows that have this remote URL, whatever their status.
Using(t, url) == {k \in Key : Exists(t, k) /\ url \in Read(t, k).remotes}

\* Slip: the rows are limited first and filtered then.
LimitedThenFiltered(t, url) ==
    {rows \cap Using(t, url) :
        rows \in {R \in SUBSET {k \in Key : Exists(t, k)} :
                     Cardinality(R) = MaxUrlRows \/ \A k \in Key : Exists(t, k) => k \in R}}

\* ListServers with a filter and a limit: all such rows, or that many of them.
\* The collation says which come first; here they may be any.
ConflictingServers(t, url) ==
    {rows \in SUBSET Using(t, url) :
        rows = Using(t, url) \/ Cardinality(rows) = MaxUrlRows}

OfOtherServer(t, rows) == \E k \in rows : k[1] # req[t].name

\* Slip: the loop returns after its first remote.
CheckFirstRemoteUrl(t) ==
    /\ pc[t] = "urls"
    /\ \E url \in unchecked[t] : \E rows \in ConflictingServers(t, url) :
          IF OfOtherServer(t, rows)
          THEN Rollback(t, "error")
          ELSE /\ unchecked' = [unchecked EXCEPT ![t] = {}]
               /\ UNCHANGED <<servers, now, lockOwner, pc, req, publishTime,
                              startTime, isNewLatest, writes>>

\* validateNoDuplicateRemoteURLs: one query for each remote of the request.
CheckRemoteUrl(t) ==
    /\ pc[t] = "urls"
    /\ \E url \in unchecked[t] : \E rows \in ConflictingServers(t, url) :
          IF OfOtherServer(t, rows)
          THEN Rollback(t, "error")
          ELSE /\ unchecked' = [unchecked EXCEPT ![t] = @ \ {url}]
               /\ UNCHANGED <<servers, now, lockOwner, pc, req, publishTime,
                              startTime, isNewLatest, writes>>

RemoteUrlsChecked(t) ==
    /\ unchecked[t] = {}
    /\ Step(t, "urls", IF req[t].kind = "publish" THEN "count" ELSE "update")
    /\ UNCHANGED <<servers, now, lockOwner, locals, writes>>

\* Slip: one version too many.
BeyondLimit(t) == Cardinality(VersionsOf(t, req[t].name)) > MaxServerVersions

AtLimit(t) == Cardinality(VersionsOf(t, req[t].name)) >= MaxServerVersions

CountServerVersions(t) ==
    /\ pc[t] = "count"
    /\ IF AtLimit(t)
       THEN Rollback(t, "error")
       ELSE /\ Step(t, "count", "exists")
            /\ UNCHANGED <<servers, now, lockOwner, locals, writes>>

\* Slip: the check is left to the primary key.
AssumeNewVersion(t) ==
    /\ Step(t, "exists", "latest")
    /\ UNCHANGED <<servers, now, lockOwner, locals, writes>>

CheckVersionExists(t) ==
    /\ pc[t] = "exists"
    /\ IF Exists(t, KeyOf(t))
       THEN Rollback(t, "error")
       ELSE /\ Step(t, "exists", "latest")
            /\ UNCHANGED <<servers, now, lockOwner, locals, writes>>

\* Slip: existingPublishedAt keeps its zero value.
NewerThanUndated(t, v) == CompareVersions(req[t].version, v, publishTime[t], 0) > 0

\* The version of request t, compared with version v as stored.
Newer(t, v) ==
    CompareVersions(req[t].version, v, publishTime[t],
                    Read(t, <<req[t].name, v>>).publishedAt) > 0

\* GetCurrentLatestVersion, and the decision it is read for.
GetCurrentLatestVersion(t) ==
    LET latest == LatestOf(t, req[t].name)
    IN /\ pc[t] = "latest"
       /\ \/ /\ latest = {}
             /\ isNewLatest' = [isNewLatest EXCEPT ![t] = TRUE]
             /\ pc' = [pc EXCEPT ![t] = "insert"]
          \/ \E v \in latest :
                /\ isNewLatest' = [isNewLatest EXCEPT ![t] = Newer(t, v)]
                /\ pc' = [pc EXCEPT ![t] = IF Newer(t, v) THEN "unmark" ELSE "insert"]
       /\ UNCHANGED <<servers, now, lockOwner, req, publishTime, startTime,
                      unchecked, writes>>

\* The keys that UPDATE ... WHERE server_name = $1 AND is_latest = true finds.
Marked(t) == {<<req[t].name, v>> : v \in LatestOf(t, req[t].name)}

Unmarked(t, k) == [Read(t, k) EXCEPT !.isLatest = FALSE]

\* Slip: the statement runs on the pool instead of the transaction.
UnmarkOutsideTransaction(t) ==
    /\ Step(t, "unmark", "insert")
    /\ servers' = [k \in Key |-> IF k \in Marked(t) THEN Unmarked(t, k) ELSE servers[k]]
    /\ UNCHANGED <<now, lockOwner, locals, writes>>

\* Slip: a version is the latest only if another has given up the mark for it.
UnmarkOrNotLatest(t) ==
    /\ Step(t, "unmark", "insert")
    /\ isNewLatest' = [isNewLatest EXCEPT ![t] = Marked(t) # {}]
    /\ writes' = [writes EXCEPT ![t] =
           [k \in Key |-> IF k \in Marked(t) THEN Unmarked(t, k) ELSE @[k]]]
    /\ UNCHANGED <<servers, now, lockOwner, req, publishTime, startTime, unchecked>>

UnmarkAsLatest(t) ==
    /\ Step(t, "unmark", "insert")
    /\ \A k \in Marked(t) : RowFree(t, k)
    /\ writes' = [writes EXCEPT ![t] =
           [k \in Key |-> IF k \in Marked(t) THEN Unmarked(t, k) ELSE @[k]]]
    /\ UNCHANGED <<servers, now, lockOwner, locals>>

NewRowWith(t, status) ==
    [status |-> status, publishedAt |-> Stored[publishTime[t]],
     updatedAt |-> Stored[publishTime[t]], isLatest |-> isNewLatest[t],
     remotes |-> req[t].remotes, packagesOK |-> req[t].packagesOK]

\* Slip: the status of the new row is taken from the request.
NewRowAsRequested(t) == NewRowWith(t, req[t].newStatus)

NewRow(t) == NewRowWith(t, "active")

\* The primary key and idx_unique_latest_per_server of migration 009: a
\* conflict with a row of a transaction that has not ended is waited for, one
\* with a row that is there fails the statement.
Insert(t) ==
    LET n == req[t].name
        conflict == \/ Exists(t, KeyOf(t))
                    \/ isNewLatest[t] /\ LatestOf(t, n) # {}
    IN /\ pc[t] = "insert"
       /\ RowFree(t, KeyOf(t))
       /\ isNewLatest[t] => \A v \in Versions : RowFree(t, <<n, v>>)
       /\ IF conflict
          THEN Rollback(t, "constraint")
          ELSE /\ Step(t, "insert", "commit")
               /\ Write(t, KeyOf(t), NewRow(t))
               /\ UNCHANGED <<servers, now, lockOwner, locals>>

\* Slip: the row is written from the request, which has no metadata.
EditedRowWithoutMetadata(t) ==
    [Read(t, KeyOf(t)) EXCEPT !.remotes = req[t].remotes,
                              !.packagesOK = req[t].packagesOK,
                              !.updatedAt = startTime[t],
                              !.isLatest = FALSE]

\* SET value, updated_at = NOW(): the row as it is now, not as ReadCurrent or
\* LoadAndValidate found it.
EditedRow(t) ==
    [Read(t, KeyOf(t)) EXCEPT !.remotes = req[t].remotes,
                              !.packagesOK = req[t].packagesOK,
                              !.updatedAt = startTime[t]]

AfterUpdate(t) == IF req[t].newStatus = "none" THEN "commit" ELSE "setStatus"

UpdateRow(t) ==
    /\ pc[t] = "update"
    /\ RowFree(t, KeyOf(t))
    /\ IF ~Exists(t, KeyOf(t))
       THEN Rollback(t, "error")
       ELSE /\ Step(t, "update", AfterUpdate(t))
            /\ Write(t, KeyOf(t), EditedRow(t))
            /\ UNCHANGED <<servers, now, lockOwner, locals>>

WithStatus(t, k) == [Read(t, k) EXCEPT !.status = req[t].newStatus,
                                       !.updatedAt = startTime[t]]

\* Slip: WHERE server_name = $2, without the version.
SetStatusOfAllVersions(t) ==
    /\ Step(t, "setStatus", "commit")
    /\ writes' = [writes EXCEPT ![t] =
           [k \in Key |-> IF k[1] = req[t].name /\ Exists(t, k)
                          THEN WithStatus(t, k) ELSE @[k]]]
    /\ UNCHANGED <<servers, now, lockOwner, locals>>

\* The status is set without another look at the status it replaces.
SetServerStatus(t) ==
    /\ pc[t] = "setStatus"
    /\ RowFree(t, KeyOf(t))
    /\ IF ~Exists(t, KeyOf(t))
       THEN Rollback(t, "error")
       ELSE /\ Step(t, "setStatus", "commit")
            /\ Write(t, KeyOf(t), WithStatus(t, KeyOf(t)))
            /\ UNCHANGED <<servers, now, lockOwner, locals>>

\* COMMIT makes the writes visible at once.  Its answer may be lost: the
\* client is then told of an error although the writes are there.
Commit(t) ==
    /\ pc[t] = "commit"
    /\ servers' = [k \in Key |-> Read(t, k)]
    /\ \E outcome \in {"ok", "error"} : End(t, outcome)
    /\ UNCHANGED now

\* A client that goes away, a failing statement, a replica that stops or a
\* check of the handler on the token: the transaction, if any, is rolled back.
Abort(t) ==
    /\ pc[t] \notin Resting
    /\ Rollback(t, "error")

Tick ==
    /\ now < MaxNow
    /\ now' = now + 1
    /\ UNCHANGED <<servers, lockOwner, pc, locals, writes>>

Publish(t) ==
    \/ ValidatePublish(t) \/ CountServerVersions(t) \/ CheckVersionExists(t)
    \/ GetCurrentLatestVersion(t) \/ UnmarkAsLatest(t) \/ Insert(t)

Edit(t) == ReadCurrent(t) \/ LoadAndValidate(t) \/ UpdateRow(t) \/ SetServerStatus(t)

\* The next statement of the request in slot t.
Serve(t) ==
    \/ Publish(t) \/ Edit(t) \/ Begin(t) \/ AcquirePublishLock(t)
    \/ CheckRemoteUrl(t) \/ RemoteUrlsChecked(t) \/ Commit(t)

Next ==
    \/ \E t \in Tx : \/ \E r \in Requests : Submit(t, r)
                     \/ Serve(t)
                     \/ Abort(t)
    \/ Tick

Spec == Init /\ [][Next]_vars

\* A request goes on unless it waits for a connection or an advisory lock.
\* Both are granted in the order they are asked for, so no request waits
\* forever for one that is freed again and again: strong fairness.
Fairness == \A t \in Tx : SF_vars(Serve(t))

FairSpec == Spec /\ Fairness

-----------------------------------------------------------------------------
TypeOK ==
    /\ servers \in [Key -> Row \cup {NoRow}]
    /\ now \in 0..MaxNow
    /\ lockOwner \in [LockIds -> Tx \cup {NoTx}]
    /\ pc \in [Tx -> Resting \cup {"handler", "begin"} \cup InTx]
    /\ req \in [Tx -> Requests \cup {NoRequest}]
    /\ \A t \in Tx : pc[t] \notin Resting => req[t] \in Requests
    /\ \A t \in Tx : pc[t] = "setStatus" => req[t].newStatus \in Status
    /\ publishTime \in [Tx -> Times]
    /\ startTime \in [Tx -> Times]
    /\ unchecked \in [Tx -> SUBSET Urls]
    /\ isNewLatest \in [Tx -> BOOLEAN]
    /\ writes \in [Tx -> [Key -> Row \cup {NoWrite}]]

\* Two transactions on names of the same lock are never both between
\* AcquirePublishLock and the end of their transaction.
PublishExclusion ==
    \A t, u \in Tx :
        /\ t # u
        /\ pc[t] \in Holding
        /\ pc[u] \in Holding
        => HashServerName[req[t].name] # HashServerName[req[u].name]

Published(n) == {v \in Versions : servers[<<n, v>>] # NoRow}

\* A server with a version has exactly one that is the latest, and no other
\* version of it is greater under CompareVersions on the stored times: what
\* GET .../versions/latest and the filter version=latest rely on, whatever
\* the order in which concurrent publishes took their publishTime and the lock.
LatestIsGreatest ==
    \A n \in Names : Published(n) # {} =>
        \E v \in Published(n) :
            /\ servers[<<n, v>>].isLatest
            /\ \A w \in Published(n) \ {v} :
                  /\ ~servers[<<n, w>>].isLatest
                  /\ CompareVersions(w, v, servers[<<n, w>>].publishedAt,
                                     servers[<<n, v>>].publishedAt) <= 0

\* A client that asks for the latest version again is never answered with one
\* that is less than the answer it had.
LatestNeverGoesBack ==
    [][\A n \in Names, v, w \in Versions :
         /\ servers[<<n, v>>] # NoRow
         /\ servers[<<n, v>>].isLatest
         /\ servers'[<<n, w>>] # NoRow
         /\ servers'[<<n, w>>].isLatest
         => CompareVersions(w, v, servers'[<<n, w>>].publishedAt,
                            servers[<<n, v>>].publishedAt) >= 0]_servers

\* The limit on the versions of a server, counted before the insert, holds
\* of what concurrent publishes have inserted.
VersionLimit ==
    \A n \in Names : Cardinality(Published(n)) <= MaxServerVersions

\* No publish ever meets the unique constraints of the table: they are the
\* safety net under the advisory lock, not a way to answer.
NoConstraintError == \A t \in Tx : pc[t] # "constraint"

\* No two servers have a remote URL in common, as validateNoDuplicateRemoteURLs
\* says.
RemoteUrlUnique ==
    \A k1, k2 \in Key :
        /\ servers[k1] # NoRow
        /\ servers[k2] # NoRow
        /\ k1[1] # k2[1]
        => servers[k1].remotes \cap servers[k2].remotes = {}

\* "Once deleted, they stay deleted", as the edit handler says.
DeletedStaysDeleted ==
    [][\A k \in Key : /\ servers[k] # NoRow
                      /\ servers[k].status = "deleted"
                      => servers'[k].status = "deleted"]_servers

\* Only deleted servers have packages that were not validated.
LiveServersValidated ==
    \A k \in Key :
        /\ servers[k] # NoRow
        /\ servers[k].status # "deleted"
        => servers[k].packagesOK

\* Every request gets its answer: waiting for the lock with a connection in
\* hand never leaves everyone waiting.
EveryRequestEnds == \A t \in Tx : pc[t] \notin Resting ~> pc[t] \in Resting

\* The table changes as if each publish and each edit were one atomic step.
Catalog == INSTANCE ServerCatalog WITH servers <- servers
ImplementsCatalog == Catalog!Spec
=============================================================================
