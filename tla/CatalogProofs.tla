--------------------------- MODULE CatalogProofs ---------------------------
(***************************************************************************)
(* Registry implements ServerCatalog: what a transaction commits, after    *)
(* statements between which others ran, is one atomic publish or edit of   *)
(* the table as it is at the commit.  From this, the mark of the latest    *)
(* never moves to a lesser version.                                        *)
(***************************************************************************)
EXTENDS RegistryProofs

\* The new version of t is greater than every row of its server marked latest.
Overtakes(t) ==
    \A w \in Versions :
        LET row == servers[<<req[t].name, w>>]
        IN row # NoRow /\ row.isLatest =>
               CompareVersions(req[t].version, w, publishTime[t], row.publishedAt) > 0

\* The rows that t unmarks.
ToUnmark(t, k) ==
    k[1] = req[t].name /\ servers[k] # NoRow /\ servers[k].isLatest

\* The rows that a publish has written, before its insert and after it.
UnmarkedRows(t) ==
    [k \in Key |-> IF isNewLatest[t] /\ ToUnmark(t, k)
                   THEN [servers[k] EXCEPT !.isLatest = FALSE] ELSE NoWrite]

InsertedRows(t) == [UnmarkedRows(t) EXCEPT ![KeyOf(t)] = NewRow(t)]

\* The row that an edit leaves, with some status.
EditedTo(t, status) ==
    [servers[KeyOf(t)] EXCEPT !.status = status, !.remotes = req[t].remotes,
                              !.packagesOK = req[t].packagesOK,
                              !.updatedAt = startTime[t]]

\* The status of the row that an edit has written: the one that it found, until
\* SetServerStatus writes that of the request.
StatusWritten(t) ==
    IF pc[t] = "setStatus" \/ req[t].newStatus = "none"
    THEN servers[KeyOf(t)].status ELSE req[t].newStatus

\* The part of the code that a slot is in fits its request.
FitsRequest(t) ==
    /\ pc[t] \in {"validate", "count", "exists", "latest", "unmark", "insert"} =>
          req[t].kind = "publish"
    /\ pc[t] \in {"handler", "load", "update", "setStatus"} => req[t].kind = "edit"
    /\ pc[t] \in InTx \ {"validate"} /\ req[t].kind = "publish" => req[t].packagesOK
    /\ Stored[startTime[t]] = startTime[t]

\* What t has written is one publish or one edit of the committed table.
Prepared(t) ==
    /\ pc[t] \in {"unmark", "insert"} => (isNewLatest[t] <=> Overtakes(t))
    /\ pc[t] = "insert" =>
          /\ servers[KeyOf(t)] = NoRow
          /\ HasRoom(servers, req[t].name)
          /\ writes[t] = UnmarkedRows(t)
    /\ pc[t] = "commit" /\ req[t].kind = "publish" =>
          /\ servers[KeyOf(t)] = NoRow
          /\ HasRoom(servers, req[t].name)
          /\ isNewLatest[t] <=> Overtakes(t)
          /\ writes[t] = InsertedRows(t)
    /\ pc[t] \in {"setStatus", "commit"} /\ req[t].kind = "edit" =>
          /\ servers[KeyOf(t)] # NoRow
          /\ writes[t] = [NoWrites EXCEPT ![KeyOf(t)] = EditedTo(t, StatusWritten(t))]

CInv ==
    /\ IInv
    /\ \A t \in Tx : FitsRequest(t) /\ Prepared(t)

-----------------------------------------------------------------------------
(* Where a slot is fits its request. *)

\* A step of one slot leaves the start times of the others alone.
LEMMA StartFrame ==
    ASSUME TypeOK, NEW t \in Tx, NEW u \in Tx \ {t}, StepOf(t)
    PROVE  startTime'[u] = startTime[u]
<1>1. CASE \E o : End(t, o)
  BY <1>1 DEF End, TypeOK
<1>2. CASE ~\E o : End(t, o)
  <2>1. \A o : ~Rollback(t, o)
    BY <1>2 DEF Rollback
  <2>2. ASSUME NEW r \in Requests, Submit(t, r) PROVE startTime'[u] = startTime[u]
    BY <2>2 DEF Submit
  <2>3. ASSUME ReadCurrent(t) \/ LoadAndValidate(t) \/ CountServerVersions(t) \/ CheckVersionExists(t)
        PROVE  startTime'[u] = startTime[u]
    BY <2>1, <2>3
    DEF ReadCurrent, LoadAndValidate, CountServerVersions, CheckVersionExists, locals
  <2>4. ASSUME Begin(t) \/ AcquirePublishLock(t) \/ RemoteUrlsChecked(t)
        PROVE  startTime'[u] = startTime[u]
    BY <2>4 DEF Begin, AcquirePublishLock, TakeLock, RemoteUrlsChecked, locals, TypeOK
  <2>5. ASSUME ValidatePublish(t) \/ CheckRemoteUrl(t) \/ GetCurrentLatestVersion(t)
               \/ UnmarkAsLatest(t)
        PROVE  startTime'[u] = startTime[u]
    BY <2>1, <2>5
    DEF ValidatePublish, CheckRemoteUrl, GetCurrentLatestVersion, UnmarkAsLatest, locals
  <2>6. ASSUME Insert(t) \/ UpdateRow(t) \/ SetServerStatus(t)
        PROVE  startTime'[u] = startTime[u]
    BY <2>1, <2>6 DEF Insert, UpdateRow, SetServerStatus, locals
  <2>. QED
    BY <1>2, <2>1, <2>2, <2>3, <2>4, <2>5, <2>6
    DEF StepOf, Serve, Publish, Edit, Commit, Abort
<1>. QED  BY <1>1, <1>2

\* Each step of a slot leads to a place that fits the request.
LEMMA OwnFits ==
    ASSUME IInv, NEW t \in Tx, FitsRequest(t), StepOf(t)
    PROVE  FitsRequest(t)'
<1>. USE DEF IInv, TypeOK
<1>0. Stored[0] = 0 /\ \A s \in Times : Stored[Stored[s]] = Stored[s] /\ Stored[s] \in Times
  <2>1. 0 \in Times /\ now \in Times
    BY RegistryAssumption, StoredAssumption
  <2>2. Stored[0] \in Nat /\ Stored[0] <= 0
    BY <2>1, StoredAssumption
  <2>. QED  BY <2>2, StoredAssumption
<1>1. CASE \E o \in Outcomes : End(t, o)
  <2>1. pc'[t] \in Outcomes /\ startTime'[t] = 0
    BY <1>1 DEF End
  <2>. QED  BY <1>0, <2>1 DEF FitsRequest, InTx, Outcomes
<1>2. CASE ~\E o \in Outcomes : End(t, o)
  <2>0. ~Rollback(t, "error") /\ ~Rollback(t, "constraint")
    BY <1>2 DEF Rollback, Outcomes
  <2>1. ASSUME NEW r \in Requests, Submit(t, r) PROVE FitsRequest(t)'
    BY <2>1, RegistryAssumption DEF Submit, FitsRequest, InTx, Request
  <2>2. ASSUME Begin(t) PROVE FitsRequest(t)'
    <3>1. now \in Times
      BY StoredAssumption
    <3>2. req[t].kind \in {"publish", "edit"}
      BY <2>2, KeyType DEF Begin, Step, Request, Resting, Outcomes
    <3>. QED  BY <1>0, <2>2, <3>1, <3>2 DEF Begin, Step, FitsRequest, InTx
  <2>3. ASSUME ReadCurrent(t) \/ ValidatePublish(t) \/ LoadAndValidate(t)
               \/ AcquirePublishLock(t)
        PROVE  FitsRequest(t)'
    BY <2>0, <2>3
    DEF ReadCurrent, ValidatePublish, LoadAndValidate, AcquirePublishLock, TakeLock,
        Step, locals, FitsRequest, InTx
  <2>4. ASSUME CheckRemoteUrl(t) PROVE FitsRequest(t)'
    BY <2>0, <2>4 DEF CheckRemoteUrl, FitsRequest
  <2>5. ASSUME RemoteUrlsChecked(t) PROVE FitsRequest(t)'
    <3>1. req[t].kind \in {"publish", "edit"}
      BY <2>5, KeyType DEF RemoteUrlsChecked, Step, Request, Resting, Outcomes
    <3>. QED  BY <2>5, <3>1 DEF RemoteUrlsChecked, Step, locals, FitsRequest, InTx
  <2>6. ASSUME CountServerVersions(t) \/ CheckVersionExists(t) \/ GetCurrentLatestVersion(t)
               \/ UnmarkAsLatest(t)
        PROVE  FitsRequest(t)'
    BY <2>0, <2>6
    DEF CountServerVersions, CheckVersionExists, GetCurrentLatestVersion, UnmarkAsLatest,
        Step, locals, FitsRequest, InTx
  <2>7. ASSUME Insert(t) \/ UpdateRow(t) \/ SetServerStatus(t) PROVE FitsRequest(t)'
    BY <2>0, <2>7
    DEF Insert, UpdateRow, SetServerStatus, AfterUpdate, Step, locals, FitsRequest, InTx
  <2>. QED
    BY <1>2, <2>0, <2>1, <2>2, <2>3, <2>4, <2>5, <2>6, <2>7
    DEF StepOf, Serve, Publish, Edit, Commit, Abort, Outcomes
<1>. QED  BY <1>1, <1>2

-----------------------------------------------------------------------------
(* What others have prepared survives a step of t. *)

\* What t has prepared concerns its own locals, its writes and the committed rows
\* of its server.
LEMMA PreparedLocal ==
    ASSUME TypeOK, NEW t \in Tx, Prepared(t), pc[t] \in Holding,
           pc'[t] = pc[t], req'[t] = req[t], writes'[t] = writes[t],
           publishTime'[t] = publishTime[t], isNewLatest'[t] = isNewLatest[t],
           startTime'[t] = startTime[t],
           \A v \in Versions : servers'[<<req[t].name, v>>] = servers[<<req[t].name, v>>]
    PROVE  Prepared(t)'
<1>. DEFINE n == req[t].name
<1>1. n \in Names /\ KeyOf(t) \in Key /\ KeyOf(t) = <<n, req[t].version>> /\ req[t].version \in Versions
  BY KeyType DEF Request, Holding, InTx, Resting, Outcomes, KeyOf
<1>2. KeyOf(t)' = KeyOf(t) /\ servers'[KeyOf(t)] = servers[KeyOf(t)]
  BY <1>1 DEF KeyOf
<1>3. Overtakes(t)' <=> Overtakes(t)
  BY DEF Overtakes
<1>4. \A k \in Key : k[1] = n => servers'[k] = servers[k]
  BY DEF Key
<1>5. UnmarkedRows(t)' = UnmarkedRows(t)
  BY <1>4 DEF UnmarkedRows, ToUnmark
<1>6. InsertedRows(t)' = InsertedRows(t)
  BY <1>2, <1>5 DEF InsertedRows, NewRow, NewRowWith
<1>7. EditedTo(t, StatusWritten(t))' = EditedTo(t, StatusWritten(t))
  BY <1>2 DEF EditedTo, StatusWritten
<1>8. HasRoom(servers', n) = HasRoom(servers, n)
  BY DEF HasRoom, VersionsIn
<1>9. pc[t] \in {"unmark", "insert"} => (isNewLatest'[t] <=> Overtakes(t)')
  BY <1>3 DEF Prepared
<1>10. pc[t] = "insert" =>
          servers'[KeyOf(t)'] = NoRow /\ HasRoom(servers', n) /\ writes'[t] = UnmarkedRows(t)'
  BY <1>2, <1>5, <1>8 DEF Prepared
<1>11. pc[t] = "commit" /\ req[t].kind = "publish" =>
          /\ servers'[KeyOf(t)'] = NoRow /\ HasRoom(servers', n)
          /\ isNewLatest'[t] <=> Overtakes(t)'
          /\ writes'[t] = InsertedRows(t)'
  BY <1>2, <1>3, <1>6, <1>8 DEF Prepared
<1>12. pc[t] \in {"setStatus", "commit"} /\ req[t].kind = "edit" =>
          /\ servers'[KeyOf(t)'] # NoRow
          /\ writes'[t] = [NoWrites EXCEPT ![KeyOf(t)'] = EditedTo(t, StatusWritten(t))']
  BY <1>2, <1>7 DEF Prepared
<1>. QED  BY <1>9, <1>10, <1>11, <1>12 DEF Prepared, HasRoom, VersionsIn

\* Only a commit changes the table, and t does not hold the other's lock.
LEMMA OthersPrepared ==
    ASSUME CInv, NEW t \in Tx, NEW u \in Tx \ {t}, StepOf(t)
    PROVE  FitsRequest(u)' /\ Prepared(u)'
<1>1. /\ pc'[u] = pc[u] /\ req'[u] = req[u] /\ writes'[u] = writes[u]
      /\ publishTime'[u] = publishTime[u] /\ isNewLatest'[u] = isNewLatest[u]
      /\ startTime'[u] = startTime[u]
  BY Frame, StartFrame DEF CInv, IInv
<1>2. FitsRequest(u)'
  BY <1>1 DEF CInv, FitsRequest
<1>3. CASE pc[u] \notin Holding
  BY <1>1, <1>2, <1>3 DEF Prepared, Holding, InTx
<1>4. CASE pc[u] \in Holding
  <2>1. ASSUME NEW v \in Versions
        PROVE  servers'[<<req[u].name, v>>] = servers[<<req[u].name, v>>]
    <3>1. CASE Commit(t)
      <4>1. req[t] \in Request /\ req[u] \in Request
        BY <1>4, <3>1, KeyType DEF CInv, IInv, Commit, Holding, InTx, Resting, Outcomes
      <4>2. req[t].name # req[u].name
        BY <1>4, <3>1 DEF CInv, IInv, HolderOwns, Commit, Holding, InTx
      <4>. QED  BY <3>1, <4>1, <4>2, CommitLocal DEF CInv, IInv, Key, Request
    <3>. QED  BY <3>1, OnlyCommitChanges
  <2>. QED  BY <1>1, <1>2, <1>4, <2>1, PreparedLocal DEF CInv, IInv
<1>. QED  BY <1>3, <1>4

-----------------------------------------------------------------------------
(* What a step prepares. *)

\* The decision of GetCurrentLatestVersion is about all the marked rows.
LEMMA LatestPrepared ==
    ASSUME CInv, NEW t \in Tx, GetCurrentLatestVersion(t)
    PROVE  Prepared(t)'
<1>. USE DEF CInv, IInv, TypeOK
<1>. DEFINE n == req[t].name
            ver == req[t].version
            T == servers
<1>0. pc[t] = "latest" /\ UNCHANGED <<servers, req, publishTime, writes>>
  BY DEF GetCurrentLatestVersion
<1>1. n \in Names /\ ver \in Versions /\ KeyOf(t) = <<n, ver>> /\ KeyOf(t) \in Key
  BY <1>0, KeyType DEF Resting, Outcomes, Request, KeyOf
<1>2. \A k \in Key : writes[t][k] = NoWrite /\ Read(t, k) = T[k]
  BY <1>0, ReadsCommitted
<1>3. LatestOf(t, n) = {v \in Versions : T[<<n, v>>] # NoRow /\ T[<<n, v>>].isLatest}
  BY <1>1, <1>2 DEF LatestOf, VersionsOf, Exists, Key
<1>4. \A w \in Versions : Newer(t, w) <=> CompareVersions(ver, w, publishTime[t], T[<<n, w>>].publishedAt) > 0
  BY <1>1, <1>2 DEF Newer, Key
<1>5. Overtakes(t)' <=> Overtakes(t)
  BY <1>0 DEF Overtakes
<1>6. Overtakes(t) <=> \A w \in LatestOf(t, n) : Newer(t, w)
  BY <1>3, <1>4 DEF Overtakes
<1>7. /\ isNewLatest'[t] <=> Overtakes(t)
      /\ pc'[t] \in {"unmark", "insert"}
      /\ pc'[t] = "insert" => LatestOf(t, n) = {} \/ ~isNewLatest'[t]
  <2>1. CASE LatestOf(t, n) = {}
    BY <1>6, <2>1 DEF GetCurrentLatestVersion
  <2>2. CASE LatestOf(t, n) # {}
    <3>1. PICK v \in LatestOf(t, n) :
             /\ isNewLatest' = [isNewLatest EXCEPT ![t] = Newer(t, v)]
             /\ pc' = [pc EXCEPT ![t] = IF Newer(t, v) THEN "unmark" ELSE "insert"]
      BY <2>2 DEF GetCurrentLatestVersion
    <3>2. LatestOf(t, n) = {v}
      <4>1. PICK l \in Versions : IsLatestOf(T, n, l)
        BY <1>1, <1>3, <3>1 DEF Good, VersionsIn
      <4>. QED  BY <1>3, <3>1, <4>1, OneLatest DEF VersionsIn
    <3>3. Newer(t, v) \in BOOLEAN
      BY DEF Newer, CompareVersions, CompareSemanticVersions, Sign
    <3>4. Overtakes(t) <=> Newer(t, v)
      BY <1>6, <3>2
    <3>5. CASE Newer(t, v)
      <4>1. isNewLatest'[t] = TRUE /\ pc'[t] = "unmark"
        BY <3>1, <3>5
      <4>2. isNewLatest'[t] <=> Overtakes(t)
        BY <3>4, <3>5, <4>1, Zenon
      <4>. QED  BY <4>1, <4>2
    <3>6. CASE ~Newer(t, v)
      <4>1. isNewLatest'[t] = FALSE /\ pc'[t] = "insert"
        BY <3>1, <3>3, <3>6
      <4>. QED  BY <3>4, <3>6, <4>1
    <3>. QED  BY <3>5, <3>6
  <2>. QED  BY <2>1, <2>2
<1>9. isNewLatest'[t] <=> Overtakes(t)'
  BY <1>5, <1>7
<1>10. pc'[t] = "insert" =>
          /\ servers'[KeyOf(t)'] = NoRow
          /\ HasRoom(servers', n)
          /\ writes'[t] = UnmarkedRows(t)'
  <2>. SUFFICES ASSUME pc'[t] = "insert"
                PROVE  /\ T[KeyOf(t)] = NoRow /\ HasRoom(T, n)
                       /\ writes[t] = UnmarkedRows(t)'
    BY <1>0 DEF KeyOf, HasRoom
  <2>1. T[KeyOf(t)] = NoRow /\ HasRoom(T, n)
    BY <1>0 DEF Established
  <2>2. \A k \in Key : ~(isNewLatest'[t] /\ ToUnmark(t, k))
    BY <1>3, <1>7 DEF ToUnmark, Key
  <2>3. UnmarkedRows(t)' = [k \in Key |-> NoWrite]
    BY <1>0, <2>2 DEF UnmarkedRows, ToUnmark
  <2>. QED  BY <1>2, <2>1, <2>3
<1>. QED  BY <1>0, <1>7, <1>9, <1>10 DEF Prepared, HasRoom

\* UnmarkAsLatest writes the marked rows of the server, and no other.
LEMMA UnmarkPrepared ==
    ASSUME CInv, TypeOK', NEW t \in Tx, UnmarkAsLatest(t)
    PROVE  Prepared(t)'
<1>. USE DEF CInv, IInv, TypeOK
<1>. DEFINE n == req[t].name
<1>0. /\ pc[t] = "unmark" /\ pc'[t] = "insert"
      /\ UNCHANGED <<servers, req, publishTime, isNewLatest>>
  BY DEF UnmarkAsLatest, Step, locals
<1>1. n \in Names /\ KeyOf(t) \in Key
  BY <1>0, KeyType DEF Resting, Outcomes, Request
<1>2. \A k \in Key : writes[t][k] = NoWrite /\ Read(t, k) = servers[k]
  BY <1>0, ReadsCommitted
<1>3. /\ servers[KeyOf(t)] = NoRow /\ HasRoom(servers, n) /\ isNewLatest[t]
      /\ isNewLatest[t] <=> Overtakes(t)
  BY <1>0 DEF Established, Prepared
<1>4. ASSUME NEW k \in Key PROVE k \in Marked(t) <=> ToUnmark(t, k)
  <2>1. k = <<k[1], k[2]>> /\ k[2] \in Versions
    BY DEF Key
  <2>2. ASSUME k[1] = n PROVE k[2] \in LatestOf(t, n) <=> ToUnmark(t, k)
    <3>1. k = <<n, k[2]>> /\ Read(t, <<n, k[2]>>) = servers[k]
      BY <1>2, <2>1, <2>2
    <3>. QED  BY <2>1, <2>2, <3>1 DEF LatestOf, VersionsOf, Exists, ToUnmark
  <2>3. k \in Marked(t) <=> k[1] = n /\ k[2] \in LatestOf(t, n)
    BY <2>1 DEF Marked
  <2>. QED  BY <2>2, <2>3 DEF ToUnmark
<1>5. ASSUME NEW k \in Key PROVE writes'[t][k] = UnmarkedRows(t)[k]
  <2>1. writes'[t][k] = IF k \in Marked(t) THEN Unmarked(t, k) ELSE NoWrite
    BY <1>2 DEF UnmarkAsLatest
  <2>2. UnmarkedRows(t)[k] =
          IF ToUnmark(t, k) THEN [servers[k] EXCEPT !.isLatest = FALSE] ELSE NoWrite
    BY <1>3 DEF UnmarkedRows
  <2>. QED  BY <1>2, <1>4, <2>1, <2>2 DEF Unmarked
<1>6. writes'[t] = UnmarkedRows(t)
  <2>1. writes'[t] = [k \in Key |-> writes'[t][k]]
    OBVIOUS
  <2>2. UnmarkedRows(t) = [k \in Key |-> UnmarkedRows(t)[k]]
    BY DEF UnmarkedRows
  <2>. HIDE DEF CInv, IInv, TypeOK
  <2>. QED  BY <1>5, <2>1, <2>2, Zenon
<1>7. UnmarkedRows(t)' = UnmarkedRows(t) /\ (Overtakes(t)' <=> Overtakes(t))
  BY <1>0 DEF UnmarkedRows, ToUnmark, Overtakes
<1>. QED  BY <1>0, <1>3, <1>6, <1>7 DEF Prepared, HasRoom, KeyOf

\* Insert adds the new row to what has been unmarked.
LEMMA InsertPrepared ==
    ASSUME CInv, TypeOK', NEW t \in Tx, Insert(t)
    PROVE  Prepared(t)'
<1>. USE DEF CInv, IInv, TypeOK
<1>0. /\ pc[t] = "insert" /\ pc'[t] = "commit"
      /\ writes' = [writes EXCEPT ![t][KeyOf(t)] = NewRow(t)]
      /\ UNCHANGED <<servers, req, publishTime, isNewLatest>>
  BY InsertSucceeds DEF Step, Write, locals
<1>1. req[t].kind = "publish" /\ KeyOf(t) \in Key
  BY <1>0, KeyType DEF FitsRequest, Resting, Outcomes
<1>2. /\ servers[KeyOf(t)] = NoRow /\ HasRoom(servers, req[t].name)
      /\ isNewLatest[t] <=> Overtakes(t)
      /\ writes[t] = UnmarkedRows(t)
  BY <1>0 DEF Prepared
<1>3. writes'[t] = InsertedRows(t)
  BY <1>0, <1>1, <1>2 DEF InsertedRows
<1>4. UnmarkedRows(t)' = UnmarkedRows(t)
  BY <1>0 DEF UnmarkedRows, ToUnmark
<1>5. InsertedRows(t)' = InsertedRows(t) /\ (Overtakes(t)' <=> Overtakes(t))
  BY <1>0, <1>4 DEF InsertedRows, NewRow, NewRowWith, KeyOf, Overtakes
<1>. QED  BY <1>0, <1>1, <1>2, <1>3, <1>5 DEF Prepared, HasRoom, KeyOf

\* UpdateRow writes the row of the edit, and no other.
LEMMA UpdatePrepared ==
    ASSUME CInv, NEW t \in Tx, UpdateRow(t), ~Rollback(t, "error")
    PROVE  Prepared(t)'
<1>. USE DEF CInv, IInv, TypeOK
<1>0. /\ pc[t] = "update" /\ Exists(t, KeyOf(t)) /\ pc'[t] = AfterUpdate(t)
      /\ writes' = [writes EXCEPT ![t][KeyOf(t)] = EditedRow(t)]
      /\ UNCHANGED <<servers, req, startTime>>
  BY DEF UpdateRow, Step, Write, locals
<1>1. req[t].kind = "edit" /\ KeyOf(t) \in Key
  BY <1>0, KeyType DEF FitsRequest, Resting, Outcomes
<1>2. writes[t] = NoWrites /\ Read(t, KeyOf(t)) = servers[KeyOf(t)]
  <2>1. \A k \in Key : writes[t][k] = NoWrite
    BY <1>0, ReadsCommitted
  <2>. QED  BY <1>1, <2>1 DEF NoWrites, Read
<1>3. servers[KeyOf(t)] \in Row /\ servers[KeyOf(t)] # NoRow
  BY <1>0, <1>1, <1>2 DEF Exists
<1>4. EditedRow(t) = EditedTo(t, servers[KeyOf(t)].status)
  BY <1>2, <1>3 DEF EditedRow, EditedTo, Row
<1>5. writes'[t] = [NoWrites EXCEPT ![KeyOf(t)] = EditedTo(t, servers[KeyOf(t)].status)]
  BY <1>0, <1>2, <1>4
<1>6. pc'[t] \in {"setStatus", "commit"} /\ KeyOf(t)' = KeyOf(t)
  BY <1>0 DEF AfterUpdate, KeyOf
<1>7. StatusWritten(t)' = servers[KeyOf(t)].status
  BY <1>0, <1>6 DEF AfterUpdate, StatusWritten
<1>8. EditedTo(t, StatusWritten(t))' = EditedTo(t, servers[KeyOf(t)].status)
  BY <1>0, <1>6, <1>7 DEF EditedTo
<1>. QED  BY <1>0, <1>1, <1>3, <1>5, <1>6, <1>8 DEF Prepared

\* SetServerStatus changes the status of that row.
LEMMA StatusPrepared ==
    ASSUME CInv, NEW t \in Tx, SetServerStatus(t), ~Rollback(t, "error")
    PROVE  Prepared(t)'
<1>. USE DEF CInv, IInv, TypeOK
<1>. DEFINE st == req[t].newStatus
<1>0. /\ pc[t] = "setStatus" /\ pc'[t] = "commit"
      /\ writes' = [writes EXCEPT ![t][KeyOf(t)] = WithStatus(t, KeyOf(t))]
      /\ UNCHANGED <<servers, req, startTime>>
  BY DEF SetServerStatus, Step, Write, locals
<1>1. req[t].kind = "edit" /\ KeyOf(t) \in Key /\ st \in Status
  BY <1>0, KeyType DEF FitsRequest, Resting, Outcomes
<1>2. PICK old \in Status :
         writes[t] = [NoWrites EXCEPT ![KeyOf(t)] = EditedTo(t, old)]
  <2>1. StatusWritten(t) = servers[KeyOf(t)].status /\ servers[KeyOf(t)] \in Row
    BY <1>0, <1>1 DEF StatusWritten, Prepared
  <2>. QED  BY <1>0, <1>1, <2>1 DEF Prepared, Row
<1>3. servers[KeyOf(t)] \in Row /\ servers[KeyOf(t)] # NoRow
  BY <1>0, <1>1 DEF Prepared
<1>4. EditedTo(t, old) \in Row /\ EditedTo(t, old) # NoWrite
  <2>1. req[t] \in Request
    BY <1>0, KeyType DEF Resting, Outcomes
  <2>2. EditedTo(t, old) \in Row
    BY <1>3, <2>1 DEF EditedTo, Row, Request
  <2>. QED  BY <2>2, RegistryAssumption
<1>5. Read(t, KeyOf(t)) = EditedTo(t, old)
  BY <1>1, <1>2, <1>4 DEF Read, NoWrites
<1>6. WithStatus(t, KeyOf(t)) = EditedTo(t, st)
  BY <1>3, <1>5 DEF WithStatus, EditedTo, Row
<1>7. writes'[t] = [NoWrites EXCEPT ![KeyOf(t)] = EditedTo(t, st)]
  BY <1>0, <1>1, <1>2, <1>6 DEF NoWrites
<1>8. StatusWritten(t)' = st /\ KeyOf(t)' = KeyOf(t)
  BY <1>0, <1>1 DEF StatusWritten, KeyOf, Status
<1>9. EditedTo(t, StatusWritten(t))' = EditedTo(t, st)
  BY <1>0, <1>8 DEF EditedTo
<1>. HIDE DEF st
<1>. QED  BY <1>0, <1>1, <1>3, <1>7, <1>8, <1>9 DEF Prepared

\* Every step of t prepares what its next place in the code needs.
LEMMA OwnPrepared ==
    ASSUME CInv, TypeOK', NEW t \in Tx, StepOf(t)
    PROVE  Prepared(t)'
<1>. DEFINE Elsewhere == pc'[t] \notin {"unmark", "insert", "setStatus", "commit"}
<1>. USE DEF CInv, IInv, TypeOK
<1>1. CASE \E o \in {"ok", "error", "constraint"} : End(t, o)
  <2>1. Elsewhere
    BY <1>1 DEF End
  <2>. QED  BY <2>1 DEF Prepared
<1>2. CASE ~\E o \in {"ok", "error", "constraint"} : End(t, o)
  <2>0. ~Rollback(t, "error")
    BY <1>2 DEF Rollback
  <2>1. ASSUME NEW r \in Requests, Submit(t, r) PROVE Elsewhere
    BY <2>1 DEF Submit
  <2>2. ASSUME ReadCurrent(t) \/ Begin(t) \/ ValidatePublish(t) \/ LoadAndValidate(t)
               \/ AcquirePublishLock(t)
        PROVE  Elsewhere
    BY <2>0, <2>2
    DEF ReadCurrent, Begin, ValidatePublish, LoadAndValidate, AcquirePublishLock,
        TakeLock, Step
  <2>3. ASSUME CheckRemoteUrl(t) \/ RemoteUrlsChecked(t) \/ CountServerVersions(t)
               \/ CheckVersionExists(t)
        PROVE  Elsewhere
    BY <2>0, <2>3
    DEF CheckRemoteUrl, RemoteUrlsChecked, CountServerVersions, CheckVersionExists, Step
  <2>4. Elsewhere => Prepared(t)'
    BY DEF Prepared
  <2>. HIDE DEF Elsewhere, CInv, IInv, TypeOK
  <2>. QED
    BY <1>2, <2>0, <2>1, <2>2, <2>3, <2>4, LatestPrepared, UnmarkPrepared,
       InsertPrepared, UpdatePrepared, StatusPrepared
    DEF StepOf, Serve, Publish, Edit, Commit, Abort
<1>. QED  BY <1>1, <1>2

-----------------------------------------------------------------------------
\* CInv, what publish and edit have prepared for their commit, holds in every state.
LEMMA InitCInv == Init => CInv
<1>. SUFFICES ASSUME Init PROVE CInv
  OBVIOUS
<1>1. Stored[0] = 0
  <2>1. 0 \in Times
    BY RegistryAssumption, StoredAssumption
  <2>2. Stored[0] \in Nat /\ Stored[0] <= 0
    BY <2>1, StoredAssumption
  <2>. QED  BY <2>2
<1>2. ASSUME NEW t \in Tx PROVE FitsRequest(t) /\ Prepared(t)
  <2>1. pc[t] = "idle" /\ startTime[t] = 0
    BY DEF Init
  <2>. QED  BY <1>1, <2>1 DEF FitsRequest, Prepared, InTx
<1>. QED  BY <1>2, InitIInv DEF CInv

\* Every step preserves it.
LEMMA NextCInv == CInv /\ IInv' /\ [Next]_vars => CInv'
<1>. SUFFICES ASSUME CInv, IInv', [Next]_vars PROVE CInv'
  OBVIOUS
<1>1. CASE \E t \in Tx : StepOf(t)
  <2>1. PICK t \in Tx : StepOf(t)
    BY <1>1
  <2>2. FitsRequest(t)' /\ Prepared(t)'
    BY <2>1, OwnFits, OwnPrepared DEF CInv, IInv
  <2>3. \A u \in Tx \ {t} : FitsRequest(u)' /\ Prepared(u)'
    BY <2>1, OthersPrepared
  <2>. QED  BY <2>2, <2>3 DEF CInv
<1>2. CASE Tick \/ UNCHANGED vars
  <2>1. UNCHANGED <<servers, pc, req, publishTime, startTime, isNewLatest, writes>>
    BY <1>2 DEF Tick, vars, locals
  <2>2. ASSUME NEW u \in Tx PROVE FitsRequest(u)' /\ Prepared(u)'
    <3>1. FitsRequest(u)'
      BY <2>1 DEF CInv, FitsRequest
    <3>2. CASE pc[u] \in Holding
      BY <2>1, <3>1, <3>2, PreparedLocal DEF CInv, IInv
    <3>3. CASE pc[u] \notin Holding
      BY <2>1, <3>1, <3>3 DEF Prepared, Holding, InTx
    <3>. QED  BY <3>2, <3>3
  <2>. QED  BY <2>2 DEF CInv
<1>. QED  BY <1>1, <1>2 DEF Next, StepOf

\* What every request of registry_service.go has prepared for its commit, always.
LEMMA PreparedInvariant == Spec => []CInv
BY InitCInv, NextCInv, Inductive, PTL DEF Spec

-----------------------------------------------------------------------------
(* The commit of a transaction is a step of ServerCatalog. *)

\* ServerCatalog compares versions as Registry does,
LEMMA SameComparison ==
    \A v, w, s, u : Catalog!CompareVersions(v, w, s, u) = CompareVersions(v, w, s, u)
BY DEF CompareVersions, CompareSemanticVersions, Sign, IsSemanticVersion,
       Catalog!CompareVersions, Catalog!CompareSemanticVersions, Catalog!Sign,
       Catalog!IsSemanticVersion

\* and counts them alike.
LEMMA SameCardinality == ASSUME NEW S PROVE Catalog!Cardinality(S) = Cardinality(S)
BY Zenon DEF Cardinality, Catalog!Cardinality

\* The COMMIT of createServerInTransaction is an atomic publish of the table as it is.
LEMMA CommitPublishes ==
    ASSUME CInv, NEW t \in Tx, Commit(t), req[t].kind = "publish"
    PROVE  Catalog!Publish(req[t].name, req[t].version)
<1>. USE DEF CInv, IInv, TypeOK
<1>. DEFINE n == req[t].name
            v == req[t].version
            s == publishTime[t]
            new == [status |-> "active", publishedAt |-> Stored[s],
                    updatedAt |-> Stored[s], isLatest |-> Catalog!TakesOver(n, v, s),
                    remotes |-> req[t].remotes, packagesOK |-> TRUE]
<1>0. pc[t] = "commit" /\ servers' = [k \in Key |-> Read(t, k)]
  BY DEF Commit
<1>1. /\ req[t] \in Request /\ n \in Names /\ v \in Versions /\ s \in Times
      /\ KeyOf(t) = <<n, v>> /\ KeyOf(t) \in Key /\ req[t].packagesOK
  BY <1>0, KeyType DEF Resting, Outcomes, Request, KeyOf, FitsRequest, InTx
<1>2. /\ servers[KeyOf(t)] = NoRow /\ HasRoom(servers, n)
      /\ isNewLatest[t] <=> Overtakes(t)
      /\ writes[t] = InsertedRows(t)
  BY <1>0 DEF Prepared
<1>3. Catalog!Published(n) = VersionsIn(servers, n)
  BY DEF Catalog!Published, VersionsIn
<1>4. v \notin Catalog!Published(n) /\ Catalog!Cardinality(Catalog!Published(n)) < MaxServerVersions
  BY <1>1, <1>2, <1>3, SameCardinality DEF HasRoom, VersionsIn
<1>5. Catalog!TakesOver(n, v, s) <=> Overtakes(t)
  BY <1>3, SameComparison DEF Catalog!TakesOver, Overtakes, VersionsIn
<1>6. isNewLatest[t] = Catalog!TakesOver(n, v, s)
  <2>1. isNewLatest[t] \in BOOLEAN /\ Catalog!TakesOver(n, v, s) \in BOOLEAN
    BY DEF Catalog!TakesOver
  <2>. QED  BY <1>2, <1>5, <2>1, Zenon
<1>7. NewRow(t) = new
  BY <1>1, <1>6 DEF NewRow, NewRowWith, Request
<1>8. NewRow(t) \in Row /\ NewRow(t) # NoWrite
  <2>1. Stored[s] \in Times
    BY <1>1, StoredAssumption
  <2>2. NewRow(t) \in Row
    BY <1>1, <2>1 DEF NewRow, NewRowWith, Row, Request, Status
  <2>. QED  BY <2>2, RegistryAssumption
<1>9. ASSUME NEW k \in Key
      PROVE  servers'[k] = IF k = <<n, v>> THEN new
                           ELSE IF new.isLatest /\ k[1] = n /\ servers[k] # NoRow
                           THEN [servers[k] EXCEPT !.isLatest = FALSE]
                           ELSE servers[k]
  <2>1. CASE k = <<n, v>>
    <3>1. writes[t][k] = NewRow(t)
      BY <1>1, <1>2, <2>1 DEF InsertedRows, UnmarkedRows
    <3>. QED  BY <1>0, <1>7, <1>8, <2>1, <3>1 DEF Read
  <2>2. CASE k # <<n, v>>
    <3>1. writes[t][k] = IF isNewLatest[t] /\ ToUnmark(t, k)
                         THEN [servers[k] EXCEPT !.isLatest = FALSE] ELSE NoWrite
      BY <1>1, <1>2, <2>2 DEF InsertedRows, UnmarkedRows
    <3>2. new.isLatest <=> isNewLatest[t]
      BY <1>6
    <3>3. servers[k] # NoRow =>
             /\ servers[k] \in Row
             /\ [servers[k] EXCEPT !.isLatest = FALSE] \in Row
             /\ [servers[k] EXCEPT !.isLatest = FALSE] # NoWrite
             /\ ~servers[k].isLatest => [servers[k] EXCEPT !.isLatest = FALSE] = servers[k]
      <4>. SUFFICES ASSUME servers[k] # NoRow
                    PROVE  /\ servers[k] \in Row
                           /\ [servers[k] EXCEPT !.isLatest = FALSE] \in Row
                           /\ [servers[k] EXCEPT !.isLatest = FALSE] # NoWrite
                           /\ ~servers[k].isLatest =>
                                [servers[k] EXCEPT !.isLatest = FALSE] = servers[k]
        OBVIOUS
      <4>1. servers[k] \in Row
        OBVIOUS
      <4>2. [servers[k] EXCEPT !.isLatest = FALSE] \in Row
        BY <4>1 DEF Row
      <4>3. ~servers[k].isLatest => [servers[k] EXCEPT !.isLatest = FALSE] = servers[k]
        BY <4>1 DEF Row
      <4>. QED  BY <4>1, <4>2, <4>3, RegistryAssumption
    <3>. HIDE DEF new
    <3>. QED  BY <1>0, <2>2, <3>1, <3>2, <3>3 DEF Read, ToUnmark
  <2>. QED  BY <2>1, <2>2
<1>10. servers' = Catalog!Inserted(n, v, new)
  <2>. HIDE DEF new
  <2>1. servers' = [k \in Key |-> servers'[k]] /\ Catalog!Key = Key
    BY <1>0 DEF Catalog!Key, Key
  <2>. QED  BY <1>9, <2>1 DEF Catalog!Inserted
<1>11. new = Catalog!NewRow(n, v, s, req[t].remotes) /\ req[t].remotes \in SUBSET Urls
  BY <1>1 DEF Catalog!NewRow, Request
<1>12. Catalog!Publish(n, v)
  <2>1. /\ s \in Times /\ req[t].remotes \in SUBSET Urls
        /\ servers' = Catalog!Inserted(n, v, Catalog!NewRow(n, v, s, req[t].remotes))
    BY <1>1, <1>10, <1>11
  <2>. HIDE DEF n, v, s, new, CInv, IInv, TypeOK
  <2>. QED  BY <1>4, <2>1 DEF Catalog!Publish
<1>. QED  BY <1>12

\* What an edit has written has a status of the table's check constraint.
LEMMA EditWrites ==
    ASSUME CInv, NEW t \in Tx, pc[t] = "commit", req[t].kind = "edit"
    PROVE  /\ StatusWritten(t) \in Status
           /\ writes[t] = [NoWrites EXCEPT ![KeyOf(t)] = EditedTo(t, StatusWritten(t))]
<1>. USE DEF CInv, IInv, TypeOK
<1>1. req[t] \in Request /\ KeyOf(t) \in Key
  BY KeyType DEF Resting, Outcomes
<1>2. servers[KeyOf(t)] \in Row
  BY <1>1 DEF Prepared
<1>3. StatusWritten(t) \in Status
  BY <1>1, <1>2 DEF StatusWritten, Row, Request
<1>. QED  BY <1>3 DEF Prepared

\* The COMMIT of updateServerInTransaction is an atomic edit.
LEMMA CommitEdits ==
    ASSUME CInv, NEW t \in Tx, Commit(t), req[t].kind = "edit"
    PROVE  Catalog!Edit(req[t].name, req[t].version)
<1>. USE DEF CInv, IInv, TypeOK
<1>. DEFINE n == req[t].name
            v == req[t].version
<1>0. pc[t] = "commit" /\ servers' = [k \in Key |-> Read(t, k)]
  BY DEF Commit
<1>1. /\ req[t] \in Request /\ n \in Names /\ v \in Versions
      /\ KeyOf(t) = <<n, v>> /\ KeyOf(t) \in Key
  BY <1>0, KeyType DEF Resting, Outcomes, Request, KeyOf
<1>2. servers[KeyOf(t)] \in Row /\ servers[KeyOf(t)] # NoRow
  BY <1>0, <1>1 DEF Prepared
<1>3. PICK status \in Status :
         writes[t] = [NoWrites EXCEPT ![KeyOf(t)] = EditedTo(t, status)]
  BY <1>0, EditWrites
<1>4. /\ startTime[t] \in Times /\ startTime[t] = Stored[startTime[t]]
      /\ req[t].remotes \in SUBSET Urls /\ req[t].packagesOK \in BOOLEAN
  BY <1>1 DEF FitsRequest, Request
<1>5. EditedTo(t, status) # NoWrite
  <2>1. EditedTo(t, status) \in Row
    BY <1>2, <1>4 DEF EditedTo, Row
  <2>. QED  BY <2>1, RegistryAssumption
<1>6. ASSUME NEW k \in Key
      PROVE  servers'[k] = IF k = <<n, v>> THEN EditedTo(t, status) ELSE servers[k]
  BY <1>0, <1>1, <1>3, <1>5 DEF Read, NoWrites
<1>7. servers' = [servers EXCEPT ![<<n, v>>] = EditedTo(t, status)]
  BY <1>0, <1>1, <1>6
<1>8. EditedTo(t, status) =
        [servers[<<n, v>>] EXCEPT !.status = status, !.remotes = req[t].remotes,
            !.packagesOK = req[t].packagesOK, !.updatedAt = Stored[startTime[t]]]
  BY <1>1, <1>4 DEF EditedTo
<1>9. v \in Catalog!Published(n)
  BY <1>1, <1>2 DEF Catalog!Published
<1>10. \E st \in {servers[<<n, v>>].status, "active", "deprecated", "deleted"},
           remotes \in SUBSET Urls, packagesOK \in BOOLEAN, s \in Times :
          servers' = [servers EXCEPT ![<<n, v>>] =
             [servers[<<n, v>>] EXCEPT !.status = st, !.remotes = remotes,
                 !.packagesOK = packagesOK, !.updatedAt = Stored[s]]]
  <2>1. status \in {servers[<<n, v>>].status, "active", "deprecated", "deleted"}
    BY DEF Status
  <2>. USE <1>4, <2>1
  <2>. WITNESS status \in {servers[<<n, v>>].status, "active", "deprecated", "deleted"},
               req[t].remotes \in SUBSET Urls, req[t].packagesOK \in BOOLEAN,
               startTime[t] \in Times
  <2>. QED  BY <1>7, <1>8, Zenon
<1>. HIDE DEF n, v
<1>. QED  BY <1>9, <1>10, Zenon DEF Catalog!Edit, n, v

\* Only a COMMIT changes the table, so every step is one of the catalog or none.
LEMMA StepImplements == CInv /\ [Next]_vars => [Catalog!Next]_servers
<1>. SUFFICES ASSUME CInv, [Next]_vars, servers' # servers PROVE Catalog!Next
  OBVIOUS
<1>1. PICK t \in Tx : Commit(t)
  BY OnlyCommitChanges DEF Next, StepOf, Tick, vars
<1>2. req[t] \in Request
  BY <1>1, KeyType DEF CInv, IInv, Commit, Resting, Outcomes
<1>3. Catalog!Publish(req[t].name, req[t].version) \/ Catalog!Edit(req[t].name, req[t].version)
  BY <1>1, <1>2, CommitPublishes, CommitEdits DEF Request
<1>. QED  BY <1>2, <1>3 DEF Catalog!Next, Request

\* Both start with an empty table.
LEMMA InitImplements == Init => Catalog!Init
BY DEF Init, Catalog!Init, Catalog!Key, Key

\* Each publish and each edit of registry_service.go is atomic: the table changes
\* as the two actions of ServerCatalog say, whatever runs between the statements.
THEOREM Refinement == Spec => ImplementsCatalog
<1>1. Spec => Catalog!Init /\ [][Catalog!Next]_servers
  BY InitImplements, StepImplements, PreparedInvariant, PTL DEF Spec
<1>. QED  BY <1>1 DEF ImplementsCatalog, Catalog!Spec

-----------------------------------------------------------------------------
(* The mark of the latest moves forward. *)

\* The rows of n marked before and after a step that leaves marks and times alone.
LEMMA SameMark ==
    ASSUME CInv, NEW n \in Names, NEW v \in Versions, NEW w \in Versions,
           servers[<<n, v>>] # NoRow, servers[<<n, v>>].isLatest,
           servers[<<n, w>>] # NoRow, servers[<<n, w>>].isLatest
    PROVE  CompareVersions(w, v, servers[<<n, w>>].publishedAt, servers[<<n, v>>].publishedAt) >= 0
<1>1. PICK l \in Versions : IsLatestOf(servers, n, l)
  BY DEF CInv, IInv, Good, VersionsIn
<1>2. v = w
  BY <1>1, OneLatest DEF VersionsIn
<1>3. servers[<<n, v>>].publishedAt \in Nat
  BY StoredAssumption DEF CInv, IInv, TypeOK, Key, Row
<1>. QED
  BY <1>2, <1>3, PrecedenceType DEF CompareVersions, CompareSemanticVersions, Sign, IsSemanticVersion

\* A publish moves the mark to its own version or leaves it.
LEMMA PublishAdvances ==
    ASSUME CInv, NEW pn \in Names, NEW pv \in Versions, Catalog!Publish(pn, pv),
           NEW n \in Names, NEW v \in Versions, NEW w \in Versions,
           servers[<<n, v>>] # NoRow, servers[<<n, v>>].isLatest,
           servers'[<<n, w>>] # NoRow, servers'[<<n, w>>].isLatest
    PROVE  CompareVersions(w, v, servers'[<<n, w>>].publishedAt, servers[<<n, v>>].publishedAt) >= 0
<1>. DEFINE k == <<n, w>>
<1>1. PICK s \in Times, remotes \in SUBSET Urls :
         servers' = Catalog!Inserted(pn, pv, Catalog!NewRow(pn, pv, s, remotes))
  BY DEF Catalog!Publish
<1>. DEFINE row == Catalog!NewRow(pn, pv, s, remotes)
<1>2. servers'[k] = IF k = <<pn, pv>> THEN row
                    ELSE IF row.isLatest /\ k[1] = pn /\ servers[k] # NoRow
                    THEN [servers[k] EXCEPT !.isLatest = FALSE]
                    ELSE servers[k]
  BY <1>1 DEF Catalog!Inserted, Catalog!Key
<1>3. k \in Key /\ (servers[k] # NoRow => servers[k] \in Row)
  BY DEF CInv, IInv, TypeOK, Key
<1>4. CASE k = <<pn, pv>>
  <2>1. servers'[k] = row /\ n = pn /\ w = pv
    BY <1>2, <1>4
  <2>2. row.isLatest <=> Catalog!TakesOver(pn, pv, s)
    BY DEF Catalog!NewRow
  <2>3. row.publishedAt = Stored[s]
    BY DEF Catalog!NewRow
  <2>. HIDE DEF row
  <2>4. v \in Catalog!Published(pn)
    BY <2>1 DEF Catalog!Published
  <2>5. CompareVersions(w, v, s, servers[<<n, v>>].publishedAt) > 0
    BY <2>1, <2>2, <2>4, SameComparison DEF Catalog!TakesOver
  <2>6. /\ servers[<<n, v>>].publishedAt \in Times
        /\ Stored[servers[<<n, v>>].publishedAt] = servers[<<n, v>>].publishedAt
    BY DEF CInv, IInv, TypeOK, Key, Row, Good, TimesStored, VersionsIn
  <2>7. CompareVersions(v, w, servers[<<n, v>>].publishedAt, Stored[s]) <= 0
    BY <2>5, <2>6, CompareStored
  <2>8. servers[<<n, v>>].publishedAt \in Nat /\ Stored[s] \in Nat
    BY <2>6, StoredAssumption
  <2>9. CompareVersions(w, v, Stored[s], servers[<<n, v>>].publishedAt)
          = -CompareVersions(v, w, servers[<<n, v>>].publishedAt, Stored[s])
    BY <2>8, CompareAntisymmetric
  <2>10. CompareVersions(v, w, servers[<<n, v>>].publishedAt, Stored[s]) \in Int
    BY DEF CompareVersions, CompareSemanticVersions, Sign
  <2>. QED  BY <2>1, <2>3, <2>7, <2>9, <2>10
<1>5. CASE k # <<pn, pv>>
  <2>. HIDE DEF row
  <2>1. servers'[k] = servers[k]
    <3>1. ~(row.isLatest /\ k[1] = pn /\ servers[k] # NoRow)
      BY <1>2, <1>3, <1>5 DEF Row
    <3>. QED  BY <1>2, <1>5, <3>1
  <2>. QED  BY <2>1, SameMark
<1>. QED  BY <1>4, <1>5

\* An edit leaves the mark where it is.
LEMMA EditAdvances ==
    ASSUME CInv, NEW en \in Names, NEW ev \in Versions, Catalog!Edit(en, ev),
           NEW n \in Names, NEW v \in Versions, NEW w \in Versions,
           servers[<<n, v>>] # NoRow, servers[<<n, v>>].isLatest,
           servers'[<<n, w>>] # NoRow, servers'[<<n, w>>].isLatest
    PROVE  CompareVersions(w, v, servers'[<<n, w>>].publishedAt, servers[<<n, v>>].publishedAt) >= 0
<1>. DEFINE k == <<n, w>>
<1>1. k \in Key /\ <<en, ev>> \in Key /\ servers[<<en, ev>>] \in Row /\ servers[<<en, ev>>] # NoRow
  BY DEF CInv, IInv, TypeOK, Key, Catalog!Edit, Catalog!Published
<1>2. PICK status \in {servers[<<en, ev>>].status, "active", "deprecated", "deleted"},
           remotes \in SUBSET Urls, packagesOK \in BOOLEAN, s \in Times :
         servers' = [servers EXCEPT ![<<en, ev>>] =
            [servers[<<en, ev>>] EXCEPT !.status = status, !.remotes = remotes,
                !.packagesOK = packagesOK, !.updatedAt = Stored[s]]]
  BY DEF Catalog!Edit
<1>3. /\ servers[k] # NoRow
      /\ servers'[k].isLatest = servers[k].isLatest
      /\ servers'[k].publishedAt = servers[k].publishedAt
  BY <1>1, <1>2 DEF CInv, IInv, TypeOK, Row
<1>. QED  BY <1>3, SameMark

\* Whoever asks for the latest version again is not answered with a lesser one,
\* whatever publishes and edits committed in between.
THEOREM LatestForward == Spec => LatestNeverGoesBack
<1>1. CInv /\ [Next]_vars =>
         [\A n \in Names, v, w \in Versions :
            /\ servers[<<n, v>>] # NoRow
            /\ servers[<<n, v>>].isLatest
            /\ servers'[<<n, w>>] # NoRow
            /\ servers'[<<n, w>>].isLatest
            => CompareVersions(w, v, servers'[<<n, w>>].publishedAt,
                               servers[<<n, v>>].publishedAt) >= 0]_servers
  <2>. SUFFICES ASSUME CInv, [Next]_vars, servers' # servers,
                       NEW n \in Names, NEW v \in Versions, NEW w \in Versions,
                       servers[<<n, v>>] # NoRow, servers[<<n, v>>].isLatest,
                       servers'[<<n, w>>] # NoRow, servers'[<<n, w>>].isLatest
                PROVE  CompareVersions(w, v, servers'[<<n, w>>].publishedAt,
                                       servers[<<n, v>>].publishedAt) >= 0
    OBVIOUS
  <2>1. Catalog!Next
    BY StepImplements
  <2>. QED  BY <2>1, PublishAdvances, EditAdvances DEF Catalog!Next
<1>. QED  BY <1>1, PreparedInvariant, PTL DEF Spec, LatestNeverGoesBack

-----------------------------------------------------------------------------
(* What the handler of an edit decides before its transaction has the lock: *)
(* ReadCurrent does not undelete, and LoadAndValidate does not validate the *)
(* packages of a version that is deleted.                                   *)

\* A commit gives the row of its request the status and the packages of the
\* request, and leaves those of every other row.
LEMMA CommitStatus ==
    ASSUME CInv, NEW t \in Tx, Commit(t), NEW k \in Key, servers'[k] # NoRow
    PROVE  /\ k # KeyOf(t) =>
                 /\ servers[k] # NoRow
                 /\ servers'[k].status = servers[k].status
                 /\ servers'[k].packagesOK = servers[k].packagesOK
           /\ k = KeyOf(t) /\ req[t].kind = "publish" =>
                 servers[k] = NoRow /\ servers'[k].packagesOK
           /\ k = KeyOf(t) /\ req[t].kind = "edit" =>
                 /\ servers'[k].packagesOK = req[t].packagesOK
                 /\ servers'[k].status = IF req[t].newStatus = "none"
                                         THEN servers[k].status ELSE req[t].newStatus
<1>. USE DEF CInv, IInv, TypeOK
<1>0. pc[t] = "commit" /\ servers'[k] = Read(t, k)
  BY DEF Commit
<1>1. req[t] \in Request /\ KeyOf(t) \in Key
  BY <1>0, KeyType DEF Resting, Outcomes
<1>2. CASE req[t].kind = "publish"
  <2>1. writes[t] = InsertedRows(t) /\ servers[KeyOf(t)] = NoRow /\ req[t].packagesOK
    BY <1>0, <1>2 DEF Prepared, FitsRequest, InTx
  <2>2. CASE k = KeyOf(t)
    <3>1. writes[t][k] = NewRow(t)
      BY <1>1, <2>1, <2>2 DEF InsertedRows, UnmarkedRows
    <3>2. NewRow(t).packagesOK = req[t].packagesOK /\ NewRow(t) # NoWrite
      <4>1. NewRow(t) \in Row
        BY <1>1, StoredAssumption DEF NewRow, NewRowWith, Row, Request, Status
      <4>. QED  BY <4>1, RegistryAssumption DEF NewRow, NewRowWith
    <3>. QED  BY <1>0, <1>2, <2>1, <2>2, <3>1, <3>2 DEF Read
  <2>3. CASE k # KeyOf(t)
    <3>1. writes[t][k] = IF isNewLatest[t] /\ ToUnmark(t, k)
                         THEN [servers[k] EXCEPT !.isLatest = FALSE] ELSE NoWrite
      BY <1>1, <2>1, <2>3 DEF InsertedRows, UnmarkedRows
    <3>2. servers[k] # NoRow =>
             /\ [servers[k] EXCEPT !.isLatest = FALSE].status = servers[k].status
             /\ [servers[k] EXCEPT !.isLatest = FALSE].packagesOK = servers[k].packagesOK
      BY DEF Row
    <3>. QED  BY <1>0, <2>3, <3>1, <3>2 DEF Read, ToUnmark
  <2>. QED  BY <1>2, <2>2, <2>3
<1>3. CASE req[t].kind = "edit"
  <2>1. /\ writes[t] = [NoWrites EXCEPT ![KeyOf(t)] = EditedTo(t, StatusWritten(t))]
        /\ StatusWritten(t) \in Status
    BY <1>0, <1>3, EditWrites
  <2>2. servers[KeyOf(t)] \in Row
    BY <1>0, <1>1, <1>3 DEF Prepared
  <2>3. /\ EditedTo(t, StatusWritten(t)).packagesOK = req[t].packagesOK
        /\ EditedTo(t, StatusWritten(t)).status = StatusWritten(t)
        /\ EditedTo(t, StatusWritten(t)) # NoWrite
    <3>1. EditedTo(t, StatusWritten(t)) \in Row
      BY <1>1, <2>1, <2>2 DEF EditedTo, Row, Request
    <3>. QED  BY <2>2, <3>1, RegistryAssumption DEF EditedTo, Row
  <2>4. StatusWritten(t) = IF req[t].newStatus = "none"
                           THEN servers[KeyOf(t)].status ELSE req[t].newStatus
    BY <1>0 DEF StatusWritten
  <2>. QED  BY <1>0, <1>1, <1>3, <2>1, <2>3, <2>4 DEF Read, NoWrites
<1>. QED  BY <1>1, <1>2, <1>3 DEF Request

\* How a slot comes to be in a transaction, or about to begin one.
LEMMA Underway ==
    ASSUME TypeOK, NEW t \in Tx, StepOf(t), pc'[t] \in InTx \cup {"begin"}
    PROVE  /\ ~Commit(t)
           /\ \/ pc'[t] = "begin" /\ req'[t].kind = "publish"
              \/ pc[t] \in InTx \cup {"begin"} /\ req'[t] = req[t]
              \/ /\ pc[t] = "handler" /\ pc'[t] = "begin" /\ req'[t] = req[t]
                 /\ servers[KeyOf(t)] # NoRow /\ ~Undeletes(t)
<1>. USE DEF TypeOK
<1>0. \A o \in Outcomes : ~End(t, o)
  BY DEF End, Outcomes, InTx
<1>1. ~Rollback(t, "error") /\ ~Rollback(t, "constraint") /\ ~Commit(t) /\ ~Abort(t)
  BY <1>0 DEF Rollback, Commit, Abort, Outcomes
<1>2. ASSUME NEW r \in Requests, Submit(t, r)
      PROVE  pc'[t] = "begin" /\ req'[t].kind = "publish"
  BY <1>2 DEF Submit, InTx
<1>3. CASE ReadCurrent(t)
  BY <1>1, <1>3 DEF ReadCurrent, Step, locals
<1>4. ASSUME Begin(t) \/ ValidatePublish(t) \/ LoadAndValidate(t) \/ AcquirePublishLock(t)
             \/ CheckRemoteUrl(t) \/ RemoteUrlsChecked(t)
      PROVE  pc[t] \in InTx \cup {"begin"} /\ req'[t] = req[t]
  BY <1>1, <1>4
  DEF Begin, ValidatePublish, LoadAndValidate, AcquirePublishLock, TakeLock, CheckRemoteUrl,
      RemoteUrlsChecked, Step, locals, InTx
<1>5. ASSUME CountServerVersions(t) \/ CheckVersionExists(t) \/ GetCurrentLatestVersion(t)
             \/ UnmarkAsLatest(t) \/ Insert(t) \/ UpdateRow(t) \/ SetServerStatus(t)
      PROVE  pc[t] \in InTx \cup {"begin"} /\ req'[t] = req[t]
  BY <1>1, <1>5
  DEF CountServerVersions, CheckVersionExists, GetCurrentLatestVersion, UnmarkAsLatest,
      Insert, UpdateRow, SetServerStatus, Step, locals, InTx
<1>. QED  BY <1>1, <1>2, <1>3, <1>4, <1>5 DEF StepOf, Serve, Publish, Edit

\* No edit that deletes a version is under way together with one that gives the
\* version another status.
DeletesAlone ==
    \A t, u \in Tx :
        /\ t # u
        /\ pc[t] \notin Resting /\ req[t].kind = "edit" /\ req[t].newStatus = "deleted"
        /\ pc[u] \notin Resting /\ req[u].kind = "edit" /\ KeyOf(u) = KeyOf(t)
        => req[u].newStatus \in {"none", "deleted"}

\* What ReadCurrent found of the row it will change is so still.
StatusAllows(t) ==
    pc[t] \in InTx \cup {"begin"} /\ req[t].kind = "edit" =>
        /\ servers[KeyOf(t)] # NoRow
        /\ req[t].newStatus \notin {"none", "deleted"} => servers[KeyOf(t)].status # "deleted"

SInv == CInv /\ \A t \in Tx : StatusAllows(t)

\* A commit of an edit that found its row not deleted undeletes nothing.
LEMMA CommitDeletes ==
    ASSUME SInv, NEW t \in Tx, Commit(t), NEW k \in Key, servers[k] # NoRow,
           servers[k].status = "deleted"
    PROVE  servers'[k].status = "deleted"
<1>1. pc[t] = "commit" /\ StepOf(t)
  BY DEF Commit, StepOf, Serve
<1>2. servers'[k] # NoRow /\ req[t] \in Request
  BY <1>1, RowsRemain, KeyType DEF SInv, CInv, IInv, Resting, Outcomes
<1>3. StatusAllows(t) /\ CInv
  BY DEF SInv
<1>. QED  BY <1>1, <1>2, <1>3, CommitStatus DEF StatusAllows, InTx, Request

\* What an edit has found stays so: an edit that deletes the row is not under way.
LEMMA AllowsStays ==
    ASSUME SInv, DeletesAlone, NEW t \in Tx, StepOf(t), NEW u \in Tx
    PROVE  StatusAllows(u)'
<1>. USE DEF SInv, CInv, IInv
<1>. SUFFICES ASSUME pc'[u] \in InTx \cup {"begin"}, req'[u].kind = "edit"
              PROVE  /\ servers'[KeyOf(u)'] # NoRow
                     /\ req'[u].newStatus \notin {"none", "deleted"} =>
                            servers'[KeyOf(u)'].status # "deleted"
  BY DEF StatusAllows
<1>1. CASE u = t
  <2>1. servers' = servers /\ KeyOf(t)' = KeyOf(t) /\ req'[t] = req[t]
    BY <1>1, Underway, OnlyCommitChanges DEF KeyOf
  <2>2. CASE pc[t] \in InTx \cup {"begin"}
    BY <1>1, <2>1, <2>2 DEF StatusAllows
  <2>3. CASE pc[t] = "handler" /\ servers[KeyOf(t)] # NoRow /\ ~Undeletes(t)
    BY <1>1, <2>1, <2>3 DEF Undeletes
  <2>. QED  BY <1>1, <2>2, <2>3, Underway
<1>2. CASE u # t
  <2>1. pc'[u] = pc[u] /\ req'[u] = req[u] /\ KeyOf(u)' = KeyOf(u)
    BY <1>2, Frame DEF KeyOf
  <2>2. KeyOf(u) \in Key /\ servers[KeyOf(u)] # NoRow /\ pc[u] \notin Resting
    BY <2>1, KeyType DEF StatusAllows, InTx, Resting, Outcomes
  <2>3. servers'[KeyOf(u)] # NoRow
    BY <2>2, RowsRemain
  <2>4. ASSUME req[u].newStatus \notin {"none", "deleted"}
        PROVE  servers'[KeyOf(u)].status # "deleted"
    <3>1. servers[KeyOf(u)].status # "deleted"
      BY <2>1, <2>4 DEF StatusAllows
    <3>2. CASE Commit(t)
      <4>1. pc[t] = "commit" /\ req[t] \in Request
        BY <3>2, KeyType DEF Commit, Resting, Outcomes
      <4>2. KeyOf(t) = KeyOf(u) /\ req[t].kind = "edit" => req[t].newStatus # "deleted"
        BY <1>2, <2>1, <2>2, <2>4, <4>1 DEF DeletesAlone, Resting, Outcomes
      <4>. QED  BY <2>2, <2>3, <3>1, <3>2, <4>1, <4>2, CommitStatus DEF Request
    <3>. QED  BY <3>1, <3>2, OnlyCommitChanges
  <2>. QED  BY <2>1, <2>3, <2>4
<1>. QED  BY <1>1, <1>2

\* Deleted versions stay deleted as long as no version is deleted while an edit
\* that gives it another status is under way: the check of the edit handler, made
\* before the transaction, is enough but for that race.
THEOREM UndeleteOnlyByRace == Spec /\ []DeletesAlone => DeletedStaysDeleted
<1>1. Init /\ CInv => SInv
  BY DEF Init, SInv, StatusAllows, InTx
<1>2. SInv /\ DeletesAlone /\ CInv' /\ [Next]_vars => SInv'
  <2>. SUFFICES ASSUME SInv, DeletesAlone, CInv', [Next]_vars PROVE \A u \in Tx : StatusAllows(u)'
    BY DEF SInv
  <2>1. CASE \E t \in Tx : StepOf(t)
    BY <2>1, AllowsStays
  <2>2. CASE Tick \/ UNCHANGED vars
    BY <2>2 DEF Tick, vars, locals, SInv, StatusAllows, KeyOf
  <2>. QED  BY <2>1, <2>2 DEF Next, StepOf
<1>3. SInv /\ [Next]_vars =>
         [\A k \in Key : /\ servers[k] # NoRow
                         /\ servers[k].status = "deleted"
                         => servers'[k].status = "deleted"]_servers
  <2>. SUFFICES ASSUME SInv, [Next]_vars, servers' # servers,
                       NEW k \in Key, servers[k] # NoRow, servers[k].status = "deleted"
                PROVE  servers'[k].status = "deleted"
    OBVIOUS
  <2>1. PICK t \in Tx : Commit(t)
    BY OnlyCommitChanges DEF Next, StepOf, Tick, vars
  <2>. QED  BY <2>1, CommitDeletes
<1>. QED  BY <1>1, <1>2, <1>3, PreparedInvariant, PTL DEF Spec, DeletedStaysDeleted

\* How an edit comes to be past LoadAndValidate.
LEMMA PastLoad ==
    ASSUME CInv, NEW t \in Tx, StepOf(t), pc'[t] \in InTx \ {"load"},
           req'[t].kind = "edit"
    PROVE  /\ req'[t] = req[t]
           /\ \/ pc[t] \in InTx \ {"load"}
              \/ /\ pc[t] = "load" /\ servers[KeyOf(t)] # NoRow
                 /\ \/ req[t].packagesOK \/ req[t].newStatus = "deleted"
                    \/ servers[KeyOf(t)].status = "deleted"
<1>. USE DEF CInv, IInv, TypeOK
<1>1. req'[t] = req[t] /\ pc[t] \in InTx \cup {"begin"} /\ pc'[t] \notin Outcomes
  BY Underway DEF InTx, Outcomes
<1>2. CASE LoadAndValidate(t)
  <2>1. pc[t] = "load" /\ KeyOf(t) \in Key
    BY <1>2, KeyType DEF LoadAndValidate, Resting, Outcomes
  <2>2. Read(t, KeyOf(t)) = servers[KeyOf(t)]
    BY <2>1, ReadsCommitted
  <2>3. ~Rollback(t, "error")
    BY <1>1 DEF Rollback, End, Outcomes
  <2>. QED  BY <1>1, <1>2, <2>1, <2>2, <2>3 DEF LoadAndValidate, SkipRegistryValidation, Exists
<1>3. CASE Begin(t)
  BY <1>1, <1>3 DEF Begin, Step
<1>4. CASE ~LoadAndValidate(t) /\ ~Begin(t)
  <2>1. ~(\E r \in Requests : Submit(t, r)) /\ ~ReadCurrent(t) /\ ~Commit(t) /\ ~Abort(t)
    BY <1>1 DEF Submit, ReadCurrent, Step, Commit, Abort, Rollback, End, InTx, Resting, Outcomes
  <2>2. pc[t] \in InTx \ {"load"}
    BY <1>1, <1>4, <2>1
    DEF StepOf, Serve, Publish, Edit, ValidatePublish, AcquirePublishLock, TakeLock,
        CheckRemoteUrl, RemoteUrlsChecked, CountServerVersions, CheckVersionExists,
        GetCurrentLatestVersion, UnmarkAsLatest, Insert, UpdateRow, SetServerStatus,
        Step, InTx
  <2>. QED  BY <1>1, <2>2
<1>. QED  BY <1>2, <1>3, <1>4

\* An edit whose packages were not validated leaves its row deleted.
SkipJustified(t) ==
    pc[t] \in InTx \ {"load"} /\ req[t].kind = "edit" =>
        \/ req[t].packagesOK
        \/ req[t].newStatus = "deleted"
        \/ servers[KeyOf(t)] # NoRow /\ servers[KeyOf(t)].status = "deleted"

VInv ==
    /\ CInv
    /\ LiveServersValidated
    /\ \A t \in Tx : SkipJustified(t)

\* The step undeletes nothing.
KeepsDeleted ==
    \A k \in Key : servers[k] # NoRow /\ servers[k].status = "deleted" =>
        servers'[k].status = "deleted"

\* A commit leaves a row that is not deleted only with validated packages.
LEMMA CommitValidated ==
    ASSUME VInv, KeepsDeleted, NEW t \in Tx, Commit(t)
    PROVE  LiveServersValidated'
<1>. SUFFICES ASSUME NEW k \in Key, servers'[k] # NoRow, servers'[k].status # "deleted"
              PROVE  servers'[k].packagesOK
  BY DEF LiveServersValidated
<1>. USE DEF VInv
<1>1. pc[t] = "commit" /\ req[t] \in Request
  BY KeyType DEF CInv, IInv, Commit, Resting, Outcomes
<1>2. CASE k # KeyOf(t)
  BY <1>2, CommitStatus DEF LiveServersValidated
<1>3. CASE k = KeyOf(t) /\ req[t].kind = "publish"
  BY <1>3, CommitStatus
<1>4. CASE k = KeyOf(t) /\ req[t].kind = "edit"
  <2>1. req[t].newStatus # "deleted"
    BY <1>4, CommitStatus
  <2>2. ~(servers[k] # NoRow /\ servers[k].status = "deleted")
    BY DEF KeepsDeleted
  <2>3. req[t].packagesOK
    BY <1>1, <1>4, <2>1, <2>2 DEF SkipJustified, InTx
  <2>. QED  BY <1>4, <2>3, CommitStatus
<1>. QED  BY <1>1, <1>2, <1>3, <1>4 DEF Request

\* A decision not to validate is justified until the edit ends.
LEMMA SkipStays ==
    ASSUME VInv, KeepsDeleted, NEW t \in Tx, StepOf(t), NEW u \in Tx
    PROVE  SkipJustified(u)'
<1>. USE DEF VInv
<1>. SUFFICES ASSUME pc'[u] \in InTx \ {"load"}, req'[u].kind = "edit"
              PROVE  \/ req'[u].packagesOK \/ req'[u].newStatus = "deleted"
                     \/ servers'[KeyOf(u)'] # NoRow /\ servers'[KeyOf(u)'].status = "deleted"
  BY DEF SkipJustified
<1>1. /\ req'[u] = req[u] /\ KeyOf(u)' = KeyOf(u)
      /\ pc[u] \notin Resting
      /\ \/ req[u].packagesOK \/ req[u].newStatus = "deleted"
         \/ servers[KeyOf(u)] # NoRow /\ servers[KeyOf(u)].status = "deleted"
  <2>1. CASE u = t
    BY <2>1, PastLoad DEF SkipJustified, KeyOf, InTx, Resting, Outcomes
  <2>2. CASE u # t
    BY <2>2, Frame DEF CInv, IInv, SkipJustified, KeyOf, InTx, Resting, Outcomes
  <2>. QED  BY <2>1, <2>2
<1>2. KeyOf(u) \in Key
  BY <1>1, KeyType DEF CInv, IInv
<1>3. servers[KeyOf(u)] # NoRow /\ servers[KeyOf(u)].status = "deleted" =>
         servers'[KeyOf(u)] # NoRow /\ servers'[KeyOf(u)].status = "deleted"
  BY <1>2, RowsRemain DEF CInv, IInv, KeepsDeleted
<1>. QED  BY <1>1, <1>3

\* A server that is not deleted has packages that were validated, unless a deleted
\* version was undeleted: skipRegistryValidation, decided on a row read before the
\* lock, is no other way around ValidateUpdateRequest.
THEOREM ValidatedUnlessUndeleted == Spec /\ DeletedStaysDeleted => []LiveServersValidated
<1>1. Init /\ CInv => VInv
  BY DEF Init, VInv, LiveServersValidated, SkipJustified, InTx
<1>2. /\ VInv /\ CInv' /\ [Next]_vars
      /\ [\A k \in Key : /\ servers[k] # NoRow
                         /\ servers[k].status = "deleted"
                         => servers'[k].status = "deleted"]_servers
      => VInv'
  <2>. SUFFICES ASSUME VInv, CInv', [Next]_vars, KeepsDeleted \/ UNCHANGED servers
                PROVE  LiveServersValidated' /\ \A u \in Tx : SkipJustified(u)'
    BY DEF VInv, KeepsDeleted
  <2>1. KeepsDeleted
    BY DEF KeepsDeleted
  <2>2. CASE \E t \in Tx : StepOf(t)
    <3>1. PICK t \in Tx : StepOf(t)
      BY <2>2
    <3>2. LiveServersValidated'
      <4>1. CASE ~Commit(t)
        BY <3>1, <4>1, OnlyCommitChanges DEF VInv, LiveServersValidated
      <4>. QED  BY <2>1, <4>1, CommitValidated
    <3>. QED  BY <2>1, <3>1, <3>2, SkipStays
  <2>3. CASE Tick \/ UNCHANGED vars
    BY <2>3 DEF Tick, vars, locals, VInv, LiveServersValidated, SkipJustified, KeyOf
  <2>. QED  BY <2>2, <2>3 DEF Next, StepOf
<1>3. VInv => LiveServersValidated
  BY DEF VInv
<1>. QED
  BY <1>1, <1>2, <1>3, PreparedInvariant, PTL DEF Spec, DeletedStaysDeleted

\* Without that race, then, no live server has packages that were not validated.
COROLLARY LiveValidated == Spec /\ []DeletesAlone => []LiveServersValidated
BY UndeleteOnlyByRace, ValidatedUnlessUndeleted, PTL

-----------------------------------------------------------------------------
(* Remote URLs, when requests with a URL in common do not overlap. *)

\* No two transactions past the lock have a remote URL in common.
UrlsApart ==
    \A t, u \in Tx : t # u /\ pc[t] \in Holding /\ pc[u] \in Holding =>
        req[t].remotes \cap req[u].remotes = {}

\* No committed row of another server uses one of these URLs.
FreeFor(t, urls) ==
    \A k \in Key : servers[k] # NoRow /\ k[1] # req[t].name =>
        servers[k].remotes \cap urls = {}

\* What the loop of validateNoDuplicateRemoteURLs has made sure of.
UrlsChecked(t) ==
    /\ pc[t] = "urls" => FreeFor(t, req[t].remotes \ unchecked[t])
    /\ pc[t] \in Holding \ {"urls"} => FreeFor(t, req[t].remotes)

UInv ==
    /\ CInv
    /\ RemoteUrlUnique
    /\ \A t \in Tx : UrlsChecked(t)

\* However few of the rows with a URL are read: all of them are of one server,
\* so if there is one of another server, none of those read is of this one.
LEMMA LimitHarmless ==
    ASSUME UInv, NEW t \in Tx, pc[t] = "urls", NEW url,
           NEW rows \in ConflictingServers(t, url), ~OfOtherServer(t, rows)
    PROVE  FreeFor(t, {url})
<1>. USE DEF UInv, CInv, IInv
<1>1. \A k \in Key : Read(t, k) = servers[k]
  BY ReadsCommitted
<1>2. Using(t, url) = {k \in Key : servers[k] # NoRow /\ url \in servers[k].remotes}
  BY <1>1 DEF Using, Exists
<1>. SUFFICES ASSUME NEW k \in Key, servers[k] # NoRow, k[1] # req[t].name,
                     url \in servers[k].remotes
              PROVE  FALSE
  BY DEF FreeFor
<1>3. k \in Using(t, url)
  BY <1>2
<1>4. PICK j \in rows : TRUE
  <2>1. rows # {}
    BY <1>3, FS_EmptySet, RegistryAssumption DEF ConflictingServers
  <2>. QED  BY <2>1
<1>5. j \in Key /\ servers[j] # NoRow /\ url \in servers[j].remotes /\ j[1] = req[t].name
  BY <1>2, <1>4 DEF ConflictingServers, OfOtherServer
<1>. QED  BY <1>5 DEF RemoteUrlUnique

\* Nor does it touch the URLs that they have yet to check.
LEMMA UncheckedFrame ==
    ASSUME TypeOK, NEW t \in Tx, NEW u \in Tx \ {t}, StepOf(t)
    PROVE  unchecked'[u] = unchecked[u]
<1>1. CASE \E o : End(t, o)
  BY <1>1 DEF End, TypeOK
<1>2. CASE ~\E o : End(t, o)
  <2>1. \A o : ~Rollback(t, o)
    BY <1>2 DEF Rollback
  <2>2. ASSUME NEW r \in Requests, Submit(t, r) PROVE unchecked'[u] = unchecked[u]
    BY <2>2 DEF Submit
  <2>3. ASSUME ReadCurrent(t) \/ LoadAndValidate(t) \/ CountServerVersions(t) \/ CheckVersionExists(t)
        PROVE  unchecked'[u] = unchecked[u]
    BY <2>1, <2>3
    DEF ReadCurrent, LoadAndValidate, CountServerVersions, CheckVersionExists, locals
  <2>4. ASSUME Begin(t) \/ AcquirePublishLock(t) \/ RemoteUrlsChecked(t)
        PROVE  unchecked'[u] = unchecked[u]
    BY <2>4 DEF Begin, AcquirePublishLock, TakeLock, RemoteUrlsChecked, locals, TypeOK
  <2>5. ASSUME ValidatePublish(t) \/ CheckRemoteUrl(t) \/ GetCurrentLatestVersion(t)
               \/ UnmarkAsLatest(t)
        PROVE  unchecked'[u] = unchecked[u]
    BY <2>1, <2>5
    DEF ValidatePublish, CheckRemoteUrl, GetCurrentLatestVersion, UnmarkAsLatest, locals, TypeOK
  <2>6. ASSUME Insert(t) \/ UpdateRow(t) \/ SetServerStatus(t)
        PROVE  unchecked'[u] = unchecked[u]
    BY <2>1, <2>6 DEF Insert, UpdateRow, SetServerStatus, locals
  <2>. QED
    BY <1>2, <2>1, <2>2, <2>3, <2>4, <2>5, <2>6
    DEF StepOf, Serve, Publish, Edit, Commit, Abort
<1>. QED  BY <1>1, <1>2

\* A step of t that does not commit leaves or extends what t has made sure of.
LEMMA OwnUrls ==
    ASSUME UInv, NEW t \in Tx, StepOf(t), ~Commit(t)
    PROVE  UrlsChecked(t)'
<1>. DEFINE Outside == pc'[t] \notin Holding
            Past == /\ pc[t] \in Holding \ {"urls"} /\ pc'[t] \in Holding \ {"urls"}
                    /\ req' = req
<1>. USE DEF UInv, CInv, IInv, TypeOK
<1>0. servers' = servers
  BY OnlyCommitChanges
<1>1. Outside => UrlsChecked(t)'
  BY DEF UrlsChecked, Holding, InTx
<1>2. Past => UrlsChecked(t)'
  BY <1>0 DEF UrlsChecked, FreeFor
<1>3. CASE \E o \in {"error", "constraint"} : End(t, o)
  <2>1. Outside
    BY <1>3 DEF End, Holding, InTx
  <2>. QED  BY <1>1, <2>1
<1>4. CASE ~\E o \in {"error", "constraint"} : End(t, o)
  <2>0. ~Rollback(t, "error") /\ ~Rollback(t, "constraint")
    BY <1>4 DEF Rollback
  <2>1. ASSUME NEW r \in Requests, Submit(t, r) PROVE Outside
    BY <2>1 DEF Submit, Holding, InTx
  <2>2. ASSUME ReadCurrent(t) \/ Begin(t) \/ ValidatePublish(t) \/ LoadAndValidate(t)
        PROVE  Outside
    BY <2>0, <2>2
    DEF ReadCurrent, Begin, ValidatePublish, LoadAndValidate, Step, Holding, InTx
  <2>3. ASSUME AcquirePublishLock(t) PROVE UrlsChecked(t)'
    <3>1. pc'[t] = "urls" /\ unchecked'[t] = req[t].remotes /\ req' = req
      BY <2>3 DEF AcquirePublishLock, TakeLock, Step
    <3>2. req'[t].remotes \ unchecked'[t] = {}
      BY <3>1
    <3>. QED  BY <3>1, <3>2 DEF UrlsChecked, FreeFor
  <2>4. ASSUME CheckRemoteUrl(t) PROVE UrlsChecked(t)'
    <3>1. PICK url \in unchecked[t] : \E rows \in ConflictingServers(t, url) :
             /\ ~OfOtherServer(t, rows)
             /\ unchecked' = [unchecked EXCEPT ![t] = @ \ {url}]
             /\ UNCHANGED <<servers, pc, req>>
      BY <2>0, <2>4 DEF CheckRemoteUrl
    <3>2. pc[t] = "urls"
      BY <2>4 DEF CheckRemoteUrl
    <3>3. FreeFor(t, {url}) /\ FreeFor(t, req[t].remotes \ unchecked[t])
      BY <3>1, <3>2, LimitHarmless DEF UrlsChecked
    <3>4. FreeFor(t, req[t].remotes \ (unchecked[t] \ {url}))
      BY <3>3 DEF FreeFor
    <3>. QED  BY <3>1, <3>2, <3>4 DEF UrlsChecked, FreeFor
  <2>5. ASSUME RemoteUrlsChecked(t) PROVE UrlsChecked(t)'
    <3>1. /\ pc[t] = "urls" /\ unchecked[t] = {} /\ req' = req
          /\ pc'[t] \in Holding \ {"urls"}
      BY <2>5 DEF RemoteUrlsChecked, Step, locals, Holding, InTx
    <3>2. FreeFor(t, req[t].remotes)
      BY <3>1 DEF UrlsChecked, FreeFor
    <3>. QED  BY <1>0, <3>1, <3>2 DEF UrlsChecked, FreeFor
  <2>6. ASSUME CountServerVersions(t) \/ CheckVersionExists(t) \/ GetCurrentLatestVersion(t)
               \/ UnmarkAsLatest(t)
        PROVE  Past
    BY <2>0, <2>6
    DEF CountServerVersions, CheckVersionExists, GetCurrentLatestVersion, UnmarkAsLatest,
        Step, locals, Holding, InTx
  <2>7. ASSUME Insert(t) \/ UpdateRow(t) \/ SetServerStatus(t) PROVE Past
    BY <2>0, <2>7
    DEF Insert, UpdateRow, SetServerStatus, AfterUpdate, Step, locals, Holding, InTx
  <2>. HIDE DEF Outside, Past
  <2>. QED
    BY <1>1, <1>2, <1>4, <2>0, <2>1, <2>2, <2>3, <2>4, <2>5, <2>6, <2>7
    DEF StepOf, Serve, Publish, Edit, Abort
<1>. QED  BY <1>3, <1>4

\* A commit gives the row of its request the remotes of the request, and leaves
\* those of every other row.
LEMMA CommitRemotes ==
    ASSUME CInv, NEW t \in Tx, Commit(t), NEW k \in Key, servers'[k] # NoRow
    PROVE  IF k = KeyOf(t) THEN servers'[k].remotes = req[t].remotes
           ELSE servers[k] # NoRow /\ servers'[k].remotes = servers[k].remotes
<1>. USE DEF CInv, IInv, TypeOK
<1>0. pc[t] = "commit" /\ servers'[k] = Read(t, k)
  BY DEF Commit
<1>1. req[t] \in Request /\ KeyOf(t) \in Key
  BY <1>0, KeyType DEF Resting, Outcomes
<1>2. CASE req[t].kind = "publish"
  <2>1. writes[t] = InsertedRows(t)
    BY <1>0, <1>2 DEF Prepared
  <2>2. CASE k = KeyOf(t)
    <3>1. writes[t][k] = NewRow(t)
      BY <1>1, <2>1, <2>2 DEF InsertedRows, UnmarkedRows
    <3>2. NewRow(t).remotes = req[t].remotes /\ NewRow(t) # NoWrite
      <4>1. NewRow(t) \in Row
        BY <1>1, StoredAssumption DEF NewRow, NewRowWith, Row, Request, Status
      <4>. QED  BY <4>1, RegistryAssumption DEF NewRow, NewRowWith
    <3>. QED  BY <1>0, <2>2, <3>1, <3>2 DEF Read
  <2>3. CASE k # KeyOf(t)
    <3>1. writes[t][k] = IF isNewLatest[t] /\ ToUnmark(t, k)
                         THEN [servers[k] EXCEPT !.isLatest = FALSE] ELSE NoWrite
      BY <1>1, <2>1, <2>3 DEF InsertedRows, UnmarkedRows
    <3>2. servers[k] # NoRow => [servers[k] EXCEPT !.isLatest = FALSE].remotes = servers[k].remotes
      BY DEF Row
    <3>. QED  BY <1>0, <2>3, <3>1, <3>2 DEF Read, ToUnmark
  <2>. QED  BY <2>2, <2>3
<1>3. CASE req[t].kind = "edit"
  <2>1. PICK status \in Status :
           writes[t] = [NoWrites EXCEPT ![KeyOf(t)] = EditedTo(t, status)]
    BY <1>0, <1>3, EditWrites
  <2>2. servers[KeyOf(t)] \in Row
    BY <1>0, <1>1, <1>3 DEF Prepared
  <2>3. EditedTo(t, status).remotes = req[t].remotes /\ EditedTo(t, status) # NoWrite
    <3>1. EditedTo(t, status) \in Row
      BY <1>1, <2>2 DEF EditedTo, Row, Request
    <3>2. EditedTo(t, status).remotes = req[t].remotes
      BY <2>2 DEF EditedTo, Row
    <3>. QED  BY <3>1, <3>2, RegistryAssumption
  <2>. QED  BY <1>0, <1>1, <2>1, <2>3 DEF Read, NoWrites
<1>. QED  BY <1>1, <1>2, <1>3 DEF Request

\* What the transaction that commits has checked still holds, and what it commits is
\* not what another one has checked.
LEMMA CommitUrls ==
    ASSUME UInv, UrlsApart, NEW t \in Tx, Commit(t)
    PROVE  RemoteUrlUnique' /\ \A u \in Tx : UrlsChecked(u)'
<1>. USE DEF UInv
<1>0. pc[t] = "commit" /\ StepOf(t)
  BY DEF Commit, StepOf, Serve
<1>1. req[t].name \in Names /\ KeyOf(t)[1] = req[t].name
  BY <1>0, KeyType DEF CInv, IInv, Resting, Outcomes, Request, KeyOf
<1>2. FreeFor(t, req[t].remotes)
  BY <1>0 DEF UrlsChecked, Holding, InTx
<1>3. RemoteUrlUnique'
  <2>. SUFFICES ASSUME NEW k1 \in Key, NEW k2 \in Key,
                       servers'[k1] # NoRow, servers'[k2] # NoRow, k1[1] # k2[1]
                PROVE  servers'[k1].remotes \cap servers'[k2].remotes = {}
    BY DEF RemoteUrlUnique
  <2>1. CASE k1 = KeyOf(t)
    <3>1. servers'[k1].remotes = req[t].remotes
      BY <2>1, CommitRemotes
    <3>2. servers[k2] # NoRow /\ servers'[k2].remotes = servers[k2].remotes
      BY <2>1, CommitRemotes
    <3>. QED  BY <1>1, <1>2, <2>1, <3>1, <3>2 DEF FreeFor
  <2>2. CASE k2 = KeyOf(t)
    <3>1. servers'[k2].remotes = req[t].remotes
      BY <2>2, CommitRemotes
    <3>2. servers[k1] # NoRow /\ servers'[k1].remotes = servers[k1].remotes
      BY <2>2, CommitRemotes
    <3>. QED  BY <1>1, <1>2, <2>2, <3>1, <3>2 DEF FreeFor
  <2>3. CASE k1 # KeyOf(t) /\ k2 # KeyOf(t)
    BY <2>3, CommitRemotes DEF RemoteUrlUnique
  <2>. QED  BY <2>1, <2>2, <2>3
<1>4. ASSUME NEW u \in Tx PROVE UrlsChecked(u)'
  <2>1. CASE u = t
    <3>1. pc'[t] \notin Holding
      BY DEF Commit, End, CInv, IInv, TypeOK, Holding, InTx
    <3>. QED  BY <2>1, <3>1 DEF UrlsChecked, Holding, InTx
  <2>2. CASE u # t /\ pc[u] \in Holding
    <3>1. pc'[u] = pc[u] /\ req'[u] = req[u] /\ unchecked'[u] = unchecked[u]
      BY <1>0, <2>2, Frame, UncheckedFrame DEF CInv, IInv
    <3>2. req[t].remotes \cap req[u].remotes = {}
      BY <1>0, <2>2 DEF UrlsApart, Holding, InTx
    <3>3. ASSUME NEW urls, urls \subseteq req[u].remotes, FreeFor(u, urls)
          PROVE  \A k \in Key : servers'[k] # NoRow /\ k[1] # req[u].name =>
                                servers'[k].remotes \cap urls = {}
      <4>. SUFFICES ASSUME NEW k \in Key, servers'[k] # NoRow, k[1] # req[u].name
                    PROVE  servers'[k].remotes \cap urls = {}
        OBVIOUS
      <4>1. CASE k = KeyOf(t)
        BY <3>2, <3>3, <4>1, CommitRemotes
      <4>2. CASE k # KeyOf(t)
        BY <3>3, <4>2, CommitRemotes DEF FreeFor
      <4>. QED  BY <4>1, <4>2
    <3>4. req'[u].remotes \ unchecked'[u] = req[u].remotes \ unchecked[u]
      BY <3>1
    <3>. QED  BY <2>2, <3>1, <3>3, <3>4 DEF UrlsChecked, FreeFor
  <2>3. CASE u # t /\ pc[u] \notin Holding
    <3>1. pc'[u] = pc[u]
      BY <1>0, <2>3, Frame DEF CInv, IInv
    <3>. QED  BY <2>3, <3>1 DEF UrlsChecked, Holding, InTx
  <2>. QED  BY <2>1, <2>2, <2>3
<1>. QED  BY <1>3, <1>4

\* Every step keeps the URLs apart.
LEMMA NextUInv == UInv /\ UrlsApart /\ CInv' /\ [Next]_vars => UInv'
<1>. SUFFICES ASSUME UInv, UrlsApart, CInv', [Next]_vars PROVE UInv'
  OBVIOUS
<1>1. CASE \E t \in Tx : Commit(t)
  BY <1>1, CommitUrls DEF UInv
<1>2. CASE \E t \in Tx : StepOf(t) /\ ~Commit(t)
  <2>1. PICK t \in Tx : StepOf(t) /\ ~Commit(t)
    BY <1>2
  <2>2. servers' = servers
    BY <2>1, OnlyCommitChanges
  <2>3. RemoteUrlUnique' /\ UrlsChecked(t)'
    BY <2>1, <2>2, OwnUrls DEF UInv, RemoteUrlUnique
  <2>4. ASSUME NEW u \in Tx \ {t} PROVE UrlsChecked(u)'
    <3>1. pc'[u] = pc[u] /\ req'[u] = req[u] /\ unchecked'[u] = unchecked[u]
      BY <2>1, Frame, UncheckedFrame DEF UInv, CInv, IInv
    <3>. QED  BY <2>2, <3>1 DEF UInv, UrlsChecked, FreeFor
  <2>. QED  BY <2>3, <2>4 DEF UInv
<1>3. CASE Tick \/ UNCHANGED vars
  <2>1. UNCHANGED <<servers, pc, req, unchecked>>
    BY <1>3 DEF Tick, vars, locals
  <2>. QED  BY <2>1 DEF UInv, RemoteUrlUnique, UrlsChecked, FreeFor
<1>. QED  BY <1>1, <1>2, <1>3 DEF Next, StepOf

\* No two servers share a remote URL as long as no two transactions past their locks
\* have one in common, however few rows validateNoDuplicateRemoteURLs reads of those
\* that have a URL, and whatever edits take a URL away: that race, between servers of
\* different locks, is the only way around the check.
THEOREM UrlsOnlyByRace == Spec /\ []UrlsApart => []RemoteUrlUnique
<1>1. Init /\ CInv => UInv
  BY DEF Init, UInv, RemoteUrlUnique, UrlsChecked, Holding, InTx
<1>2. UInv => RemoteUrlUnique
  BY DEF UInv
<1>. QED  BY <1>1, <1>2, NextUInv, PreparedInvariant, PTL DEF Spec
=============================================================================
