--------------------------- MODULE RegistryProofs ---------------------------
(***************************************************************************)
(* The order of versions, and proofs about Registry for every set of names,*)
(* versions, requests and transactions, every hash of names to locks and   *)
(* every order of versions.                                                *)
(***************************************************************************)
EXTENDS Registry, FiniteSetTheorems, TLAPS

-----------------------------------------------------------------------------
(* CompareVersions is a total preorder on versions with their times. *)

\* A semantic version has a precedence.
LEMMA PrecedenceType ==
    ASSUME NEW v \in Versions, IsSemanticVersion(v)
    PROVE  Precedence[v] \in Nat
BY VersioningAssumption DEF IsSemanticVersion

\* Swapping the two versions swaps the answer, so exactly one of "greater",
\* "equal" and "less" is said of a pair however it is asked.
THEOREM CompareAntisymmetric ==
    ASSUME NEW v \in Versions, NEW w \in Versions, NEW s \in Nat, NEW u \in Nat
    PROVE  CompareVersions(v, w, s, u) = -CompareVersions(w, v, u, s)
BY PrecedenceType DEF CompareVersions, CompareSemanticVersions, Sign, IsSemanticVersion

\* "Not greater" is transitive: the latest version may be found by comparing
\* each new version with the latest so far only.
THEOREM CompareTransitive ==
    ASSUME NEW v \in Versions, NEW w \in Versions, NEW x \in Versions,
           NEW s \in Nat, NEW u \in Nat, NEW r \in Nat,
           CompareVersions(v, w, s, u) <= 0,
           CompareVersions(w, x, u, r) <= 0
    PROVE  CompareVersions(v, x, s, r) <= 0
BY PrecedenceType DEF CompareVersions, CompareSemanticVersions, Sign, IsSemanticVersion

\* CompareVersions answers -1, 0 or 1, as the callers of versioning.go expect.
LEMMA CompareType ==
    ASSUME NEW v \in Versions, NEW w \in Versions, NEW s \in Nat, NEW u \in Nat
    PROVE  CompareVersions(v, w, s, u) \in {-1, 0, 1}
BY DEF CompareVersions, CompareSemanticVersions, Sign

\* A version that is not less stays so when its own time is later.
LEMMA CompareMonotone ==
    ASSUME NEW v \in Versions, NEW w \in Versions,
           NEW s \in Nat, NEW r \in Nat, NEW u \in Nat, s <= r,
           CompareVersions(v, w, r, u) <= 0
    PROVE  CompareVersions(v, w, s, u) <= 0
BY PrecedenceType DEF CompareVersions, CompareSemanticVersions, Sign, IsSemanticVersion

-----------------------------------------------------------------------------
(* Type correctness. *)

PCs == Resting \cup {"handler", "begin"} \cup InTx

\* A transaction that ends leaves well-typed locals behind.
LEMMA EndType ==
    ASSUME TypeOK, NEW t \in Tx, NEW o \in Outcomes, End(t, o)
    PROVE  /\ lockOwner' \in [LockIds -> Tx \cup {NoTx}]
           /\ pc' \in [Tx -> PCs]
           /\ req' \in [Tx -> Requests \cup {NoRequest}]
           /\ \A u \in Tx : pc'[u] \notin Resting => req'[u] \in Requests
           /\ \A u \in Tx : pc'[u] = "setStatus" => req'[u].newStatus \in Status
           /\ publishTime' \in [Tx -> Times]
           /\ startTime' \in [Tx -> Times]
           /\ unchecked' \in [Tx -> SUBSET Urls]
           /\ isNewLatest' \in [Tx -> BOOLEAN]
           /\ writes' \in [Tx -> [Key -> Row \cup {NoWrite}]]
<1>. USE DEF TypeOK, End, Released, PCs
<1>1. 0 \in Times
  BY StoredAssumption, RegistryAssumption
<1>2. lockOwner' \in [LockIds -> Tx \cup {NoTx}]
  OBVIOUS
<1>3. pc' \in [Tx -> PCs]
  BY DEF Resting
<1>4. req' \in [Tx -> Requests \cup {NoRequest}]
  OBVIOUS
<1>5. /\ \A u \in Tx : pc'[u] \notin Resting => req'[u] \in Requests
      /\ \A u \in Tx : pc'[u] = "setStatus" => req'[u].newStatus \in Status
  BY DEF Resting, Outcomes
<1>6. publishTime' \in [Tx -> Times] /\ startTime' \in [Tx -> Times]
  BY <1>1
<1>7. unchecked' \in [Tx -> SUBSET Urls] /\ isNewLatest' \in [Tx -> BOOLEAN]
  OBVIOUS
<1>8. writes' \in [Tx -> [Key -> Row \cup {NoWrite}]]
  BY DEF NoWrites
<1>. QED  BY <1>2, <1>3, <1>4, <1>5, <1>6, <1>7, <1>8

\* A rollback (InTransaction's deferred Rollback) leaves a well-typed state.
LEMMA RollbackType ==
    ASSUME TypeOK, NEW t \in Tx, NEW o \in Outcomes, Rollback(t, o)
    PROVE  TypeOK'
BY EndType DEF TypeOK, Rollback, PCs

\* A row that a statement reads is a row.
LEMMA ReadType ==
    ASSUME TypeOK, NEW t \in Tx, NEW k \in Key, Exists(t, k)
    PROVE  Read(t, k) \in Row
BY DEF TypeOK, Exists, Read

\* A slot that is serving has a well-formed request, whose key is one of the table.
LEMMA KeyType ==
    ASSUME TypeOK, NEW t \in Tx, pc[t] \notin Resting
    PROVE  req[t] \in Request /\ KeyOf(t) \in Key
BY RegistryAssumption DEF TypeOK, Request, KeyOf, Key

\* The type invariant is preserved by a step that moves the program counter
\* and writes at most rows.
LEMMA MoveType ==
    ASSUME TypeOK, NEW t \in Tx, NEW from \in PCs \ Resting, NEW to \in PCs,
           Step(t, from, to), to = "setStatus" => req[t].newStatus \in Status,
           writes' \in [Tx -> [Key -> Row \cup {NoWrite}]],
           UNCHANGED <<servers, now, lockOwner, locals>>
    PROVE  TypeOK'
BY DEF TypeOK, Step, locals, PCs

\* Every statement of a publish or an edit leaves a well-typed state.
LEMMA NextType == TypeOK /\ [Next]_vars => TypeOK'
<1>. SUFFICES ASSUME TypeOK, [Next]_vars PROVE TypeOK'
  OBVIOUS
<1>. USE DEF Outcomes
<1>1. ASSUME NEW t \in Tx, NEW r \in Requests, Submit(t, r) PROVE TypeOK'
  BY <1>1 DEF TypeOK, Submit
<1>2. ASSUME NEW t \in Tx, ReadCurrent(t) PROVE TypeOK'
  <2>1. CASE Rollback(t, "error")
    BY <2>1, RollbackType
  <2>2. CASE Step(t, "handler", "begin") /\ UNCHANGED <<servers, now, lockOwner, locals, writes>>
    BY <2>2, MoveType DEF PCs, Resting, TypeOK
  <2>. QED  BY <1>2, <2>1, <2>2 DEF ReadCurrent
<1>3. ASSUME NEW t \in Tx, Begin(t) PROVE TypeOK'
  <2>1. Stored[now] \in Times
    BY StoredAssumption DEF TypeOK
  <2>. QED  BY <1>3, <2>1 DEF TypeOK, Begin, Step, InTx, Resting
<1>4. ASSUME NEW t \in Tx, ValidatePublish(t) PROVE TypeOK'
  <2>1. CASE Rollback(t, "error")
    BY <2>1, RollbackType
  <2>2. CASE ~Rollback(t, "error")
    BY <1>4, <2>2 DEF TypeOK, ValidatePublish, Step, InTx, Resting
  <2>. QED  BY <2>1, <2>2
<1>5. ASSUME NEW t \in Tx, LoadAndValidate(t) PROVE TypeOK'
  <2>1. CASE Rollback(t, "error")
    BY <2>1, RollbackType
  <2>2. CASE Step(t, "load", "lock") /\ UNCHANGED <<servers, now, lockOwner, locals, writes>>
    BY <2>2, MoveType DEF PCs, InTx, Resting, TypeOK
  <2>. QED  BY <1>5, <2>1, <2>2 DEF LoadAndValidate
<1>6. ASSUME NEW t \in Tx, AcquirePublishLock(t) PROVE TypeOK'
  <2>1. req[t] \in Request
    BY <1>6, KeyType DEF AcquirePublishLock, TakeLock, Step, InTx, Resting
  <2>. QED
    BY <1>6, <2>1
    DEF TypeOK, AcquirePublishLock, TakeLock, Step, InTx, Resting, Request
<1>7. ASSUME NEW t \in Tx, CheckRemoteUrl(t) PROVE TypeOK'
  <2>1. CASE Rollback(t, "error")
    BY <2>1, RollbackType
  <2>2. CASE ~Rollback(t, "error")
    BY <1>7, <2>2 DEF TypeOK, CheckRemoteUrl
  <2>. QED  BY <2>1, <2>2
<1>8. ASSUME NEW t \in Tx, RemoteUrlsChecked(t) PROVE TypeOK'
  BY <1>8 DEF TypeOK, RemoteUrlsChecked, Step, locals, InTx, Resting
<1>9. ASSUME NEW t \in Tx, CountServerVersions(t) PROVE TypeOK'
  <2>1. CASE Rollback(t, "error")
    BY <2>1, RollbackType
  <2>2. CASE Step(t, "count", "exists") /\ UNCHANGED <<servers, now, lockOwner, locals, writes>>
    BY <2>2, MoveType DEF PCs, InTx, Resting, TypeOK
  <2>. QED  BY <1>9, <2>1, <2>2 DEF CountServerVersions
<1>10. ASSUME NEW t \in Tx, CheckVersionExists(t) PROVE TypeOK'
  <2>1. CASE Rollback(t, "error")
    BY <2>1, RollbackType
  <2>2. CASE Step(t, "exists", "latest") /\ UNCHANGED <<servers, now, lockOwner, locals, writes>>
    BY <2>2, MoveType DEF PCs, InTx, Resting, TypeOK
  <2>. QED  BY <1>10, <2>1, <2>2 DEF CheckVersionExists
<1>11. ASSUME NEW t \in Tx, GetCurrentLatestVersion(t) PROVE TypeOK'
  <2>1. PICK b \in BOOLEAN, to \in {"unmark", "insert"} :
           /\ isNewLatest' = [isNewLatest EXCEPT ![t] = b]
           /\ pc' = [pc EXCEPT ![t] = to]
    <3>1. CASE LatestOf(t, req[t].name) = {}
      BY <1>11, <3>1 DEF GetCurrentLatestVersion
    <3>2. ASSUME NEW v \in LatestOf(t, req[t].name) PROVE Newer(t, v) \in BOOLEAN
      BY DEF Newer, CompareVersions, CompareSemanticVersions, Sign
    <3>. QED  BY <1>11, <3>1, <3>2 DEF GetCurrentLatestVersion
  <2>2. UNCHANGED <<servers, now, lockOwner, req, publishTime, startTime, unchecked, writes>>
    BY <1>11 DEF GetCurrentLatestVersion
  <2>3. pc[t] = "latest"
    BY <1>11 DEF GetCurrentLatestVersion
  <2>. QED  BY <2>1, <2>2, <2>3 DEF TypeOK, Resting, InTx
<1>12. ASSUME NEW t \in Tx, UnmarkAsLatest(t) PROVE TypeOK'
  <2>. DEFINE w == [k \in Key |-> IF k \in Marked(t) THEN Unmarked(t, k)
                                  ELSE writes[t][k]]
  <2>1. \A k \in Marked(t) : Read(t, k) \in Row
    BY ReadType, KeyType, <1>12
    DEF Marked, LatestOf, VersionsOf, UnmarkAsLatest, Step, Resting, Key, Request
  <2>2. \A k \in Marked(t) : Unmarked(t, k) \in Row
    BY <2>1 DEF Unmarked, Row
  <2>3. w \in [Key -> Row \cup {NoWrite}]
    BY <2>2 DEF TypeOK
  <2>4. writes' = [writes EXCEPT ![t] = w]
    BY <1>12 DEF UnmarkAsLatest
  <2>5. writes' \in [Tx -> [Key -> Row \cup {NoWrite}]]
    BY <2>3, <2>4 DEF TypeOK
  <2>. QED  BY <1>12, <2>5, MoveType DEF UnmarkAsLatest, PCs, InTx, Resting
<1>13. ASSUME NEW t \in Tx, Insert(t) PROVE TypeOK'
  <2>1. CASE Rollback(t, "constraint")
    BY <2>1, RollbackType
  <2>2. CASE /\ Step(t, "insert", "commit")
             /\ Write(t, KeyOf(t), NewRow(t))
             /\ UNCHANGED <<servers, now, lockOwner, locals>>
    <3>1. KeyOf(t) \in Key /\ req[t] \in Request
      BY <2>2, KeyType DEF Step, Resting
    <3>2. NewRow(t) \in Row
      BY <3>1, StoredAssumption DEF NewRow, NewRowWith, Row, TypeOK, Request, Status
    <3>3. writes' \in [Tx -> [Key -> Row \cup {NoWrite}]]
      BY <2>2, <3>1, <3>2 DEF Write, TypeOK
    <3>. QED  BY <2>2, <3>3, MoveType DEF PCs, InTx, Resting
  <2>. QED  BY <1>13, <2>1, <2>2 DEF Insert
<1>14. ASSUME NEW t \in Tx, UpdateRow(t) PROVE TypeOK'
  <2>1. CASE Rollback(t, "error")
    BY <2>1, RollbackType
  <2>2. CASE /\ Exists(t, KeyOf(t))
             /\ Step(t, "update", AfterUpdate(t))
             /\ Write(t, KeyOf(t), EditedRow(t))
             /\ UNCHANGED <<servers, now, lockOwner, locals>>
    <3>1. KeyOf(t) \in Key /\ req[t] \in Request
      BY <2>2, KeyType DEF Step, Resting
    <3>2. Read(t, KeyOf(t)) \in Row
      BY <2>2, <3>1, ReadType
    <3>3. EditedRow(t) \in Row
      BY <3>1, <3>2 DEF EditedRow, Row, TypeOK, Request
    <3>4. writes' \in [Tx -> [Key -> Row \cup {NoWrite}]]
      BY <2>2, <3>1, <3>3 DEF Write, TypeOK
    <3>5. /\ AfterUpdate(t) \in PCs
          /\ "update" \in PCs \ Resting
          /\ AfterUpdate(t) = "setStatus" => req[t].newStatus \in Status
      BY <3>1 DEF AfterUpdate, PCs, InTx, Resting, Request
    <3>. QED  BY <2>2, <3>4, <3>5, MoveType
  <2>. QED  BY <1>14, <2>1, <2>2 DEF UpdateRow
<1>15. ASSUME NEW t \in Tx, SetServerStatus(t) PROVE TypeOK'
  <2>1. CASE Rollback(t, "error")
    BY <2>1, RollbackType
  <2>2. CASE /\ pc[t] = "setStatus"
             /\ Exists(t, KeyOf(t))
             /\ Step(t, "setStatus", "commit")
             /\ Write(t, KeyOf(t), WithStatus(t, KeyOf(t)))
             /\ UNCHANGED <<servers, now, lockOwner, locals>>
    <3>1. KeyOf(t) \in Key
      BY <2>2, KeyType DEF Resting
    <3>2. Read(t, KeyOf(t)) \in Row
      BY <2>2, <3>1, ReadType
    <3>3. WithStatus(t, KeyOf(t)) \in Row
      BY <2>2, <3>2 DEF WithStatus, Row, TypeOK
    <3>4. writes' \in [Tx -> [Key -> Row \cup {NoWrite}]]
      BY <2>2, <3>1, <3>3 DEF Write, TypeOK
    <3>. QED  BY <2>2, <3>4, MoveType DEF PCs, InTx, Resting
  <2>. QED  BY <1>15, <2>1, <2>2 DEF SetServerStatus
<1>16. ASSUME NEW t \in Tx, Commit(t) PROVE TypeOK'
  <2>1. PICK o \in {"ok", "error"} : End(t, o)
    BY <1>16 DEF Commit
  <2>2. servers' \in [Key -> Row \cup {NoRow}]
    BY <1>16 DEF Commit, TypeOK, Read
  <2>. QED  BY <1>16, <2>1, <2>2, EndType DEF Commit, TypeOK, PCs
<1>17. ASSUME NEW t \in Tx, Abort(t) PROVE TypeOK'
  BY <1>17, RollbackType DEF Abort
<1>18. CASE Tick
  BY <1>18, RegistryAssumption DEF TypeOK, Tick, locals
<1>19. CASE UNCHANGED vars
  BY <1>19 DEF TypeOK, vars, locals
<1>. QED
  BY <1>1, <1>2, <1>3, <1>4, <1>5, <1>6, <1>7, <1>8, <1>9, <1>10, <1>11,
     <1>12, <1>13, <1>14, <1>15, <1>16, <1>17, <1>18, <1>19
  DEF Next, Serve, Publish, Edit

\* Every state of the publish and edit transactions of registry_service.go is
\* well typed; in particular SetServerStatus is reached only by an edit that
\* names a status of the table's check constraint.
THEOREM TypeCorrect == Spec => []TypeOK
<1>1. Init => TypeOK
  BY RegistryAssumption, StoredAssumption
  DEF Init, TypeOK, Resting, NoWrites
<1>. QED  BY <1>1, NextType, PTL DEF Spec

-----------------------------------------------------------------------------
(* Mutual exclusion by the advisory locks. *)

\* A transaction past AcquirePublishLock owns the lock of its server's name.
HolderOwns ==
    \A t \in Tx : pc[t] \in Holding => lockOwner[HashServerName[req[t].name]] = t

\* Ending a transaction frees no lock that another one owns.
LEMMA EndKeepsOwners ==
    ASSUME TypeOK, HolderOwns, NEW t \in Tx, NEW o \in Outcomes, End(t, o)
    PROVE  HolderOwns'
<1>1. SUFFICES ASSUME NEW u \in Tx, pc'[u] \in Holding
               PROVE  lockOwner'[HashServerName[req'[u].name]] = u
  BY DEF HolderOwns
<1>2. u # t
  BY <1>1 DEF End, TypeOK, Holding, InTx, Outcomes
<1>3. pc'[u] = pc[u] /\ req'[u] = req[u]
  BY <1>2 DEF End, TypeOK
<1>4. req[u] \in Request
  BY <1>1, <1>3, KeyType DEF Holding, InTx, Resting, Outcomes
<1>5. HashServerName[req[u].name] \in LockIds
  BY <1>4, RegistryAssumption DEF Request
<1>. QED  BY <1>1, <1>2, <1>3, <1>5 DEF End, Released, HolderOwns

\* A step that takes no lock, ends no transaction and enters no critical
\* section from outside keeps the locks owned.
LEMMA MoveKeepsOwners ==
    ASSUME TypeOK, HolderOwns, UNCHANGED <<lockOwner, req>>,
           pc' \in [Tx -> PCs],
           \A u \in Tx : pc'[u] \in Holding => pc[u] \in Holding
    PROVE  HolderOwns'
BY DEF HolderOwns

\* Every statement of every transaction, and the end of each, keeps the lock
\* with the transaction that is past AcquirePublishLock.
LEMMA NextKeepsOwners == TypeOK /\ TypeOK' /\ HolderOwns /\ [Next]_vars => HolderOwns'
<1>. SUFFICES ASSUME TypeOK, TypeOK', HolderOwns, [Next]_vars PROVE HolderOwns'
  OBVIOUS
<1>. USE DEF Outcomes
<1>0. pc \in [Tx -> PCs] /\ pc' \in [Tx -> PCs]
  BY DEF TypeOK, PCs
<1>a. ASSUME NEW t \in Tx, NEW o \in Outcomes, Rollback(t, o) PROVE HolderOwns'
  BY <1>a, EndKeepsOwners DEF Rollback
<1>1. ASSUME NEW t \in Tx, NEW r \in Requests, Submit(t, r) PROVE HolderOwns'
  BY <1>1, <1>0 DEF Submit, HolderOwns, Holding, InTx, Resting
<1>2. ASSUME NEW t \in Tx, ReadCurrent(t) \/ LoadAndValidate(t) PROVE HolderOwns'
  <2>1. CASE Rollback(t, "error")
    BY <2>1, <1>a
  <2>2. CASE \E from \in {"handler", "load"}, to \in {"begin", "lock"} :
                Step(t, from, to) /\ UNCHANGED <<lockOwner, req>>
    BY <2>2, <1>0, MoveKeepsOwners DEF Step, Holding, InTx
  <2>. QED  BY <1>2, <2>1, <2>2 DEF ReadCurrent, LoadAndValidate, locals
<1>3. ASSUME NEW t \in Tx, Begin(t) PROVE HolderOwns'
  BY <1>3, <1>0, MoveKeepsOwners DEF Begin, Step, Holding, InTx
<1>4. ASSUME NEW t \in Tx, ValidatePublish(t) PROVE HolderOwns'
  <2>1. CASE Rollback(t, "error")
    BY <2>1, <1>a
  <2>2. CASE ~Rollback(t, "error")
    BY <1>4, <2>2, <1>0, MoveKeepsOwners DEF ValidatePublish, Step, Holding, InTx
  <2>. QED  BY <2>1, <2>2
<1>5. ASSUME NEW t \in Tx, AcquirePublishLock(t) PROVE HolderOwns'
  <2>1. req[t] \in Request
    BY <1>5, KeyType DEF AcquirePublishLock, TakeLock, LockOf, Step, Resting
  <2>2. HashServerName[req[t].name] \in LockIds
    BY <2>1, RegistryAssumption DEF Request
  <2>3. ASSUME NEW u \in Tx, pc'[u] \in Holding
        PROVE  lockOwner'[HashServerName[req'[u].name]] = u
    <3>1. CASE u = t
      BY <1>5, <2>2, <3>1 DEF AcquirePublishLock, TakeLock, LockOf, TypeOK
    <3>2. CASE u # t
      <4>1. pc[u] \in Holding /\ req' = req
        BY <1>5, <2>3, <3>2, <1>0 DEF AcquirePublishLock, TakeLock, LockOf, Step
      <4>2. lockOwner[HashServerName[req[u].name]] = u
        BY <4>1 DEF HolderOwns
      <4>3. HashServerName[req[u].name] # HashServerName[req[t].name]
        BY <1>5, <4>2, RegistryAssumption DEF AcquirePublishLock, TakeLock, LockOf
      <4>. QED  BY <1>5, <4>1, <4>2, <4>3 DEF AcquirePublishLock, TakeLock, LockOf, TypeOK
    <3>. QED  BY <3>1, <3>2
  <2>. QED  BY <2>3 DEF HolderOwns
<1>6. ASSUME NEW t \in Tx, CheckRemoteUrl(t) PROVE HolderOwns'
  <2>1. CASE Rollback(t, "error")
    BY <2>1, <1>a
  <2>2. CASE ~Rollback(t, "error")
    BY <1>6, <2>2, <1>0, MoveKeepsOwners DEF CheckRemoteUrl
  <2>. QED  BY <2>1, <2>2
<1>7. ASSUME NEW t \in Tx, RemoteUrlsChecked(t) PROVE HolderOwns'
  BY <1>7, <1>0, MoveKeepsOwners DEF RemoteUrlsChecked, Step, Holding, InTx, locals
<1>8. ASSUME NEW t \in Tx, \/ CountServerVersions(t) \/ CheckVersionExists(t)
                           \/ Insert(t) \/ UpdateRow(t) \/ SetServerStatus(t)
      PROVE  HolderOwns'
  <2>1. CASE Rollback(t, "error") \/ Rollback(t, "constraint")
    BY <2>1, <1>a
  <2>2. CASE \E from \in Holding, to \in PCs :
                Step(t, from, to) /\ UNCHANGED <<lockOwner, req>>
    BY <2>2, <1>0, MoveKeepsOwners DEF Step
  <2>3. {"count", "exists", "insert", "update", "setStatus"} \subseteq Holding
        /\ {"exists", "latest", "commit", "setStatus"} \subseteq PCs
        /\ AfterUpdate(t) \in PCs
    BY DEF Holding, InTx, PCs, AfterUpdate
  <2>. QED
    BY <1>8, <2>1, <2>2, <2>3
    DEF CountServerVersions, CheckVersionExists, Insert, UpdateRow, SetServerStatus, locals
<1>9. ASSUME NEW t \in Tx, GetCurrentLatestVersion(t) \/ UnmarkAsLatest(t)
      PROVE  HolderOwns'
  <2>1. pc[t] \in Holding /\ UNCHANGED <<lockOwner, req>>
    BY <1>9 DEF GetCurrentLatestVersion, UnmarkAsLatest, Step, locals, Holding, InTx
  <2>2. \A u \in Tx \ {t} : pc'[u] = pc[u]
    BY <1>9, <1>0 DEF GetCurrentLatestVersion, UnmarkAsLatest, Step
  <2>. QED  BY <2>1, <2>2, <1>0, MoveKeepsOwners
<1>10. ASSUME NEW t \in Tx, Commit(t) PROVE HolderOwns'
  BY <1>10, EndKeepsOwners DEF Commit
<1>11. ASSUME NEW t \in Tx, Abort(t) PROVE HolderOwns'
  BY <1>11, <1>a DEF Abort
<1>12. CASE Tick \/ UNCHANGED vars
  BY <1>12, <1>0, MoveKeepsOwners DEF Tick, vars, locals
<1>. QED
  BY <1>1, <1>2, <1>3, <1>4, <1>5, <1>6, <1>7, <1>8, <1>9, <1>10, <1>11, <1>12
  DEF Next, Serve, Publish, Edit

\* A transaction past AcquirePublishLock owns the lock of its server until it
\* ends, in every state.
LEMMA OwnersInvariant == Spec => [](TypeOK /\ HolderOwns)
<1>1. Init => HolderOwns
  BY DEF Init, HolderOwns, Holding, InTx
<1>. QED  BY <1>1, TypeCorrect, NextKeepsOwners, PTL DEF Spec

\* Two publishes or edits under the same lock are never in progress together.
THEOREM Exclusion == Spec => []PublishExclusion
<1>1. HolderOwns => PublishExclusion
  BY DEF HolderOwns, PublishExclusion
<1>. QED  BY <1>1, OwnersInvariant, PTL

-----------------------------------------------------------------------------
(* The inductive invariant behind LatestIsGreatest, VersionLimit and        *)
(* NoConstraintError.  What a publish has established between two of its    *)
(* statements stays true because the rows of a server change only in the    *)
(* commit of a transaction that holds the server's lock.                    *)

\* The versions of n in a table, and the order of two of its rows.
VersionsIn(T, n) == {v \in Versions : T[<<n, v>>] # NoRow}

NotGreater(T, n, w, v) ==
    CompareVersions(w, v, T[<<n, w>>].publishedAt, T[<<n, v>>].publishedAt) <= 0

\* v is marked latest among the versions of n, alone, and none is greater.
IsLatestOf(T, n, v) ==
    /\ v \in VersionsIn(T, n)
    /\ T[<<n, v>>].isLatest
    /\ \A w \in VersionsIn(T, n) \ {v} : ~T[<<n, w>>].isLatest /\ NotGreater(T, n, w, v)

\* The publication times of a table are as its column holds them.
TimesStored(T, n) ==
    \A v \in VersionsIn(T, n) : Stored[T[<<n, v>>].publishedAt] = T[<<n, v>>].publishedAt

Good(T, n) ==
    /\ IsFiniteSet(VersionsIn(T, n))
    /\ Cardinality(VersionsIn(T, n)) <= MaxServerVersions
    /\ TimesStored(T, n)
    /\ VersionsIn(T, n) # {} => \E v \in Versions : IsLatestOf(T, n, v)

\* The table as a transaction reads it.
View(t) == [k \in Key |-> Read(t, k)]

HasRoom(T, n) == Cardinality(VersionsIn(T, n)) < MaxServerVersions

\* The publish of t may insert its row: no constraint is in the way, and the
\* row will be rightly marked.
MayInsert(t) ==
    LET T == View(t)
        n == req[t].name
        notGreater(w) == CompareVersions(w, req[t].version, T[<<n, w>>].publishedAt,
                                         Stored[publishTime[t]]) <= 0
        notLess(w) == CompareVersions(req[t].version, w, Stored[publishTime[t]],
                                      T[<<n, w>>].publishedAt) <= 0
    IN /\ T[KeyOf(t)] = NoRow
       /\ IsFiniteSet(VersionsIn(T, n))
       /\ HasRoom(T, n)
       /\ TimesStored(T, n)
       /\ isNewLatest[t] => \A w \in VersionsIn(T, n) :
                                ~T[<<n, w>>].isLatest /\ notGreater(w)
       /\ ~isNewLatest[t] => \E w \in VersionsIn(T, n) :
                                IsLatestOf(T, n, w) /\ notLess(w)

\* What transaction t has established at its place in the code.
Established(t) ==
    LET n == req[t].name IN
    /\ pc[t] \in {"exists", "latest", "unmark"} => HasRoom(servers, n)
    /\ pc[t] \in {"latest", "unmark"} => servers[KeyOf(t)] = NoRow
    /\ pc[t] = "unmark" => isNewLatest[t] /\ \A w \in LatestOf(t, n) : Newer(t, w)
    /\ pc[t] = "insert" => MayInsert(t)
    /\ pc[t] \in {"setStatus", "commit"} => Good(View(t), n)
    /\ pc[t] # "constraint"

\* A transaction writes rows of its server only, and only when it holds the lock.
WritesOwnServer ==
    \A t \in Tx, k \in Key : writes[t][k] # NoWrite =>
        /\ pc[t] \in {"insert", "setStatus", "commit"}
        /\ k[1] = req[t].name

IInv ==
    /\ TypeOK
    /\ HolderOwns
    /\ WritesOwnServer
    /\ \A n \in Names : Good(servers, n)
    /\ \A t \in Tx : Established(t)

-----------------------------------------------------------------------------
(* Lemmas about times, tables and views. *)

\* What the comparison with an unrounded publishTime says of the stored one.
LEMMA CompareStored ==
    ASSUME NEW v \in Versions, NEW w \in Versions, NEW s \in Times, NEW u \in Times,
           Stored[u] = u
    PROVE  /\ CompareVersions(v, w, s, u) > 0 => CompareVersions(w, v, u, Stored[s]) <= 0
           /\ ~(CompareVersions(v, w, s, u) > 0) => CompareVersions(v, w, Stored[s], u) <= 0
<1>1. s \in Nat /\ u \in Nat /\ Stored[s] \in Nat /\ Stored[s] <= s
  BY StoredAssumption
<1>2. s >= u => Stored[s] >= u
  BY <1>1, StoredAssumption
<1>. QED
  BY <1>1, <1>2, PrecedenceType
  DEF CompareVersions, CompareSemanticVersions, Sign, IsSemanticVersion

\* Whether a table is good for n depends on which rows of n are there, on their
\* publication times and on which are marked.
LEMMA GoodSame ==
    ASSUME NEW n \in Names, NEW T1, NEW T2, Good(T1, n),
           \A v \in Versions :
              /\ T1[<<n, v>>] = NoRow <=> T2[<<n, v>>] = NoRow
              /\ T1[<<n, v>>] # NoRow =>
                    /\ T1[<<n, v>>].isLatest = T2[<<n, v>>].isLatest
                    /\ T1[<<n, v>>].publishedAt = T2[<<n, v>>].publishedAt
    PROVE  Good(T2, n)
<1>1. VersionsIn(T1, n) = VersionsIn(T2, n)
  BY DEF VersionsIn
<1>2. TimesStored(T2, n)
  BY <1>1 DEF Good, TimesStored, VersionsIn
<1>3. \A v \in Versions : IsLatestOf(T1, n, v) => IsLatestOf(T2, n, v)
  BY <1>1 DEF IsLatestOf, VersionsIn, NotGreater
<1>. QED  BY <1>1, <1>2, <1>3 DEF Good

\* A transaction that has written nothing reads the committed table.
LEMMA ReadsCommitted ==
    ASSUME WritesOwnServer, NEW t \in Tx, NEW k \in Key,
           pc[t] \notin {"insert", "setStatus", "commit"} \/ k[1] # req[t].name
    PROVE  writes[t][k] = NoWrite /\ Read(t, k) = servers[k]
BY DEF WritesOwnServer, Read

\* The table as t reads it holds the rows that the statements of t read.
LEMMA ViewOf ==
    ASSUME NEW t \in Tx, NEW n \in Names
    PROVE  /\ \A v \in Versions : View(t)[<<n, v>>] = Read(t, <<n, v>>)
           /\ VersionsIn(View(t), n) = VersionsOf(t, n)
BY DEF View, VersionsIn, VersionsOf, Exists, Key

\* What t has established concerns its own locals, its writes and the
\* committed rows of its server.
LEMMA EstablishedLocal ==
    ASSUME TypeOK, NEW t \in Tx, Established(t), pc[t] \in Holding,
           pc'[t] = pc[t], req'[t] = req[t], writes'[t] = writes[t],
           publishTime'[t] = publishTime[t], isNewLatest'[t] = isNewLatest[t],
           \A v \in Versions : servers'[<<req[t].name, v>>] = servers[<<req[t].name, v>>]
    PROVE  Established(t)'
<1>. DEFINE n == req[t].name
<1>1. n \in Names /\ KeyOf(t) \in Key /\ req[t].version \in Versions
  BY KeyType DEF Request, Holding, InTx, Resting, Outcomes
<1>2. \A v \in Versions : Read(t, <<n, v>>)' = Read(t, <<n, v>>)
  BY DEF Read
<1>3. \A v \in Versions : View(t)'[<<n, v>>] = View(t)[<<n, v>>]
  BY <1>1, <1>2 DEF View, Key
<1>4. /\ VersionsIn(View(t)', n) = VersionsIn(View(t), n)
      /\ VersionsIn(servers', n) = VersionsIn(servers, n)
      /\ LatestOf(t, n)' = LatestOf(t, n)
  BY <1>2, <1>3 DEF VersionsIn, LatestOf, VersionsOf, Exists
<1>5. pc[t] \in {"exists", "latest", "unmark"} => HasRoom(servers', n)
  BY <1>4 DEF Established, HasRoom
<1>6. KeyOf(t)' = KeyOf(t) /\ KeyOf(t) = <<n, req[t].version>>
  BY DEF KeyOf
<1>7. pc[t] \in {"latest", "unmark"} => servers'[KeyOf(t)] = NoRow
  BY <1>1, <1>6 DEF Established
<1>8. pc[t] = "unmark" => isNewLatest[t] /\ \A w \in LatestOf(t, n) : Newer(t, w)'
  BY <1>2 DEF Established, Newer, LatestOf, VersionsOf
<1>9. pc[t] = "insert" => MayInsert(t)'
  <2>. SUFFICES ASSUME MayInsert(t) PROVE MayInsert(t)'
    BY DEF Established
  <2>1. \A w \in Versions : IsLatestOf(View(t), n, w) => IsLatestOf(View(t)', n, w)
    BY <1>3, <1>4 DEF IsLatestOf, NotGreater, VersionsIn
  <2>2. TimesStored(View(t)', n)
    BY <1>3, <1>4 DEF MayInsert, TimesStored, VersionsIn
  <2>3. View(t)'[KeyOf(t)'] = NoRow
    BY <1>1, <1>3, <1>6 DEF MayInsert
  <2>4. HasRoom(View(t)', n) /\ IsFiniteSet(VersionsIn(View(t)', n))
    BY <1>4 DEF MayInsert, HasRoom
  <2>5. \A w \in VersionsIn(View(t), n) : w \in Versions /\ View(t)'[<<n, w>>] = View(t)[<<n, w>>]
    BY <1>3 DEF VersionsIn
  <2>. QED  BY <1>4, <2>1, <2>2, <2>3, <2>4, <2>5 DEF MayInsert
<1>10. pc[t] \in {"setStatus", "commit"} => Good(View(t)', n)
  <2>. SUFFICES ASSUME Good(View(t), n) PROVE Good(View(t)', n)
    BY DEF Established
  <2>1. \A v \in Versions :
           /\ View(t)[<<n, v>>] = NoRow <=> View(t)'[<<n, v>>] = NoRow
           /\ View(t)[<<n, v>>] # NoRow =>
                 /\ View(t)[<<n, v>>].isLatest = View(t)'[<<n, v>>].isLatest
                 /\ View(t)[<<n, v>>].publishedAt = View(t)'[<<n, v>>].publishedAt
    BY <1>3
  <2>. QED  BY <1>1, <2>1, GoodSame
<1>. QED  BY <1>4, <1>5, <1>6, <1>7, <1>8, <1>9, <1>10 DEF Established

-----------------------------------------------------------------------------
(* A step of one transaction leaves what the others have established. *)

\* A step of slot t.
StepOf(t) == (\E r \in Requests : Submit(t, r)) \/ Serve(t) \/ Abort(t)

\* The end of one transaction leaves the locals and writes of the others alone.
LEMMA EndFrame ==
    ASSUME TypeOK, NEW t \in Tx, NEW u \in Tx \ {t}, NEW o, End(t, o)
    PROVE  /\ pc'[u] = pc[u] /\ req'[u] = req[u] /\ writes'[u] = writes[u]
           /\ publishTime'[u] = publishTime[u] /\ isNewLatest'[u] = isNewLatest[u]
BY DEF End, TypeOK

\* A step of one slot leaves the locals and writes of the others alone.
LEMMA Frame ==
    ASSUME TypeOK, NEW t \in Tx, NEW u \in Tx \ {t}, StepOf(t)
    PROVE  /\ pc'[u] = pc[u] /\ req'[u] = req[u] /\ writes'[u] = writes[u]
           /\ publishTime'[u] = publishTime[u] /\ isNewLatest'[u] = isNewLatest[u]
<1>. DEFINE Kept == /\ pc'[u] = pc[u] /\ req'[u] = req[u] /\ writes'[u] = writes[u]
                    /\ publishTime'[u] = publishTime[u]
                    /\ isNewLatest'[u] = isNewLatest[u]
<1>1. CASE \E o : End(t, o)
  BY <1>1, EndFrame
<1>2. CASE ~\E o : End(t, o)
  <2>1. ASSUME NEW r \in Requests, Submit(t, r) PROVE Kept
    BY <2>1 DEF Submit, TypeOK
  <2>2. ASSUME ReadCurrent(t) \/ LoadAndValidate(t) \/ CountServerVersions(t) \/ CheckVersionExists(t)
        PROVE  Kept
    BY <1>2, <2>2
    DEF ReadCurrent, LoadAndValidate, CountServerVersions, CheckVersionExists,
        Rollback, Step, locals, TypeOK
  <2>3. ASSUME Begin(t) \/ AcquirePublishLock(t) \/ RemoteUrlsChecked(t) PROVE Kept
    BY <2>3 DEF Begin, AcquirePublishLock, TakeLock, RemoteUrlsChecked, Step, locals, TypeOK
  <2>4. ASSUME ValidatePublish(t) \/ CheckRemoteUrl(t) PROVE Kept
    BY <1>2, <2>4 DEF ValidatePublish, CheckRemoteUrl, Rollback, Step, TypeOK
  <2>5. ASSUME GetCurrentLatestVersion(t) PROVE Kept
    BY <2>5 DEF GetCurrentLatestVersion, TypeOK
  <2>6. ASSUME UnmarkAsLatest(t) PROVE Kept
    BY <2>6 DEF UnmarkAsLatest, Step, locals, TypeOK
  <2>7. ASSUME Insert(t) \/ UpdateRow(t) \/ SetServerStatus(t) PROVE Kept
    BY <1>2, <2>7
    DEF Insert, UpdateRow, SetServerStatus, Write, Rollback, Step, locals, TypeOK
  <2>. QED
    BY <1>2, <2>1, <2>2, <2>3, <2>4, <2>5, <2>6, <2>7
    DEF StepOf, Serve, Publish, Edit, Commit, Abort, Rollback
<1>. QED  BY <1>1, <1>2

\* Only a commit changes the committed table.
LEMMA OnlyCommitChanges ==
    ASSUME NEW t \in Tx, StepOf(t), ~Commit(t)
    PROVE  servers' = servers
<1>. USE DEF Rollback, locals
<1>1. ASSUME ReadCurrent(t) \/ LoadAndValidate(t) \/ CountServerVersions(t) \/ CheckVersionExists(t)
      PROVE  servers' = servers
  BY <1>1 DEF ReadCurrent, LoadAndValidate, CountServerVersions, CheckVersionExists
<1>2. ASSUME Begin(t) \/ AcquirePublishLock(t) \/ RemoteUrlsChecked(t)
      PROVE  servers' = servers
  BY <1>2 DEF Begin, AcquirePublishLock, TakeLock, RemoteUrlsChecked
<1>3. ASSUME ValidatePublish(t) \/ CheckRemoteUrl(t) \/ GetCurrentLatestVersion(t)
             \/ UnmarkAsLatest(t)
      PROVE  servers' = servers
  BY <1>3 DEF ValidatePublish, CheckRemoteUrl, GetCurrentLatestVersion, UnmarkAsLatest
<1>4. ASSUME Insert(t) \/ UpdateRow(t) \/ SetServerStatus(t)
      PROVE  servers' = servers
  BY <1>4 DEF Insert, UpdateRow, SetServerStatus
<1>. QED
  BY <1>1, <1>2, <1>3, <1>4 DEF StepOf, Submit, Serve, Publish, Edit, Abort

\* No statement of the registry removes a row.
LEMMA RowsRemain ==
    ASSUME TypeOK, NEW t \in Tx, StepOf(t), NEW k \in Key, servers[k] # NoRow
    PROVE  servers'[k] # NoRow
<1>1. CASE Commit(t)
  BY <1>1, RegistryAssumption DEF Commit, Read, TypeOK
<1>. QED  BY <1>1, OnlyCommitChanges

\* No step of the specification does.
LEMMA RowsStay ==
    ASSUME TypeOK, [Next]_vars, NEW k \in Key, servers[k] # NoRow
    PROVE  servers'[k] # NoRow
<1>1. CASE Tick \/ UNCHANGED vars
  BY <1>1 DEF Tick, vars
<1>. QED  BY <1>1, RowsRemain DEF Next, StepOf

\* A commit changes rows of the server of its request only.
LEMMA CommitLocal ==
    ASSUME WritesOwnServer, NEW t \in Tx, Commit(t), NEW k \in Key, k[1] # req[t].name
    PROVE  servers'[k] = servers[k]
BY ReadsCommitted DEF Commit

\* What another transaction has established survives a step of t: only a commit
\* changes the table, and t does not hold that transaction's lock.
LEMMA OthersEstablished ==
    ASSUME IInv, NEW t \in Tx, NEW u \in Tx \ {t}, StepOf(t)
    PROVE  Established(u)'
<1>1. /\ pc'[u] = pc[u] /\ req'[u] = req[u] /\ writes'[u] = writes[u]
      /\ publishTime'[u] = publishTime[u] /\ isNewLatest'[u] = isNewLatest[u]
  BY Frame DEF IInv
<1>2. CASE pc[u] \notin Holding
  <2>1. pc'[u] \notin {"exists", "latest", "unmark", "insert", "setStatus", "commit", "constraint"}
    BY <1>1, <1>2 DEF IInv, Established, Holding, InTx
  <2>. QED  BY <2>1 DEF Established
<1>3. CASE pc[u] \in Holding
  <2>1. ASSUME NEW v \in Versions
        PROVE  servers'[<<req[u].name, v>>] = servers[<<req[u].name, v>>]
    <3>1. CASE Commit(t)
      <4>1. req[t] \in Request /\ req[u] \in Request
        BY <1>3, <3>1, KeyType DEF IInv, Commit, Holding, InTx, Resting, Outcomes
      <4>2. req[t].name # req[u].name
        BY <1>3, <3>1 DEF IInv, HolderOwns, Commit, Holding, InTx
      <4>. QED  BY <3>1, <4>1, <4>2, CommitLocal DEF IInv, Key, Request
    <3>. QED  BY <3>1, OnlyCommitChanges
  <2>. QED  BY <1>1, <1>3, <2>1, EstablishedLocal DEF IInv
<1>. QED  BY <1>2, <1>3

-----------------------------------------------------------------------------
(* A step of a transaction establishes what its next place in the code needs. *)

\* After its end, without a constraint met, a slot claims nothing.
LEMMA EndEstablished ==
    ASSUME TypeOK, NEW t \in Tx, NEW o \in {"ok", "error"}, End(t, o)
    PROVE  Established(t)'
<1>1. pc'[t] = o
  BY DEF End, TypeOK
<1>. QED  BY <1>1 DEF Established

\* Past CountServerVersions there is room for one more version.
LEMMA CountEstablished ==
    ASSUME IInv, NEW t \in Tx, CountServerVersions(t), ~Rollback(t, "error")
    PROVE  Established(t)'
<1>. DEFINE n == req[t].name
<1>1. /\ pc[t] = "count" /\ pc'[t] = "exists" /\ ~AtLimit(t)
      /\ UNCHANGED <<servers, req, writes>>
  BY DEF CountServerVersions, Step, locals, IInv, TypeOK
<1>2. n \in Names
  BY <1>1, KeyType DEF IInv, Resting, Outcomes, Request
<1>3. VersionsOf(t, n) = VersionsIn(servers, n)
  BY <1>1, <1>2, ReadsCommitted DEF IInv, VersionsOf, VersionsIn, Exists, Key
<1>4. Cardinality(VersionsIn(servers, n)) \in Nat
  BY <1>2, FS_CardinalityType DEF IInv, Good
<1>5. HasRoom(servers, n)
  BY <1>1, <1>3, <1>4, RegistryAssumption DEF AtLimit, HasRoom
<1>. QED  BY <1>1, <1>5 DEF Established, HasRoom

\* Past CheckVersionExists the version is not in the table.
LEMMA ExistsEstablished ==
    ASSUME IInv, NEW t \in Tx, CheckVersionExists(t), ~Rollback(t, "error")
    PROVE  Established(t)'
<1>1. /\ pc[t] = "exists" /\ pc'[t] = "latest" /\ ~Exists(t, KeyOf(t))
      /\ UNCHANGED <<servers, req, writes>>
  BY DEF CheckVersionExists, Step, locals, IInv, TypeOK
<1>2. KeyOf(t) \in Key
  BY <1>1, KeyType DEF IInv, Resting, Outcomes
<1>3. servers[KeyOf(t)] = NoRow
  BY <1>1, <1>2, ReadsCommitted DEF IInv, Exists
<1>4. HasRoom(servers, req[t].name)
  BY <1>1 DEF IInv, Established
<1>. QED  BY <1>1, <1>3, <1>4 DEF Established, HasRoom, KeyOf

\* Among the rows that a publish reads, at most one is marked latest.
LEMMA OneLatest ==
    ASSUME NEW T, NEW n, NEW v \in Versions, IsLatestOf(T, n, v),
           NEW w \in VersionsIn(T, n), T[<<n, w>>].isLatest
    PROVE  w = v
BY DEF IsLatestOf

\* Past GetCurrentLatestVersion the new version is either the latest by the
\* comparison made, or no greater than the one that is.
LEMMA LatestEstablished ==
    ASSUME IInv, NEW t \in Tx, GetCurrentLatestVersion(t)
    PROVE  Established(t)'
<1>. DEFINE n == req[t].name
            T == servers
<1>0. pc[t] = "latest" /\ UNCHANGED <<servers, req, publishTime, writes>>
  BY DEF GetCurrentLatestVersion
<1>1. n \in Names /\ req[t].version \in Versions /\ KeyOf(t) \in Key
  BY <1>0, KeyType DEF IInv, Resting, Outcomes, Request
<1>2. \A v \in Versions : Read(t, <<n, v>>) = T[<<n, v>>]
  BY <1>0, <1>1, ReadsCommitted DEF IInv, Key
<1>3. VersionsOf(t, n) = VersionsIn(T, n)
  BY <1>2 DEF VersionsOf, VersionsIn, Exists
<1>4. /\ Good(T, n) /\ HasRoom(T, n) /\ T[KeyOf(t)] = NoRow
  BY <1>0, <1>1 DEF IInv, Established
<1>5. LatestOf(t, n) = {v \in VersionsIn(T, n) : T[<<n, v>>].isLatest}
  BY <1>2, <1>3 DEF LatestOf, VersionsIn
<1>6. \A v \in Versions : View(t)[<<n, v>>] = T[<<n, v>>] /\ View(t)'[<<n, v>>] = T[<<n, v>>]
  BY <1>0, <1>1, <1>2 DEF View, Key, Read
<1>7. /\ VersionsIn(View(t)', n) = VersionsIn(T, n)
      /\ View(t)'[KeyOf(t)] = NoRow
  BY <1>1, <1>4, <1>6 DEF VersionsIn, KeyOf
<1>8. TimesStored(View(t)', n)
  BY <1>4, <1>6, <1>7 DEF Good, TimesStored, VersionsIn
<1>9. CASE LatestOf(t, n) = {}
  <2>1. pc'[t] = "insert" /\ isNewLatest'[t] = TRUE
    BY <1>9 DEF GetCurrentLatestVersion, IInv, TypeOK
  <2>2. VersionsIn(T, n) = {}
    BY <1>4, <1>5, <1>9 DEF Good, IsLatestOf
  <2>3. MayInsert(t)'
    BY <1>0, <1>4, <1>7, <1>8, <2>1, <2>2 DEF MayInsert, HasRoom, Good, KeyOf
  <2>. QED  BY <2>1, <2>3 DEF Established
<1>10. CASE LatestOf(t, n) # {}
  <2>1. PICK v \in LatestOf(t, n) :
           /\ isNewLatest' = [isNewLatest EXCEPT ![t] = Newer(t, v)]
           /\ pc' = [pc EXCEPT ![t] = IF Newer(t, v) THEN "unmark" ELSE "insert"]
    BY <1>10 DEF GetCurrentLatestVersion
  <2>2. v \in Versions /\ IsLatestOf(T, n, v)
    BY <1>4, <1>5, <2>1, OneLatest DEF Good, VersionsIn
  <2>3. LatestOf(t, n) = {v}
    BY <1>5, <2>1, <2>2, OneLatest
  <2>4. CASE Newer(t, v)
    <3>1. pc'[t] = "unmark" /\ isNewLatest'[t] = TRUE
      BY <2>1, <2>4 DEF IInv, TypeOK
    <3>2. LatestOf(t, n)' = LatestOf(t, n)
      BY <1>0 DEF LatestOf, VersionsOf, Exists, Read
    <3>3. \A w \in LatestOf(t, n)' : Newer(t, w)'
      BY <1>0, <2>3, <2>4, <3>2 DEF Newer, Read
    <3>4. HasRoom(servers', req'[t].name) /\ servers'[KeyOf(t)'] = NoRow
      BY <1>0, <1>4 DEF HasRoom, KeyOf
    <3>. QED  BY <1>0, <3>1, <3>3, <3>4 DEF Established
  <2>5. CASE ~Newer(t, v)
    <3>0. Newer(t, v) \in BOOLEAN
      BY DEF Newer, CompareVersions, CompareSemanticVersions, Sign
    <3>1. pc'[t] = "insert" /\ isNewLatest'[t] = FALSE
      BY <2>1, <2>5, <3>0 DEF IInv, TypeOK
    <3>2. IsLatestOf(View(t)', n, v)
      BY <1>6, <1>7, <2>2 DEF IsLatestOf, NotGreater, VersionsIn
    <3>3. /\ T[<<n, v>>].publishedAt \in Times /\ publishTime[t] \in Times
          /\ Stored[T[<<n, v>>].publishedAt] = T[<<n, v>>].publishedAt
      BY <1>1, <1>4, <2>2 DEF IInv, TypeOK, Key, Row, IsLatestOf, VersionsIn, Good, TimesStored
    <3>4. CompareVersions(req[t].version, v, Stored[publishTime[t]],
                          T[<<n, v>>].publishedAt) <= 0
      BY <1>1, <1>2, <2>2, <2>5, <3>3, CompareStored DEF Newer
    <3>5. MayInsert(t)'
      BY <1>0, <1>4, <1>6, <1>7, <1>8, <2>2, <3>1, <3>2, <3>4
      DEF MayInsert, HasRoom, Good, KeyOf, IsLatestOf
    <3>. QED  BY <3>1, <3>5 DEF Established
  <2>. QED  BY <2>4, <2>5
<1>. QED  BY <1>9, <1>10

\* Past UnmarkAsLatest the insert meets no constraint and marks rightly.
LEMMA UnmarkEstablished ==
    ASSUME IInv, NEW t \in Tx, UnmarkAsLatest(t)
    PROVE  Established(t)'
<1>. DEFINE n == req[t].name
            ver == req[t].version
            T == servers
            U == View(t)'
<1>0. /\ pc[t] = "unmark" /\ pc'[t] = "insert"
      /\ UNCHANGED <<servers, req, publishTime, isNewLatest>>
  BY DEF UnmarkAsLatest, Step, locals, IInv, TypeOK
<1>1. n \in Names /\ ver \in Versions /\ KeyOf(t) = <<n, ver>> /\ KeyOf(t) \in Key
  BY <1>0, KeyType DEF IInv, Resting, Outcomes, Request, KeyOf
<1>2. \A v \in Versions : Read(t, <<n, v>>) = T[<<n, v>>] /\ writes[t][<<n, v>>] = NoWrite
  BY <1>0, <1>1, ReadsCommitted DEF IInv, Key
<1>3. /\ Good(T, n) /\ HasRoom(T, n) /\ T[KeyOf(t)] = NoRow /\ isNewLatest[t]
      /\ \A w \in LatestOf(t, n) : Newer(t, w)
  BY <1>0, <1>1 DEF IInv, Established
<1>4. LatestOf(t, n) = {v \in VersionsIn(T, n) : T[<<n, v>>].isLatest}
  BY <1>2 DEF LatestOf, VersionsOf, VersionsIn, Exists
<1>5. ASSUME NEW v \in Versions
      PROVE  /\ v \in LatestOf(t, n) => U[<<n, v>>] = [T[<<n, v>>] EXCEPT !.isLatest = FALSE]
             /\ v \notin LatestOf(t, n) => U[<<n, v>>] = T[<<n, v>>]
  <2>1. <<n, v>> \in Key
    BY <1>1 DEF Key
  <2>2. writes'[t][<<n, v>>] = IF v \in LatestOf(t, n) THEN Unmarked(t, <<n, v>>) ELSE NoWrite
    BY <1>2, <2>1 DEF UnmarkAsLatest, Marked, IInv, TypeOK
  <2>3. CASE v \in LatestOf(t, n)
    <3>1. Read(t, <<n, v>>) \in Row
      BY <2>1, <2>3, ReadType DEF IInv, LatestOf, VersionsOf
    <3>2. Unmarked(t, <<n, v>>) # NoWrite
      BY <3>1, RegistryAssumption DEF Unmarked, Row
    <3>. QED  BY <1>2, <2>1, <2>2, <2>3, <3>2 DEF View, Read, Unmarked
  <2>4. CASE v \notin LatestOf(t, n)
    BY <1>0, <2>1, <2>2, <2>4 DEF View, Read
  <2>. QED  BY <2>3, <2>4
<1>6. ASSUME NEW v \in VersionsIn(T, n)
      PROVE  /\ U[<<n, v>>] # NoRow
             /\ U[<<n, v>>].isLatest = FALSE
             /\ U[<<n, v>>].publishedAt = T[<<n, v>>].publishedAt
  <2>1. v \in Versions /\ T[<<n, v>>] \in Row
    BY <1>1 DEF VersionsIn, IInv, TypeOK, Key
  <2>2. [T[<<n, v>>] EXCEPT !.isLatest = FALSE] \in Row
    BY <2>1 DEF Row
  <2>3. CASE v \in LatestOf(t, n)
    BY <1>5, <2>1, <2>2, <2>3, RegistryAssumption DEF Row
  <2>4. CASE v \notin LatestOf(t, n)
    BY <1>4, <1>5, <2>1, <2>4, RegistryAssumption DEF Row
  <2>. QED  BY <2>3, <2>4
<1>7. VersionsIn(U, n) = VersionsIn(T, n)
  BY <1>4, <1>5, <1>6 DEF VersionsIn
<1>8. U[KeyOf(t)] = NoRow
  BY <1>1, <1>3, <1>4, <1>5 DEF VersionsIn
<1>9. ASSUME NEW w \in VersionsIn(T, n)
      PROVE  CompareVersions(w, ver, T[<<n, w>>].publishedAt, Stored[publishTime[t]]) <= 0
  <2>1. PICK l \in Versions : IsLatestOf(T, n, l)
    BY <1>3 DEF Good
  <2>2. \A v \in VersionsIn(T, n) :
           /\ v \in Versions
           /\ T[<<n, v>>].publishedAt \in Times
           /\ Stored[T[<<n, v>>].publishedAt] = T[<<n, v>>].publishedAt
    BY <1>1, <1>3 DEF IInv, TypeOK, Key, Row, VersionsIn, Good, TimesStored
  <2>3. Newer(t, l) /\ l \in VersionsIn(T, n)
    BY <1>3, <1>4, <2>1 DEF IsLatestOf
  <2>4. publishTime[t] \in Times /\ Stored[publishTime[t]] \in Times /\ Times \subseteq Nat
    BY StoredAssumption DEF IInv, TypeOK
  <2>5. CompareVersions(l, ver, T[<<n, l>>].publishedAt, Stored[publishTime[t]]) <= 0
    BY <1>1, <1>2, <2>2, <2>3, <2>4, CompareStored DEF Newer
  <2>6. CASE w = l
    BY <2>5, <2>6
  <2>7. CASE w # l
    <3>1. CompareVersions(w, l, T[<<n, w>>].publishedAt, T[<<n, l>>].publishedAt) <= 0
      BY <2>1, <2>7 DEF IsLatestOf, NotGreater
    <3>2. /\ w \in Versions /\ T[<<n, w>>].publishedAt \in Nat
          /\ l \in Versions /\ T[<<n, l>>].publishedAt \in Nat
          /\ Stored[publishTime[t]] \in Nat
      BY <2>2, <2>3, <2>4
    <3>. QED  BY <1>1, <2>5, <3>1, <3>2, CompareTransitive, SMTT(30)
  <2>. QED  BY <2>6, <2>7
<1>10. TimesStored(U, n)
  BY <1>3, <1>6, <1>7 DEF Good, TimesStored
<1>11. MayInsert(t)'
  BY <1>0, <1>1, <1>3, <1>6, <1>7, <1>8, <1>9, <1>10 DEF MayInsert, HasRoom, Good, KeyOf
<1>. QED  BY <1>0, <1>11 DEF Established

\* A publish that may insert meets no constraint.
LEMMA InsertSucceeds ==
    ASSUME IInv, NEW t \in Tx, Insert(t)
    PROVE  /\ pc[t] = "insert" /\ MayInsert(t)
           /\ Step(t, "insert", "commit")
           /\ Write(t, KeyOf(t), NewRow(t))
           /\ UNCHANGED <<servers, now, lockOwner, locals>>
<1>. DEFINE n == req[t].name
<1>1. pc[t] = "insert" /\ MayInsert(t)
  BY DEF Insert, IInv, Established
<1>2. n \in Names /\ KeyOf(t) \in Key
  BY <1>1, KeyType DEF IInv, Resting, Outcomes, Request
<1>3. ~Exists(t, KeyOf(t))
  BY <1>1, <1>2 DEF MayInsert, View, Exists
<1>4. isNewLatest[t] => LatestOf(t, n) = {}
  BY <1>1, <1>2, ViewOf DEF MayInsert, LatestOf, VersionsIn
<1>. QED  BY <1>1, <1>3, <1>4 DEF Insert

\* Past the insert the transaction reads a table that is good for its server.
LEMMA InsertEstablished ==
    ASSUME IInv, NEW t \in Tx, Insert(t)
    PROVE  Established(t)'
<1>. DEFINE n == req[t].name
            ver == req[t].version
            T == View(t)
            U == View(t)'
<1>0. /\ pc[t] = "insert" /\ pc'[t] = "commit" /\ MayInsert(t)
      /\ writes' = [writes EXCEPT ![t][KeyOf(t)] = NewRow(t)]
      /\ UNCHANGED <<servers, req, publishTime, isNewLatest>>
  BY InsertSucceeds DEF Step, Write, locals, IInv, TypeOK
<1>1. n \in Names /\ ver \in Versions /\ KeyOf(t) = <<n, ver>> /\ KeyOf(t) \in Key
  BY <1>0, KeyType DEF IInv, Resting, Outcomes, Request, KeyOf
<1>2. /\ NewRow(t) \in Row
      /\ NewRow(t).isLatest = isNewLatest[t]
      /\ NewRow(t).publishedAt = Stored[publishTime[t]]
  BY <1>0, KeyType, StoredAssumption
  DEF IInv, TypeOK, NewRow, NewRowWith, Row, Request, Status, Resting, Outcomes
<1>3. U[<<n, ver>>] = NewRow(t)
  BY <1>0, <1>1, <1>2, RegistryAssumption DEF View, Read, IInv, TypeOK
<1>4. \A v \in Versions \ {ver} : U[<<n, v>>] = T[<<n, v>>]
  BY <1>0, <1>1 DEF View, Read, IInv, TypeOK, Key
<1>5. VersionsIn(U, n) = VersionsIn(T, n) \cup {ver} /\ ver \notin VersionsIn(T, n)
  BY <1>0, <1>1, <1>2, <1>3, <1>4, RegistryAssumption DEF VersionsIn, MayInsert
<1>6. /\ IsFiniteSet(VersionsIn(U, n))
      /\ Cardinality(VersionsIn(U, n)) <= MaxServerVersions
  <2>1. IsFiniteSet(VersionsIn(T, n)) /\ Cardinality(VersionsIn(T, n)) < MaxServerVersions
    BY <1>0 DEF MayInsert, HasRoom
  <2>2. /\ IsFiniteSet(VersionsIn(T, n) \cup {ver})
        /\ Cardinality(VersionsIn(T, n) \cup {ver}) = Cardinality(VersionsIn(T, n)) + 1
    BY <1>5, <2>1, FS_AddElement
  <2>3. Cardinality(VersionsIn(T, n)) \in Nat
    BY <2>1, FS_CardinalityType
  <2>. QED  BY <1>5, <2>1, <2>2, <2>3, RegistryAssumption
<1>7. TimesStored(U, n)
  <2>1. \A v \in VersionsIn(T, n) : Stored[T[<<n, v>>].publishedAt] = T[<<n, v>>].publishedAt
    BY <1>0 DEF MayInsert, TimesStored
  <2>2. Stored[Stored[publishTime[t]]] = Stored[publishTime[t]]
    BY StoredAssumption DEF IInv, TypeOK
  <2>. QED  BY <1>2, <1>3, <1>4, <1>5, <2>1, <2>2 DEF TimesStored, VersionsIn
<1>8. \E v \in Versions : IsLatestOf(U, n, v)
  <2>1. CASE isNewLatest[t]
    <3>1. \A w \in VersionsIn(T, n) :
             /\ w \in Versions \ {ver} /\ ~T[<<n, w>>].isLatest
             /\ CompareVersions(w, ver, T[<<n, w>>].publishedAt, Stored[publishTime[t]]) <= 0
      BY <1>0, <1>5, <2>1 DEF MayInsert, VersionsIn
    <3>2. IsLatestOf(U, n, ver)
      BY <1>1, <1>2, <1>3, <1>4, <1>5, <2>1, <3>1 DEF IsLatestOf, NotGreater
    <3>. QED  BY <1>1, <3>2
  <2>2. CASE ~isNewLatest[t]
    <3>1. PICK w \in VersionsIn(T, n) :
             /\ IsLatestOf(T, n, w)
             /\ CompareVersions(ver, w, Stored[publishTime[t]], T[<<n, w>>].publishedAt) <= 0
      BY <1>0, <2>2 DEF MayInsert
    <3>2. w \in Versions \ {ver} /\ VersionsIn(T, n) \subseteq Versions \ {ver}
      BY <1>5 DEF VersionsIn
    <3>3. IsLatestOf(U, n, w)
      BY <1>2, <1>3, <1>4, <1>5, <2>2, <3>1, <3>2 DEF IsLatestOf, NotGreater
    <3>. QED  BY <3>2, <3>3
  <2>. QED  BY <2>1, <2>2
<1>9. Good(U, n)
  BY <1>6, <1>7, <1>8 DEF Good
<1>. QED  BY <1>0, <1>9 DEF Established

\* An edit of a row leaves its place among the versions as it is.
LEMMA WriteKeepsGood ==
    ASSUME IInv, NEW t \in Tx, NEW row \in Row,
           pc[t] \notin Resting,
           Exists(t, KeyOf(t)),
           row.isLatest = Read(t, KeyOf(t)).isLatest,
           row.publishedAt = Read(t, KeyOf(t)).publishedAt,
           Good(View(t), req[t].name),
           Write(t, KeyOf(t), row),
           UNCHANGED <<servers, req>>
    PROVE  Good(View(t)', req[t].name)
<1>. DEFINE n == req[t].name
            ver == req[t].version
<1>1. n \in Names /\ ver \in Versions /\ KeyOf(t) = <<n, ver>> /\ KeyOf(t) \in Key
  BY KeyType DEF IInv, Request, KeyOf
<1>2. View(t)'[<<n, ver>>] = row /\ View(t)[<<n, ver>>] = Read(t, KeyOf(t))
  BY <1>1, RegistryAssumption DEF View, Read, Write, IInv, TypeOK
<1>3. \A v \in Versions \ {ver} : View(t)'[<<n, v>>] = View(t)[<<n, v>>]
  BY <1>1 DEF View, Read, Write, IInv, TypeOK, Key
<1>4. row # NoRow /\ View(t)[<<n, ver>>] # NoRow
  BY <1>1, <1>2, RegistryAssumption DEF Exists
<1>5. \A v \in Versions :
         /\ View(t)[<<n, v>>] = NoRow <=> View(t)'[<<n, v>>] = NoRow
         /\ View(t)[<<n, v>>] # NoRow =>
               /\ View(t)[<<n, v>>].isLatest = View(t)'[<<n, v>>].isLatest
               /\ View(t)[<<n, v>>].publishedAt = View(t)'[<<n, v>>].publishedAt
  BY <1>1, <1>2, <1>3, <1>4
<1>. HIDE DEF n
<1>. QED  BY <1>1, <1>5, GoodSame DEF n

\* Past the UPDATE of an edit the transaction still reads a good table.
LEMMA UpdateEstablished ==
    ASSUME IInv, NEW t \in Tx, UpdateRow(t), ~Rollback(t, "error")
    PROVE  Established(t)'
<1>1. /\ pc[t] = "update" /\ Exists(t, KeyOf(t)) /\ pc'[t] = AfterUpdate(t)
      /\ Write(t, KeyOf(t), EditedRow(t)) /\ UNCHANGED <<servers, req>>
  BY DEF UpdateRow, Step, locals, IInv, TypeOK
<1>2. req[t] \in Request /\ req[t].name \in Names /\ KeyOf(t) \in Key
  BY <1>1, KeyType DEF IInv, Resting, Outcomes, Request
<1>3. Read(t, KeyOf(t)) \in Row
  BY <1>1, <1>2, ReadType DEF IInv
<1>4. /\ EditedRow(t) \in Row
      /\ EditedRow(t).isLatest = Read(t, KeyOf(t)).isLatest
      /\ EditedRow(t).publishedAt = Read(t, KeyOf(t)).publishedAt
  BY <1>2, <1>3 DEF EditedRow, Row, Request, IInv, TypeOK
<1>5. Good(View(t), req[t].name)
  <2>1. \A v \in Versions : View(t)[<<req[t].name, v>>] = servers[<<req[t].name, v>>]
    BY <1>1, <1>2, ReadsCommitted DEF IInv, View, Key
  <2>2. Good(servers, req[t].name)
    BY <1>2 DEF IInv
  <2>. QED  BY <1>2, <2>1, <2>2, GoodSame
<1>6. Good(View(t)', req[t].name)
  BY <1>1, <1>4, <1>5, WriteKeepsGood DEF Resting, Outcomes
<1>. QED  BY <1>1, <1>6 DEF Established, AfterUpdate

\* Past SetServerStatus too.
LEMMA StatusEstablished ==
    ASSUME IInv, NEW t \in Tx, SetServerStatus(t), ~Rollback(t, "error")
    PROVE  Established(t)'
<1>1. /\ pc[t] = "setStatus" /\ Exists(t, KeyOf(t)) /\ pc'[t] = "commit"
      /\ Write(t, KeyOf(t), WithStatus(t, KeyOf(t))) /\ UNCHANGED <<servers, req>>
  BY DEF SetServerStatus, Step, locals, IInv, TypeOK
<1>2. KeyOf(t) \in Key
  BY <1>1, KeyType DEF IInv, Resting, Outcomes
<1>3. Read(t, KeyOf(t)) \in Row
  BY <1>1, <1>2, ReadType DEF IInv
<1>4. /\ WithStatus(t, KeyOf(t)) \in Row
      /\ WithStatus(t, KeyOf(t)).isLatest = Read(t, KeyOf(t)).isLatest
      /\ WithStatus(t, KeyOf(t)).publishedAt = Read(t, KeyOf(t)).publishedAt
  BY <1>1, <1>3 DEF WithStatus, Row, IInv, TypeOK
<1>5. Good(View(t), req[t].name)
  BY <1>1 DEF IInv, Established
<1>6. Good(View(t)', req[t].name)
  BY <1>1, <1>4, <1>5, WriteKeepsGood DEF Resting, Outcomes
<1>. QED  BY <1>1, <1>6 DEF Established

\* Every step of t establishes what its next place in the code needs.
LEMMA OwnEstablished ==
    ASSUME IInv, NEW t \in Tx, StepOf(t)
    PROVE  Established(t)'
<1>. DEFINE Elsewhere == pc'[t] \notin {"exists", "latest", "unmark", "insert",
                                        "setStatus", "commit", "constraint"}
<1>. USE DEF IInv, TypeOK
<1>1. CASE \E o \in {"ok", "error"} : End(t, o)
  BY <1>1, EndEstablished
<1>2. CASE ~\E o \in {"ok", "error"} : End(t, o)
  <2>0. ~Rollback(t, "error")
    BY <1>2 DEF Rollback
  <2>1. ASSUME NEW r \in Requests, Submit(t, r) PROVE Elsewhere
    BY <2>1 DEF Submit
  <2>2. ASSUME ReadCurrent(t) \/ Begin(t) \/ ValidatePublish(t) \/ LoadAndValidate(t)
               \/ AcquirePublishLock(t)
        PROVE  Elsewhere
    BY <2>0, <2>2
    DEF ReadCurrent, Begin, ValidatePublish, LoadAndValidate, AcquirePublishLock,
        TakeLock, Step
  <2>3. ASSUME CheckRemoteUrl(t) \/ RemoteUrlsChecked(t) PROVE Elsewhere
    BY <2>0, <2>3 DEF CheckRemoteUrl, RemoteUrlsChecked, Step
  <2>4. Elsewhere => Established(t)'
    BY DEF Established
  <2>. HIDE DEF Elsewhere
  <2>. QED
    BY <1>2, <2>0, <2>1, <2>2, <2>3, <2>4, CountEstablished, ExistsEstablished,
       LatestEstablished, UnmarkEstablished, InsertEstablished, UpdateEstablished,
       StatusEstablished
    DEF StepOf, Serve, Publish, Edit, Commit, Abort
<1>. QED  BY <1>1, <1>2

\* A commit replaces the rows of a server by ones that are good.
LEMMA CommitKeepsGood ==
    ASSUME IInv, NEW t \in Tx, StepOf(t), NEW n \in Names
    PROVE  Good(servers', n)
<1>1. CASE ~Commit(t)
  BY <1>1, OnlyCommitChanges DEF IInv
<1>2. CASE Commit(t) /\ n = req[t].name
  <2>1. Good(View(t), n)
    BY <1>2 DEF Commit, IInv, Established
  <2>2. servers' = View(t)
    BY <1>2 DEF Commit, View
  <2>. QED  BY <2>1, <2>2
<1>3. CASE Commit(t) /\ n # req[t].name
  <2>1. \A v \in Versions : servers'[<<n, v>>] = servers[<<n, v>>]
    BY <1>3, CommitLocal DEF IInv, Key
  <2>. QED  BY <2>1, GoodSame DEF IInv
<1>. QED  BY <1>1, <1>2, <1>3

\* A transaction goes on writing rows of its own server only, under its lock.
LEMMA WritesStayOwn ==
    ASSUME TypeOK, WritesOwnServer, NEW t \in Tx, StepOf(t)
    PROVE  WritesOwnServer'
<1>. DEFINE Own(k) == writes'[t][k] # NoWrite =>
                         /\ pc'[t] \in {"insert", "setStatus", "commit"}
                         /\ k[1] = req'[t].name
            Mine == \A k \in Key : Own(k)
<1>. USE DEF TypeOK
<1>1. Mine
  <2>1. CASE \E o : End(t, o)
    BY <2>1 DEF End, NoWrites
  <2>2. CASE ~\E o : End(t, o)
    <3>0. ~Rollback(t, "error") /\ ~Rollback(t, "constraint")
      BY <2>2 DEF Rollback
    <3>1. ASSUME writes'[t] = writes[t], pc[t] \notin {"insert", "setStatus", "commit"}
          PROVE  Mine
      BY <3>1, ReadsCommitted DEF WritesOwnServer
    <3>2. ASSUME NEW r \in Requests, Submit(t, r) PROVE Mine
      BY <3>1, <3>2 DEF Submit, Resting, Outcomes
    <3>3. ASSUME ReadCurrent(t) \/ Begin(t) \/ ValidatePublish(t) \/ LoadAndValidate(t)
                 \/ AcquirePublishLock(t)
          PROVE  Mine
      BY <3>0, <3>1, <3>3
      DEF ReadCurrent, Begin, ValidatePublish, LoadAndValidate, AcquirePublishLock,
          TakeLock, Step, locals
    <3>4. ASSUME CheckRemoteUrl(t) \/ RemoteUrlsChecked(t) \/ CountServerVersions(t)
                 \/ CheckVersionExists(t) \/ GetCurrentLatestVersion(t)
          PROVE  Mine
      BY <3>0, <3>1, <3>4
      DEF CheckRemoteUrl, RemoteUrlsChecked, CountServerVersions, CheckVersionExists,
          GetCurrentLatestVersion, Step, locals
    <3>5. ASSUME UnmarkAsLatest(t) PROVE Mine
      <4>1. pc[t] = "unmark" /\ pc'[t] = "insert" /\ req' = req
        BY <3>5 DEF UnmarkAsLatest, Step, locals
      <4>2. \A k \in Key : writes[t][k] = NoWrite
        BY <4>1, ReadsCommitted
      <4>3. \A k \in Marked(t) : k[1] = req[t].name
        BY DEF Marked
      <4>4. \A k \in Key \ Marked(t) : writes'[t][k] = writes[t][k]
        BY <3>5 DEF UnmarkAsLatest
      <4>. QED  BY <4>1, <4>2, <4>3, <4>4
    <3>6. ASSUME NEW row, Write(t, KeyOf(t), row), req' = req,
                 pc'[t] \in {"setStatus", "commit"}
          PROVE  Mine
      <4>1. \A k \in Key : k # KeyOf(t) => writes'[t][k] = writes[t][k]
        BY <3>6 DEF Write
      <4>2. KeyOf(t)[1] = req[t].name
        BY DEF KeyOf
      <4>. QED  BY <3>6, <4>1, <4>2 DEF WritesOwnServer
    <3>7. ASSUME Insert(t) \/ UpdateRow(t) \/ SetServerStatus(t) PROVE Mine
      BY <3>0, <3>6, <3>7
      DEF Insert, UpdateRow, SetServerStatus, AfterUpdate, Step, locals
    <3>. QED
      BY <2>2, <3>0, <3>2, <3>3, <3>4, <3>5, <3>7
      DEF StepOf, Serve, Publish, Edit, Commit, Abort
  <2>. QED  BY <2>1, <2>2
<1>2. ASSUME NEW u \in Tx \ {t}, NEW k \in Key, writes'[u][k] # NoWrite
      PROVE  pc'[u] \in {"insert", "setStatus", "commit"} /\ k[1] = req'[u].name
  BY <1>2, Frame DEF WritesOwnServer
<1>. QED  BY <1>1, <1>2 DEF WritesOwnServer

-----------------------------------------------------------------------------
\* The empty table satisfies the invariant.
LEMMA InitIInv == Init => IInv
<1>. SUFFICES ASSUME Init PROVE IInv
  OBVIOUS
<1>1. TypeOK
  BY RegistryAssumption, StoredAssumption DEF Init, TypeOK, Resting, NoWrites
<1>2. HolderOwns /\ WritesOwnServer /\ \A t \in Tx : Established(t)
  BY DEF Init, HolderOwns, WritesOwnServer, Established, Holding, InTx, NoWrites
<1>3. ASSUME NEW n \in Names PROVE Good(servers, n)
  <2>1. VersionsIn(servers, n) = {}
    BY DEF Init, VersionsIn, Key
  <2>. QED  BY <2>1, FS_EmptySet, RegistryAssumption DEF Good, TimesStored
<1>. QED  BY <1>1, <1>2, <1>3 DEF IInv

\* Every step preserves it: the inductive step.
LEMMA NextIInv == IInv /\ TypeOK' /\ [Next]_vars => IInv'
<1>. SUFFICES ASSUME IInv, TypeOK', [Next]_vars PROVE IInv'
  OBVIOUS
<1>1. HolderOwns'
  BY NextKeepsOwners DEF IInv
<1>2. CASE \E t \in Tx : StepOf(t)
  <2>1. PICK t \in Tx : StepOf(t)
    BY <1>2
  <2>2. \A u \in Tx : Established(u)'
    BY <2>1, OwnEstablished, OthersEstablished
  <2>3. WritesOwnServer'
    BY <2>1, WritesStayOwn DEF IInv
  <2>4. \A n \in Names : Good(servers', n)
    BY <2>1, CommitKeepsGood
  <2>. QED  BY <1>1, <2>2, <2>3, <2>4 DEF IInv
<1>3. CASE Tick \/ UNCHANGED vars
  <2>1. UNCHANGED <<servers, pc, req, publishTime, isNewLatest, writes>>
    BY <1>3 DEF Tick, vars, locals
  <2>2. ASSUME NEW u \in Tx PROVE Established(u)'
    <3>1. CASE pc[u] \in Holding
      BY <2>1, <3>1, EstablishedLocal DEF IInv
    <3>2. CASE pc[u] \notin Holding
      BY <2>1, <3>2 DEF IInv, Established, Holding, InTx
    <3>. QED  BY <3>1, <3>2
  <2>3. WritesOwnServer' /\ \A n \in Names : Good(servers', n)
    BY <2>1 DEF IInv, WritesOwnServer
  <2>. QED  BY <1>1, <2>2, <2>3 DEF IInv
<1>. QED  BY <1>2, <1>3 DEF Next, StepOf

\* IInv, the invariant that carries what each publish of registry_service.go has
\* checked from one statement to the next, holds in every state.
THEOREM Inductive == Spec => []IInv
BY InitIInv, NextIInv, TypeCorrect, PTL DEF Spec

\* Whatever the interleaving, the hash of names to locks and the clocks of the
\* replicas: a server with versions has exactly one latest, and it is greatest.
THEOREM LatestTheorem == Spec => []LatestIsGreatest
<1>1. IInv => LatestIsGreatest
  <2>. SUFFICES ASSUME IInv, NEW n \in Names, Published(n) # {}
                PROVE  \E v \in Published(n) :
                          /\ servers[<<n, v>>].isLatest
                          /\ \A w \in Published(n) \ {v} :
                                /\ ~servers[<<n, w>>].isLatest
                                /\ CompareVersions(w, v, servers[<<n, w>>].publishedAt,
                                                   servers[<<n, v>>].publishedAt) <= 0
    BY DEF LatestIsGreatest
  <2>1. Published(n) = VersionsIn(servers, n)
    BY DEF Published, VersionsIn
  <2>2. PICK v \in Versions : IsLatestOf(servers, n, v)
    BY <2>1 DEF IInv, Good
  <2>. QED  BY <2>1, <2>2 DEF IsLatestOf, NotGreater
<1>. QED  BY <1>1, Inductive, PTL

\* No server ever has more versions than the limit.
THEOREM LimitTheorem == Spec => []VersionLimit
<1>1. IInv => VersionLimit
  BY DEF IInv, Good, VersionLimit, Published, VersionsIn
<1>. QED  BY <1>1, Inductive, PTL

\* No publish ever meets a unique constraint of the table.
THEOREM NoConstraintTheorem == Spec => []NoConstraintError
<1>1. IInv => NoConstraintError
  BY DEF IInv, Established, NoConstraintError
<1>. QED  BY <1>1, Inductive, PTL
-----------------------------------------------------------------------------
(* No deadlock.  A request waits for a connection of the pool, for an       *)
(* advisory lock or for a row, the last two with its connection in hand.    *)

\* The transactions that have a connection.
Connected == {t \in Tx : pc[t] \in InTx}

\* The pool is not exceeded, so that a connection not to be had is one in use.
PoolBounded == IsFiniteSet(Connected) /\ Cardinality(Connected) <= MaxConns

\* A lock that is held is held by a transaction that is past AcquirePublishLock for
\* it: none is left behind by one that has ended.
OwnersHold ==
    \A l \in LockIds : lockOwner[l] # NoTx =>
        /\ pc[lockOwner[l]] \in Holding
        /\ LockOf(lockOwner[l]) = l

\* The next statement of t has to wait.
WaitsForConnection(t) == pc[t] \in {"handler", "begin"} /\ ~FreeConnection

WaitsForLock(t) == pc[t] = "lock" /\ lockOwner[LockOf(t)] # NoTx

WaitsForRow(t) ==
    \/ pc[t] = "unmark" /\ \E k \in Marked(t) : ~RowFree(t, k)
    \/ pc[t] \in {"insert", "update", "setStatus"} /\ ~RowFree(t, KeyOf(t))
    \/ pc[t] = "insert" /\ isNewLatest[t] /\ \E v \in Versions : ~RowFree(t, <<req[t].name, v>>)

Waits(t) == WaitsForConnection(t) \/ WaitsForLock(t) \/ WaitsForRow(t)

\* While a request is under way, one of those under way has nothing to wait for.
SomeoneGoesOn ==
    (\E t \in Tx : pc[t] \notin Resting) =>
        \E t \in Tx : pc[t] \notin Resting /\ ~Waits(t)

\* Pool and locks are in order.
InOrder == TypeOK /\ PoolBounded /\ OwnersHold

\* A step ends the transaction, takes the lock or leaves the locks alone; and it
\* takes a connection only from a pool that has one.
LEMMA StepLocks ==
    ASSUME TypeOK, NEW t \in Tx, StepOf(t)
    PROVE  /\ pc'[t] \in InTx => pc[t] \in InTx \/ FreeConnection
           /\ \/ \E o \in Outcomes : End(t, o)
              \/ AcquirePublishLock(t)
              \/ /\ lockOwner' = lockOwner
                 /\ pc[t] \in Holding => pc'[t] \in Holding /\ req'[t] = req[t]
<1>. DEFINE Kept == /\ lockOwner' = lockOwner
                    /\ pc[t] \in Holding => pc'[t] \in Holding /\ req'[t] = req[t]
                    /\ pc'[t] \in InTx => pc[t] \in InTx \/ FreeConnection
<1>. USE DEF TypeOK
<1>1. CASE \E o \in Outcomes : End(t, o)
  <2>1. pc'[t] \notin InTx
    BY <1>1 DEF End, Outcomes, InTx
  <2>. QED  BY <1>1, <2>1
<1>2. CASE ~\E o \in Outcomes : End(t, o)
  <2>0. /\ ~Rollback(t, "error") /\ ~Rollback(t, "constraint") /\ ~Commit(t) /\ ~Abort(t)
    BY <1>2 DEF Rollback, Commit, Abort, Outcomes
  <2>1. ASSUME NEW r \in Requests, Submit(t, r) PROVE Kept
    BY <2>1 DEF Submit, Holding, InTx, Resting, Outcomes
  <2>2. CASE AcquirePublishLock(t)
    BY <2>2 DEF AcquirePublishLock, InTx
  <2>3. ASSUME ReadCurrent(t) \/ Begin(t) \/ ValidatePublish(t) \/ LoadAndValidate(t)
        PROVE  Kept
    BY <2>0, <2>3
    DEF ReadCurrent, Begin, ValidatePublish, LoadAndValidate, Step, Holding, InTx
  <2>4. ASSUME CheckRemoteUrl(t) \/ RemoteUrlsChecked(t) \/ CountServerVersions(t)
               \/ CheckVersionExists(t)
        PROVE  Kept
    BY <2>0, <2>4
    DEF CheckRemoteUrl, RemoteUrlsChecked, CountServerVersions, CheckVersionExists,
        Step, locals, Holding, InTx
  <2>5. ASSUME GetCurrentLatestVersion(t) \/ UnmarkAsLatest(t) PROVE Kept
    BY <2>5 DEF GetCurrentLatestVersion, UnmarkAsLatest, Step, locals, Holding, InTx
  <2>6. ASSUME Insert(t) \/ UpdateRow(t) \/ SetServerStatus(t) PROVE Kept
    BY <2>0, <2>6
    DEF Insert, UpdateRow, SetServerStatus, AfterUpdate, Step, locals, Holding, InTx
  <2>. QED
    BY <2>0, <2>1, <2>2, <2>3, <2>4, <2>5, <2>6 DEF StepOf, Serve, Publish, Edit
<1>. QED  BY <1>1, <1>2

\* A connection is taken only when one is free.
LEMMA PoolStays ==
    ASSUME InOrder, NEW t \in Tx, StepOf(t)
    PROVE  PoolBounded'
<1>. USE DEF InOrder, PoolBounded
<1>1. \A u \in Tx \ {t} : pc'[u] = pc[u]
  BY Frame
<1>2. CASE pc[t] \in InTx \/ pc'[t] \notin InTx
  <2>1. Connected' \subseteq Connected
    BY <1>1, <1>2 DEF Connected
  <2>. QED
    BY <2>1, FS_Subset, FS_CardinalityType, RegistryAssumption
<1>3. CASE pc[t] \notin InTx /\ FreeConnection
  <2>1. Connected' \subseteq Connected \cup {t} /\ t \notin Connected
    BY <1>1, <1>3 DEF Connected
  <2>2. /\ IsFiniteSet(Connected \cup {t})
        /\ Cardinality(Connected \cup {t}) = Cardinality(Connected) + 1
    BY <2>1, FS_AddElement
  <2>3. IsFiniteSet(Connected') /\ Cardinality(Connected') <= Cardinality(Connected) + 1
    BY <2>1, <2>2, FS_Subset
  <2>4. Cardinality(Connected) \in Nat /\ Cardinality(Connected') \in Nat
    BY <2>3, FS_CardinalityType
  <2>5. Cardinality(Connected) < MaxConns
    BY <1>3 DEF FreeConnection, Connected
  <2>. QED  BY <2>3, <2>4, <2>5, RegistryAssumption
<1>. QED  BY <1>2, <1>3, StepLocks

\* The end of a transaction frees its locks, and nothing else does.
LEMMA OwnersStay ==
    ASSUME InOrder, NEW t \in Tx, StepOf(t)
    PROVE  OwnersHold'
<1>. USE DEF InOrder, TypeOK
<1>. SUFFICES ASSUME NEW l \in LockIds, lockOwner'[l] # NoTx
              PROVE  /\ pc'[lockOwner'[l]] \in Holding
                     /\ HashServerName[req'[lockOwner'[l]].name] = l
  BY DEF OwnersHold, LockOf
<1>1. \A u \in Tx \ {t} : pc'[u] = pc[u] /\ req'[u] = req[u]
  BY Frame
<1>2. CASE \E o \in Outcomes : End(t, o)
  <2>1. lockOwner'[l] = lockOwner[l] /\ lockOwner[l] # t
    BY <1>2, RegistryAssumption DEF End, Released
  <2>. QED  BY <1>1, <2>1 DEF OwnersHold, LockOf
<1>3. CASE AcquirePublishLock(t)
  <2>1. /\ pc'[t] = "urls" /\ req' = req
        /\ lockOwner' = [lockOwner EXCEPT ![LockOf(t)] = t]
        /\ pc[t] = "lock"
    BY <1>3 DEF AcquirePublishLock, TakeLock, Step
  <2>2. CASE l = LockOf(t)
    BY <2>1, <2>2 DEF LockOf, Holding, InTx
  <2>3. CASE l # LockOf(t)
    <3>1. lockOwner'[l] = lockOwner[l] /\ lockOwner[l] # t
      BY <2>1, <2>3 DEF OwnersHold, Holding
    <3>. QED  BY <1>1, <3>1 DEF OwnersHold, LockOf
  <2>. QED  BY <2>2, <2>3
<1>4. CASE lockOwner' = lockOwner /\ (pc[t] \in Holding => pc'[t] \in Holding /\ req'[t] = req[t])
  BY <1>1, <1>4 DEF OwnersHold, LockOf
<1>. QED  BY <1>2, <1>3, <1>4, StepLocks

\* Nothing is held when no request has been served.
LEMMA InitInOrder == Init => InOrder
<1>. SUFFICES ASSUME Init PROVE InOrder
  OBVIOUS
<1>1. TypeOK
  BY InitIInv DEF IInv
<1>2. Connected = {} /\ OwnersHold
  BY DEF Init, Connected, InTx, OwnersHold
<1>. QED  BY <1>1, <1>2, FS_EmptySet, RegistryAssumption DEF InOrder, PoolBounded

\* Every step keeps pool and locks in order.
LEMMA NextInOrder == InOrder /\ [Next]_vars => InOrder'
<1>. SUFFICES ASSUME InOrder, [Next]_vars PROVE InOrder'
  OBVIOUS
<1>1. TypeOK'
  BY NextType DEF InOrder
<1>2. CASE \E t \in Tx : StepOf(t)
  BY <1>1, <1>2, PoolStays, OwnersStay DEF InOrder
<1>3. CASE Tick \/ UNCHANGED vars
  BY <1>1, <1>3
  DEF Tick, vars, locals, InOrder, PoolBounded, Connected, OwnersHold, LockOf
<1>. QED  BY <1>2, <1>3 DEF Next, StepOf

\* A transaction that holds its lock finds every row of its server free: row locks,
\* taken in whatever order, never make one transaction wait for another.
LEMMA HolderGoesOn ==
    ASSUME TypeOK, HolderOwns, WritesOwnServer, NEW t \in Tx, pc[t] \in Holding
    PROVE  ~Waits(t)
<1>1. req[t].name \in Names /\ KeyOf(t) \in Key /\ KeyOf(t)[1] = req[t].name
  BY KeyType DEF Holding, InTx, Resting, Outcomes, Request, KeyOf
<1>2. ASSUME NEW k \in Key, k[1] = req[t].name PROVE RowFree(t, k)
  <2>. SUFFICES ASSUME NEW u \in Tx \ {t}, writes[u][k] # NoWrite PROVE FALSE
    BY DEF RowFree
  <2>1. pc[u] \in Holding /\ req[u].name = req[t].name
    BY <1>2 DEF WritesOwnServer, Holding, InTx
  <2>. QED  BY <2>1 DEF HolderOwns
<1>3. \A v \in Versions : <<req[t].name, v>> \in Key
  BY <1>1 DEF Key
<1>4. \A k \in Marked(t) : k \in Key /\ k[1] = req[t].name
  <2>1. LatestOf(t, req[t].name) \subseteq Versions
    BY DEF LatestOf, VersionsOf
  <2>. QED  BY <1>3, <2>1 DEF Marked
<1>5. ~WaitsForRow(t)
  BY <1>1, <1>2, <1>3, <1>4 DEF WaitsForRow
<1>. QED  BY <1>5 DEF Waits, WaitsForConnection, WaitsForLock, Holding, InTx

\* A transaction that has a connection waits only for one that does not wait.
LEMMA ConnectedGoesOn ==
    ASSUME InOrder, HolderOwns, WritesOwnServer, NEW t \in Tx, pc[t] \in InTx
    PROVE  \E u \in Tx : pc[u] \notin Resting /\ ~Waits(u)
<1>. USE DEF InOrder, TypeOK
<1>1. Holding \subseteq InTx /\ \A u \in Tx : pc[u] \in InTx => pc[u] \notin Resting
  BY DEF Holding, InTx, Resting, Outcomes
<1>2. CASE pc[t] \in Holding
  BY <1>1, <1>2, HolderGoesOn
<1>3. CASE WaitsForLock(t)
  <2>1. req[t].name \in Names
    BY <1>1, KeyType DEF Request
  <2>2. LockOf(t) \in LockIds
    BY <2>1, RegistryAssumption DEF LockOf
  <2>3. lockOwner[LockOf(t)] \in Tx /\ pc[lockOwner[LockOf(t)]] \in Holding
    BY <1>3, <2>2 DEF WaitsForLock, OwnersHold
  <2>. QED  BY <1>1, <2>3, HolderGoesOn
<1>4. CASE pc[t] \notin Holding /\ ~WaitsForLock(t)
  BY <1>1, <1>4 DEF Waits, WaitsForConnection, WaitsForRow, Holding, InTx
<1>. QED  BY <1>2, <1>3, <1>4

\* So does who waits for a connection.
LEMMA PoolGoesOn ==
    ASSUME InOrder, HolderOwns, WritesOwnServer, ~FreeConnection
    PROVE  \E u \in Tx : pc[u] \notin Resting /\ ~Waits(u)
<1>1. Connected # {}
  <2>1. CASE Connected = {}
    <3>1. Cardinality(Connected) = 0
      BY <2>1, FS_EmptySet
    <3>. QED  BY <3>1, RegistryAssumption DEF FreeConnection, Connected
  <2>. QED  BY <2>1
<1>. QED  BY <1>1, ConnectedGoesOn DEF Connected

\* While pool and locks are in order, not everybody waits.
LEMMA NotAllWait == InOrder /\ HolderOwns /\ WritesOwnServer => SomeoneGoesOn
<1>. SUFFICES ASSUME InOrder, HolderOwns, WritesOwnServer,
                     NEW t \in Tx, pc[t] \notin Resting, Waits(t)
              PROVE  \E u \in Tx : pc[u] \notin Resting /\ ~Waits(u)
  BY DEF SomeoneGoesOn
<1>1. CASE pc[t] \notin InTx
  <2>1. ~FreeConnection
    BY <1>1 DEF Waits, WaitsForConnection, WaitsForLock, WaitsForRow, InTx
  <2>. QED  BY <2>1, PoolGoesOn
<1>. QED  BY <1>1, ConnectedGoesOn

\* Publishes and edits never all wait for each other, for whatever sizes of pool and
\* of hash: what a request waits for in registry_service.go is given up by one that
\* does not wait, because no statement waits for a connection with a lock in hand
\* and none for a row that another server's transaction has written.
THEOREM NoDeadlock == Spec => []SomeoneGoesOn
<1>1. InOrder /\ IInv => SomeoneGoesOn
  BY NotAllWait DEF IInv
<1>. QED  BY <1>1, InitInOrder, NextInOrder, Inductive, PTL DEF Spec
=============================================================================
