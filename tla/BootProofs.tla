----------------------------- MODULE BootProofs -----------------------------
(***************************************************************************)
(* Proofs about the start of replicas: what they serve of the seed, for any*)
(* seed, any number of replicas and any requests of clients meanwhile.     *)
(* The DELETE of a start takes rows away under publishes that have looked  *)
(* at them; Decided is what a publish may still rely on.                   *)
(***************************************************************************)
EXTENDS RegistryBoot, RegistryProofs

\* Somebody publishes this version of this server.
Asked(k) ==
    \E r \in Requests : r.kind = "publish" /\ r.name = k[1] /\ r.version = k[2]

\* What every row at k is like, committed or not.
SoundRow(k, row) == Asked(k) /\ (Greatest(k) => row.isLatest)

RowsSound ==
    \A k \in Key :
        /\ servers[k] # NoRow => SoundRow(k, servers[k])
        /\ \A t \in Tx : writes[t][k] # NoWrite => SoundRow(k, writes[t][k])

\* idx_unique_latest_per_server.
UniqueLatest ==
    \A n \in Names, v, w \in Versions :
        /\ servers[<<n, v>>] # NoRow
        /\ servers[<<n, w>>] # NoRow
        /\ servers[<<n, v>>].isLatest
        /\ servers[<<n, w>>].isLatest
        => v = w

\* What transaction t may rely on at its place in the code, although a replica
\* that starts may delete committed rows of its server at any time.
Decided(t) ==
    LET n == req[t].name IN
    /\ pc[t] \in {"count", "exists", "latest", "unmark", "insert"} =>
          req[t].kind = "publish"
    /\ pc[t] \in {"latest", "unmark", "insert"} =>
          servers[KeyOf(t)] = NoRow /\ writes[t][KeyOf(t)] = NoWrite
    /\ pc[t] = "unmark" => isNewLatest[t] /\ \A w \in LatestOf(t, n) : ~Greatest(<<n, w>>)
    /\ pc[t] = "insert" /\ isNewLatest[t] => LatestOf(t, n) = {}
    /\ pc[t] = "insert" /\ Greatest(KeyOf(t)) => isNewLatest[t]
    /\ pc[t] \in {"insert", "setStatus", "commit"} =>
          \A v, w \in LatestOf(t, n) : v = w
    /\ pc[t] \in {"setStatus", "commit"} => writes[t][KeyOf(t)] # NoWrite
    /\ pc[t] # "constraint"

TableInv ==
    /\ TypeOK
    /\ HolderOwns
    /\ WritesOwnServer
    /\ RowsSound
    /\ UniqueLatest
    /\ \A t \in Tx : Decided(t)

BootTypeOK ==
    /\ boot \in [Replicas -> {"down", "clear", "deleting", "import", "serving"}]
    /\ toDelete \in [Replicas -> SUBSET Key]
    /\ deleted \in [Replicas -> SUBSET Key]
    /\ nextRecord \in [Replicas -> Nat \ {0}]
    /\ failedCreations \in [Replicas -> SUBSET Nat]
    /\ starts \in Nat

\* The slot in which r imports serves the record before the next one, or nothing.
Importing(r) ==
    /\ boot[r] \in {"clear", "deleting"} => nextRecord[r] = 1
    /\ pc[Importer[r]] \notin Resting =>
          /\ boot[r] = "import"
          /\ nextRecord[r] - 1 \in DOMAIN Seed
          /\ req[Importer[r]] = Seed[nextRecord[r] - 1]

\* Before r serves, it will insert record i, find it there, or fail to.
WillImport(r, i) ==
    \/ boot[r] \in {"down", "clear", "deleting"}
    \/ /\ boot[r] = "import"
       /\ \/ nextRecord[r] <= i
          \/ nextRecord[r] = i + 1 /\ pc[Importer[r]] \notin Resting

\* The row is there, or r has failed to import it, or it will import it.
AccountedBy(r, i) ==
    servers[SeedKey(i)] # NoRow \/ i \in failedCreations[r] \/ WillImport(r, i)

Accounted(i) == \E r \in Replicas : AccountedBy(r, i)

BootInv ==
    /\ TableInv
    /\ BootTypeOK
    /\ \A r \in Replicas : Importing(r)
    /\ \A i \in DOMAIN Seed : Accounted(i)

-----------------------------------------------------------------------------
(* Rows and their order. *)

\* A version that is greatest among those ever published is newer than any
\* other, and none is newer, whatever their times.
LEMMA GreatestNewer ==
    ASSUME NEW n \in Names, NEW v \in Versions, NEW w \in Versions,
           Greatest(<<n, v>>), Asked(<<n, w>>), w # v,
           NEW s \in Nat, NEW u \in Nat
    PROVE  CompareVersions(v, w, s, u) > 0 /\ ~(CompareVersions(w, v, u, s) > 0)
<1>1. /\ v \in Semvers /\ w \in Semvers
      /\ Precedence[w] < Precedence[v]
  BY DEF Greatest, Asked
<1>2. Precedence[v] \in Nat /\ Precedence[w] \in Nat
  BY <1>1, VersioningAssumption
<1>. QED
  BY <1>1, <1>2 DEF CompareVersions, CompareSemanticVersions, Sign, IsSemanticVersion

\* So are the rows that a statement reads.
LEMMA ReadSound ==
    ASSUME RowsSound, NEW t \in Tx, NEW k \in Key, Exists(t, k)
    PROVE  SoundRow(k, Read(t, k))
BY DEF RowsSound, Exists, Read

\* Rows of the server of t that disappear take nothing of what t relies on.
LEMMA DecidedLocal ==
    ASSUME TypeOK, NEW t \in Tx, Decided(t), pc[t] \in Holding,
           pc'[t] = pc[t], req'[t] = req[t], writes'[t] = writes[t],
           isNewLatest'[t] = isNewLatest[t],
           \A v \in Versions : servers'[<<req[t].name, v>>]
                                  \in {servers[<<req[t].name, v>>], NoRow}
    PROVE  Decided(t)'
<1>. DEFINE n == req[t].name
<1>1. n \in Names /\ req[t].version \in Versions /\ KeyOf(t) = <<n, req[t].version>>
      /\ KeyOf(t)' = KeyOf(t)
  BY KeyType DEF Request, Holding, InTx, Resting, Outcomes, KeyOf
<1>2. LatestOf(t, n)' \subseteq LatestOf(t, n)
  BY DEF LatestOf, VersionsOf, Exists, Read
<1>3. pc[t] \in {"latest", "unmark", "insert"} =>
          servers'[KeyOf(t)] = NoRow /\ writes'[t][KeyOf(t)] = NoWrite
  BY <1>1 DEF Decided
<1>. QED  BY <1>1, <1>2, <1>3 DEF Decided

\* Rows that disappear leave the others as they were.
LEMMA FewerRows ==
    ASSUME RowsSound, UniqueLatest, UNCHANGED writes,
           \A k \in Key : servers'[k] \in {servers[k], NoRow}
    PROVE  RowsSound' /\ UniqueLatest'
<1>1. RowsSound'
  BY DEF RowsSound
<1>2. UniqueLatest'
  BY DEF UniqueLatest, Key
<1>. QED  BY <1>1, <1>2

\* A transaction that has written nothing reads one latest row at most.
LEMMA CommittedUnique ==
    ASSUME TableInv, NEW t \in Tx, pc[t] \notin {"insert", "setStatus", "commit"},
           req[t].name \in Names
    PROVE  \A v, w \in LatestOf(t, req[t].name) : v = w
<1>1. \A v \in Versions : Read(t, <<req[t].name, v>>) = servers[<<req[t].name, v>>]
  BY ReadsCommitted DEF TableInv, Key
<1>. QED  BY <1>1 DEF TableInv, UniqueLatest, LatestOf, VersionsOf, Exists

-----------------------------------------------------------------------------
(* The statements of a publish or an edit. *)

\* Past the lookup of the latest version, the mark is decided as it should be.
LEMMA LatestDecided ==
    ASSUME TableInv, NEW t \in Tx, GetCurrentLatestVersion(t)
    PROVE  Decided(t)'
<1>. DEFINE n == req[t].name
<1>0. /\ pc[t] = "latest" /\ UNCHANGED <<servers, req, publishTime, writes>>
      /\ req[t].kind = "publish"
      /\ servers[KeyOf(t)] = NoRow /\ writes[t][KeyOf(t)] = NoWrite
  BY DEF GetCurrentLatestVersion, TableInv, Decided
<1>1. req[t] \in Requests /\ n \in Names /\ req[t].version \in Versions
      /\ KeyOf(t) = <<n, req[t].version>> /\ KeyOf(t) \in Key
  BY <1>0, KeyType DEF TableInv, TypeOK, Request, KeyOf, Resting, Outcomes
<1>2. Asked(KeyOf(t))
  BY <1>0, <1>1 DEF Asked
<1>3. LatestOf(t, n)' = LatestOf(t, n) /\ KeyOf(t)' = KeyOf(t)
  BY <1>0 DEF LatestOf, VersionsOf, Exists, Read, KeyOf
<1>4. \A v, w \in LatestOf(t, n) : v = w
  BY <1>0, <1>1, CommittedUnique
<1>5. CASE LatestOf(t, n) = {} /\ isNewLatest'[t] = TRUE /\ pc'[t] = "insert"
  BY <1>0, <1>3, <1>5 DEF Decided
<1>6. ASSUME NEW v \in LatestOf(t, n), isNewLatest'[t] = Newer(t, v),
             pc'[t] = IF Newer(t, v) THEN "unmark" ELSE "insert"
      PROVE  Decided(t)'
  <2>1. v \in Versions /\ v # req[t].version /\ <<n, v>> \in Key
    BY <1>0, <1>1 DEF LatestOf, VersionsOf, Exists, Read, Key
  <2>2. Read(t, <<n, v>>) \in Row /\ Asked(<<n, v>>)
    BY <2>1, ReadType, ReadSound DEF TableInv, SoundRow, LatestOf, VersionsOf
  <2>3. publishTime[t] \in Nat /\ Read(t, <<n, v>>).publishedAt \in Nat
    BY <2>2, StoredAssumption DEF TableInv, TypeOK, Row
  <2>4. Newer(t, v) => ~Greatest(<<n, v>>)
    BY <1>1, <1>2, <2>1, <2>3, GreatestNewer DEF Newer
  <2>5. Greatest(KeyOf(t)) => Newer(t, v)
    BY <1>1, <2>1, <2>2, <2>3, GreatestNewer DEF Newer
  <2>6. CASE Newer(t, v)
    BY <1>0, <1>3, <1>4, <1>6, <2>4, <2>6 DEF Decided
  <2>7. CASE ~Newer(t, v)
    BY <1>0, <1>3, <1>4, <1>6, <2>5, <2>7 DEF Decided
  <2>. QED  BY <2>6, <2>7
<1>7. \/ LatestOf(t, n) = {} /\ isNewLatest'[t] = TRUE /\ pc'[t] = "insert"
      \/ \E v \in LatestOf(t, n) :
             /\ isNewLatest'[t] = Newer(t, v)
             /\ pc'[t] = IF Newer(t, v) THEN "unmark" ELSE "insert"
  BY DEF GetCurrentLatestVersion, TableInv, TypeOK
<1>. QED  BY <1>5, <1>6, <1>7

\* The rows whose mark is taken away, and what is left of the marks.
LEMMA UnmarkDecided ==
    ASSUME TableInv, NEW t \in Tx, UnmarkAsLatest(t)
    PROVE  /\ Decided(t)'
           /\ \A k \in Key : writes'[t][k] # NoWrite => SoundRow(k, writes'[t][k])
<1>. DEFINE n == req[t].name
<1>0. /\ pc[t] = "unmark" /\ pc'[t] = "insert"
      /\ UNCHANGED <<servers, req, isNewLatest>>
      /\ writes'[t] = [k \in Key |-> IF k \in Marked(t) THEN Unmarked(t, k) ELSE writes[t][k]]
  BY DEF UnmarkAsLatest, Step, locals, TableInv, TypeOK
<1>1. n \in Names /\ KeyOf(t) \in Key
  BY <1>0, KeyType DEF TableInv, Request, Resting, Outcomes
<1>2. /\ req[t].kind = "publish" /\ isNewLatest[t]
      /\ servers[KeyOf(t)] = NoRow /\ writes[t][KeyOf(t)] = NoWrite
      /\ \A w \in LatestOf(t, n) : ~Greatest(<<n, w>>)
  BY <1>0 DEF TableInv, Decided
<1>3. ASSUME NEW k \in Marked(t)
      PROVE  /\ k \in Key /\ Exists(t, k) /\ ~Greatest(k)
             /\ Unmarked(t, k) \in Row /\ ~Unmarked(t, k).isLatest
  <2>0. PICK v \in LatestOf(t, n) : k = <<n, v>>
    BY DEF Marked
  <2>1. k \in Key /\ Exists(t, k) /\ ~Greatest(k)
    BY <1>1, <1>2, <2>0 DEF LatestOf, VersionsOf, Key
  <2>2. Read(t, k) \in Row
    BY <2>1, ReadType DEF TableInv
  <2>. QED  BY <2>1, <2>2 DEF Unmarked, Row
<1>4. KeyOf(t) \notin Marked(t)
  BY <1>2, <1>3 DEF Exists, Read
<1>5. LatestOf(t, n)' = {}
  <2>. SUFFICES ASSUME NEW v \in Versions, Exists(t, <<n, v>>)'
                PROVE  ~Read(t, <<n, v>>)'.isLatest
    BY DEF LatestOf, VersionsOf
  <2>1. <<n, v>> \in Key
    BY <1>1 DEF Key
  <2>2. CASE <<n, v>> \in Marked(t)
    BY <1>0, <1>3, <2>1, <2>2, RegistryAssumption DEF Read
  <2>3. CASE <<n, v>> \notin Marked(t)
    <3>1. Read(t, <<n, v>>)' = Read(t, <<n, v>>)
      BY <1>0, <2>1, <2>3 DEF Read
    <3>. QED  BY <2>3, <3>1 DEF Marked, LatestOf, VersionsOf, Exists
  <2>. QED  BY <2>2, <2>3
<1>6. Decided(t)'
  <2>1. KeyOf(t)' = KeyOf(t) /\ writes'[t][KeyOf(t)] = NoWrite
    BY <1>0, <1>1, <1>2, <1>4 DEF KeyOf
  <2>. QED  BY <1>0, <1>2, <1>5, <2>1 DEF Decided
<1>7. ASSUME NEW k \in Key, writes'[t][k] # NoWrite
      PROVE  SoundRow(k, writes'[t][k])
  <2>1. CASE k \in Marked(t)
    BY <1>0, <1>3, <2>1, ReadSound DEF TableInv, SoundRow
  <2>2. CASE k \notin Marked(t)
    BY <1>0, <1>7, <2>2 DEF TableInv, RowsSound
  <2>. QED  BY <2>1, <2>2
<1>. QED  BY <1>6, <1>7

\* A row that is written is sound, and the only latest one if it is marked.
LEMMA WriteDecided ==
    ASSUME TableInv, NEW t \in Tx, NEW row \in Row, pc[t] \notin Resting,
           Write(t, KeyOf(t), row), pc'[t] \in {"setStatus", "commit"},
           UNCHANGED <<servers, req>>,
           SoundRow(KeyOf(t), row),
           \A v, w \in LatestOf(t, req[t].name) : v = w,
           row.isLatest => LatestOf(t, req[t].name) \subseteq {req[t].version}
    PROVE  /\ Decided(t)'
           /\ \A k \in Key : writes'[t][k] # NoWrite => SoundRow(k, writes'[t][k])
<1>. DEFINE n == req[t].name
<1>1. n \in Names /\ req[t].version \in Versions /\ KeyOf(t) \in Key
      /\ KeyOf(t) = <<n, req[t].version>> /\ KeyOf(t)' = KeyOf(t)
  BY KeyType DEF TableInv, Request, KeyOf
<1>2. /\ writes'[t][KeyOf(t)] = row
      /\ \A k \in Key \ {KeyOf(t)} : writes'[t][k] = writes[t][k]
  BY <1>1 DEF Write, TableInv, TypeOK
<1>3. row # NoWrite /\ row # NoRow
  BY RegistryAssumption
<1>4. Read(t, KeyOf(t))' = row
  BY <1>1, <1>2, <1>3 DEF Read
<1>5. \A v \in Versions \ {req[t].version} : Read(t, <<n, v>>)' = Read(t, <<n, v>>)
  BY <1>1, <1>2 DEF Read, Key
<1>6. ASSUME NEW v \in LatestOf(t, n)', v # req[t].version
      PROVE  v \in LatestOf(t, n)
  BY <1>5, <1>6 DEF LatestOf, VersionsOf, Exists
<1>7. req[t].version \in LatestOf(t, n)' => row.isLatest
  BY <1>1, <1>4 DEF LatestOf
<1>8. \A v, w \in LatestOf(t, n)' : v = w
  BY <1>6, <1>7
<1>9. Decided(t)'
  BY <1>1, <1>2, <1>3, <1>8 DEF Decided
<1>10. ASSUME NEW k \in Key, writes'[t][k] # NoWrite
       PROVE  SoundRow(k, writes'[t][k])
  BY <1>2, <1>10 DEF TableInv, RowsSound
<1>. QED  BY <1>9, <1>10

\* The insert meets no row of its version and no other latest row.
LEMMA InsertDecided ==
    ASSUME TableInv, NEW t \in Tx, Insert(t)
    PROVE  /\ Decided(t)'
           /\ \A k \in Key : writes'[t][k] # NoWrite => SoundRow(k, writes'[t][k])
           /\ servers' = servers
<1>. DEFINE n == req[t].name
<1>1. /\ pc[t] = "insert" /\ req[t].kind = "publish"
      /\ servers[KeyOf(t)] = NoRow /\ writes[t][KeyOf(t)] = NoWrite
      /\ isNewLatest[t] => LatestOf(t, n) = {}
      /\ Greatest(KeyOf(t)) => isNewLatest[t]
      /\ \A v, w \in LatestOf(t, n) : v = w
  BY DEF Insert, TableInv, Decided
<1>2. req[t] \in Requests /\ req[t] \in Request
  BY <1>1, KeyType DEF TableInv, TypeOK, Resting, Outcomes
<1>3. ~Exists(t, KeyOf(t))
  BY <1>1 DEF Exists, Read
<1>4. /\ Step(t, "insert", "commit") /\ Write(t, KeyOf(t), NewRow(t))
      /\ UNCHANGED <<servers, req>>
  BY <1>1, <1>3 DEF Insert, locals
<1>5. NewRow(t) \in Row /\ NewRow(t).isLatest = isNewLatest[t]
  BY <1>2, StoredAssumption
  DEF TableInv, TypeOK, NewRow, NewRowWith, Row, Request, Status
<1>6. SoundRow(KeyOf(t), NewRow(t))
  BY <1>1, <1>2, <1>5 DEF SoundRow, Asked, KeyOf
<1>7. pc'[t] = "commit" /\ pc[t] \notin Resting
  BY <1>1, <1>4 DEF Step, TableInv, TypeOK, Resting, Outcomes
<1>. QED  BY <1>1, <1>4, <1>5, <1>6, <1>7, WriteDecided

\* An edit changes neither the mark of its row nor which version it is.
LEMMA EditDecided ==
    ASSUME TableInv, NEW t \in Tx, UpdateRow(t) \/ SetServerStatus(t),
           ~Rollback(t, "error")
    PROVE  /\ Decided(t)'
           /\ \A k \in Key : writes'[t][k] # NoWrite => SoundRow(k, writes'[t][k])
           /\ servers' = servers
<1>. DEFINE n == req[t].name
<1>1. /\ pc[t] \in {"update", "setStatus"} /\ pc'[t] \in {"setStatus", "commit"}
      /\ Exists(t, KeyOf(t)) /\ UNCHANGED <<servers, req>>
      /\ \/ Write(t, KeyOf(t), EditedRow(t))
         \/ Write(t, KeyOf(t), WithStatus(t, KeyOf(t))) /\ pc[t] = "setStatus"
  BY DEF UpdateRow, SetServerStatus, Step, AfterUpdate, locals, TableInv, TypeOK
<1>2. /\ pc[t] \notin Resting /\ req[t] \in Request /\ n \in Names
      /\ KeyOf(t) \in Key /\ KeyOf(t) = <<n, req[t].version>>
      /\ req[t].version \in Versions
  BY <1>1, KeyType DEF TableInv, Resting, Outcomes, Request, KeyOf
<1>3. Read(t, KeyOf(t)) \in Row /\ SoundRow(KeyOf(t), Read(t, KeyOf(t)))
  BY <1>1, <1>2, ReadType, ReadSound DEF TableInv
<1>4. /\ EditedRow(t) \in Row
      /\ EditedRow(t).isLatest = Read(t, KeyOf(t)).isLatest
  BY <1>2, <1>3 DEF EditedRow, Row, Request, TableInv, TypeOK
<1>5. pc[t] = "setStatus" =>
         /\ WithStatus(t, KeyOf(t)) \in Row
         /\ WithStatus(t, KeyOf(t)).isLatest = Read(t, KeyOf(t)).isLatest
  BY <1>3 DEF WithStatus, Row, TableInv, TypeOK
<1>6. PICK row \in Row : /\ Write(t, KeyOf(t), row)
                         /\ row.isLatest = Read(t, KeyOf(t)).isLatest
  BY <1>1, <1>4, <1>5
<1>7. \A v, w \in LatestOf(t, n) : v = w
  <2>1. CASE pc[t] = "update"
    BY <1>2, <2>1, CommittedUnique
  <2>2. CASE pc[t] = "setStatus"
    BY <2>2 DEF TableInv, Decided
  <2>. QED  BY <1>1, <2>1, <2>2
<1>8. row.isLatest => LatestOf(t, n) \subseteq {req[t].version}
  <2>1. row.isLatest => req[t].version \in LatestOf(t, n)
    BY <1>1, <1>2, <1>6 DEF LatestOf, VersionsOf
  <2>. QED  BY <1>7, <2>1
<1>9. SoundRow(KeyOf(t), row)
  BY <1>3, <1>6 DEF SoundRow
<1>. QED  BY <1>1, <1>2, <1>6, <1>7, <1>8, <1>9, WriteDecided

\* A step of t leaves it with what it may rely on, and writes sound rows.
LEMMA OwnDecided ==
    ASSUME TableInv, NEW t \in Tx, StepOf(t)
    PROVE  /\ Decided(t)'
           /\ \A k \in Key : writes'[t][k] # NoWrite => SoundRow(k, writes'[t][k])
<1>. DEFINE OwnSound == \A k \in Key : writes'[t][k] # NoWrite => SoundRow(k, writes'[t][k])
            Elsewhere == pc'[t] \notin {"count", "exists", "latest", "unmark", "insert",
                                        "setStatus", "commit", "constraint"}
<1>. USE DEF TableInv, TypeOK
<1>0. Elsewhere => Decided(t)'
  BY DEF Decided
<1>a. ASSUME writes'[t] = writes[t] PROVE OwnSound
  BY <1>a DEF RowsSound
<1>b. ASSUME NEW o \in {"ok", "error"}, End(t, o) PROVE Decided(t)' /\ OwnSound
  <2>1. pc'[t] = o /\ \A k \in Key : writes'[t][k] = NoWrite
    BY <1>b DEF End, NoWrites
  <2>. QED  BY <1>0, <2>1
<1>1. CASE \E o \in {"ok", "error"} : End(t, o)
  BY <1>1, <1>b
<1>2. CASE ~\E o \in {"ok", "error"} : End(t, o)
  <2>0. ~Rollback(t, "error")
    BY <1>2 DEF Rollback
  <2>1. ASSUME NEW r \in Requests, Submit(t, r) PROVE Decided(t)' /\ OwnSound
    BY <1>0, <1>a, <2>1 DEF Submit
  <2>2. ASSUME ReadCurrent(t) \/ Begin(t) \/ ValidatePublish(t) \/ LoadAndValidate(t)
               \/ AcquirePublishLock(t)
        PROVE  Decided(t)' /\ OwnSound
    BY <1>0, <1>a, <2>0, <2>2
    DEF ReadCurrent, Begin, ValidatePublish, LoadAndValidate, AcquirePublishLock,
        TakeLock, Step, locals
  <2>3. ASSUME CheckRemoteUrl(t) PROVE Decided(t)' /\ OwnSound
    BY <1>0, <1>a, <2>0, <2>3 DEF CheckRemoteUrl
  <2>4. ASSUME RemoteUrlsChecked(t) PROVE Decided(t)' /\ OwnSound
    BY <1>a, <2>4 DEF RemoteUrlsChecked, Step, locals, Decided
  <2>5. ASSUME CountServerVersions(t) PROVE Decided(t)' /\ OwnSound
    BY <1>a, <2>0, <2>5 DEF CountServerVersions, Step, locals, Decided
  <2>6. ASSUME CheckVersionExists(t) PROVE Decided(t)' /\ OwnSound
    <3>1. /\ pc[t] = "exists" /\ pc'[t] = "latest" /\ ~Exists(t, KeyOf(t))
          /\ req[t].kind = "publish" /\ UNCHANGED <<servers, req, writes>>
      BY <2>0, <2>6 DEF CheckVersionExists, Step, locals, Decided
    <3>2. KeyOf(t) \in Key
      BY <3>1, KeyType DEF Resting, Outcomes
    <3>3. servers[KeyOf(t)] = NoRow /\ writes[t][KeyOf(t)] = NoWrite
      BY <3>1, <3>2, ReadsCommitted DEF Exists
    <3>. QED  BY <1>a, <3>1, <3>3 DEF Decided, KeyOf
  <2>7. ASSUME GetCurrentLatestVersion(t) PROVE Decided(t)' /\ OwnSound
    BY <1>a, <2>7, LatestDecided DEF GetCurrentLatestVersion
  <2>8. ASSUME UnmarkAsLatest(t) PROVE Decided(t)' /\ OwnSound
    BY <2>8, UnmarkDecided
  <2>9. ASSUME Insert(t) PROVE Decided(t)' /\ OwnSound
    BY <2>9, InsertDecided
  <2>10. ASSUME UpdateRow(t) \/ SetServerStatus(t) PROVE Decided(t)' /\ OwnSound
    BY <2>0, <2>10, EditDecided
  <2>. QED
    BY <1>2, <2>0, <2>1, <2>2, <2>3, <2>4, <2>5, <2>6, <2>7, <2>8, <2>9, <2>10
    DEF StepOf, Serve, Publish, Edit, Commit, Abort
<1>. QED  BY <1>1, <1>2

\* A step of t takes nothing from what another transaction may rely on.
LEMMA OthersDecided ==
    ASSUME TableInv, NEW t \in Tx, NEW u \in Tx \ {t}, StepOf(t)
    PROVE  Decided(u)'
<1>1. /\ pc'[u] = pc[u] /\ req'[u] = req[u] /\ writes'[u] = writes[u]
      /\ isNewLatest'[u] = isNewLatest[u]
  BY Frame DEF TableInv
<1>2. CASE pc[u] \notin Holding
  BY <1>1, <1>2 DEF TableInv, Decided, Holding, InTx
<1>3. CASE pc[u] \in Holding
  <2>1. ASSUME NEW v \in Versions
        PROVE  servers'[<<req[u].name, v>>] = servers[<<req[u].name, v>>]
    <3>1. CASE Commit(t)
      <4>1. req[t] \in Request /\ req[u] \in Request
        BY <1>3, <3>1, KeyType DEF TableInv, Commit, Holding, InTx, Resting, Outcomes
      <4>2. req[t].name # req[u].name
        BY <1>3, <3>1 DEF TableInv, HolderOwns, Commit, Holding, InTx
      <4>. QED  BY <3>1, <4>1, <4>2, CommitLocal DEF TableInv, Key, Request
    <3>. QED  BY <3>1, OnlyCommitChanges
  <2>. QED  BY <1>1, <1>3, <2>1, DecidedLocal DEF TableInv
<1>. QED  BY <1>2, <1>3

\* A commit adds sound rows, and leaves one latest row of each server.
LEMMA CommitSound ==
    ASSUME TableInv, NEW t \in Tx, Commit(t)
    PROVE  /\ \A k \in Key : servers'[k] # NoRow => SoundRow(k, servers'[k])
           /\ UniqueLatest'
<1>1. pc[t] = "commit" /\ \A k \in Key : servers'[k] = Read(t, k)
  BY DEF Commit
<1>2. \A k \in Key : servers'[k] # NoRow => SoundRow(k, servers'[k])
  BY <1>1, ReadSound DEF TableInv, Exists
<1>3. ASSUME NEW n \in Names, NEW v \in Versions, NEW w \in Versions,
             servers'[<<n, v>>] # NoRow, servers'[<<n, w>>] # NoRow,
             servers'[<<n, v>>].isLatest, servers'[<<n, w>>].isLatest
      PROVE  v = w
  <2>1. <<n, v>> \in Key /\ <<n, w>> \in Key
    BY DEF Key
  <2>2. CASE n = req[t].name
    <3>1. v \in LatestOf(t, n) /\ w \in LatestOf(t, n)
      BY <1>1, <1>3, <2>1 DEF LatestOf, VersionsOf, Exists
    <3>. QED  BY <1>1, <2>2, <3>1 DEF TableInv, Decided
  <2>3. CASE n # req[t].name
    BY <1>3, <2>1, <2>3, CommitLocal DEF TableInv, UniqueLatest
  <2>. QED  BY <2>2, <2>3
<1>. QED  BY <1>2, <1>3 DEF UniqueLatest

\* Every step of a publish or an edit keeps the table as it should be.
LEMMA NextTableInv == TableInv /\ [Next]_vars => TableInv'
<1>. SUFFICES ASSUME TableInv, [Next]_vars PROVE TableInv'
  OBVIOUS
<1>1. TypeOK' /\ HolderOwns'
  BY NextType, NextKeepsOwners DEF TableInv
<1>2. CASE \E t \in Tx : StepOf(t)
  <2>1. PICK t \in Tx : StepOf(t)
    BY <1>2
  <2>2. WritesOwnServer'
    BY <2>1, WritesStayOwn DEF TableInv
  <2>3. \A u \in Tx : Decided(u)'
    BY <2>1, OwnDecided, OthersDecided
  <2>4. ASSUME NEW u \in Tx, NEW k \in Key, writes'[u][k] # NoWrite
        PROVE  SoundRow(k, writes'[u][k])
    <3>1. CASE u = t
      BY <2>1, <2>4, <3>1, OwnDecided
    <3>2. CASE u # t
      BY <2>1, <2>4, <3>2, Frame DEF TableInv, RowsSound
    <3>. QED  BY <3>1, <3>2
  <2>5. (\A k \in Key : servers'[k] # NoRow => SoundRow(k, servers'[k])) /\ UniqueLatest'
    <3>1. CASE Commit(t)
      BY <3>1, CommitSound
    <3>2. CASE ~Commit(t)
      BY <2>1, <3>2, OnlyCommitChanges DEF TableInv, RowsSound, UniqueLatest
    <3>. QED  BY <3>1, <3>2
  <2>. QED  BY <1>1, <2>2, <2>3, <2>4, <2>5 DEF TableInv, RowsSound
<1>3. CASE Tick \/ UNCHANGED vars
  <2>1. UNCHANGED <<servers, pc, req, isNewLatest, writes>>
    BY <1>3 DEF Tick, vars, locals
  <2>2. ASSUME NEW u \in Tx PROVE Decided(u)'
    <3>1. CASE pc[u] \in Holding
      BY <2>1, <3>1, DecidedLocal DEF TableInv
    <3>2. CASE pc[u] \notin Holding
      BY <2>1, <3>2 DEF TableInv, Decided, Holding, InTx
    <3>. QED  BY <3>1, <3>2
  <2>3. WritesOwnServer' /\ RowsSound' /\ UniqueLatest'
    BY <2>1, FewerRows DEF TableInv, WritesOwnServer
  <2>. QED  BY <1>1, <2>2, <2>3 DEF TableInv
<1>. QED  BY <1>2, <1>3 DEF Next, StepOf

\* So does the DELETE of a replica that starts.
LEMMA DeleteTableInv ==
    ASSUME TableInv, NEW r \in Replicas, Delete(r)
    PROVE  TableInv'
<1>1. UNCHANGED <<now, lockOwner, pc, locals, writes>>
  BY DEF Delete
<1>2. \A k \in Key : servers'[k] \in {servers[k], NoRow}
  BY DEF Delete
<1>3. servers' \in [Key -> Row \cup {NoRow}]
  BY DEF Delete, TableInv, TypeOK
<1>4. TypeOK' /\ HolderOwns' /\ WritesOwnServer'
  BY <1>1, <1>3 DEF TableInv, TypeOK, HolderOwns, WritesOwnServer, locals
<1>5. RowsSound' /\ UniqueLatest'
  BY <1>1, <1>2, FewerRows DEF TableInv
<1>6. ASSUME NEW u \in Tx PROVE Decided(u)'
  <2>1. CASE pc[u] \in Holding
    <3>1. req[u] \in Request
      BY <2>1, KeyType DEF TableInv, Holding, InTx, Resting, Outcomes
    <3>2. \A v \in Versions : servers'[<<req[u].name, v>>]
                               \in {servers[<<req[u].name, v>>], NoRow}
      BY <1>2, <3>1 DEF Key, Request
    <3>. QED  BY <1>1, <2>1, <3>2, DecidedLocal DEF TableInv, locals
  <2>2. CASE pc[u] \notin Holding
    BY <1>1, <2>2 DEF TableInv, Decided, Holding, InTx, locals
  <2>. QED  BY <2>1, <2>2
<1>. QED  BY <1>4, <1>5, <1>6 DEF TableInv

-----------------------------------------------------------------------------
(* The replicas. *)

\* A step of replica r.
ReplicaStep(r) ==
    \/ Start(r) \/ BeginDelete(r) \/ DeleteRow(r) \/ Delete(r)
    \/ ImportRecord(r) \/ ImportStep(r) \/ SeedUnreadable(r) \/ EndImport(r) \/ Stop(r)

\* The records of the seed are publishes of keys of the table.
LEMMA SeedType ==
    ASSUME NEW i \in DOMAIN Seed
    PROVE  /\ i \in Nat \ {0} /\ i <= Len(Seed)
           /\ Seed[i] \in Requests /\ Seed[i].kind = "publish"
           /\ SeedKey(i) \in Key
<1>1. i \in 1..Len(Seed) /\ Seed[i] \in Requests /\ Seed[i].kind = "publish"
  BY BootAssumption
<1>2. Len(Seed) \in Nat
  BY BootAssumption
<1>3. Seed[i] \in Request
  BY <1>1, RegistryAssumption
<1>. QED  BY <1>1, <1>2, <1>3 DEF SeedKey, Key, Request

\* What a replica does to the table is a publish's step, a DELETE or nothing.
LEMMA ReplicaNext ==
    ASSUME BootTypeOK, NEW r \in Replicas, ReplicaStep(r), ~Delete(r)
    PROVE  [Next]_vars
<1>1. Importer[r] \in Tx
  BY BootAssumption
<1>2. ASSUME ImportRecord(r) PROVE Next
  <2>1. nextRecord[r] \in DOMAIN Seed
    BY <1>2, BootAssumption DEF ImportRecord, AtEnd, BootTypeOK
  <2>2. Seed[nextRecord[r]] \in Requests
    BY <2>1, SeedType
  <2>. QED  BY <1>1, <1>2, <2>2 DEF ImportRecord, Next
<1>3. ASSUME ImportStep(r) \/ Stop(r) PROVE [Next]_vars
  BY <1>1, <1>3 DEF ImportStep, ServeUnlessDeleting, Stop, Abort, Next
<1>. QED
  BY <1>2, <1>3 DEF ReplicaStep, Start, BeginDelete, DeleteRow, SeedUnreadable, EndImport

\* A statement belongs to a request under way, which goes on or ends.
LEMMA ServeRequest ==
    ASSUME TypeOK, NEW t \in Tx, Serve(t) \/ Abort(t)
    PROVE  pc[t] \notin Resting /\ (pc'[t] \in Resting \/ req'[t] = req[t])
<1>. USE DEF TypeOK, Resting, Outcomes
<1>1. pc[t] \notin Resting
  BY DEF Serve, Publish, Edit, ValidatePublish, CountServerVersions, CheckVersionExists,
         GetCurrentLatestVersion, UnmarkAsLatest, Insert, ReadCurrent, LoadAndValidate,
         UpdateRow, SetServerStatus, Begin, AcquirePublishLock, CheckRemoteUrl,
         RemoteUrlsChecked, Commit, Abort, TakeLock, Step
<1>2. CASE \E o \in Outcomes : End(t, o)
  BY <1>1, <1>2 DEF End
<1>3. CASE ~\E o \in Outcomes : End(t, o)
  <2>1. ~Rollback(t, "error") /\ ~Rollback(t, "constraint")
    BY <1>3 DEF Rollback
  <2>2. ASSUME Publish(t) PROVE req' = req
    BY <2>1, <2>2
    DEF Publish, ValidatePublish, CountServerVersions, CheckVersionExists,
        GetCurrentLatestVersion, UnmarkAsLatest, Insert, locals
  <2>3. ASSUME Edit(t) PROVE req' = req
    BY <2>1, <2>3 DEF Edit, ReadCurrent, LoadAndValidate, UpdateRow, SetServerStatus, locals
  <2>4. ASSUME Begin(t) \/ AcquirePublishLock(t) \/ CheckRemoteUrl(t) \/ RemoteUrlsChecked(t)
        PROVE  req' = req
    BY <2>1, <2>4
    DEF Begin, AcquirePublishLock, TakeLock, CheckRemoteUrl, RemoteUrlsChecked, locals
  <2>. QED  BY <1>1, <1>3, <2>1, <2>2, <2>3, <2>4 DEF Serve, Commit, Abort
<1>. QED  BY <1>2, <1>3

\* CreateServer ends with the row in the table, or in a failure that the
\* import counts.
LEMMA PublishEnds ==
    ASSUME TableInv, NEW t \in Tx, Serve(t) \/ Abort(t), pc'[t] \in Resting
    PROVE  \/ servers'[KeyOf(t)] # NoRow
           \/ pc'[t] \in {"error", "constraint"} /\ ~CheckVersionExists(t)
<1>. USE DEF TableInv, TypeOK, Resting, Outcomes
<1>1. KeyOf(t) \in Key
  BY ServeRequest, KeyType
<1>2. CASE Commit(t)
  <2>1. writes[t][KeyOf(t)] \in Row
    BY <1>1, <1>2 DEF Commit, Decided
  <2>. QED  BY <1>1, <1>2, <2>1, RegistryAssumption DEF Commit, Read
<1>3. CASE CheckVersionExists(t)
  <2>1. pc[t] = "exists" /\ Exists(t, KeyOf(t)) /\ servers' = servers
    BY <1>3 DEF CheckVersionExists, Step, Rollback
  <2>. QED  BY <1>1, <2>1, ReadsCommitted DEF Exists
<1>4. CASE ~Commit(t) /\ ~CheckVersionExists(t)
  <2>1. CASE Rollback(t, "error") \/ Rollback(t, "constraint")
    BY <1>4, <2>1 DEF Rollback, End
  <2>2. CASE ~Rollback(t, "error") /\ ~Rollback(t, "constraint")
    <3>1. ASSUME Publish(t) PROVE FALSE
      BY <1>4, <2>2, <3>1
      DEF Publish, ValidatePublish, CountServerVersions,
          GetCurrentLatestVersion, UnmarkAsLatest, Insert, Step
    <3>2. ASSUME Edit(t) PROVE FALSE
      BY <2>2, <3>2
      DEF Edit, ReadCurrent, LoadAndValidate, UpdateRow, SetServerStatus, Step, AfterUpdate
    <3>3. ASSUME Begin(t) \/ AcquirePublishLock(t) \/ CheckRemoteUrl(t)
                 \/ RemoteUrlsChecked(t)
          PROVE  FALSE
      BY <2>2, <3>3
      DEF Begin, AcquirePublishLock, TakeLock, CheckRemoteUrl, RemoteUrlsChecked, Step
    <3>. QED  BY <1>4, <2>2, <3>1, <3>2, <3>3 DEF Serve, Abort
  <2>. QED  BY <2>1, <2>2
<1>. QED  BY <1>2, <1>3, <1>4

\* A replica leaves the others, and the slots in which they import, alone.
LEMMA ReplicaFrame ==
    ASSUME TypeOK, BootTypeOK, NEW r \in Replicas, ReplicaStep(r), NEW q \in Replicas \ {r}
    PROVE  /\ boot'[q] = boot[q] /\ nextRecord'[q] = nextRecord[q]
           /\ failedCreations'[q] = failedCreations[q]
           /\ pc'[Importer[q]] = pc[Importer[q]] /\ req'[Importer[q]] = req[Importer[q]]
<1>. USE DEF BootTypeOK
<1>1. Importer[r] \in Tx /\ Importer[q] \in Tx \ {Importer[r]}
  BY BootAssumption
<1>2. /\ boot'[q] = boot[q] /\ nextRecord'[q] = nextRecord[q]
      /\ failedCreations'[q] = failedCreations[q]
  BY DEF ReplicaStep, Set, Start, BeginDelete, DeleteRow, Delete, ImportRecord,
         ImportStep, SeedUnreadable, EndImport, Stop
<1>3. ASSUME \/ Start(r) \/ BeginDelete(r) \/ DeleteRow(r) \/ Delete(r)
             \/ SeedUnreadable(r) \/ EndImport(r)
      PROVE  UNCHANGED <<pc, req>>
  BY <1>3 DEF Start, BeginDelete, DeleteRow, Delete, SeedUnreadable, EndImport, vars, locals
<1>4. ASSUME ImportRecord(r)
      PROVE  pc'[Importer[q]] = pc[Importer[q]] /\ req'[Importer[q]] = req[Importer[q]]
  BY <1>1, <1>4 DEF ImportRecord, Submit, TypeOK
<1>5. ASSUME ImportStep(r)
      PROVE  pc'[Importer[q]] = pc[Importer[q]] /\ req'[Importer[q]] = req[Importer[q]]
  BY <1>1, <1>5, Frame DEF ImportStep, ServeUnlessDeleting, StepOf
<1>6. ASSUME Stop(r)
      PROVE  pc'[Importer[q]] = pc[Importer[q]] /\ req'[Importer[q]] = req[Importer[q]]
  BY <1>1, <1>6, EndFrame DEF Stop, Rollback, vars, locals
<1>. QED  BY <1>2, <1>3, <1>4, <1>5, <1>6 DEF ReplicaStep

\* A replica keeps track of the record it imports.
LEMMA ImportingStep ==
    ASSUME TypeOK, BootTypeOK, NEW r \in Replicas, Importing(r), ReplicaStep(r)
    PROVE  Importing(r)'
<1>. DEFINE t == Importer[r]
<1>. USE DEF BootTypeOK
<1>0. t \in Tx
  BY BootAssumption
<1>1. CASE Start(r)
  BY <1>1 DEF Start, Set, Importing, vars, locals
<1>2. CASE BeginDelete(r) \/ DeleteRow(r)
  BY <1>2 DEF BeginDelete, DeleteRow, Set, Importing, vars, locals
<1>3. CASE Delete(r)
  BY <1>3 DEF Delete, Set, Importing, locals
<1>4. CASE ImportRecord(r)
  <2>1. nextRecord[r] \in DOMAIN Seed
    BY <1>4, BootAssumption DEF ImportRecord, AtEnd
  <2>2. boot'[r] = "import" /\ nextRecord'[r] = nextRecord[r] + 1
        /\ req'[t] = Seed[nextRecord[r]]
    BY <1>0, <1>4 DEF ImportRecord, Submit, TypeOK
  <2>3. nextRecord'[r] - 1 = nextRecord[r]
    BY <2>2
  <2>. QED  BY <2>1, <2>2, <2>3 DEF Importing
<1>5. CASE ImportStep(r)
  <2>1. pc[t] \notin Resting /\ (pc'[t] \in Resting \/ req'[t] = req[t])
    BY <1>0, <1>5, ServeRequest DEF ImportStep, ServeUnlessDeleting
  <2>. QED  BY <1>5, <2>1 DEF ImportStep, Importing
<1>6. CASE SeedUnreadable(r) \/ EndImport(r)
  <2>1. nextRecord[r] = 1 \/ pc[t] \in Resting
    BY <1>6 DEF SeedUnreadable, EndImport
  <2>2. pc[t] \in Resting
    BY <2>1, SeedType DEF Importing
  <2>. QED  BY <1>6, <2>2 DEF SeedUnreadable, EndImport, Set, Importing, vars, locals
<1>7. CASE Stop(r)
  <2>1. pc'[t] \in Resting
    BY <1>0, <1>7 DEF Stop, Rollback, End, vars, locals, TypeOK, Resting, Outcomes
  <2>2. boot'[r] = "down"
    BY <1>7 DEF Stop
  <2>. QED  BY <2>1, <2>2 DEF Importing
<1>. QED  BY <1>1, <1>2, <1>3, <1>4, <1>5, <1>6, <1>7 DEF ReplicaStep

\* A step of r leaves no record behind that r accounts for.
LEMMA AccountedStep ==
    ASSUME TableInv, BootTypeOK, NEW r \in Replicas, Importing(r), ReplicaStep(r),
           NEW i \in DOMAIN Seed, AccountedBy(r, i) \/ Delete(r)
    PROVE  AccountedBy(r, i)'
<1>. DEFINE t == Importer[r]
<1>. USE DEF BootTypeOK, WillImport
<1>0. /\ t \in Tx /\ i \in Nat \ {0} /\ i <= Len(Seed) /\ SeedKey(i) \in Key
      /\ nextRecord[r] \in Nat \ {0}
  BY BootAssumption, SeedType
<1>1. CASE Start(r)
  BY <1>1 DEF Start, Set, AccountedBy
<1>2. CASE BeginDelete(r) \/ DeleteRow(r)
  BY <1>2 DEF BeginDelete, DeleteRow, Set, AccountedBy, vars
<1>3. CASE Delete(r)
  <2>1. boot'[r] = "import" /\ nextRecord'[r] = 1
    BY <1>3 DEF Delete, Set, Importing
  <2>. QED  BY <1>0, <2>1 DEF AccountedBy
<1>4. CASE ImportRecord(r)
  <2>1. nextRecord[r] \in DOMAIN Seed
    BY <1>4, BootAssumption DEF ImportRecord, AtEnd
  <2>2. pc[t] \in Resting /\ pc'[t] \notin Resting
    BY <1>0, <1>4, <2>1, SeedType
    DEF ImportRecord, Submit, TableInv, TypeOK, Resting, Outcomes
  <2>3. /\ boot' = boot /\ nextRecord'[r] = nextRecord[r] + 1
        /\ failedCreations' = failedCreations /\ servers' = servers
    BY <1>4 DEF ImportRecord, Submit
  <2>4. ~Delete(r)
    BY <1>4 DEF ImportRecord, Delete, Set
  <2>. QED  BY <1>0, <2>2, <2>3, <2>4 DEF AccountedBy
<1>5. CASE ImportStep(r) /\ ~Delete(r)
  <2>1. UNCHANGED <<boot, nextRecord>> /\ failedCreations[r] \subseteq failedCreations'[r]
    BY <1>5 DEF ImportStep
  <2>2. CASE servers[SeedKey(i)] # NoRow
    <3>1. [Next]_vars
      BY <1>0, <1>5 DEF ImportStep, ServeUnlessDeleting, Next
    <3>. QED  BY <1>0, <2>2, <3>1, RowsStay DEF TableInv, AccountedBy
  <2>3. CASE nextRecord[r] = i + 1 /\ pc'[t] \in Resting
    <3>1. pc[t] \notin Resting
      BY <1>0, <1>5, ServeRequest DEF ImportStep, ServeUnlessDeleting, TableInv
    <3>2. req[t] = Seed[i] /\ KeyOf(t) = SeedKey(i)
      BY <1>0, <2>3, <3>1 DEF Importing, KeyOf, SeedKey
    <3>3. \/ servers'[SeedKey(i)] # NoRow
          \/ pc'[t] \in {"error", "constraint"} /\ ~CheckVersionExists(t)
      BY <1>0, <1>5, <2>3, <3>2, PublishEnds DEF ImportStep, ServeUnlessDeleting
    <3>4. CASE pc'[t] \in {"error", "constraint"} /\ ~CheckVersionExists(t)
      <4>1. i \in failedCreations'[r]
        BY <1>0, <1>5, <2>3, <3>4 DEF ImportStep
      <4>. QED  BY <4>1 DEF AccountedBy
    <3>. QED  BY <3>3, <3>4 DEF AccountedBy
  <2>4. WillImport(r, i) => WillImport(r, i)' \/ (nextRecord[r] = i + 1 /\ pc'[t] \in Resting)
    BY <1>0, <2>1
  <2>. QED  BY <1>5, <2>1, <2>2, <2>3, <2>4 DEF AccountedBy
<1>6. CASE SeedUnreadable(r)
  BY <1>6 DEF SeedUnreadable, AccountedBy
<1>7. CASE EndImport(r)
  <2>1. ~WillImport(r, i) /\ ~Delete(r)
    BY <1>0, <1>7, BootAssumption DEF EndImport, Set, AtEnd, Delete
  <2>. QED  BY <1>7, <2>1 DEF EndImport, AccountedBy, vars
<1>8. CASE Stop(r)
  BY <1>8 DEF Stop, AccountedBy
<1>. QED  BY <1>1, <1>2, <1>3, <1>4, <1>5, <1>6, <1>7, <1>8 DEF ReplicaStep

\* The bookkeeping of the replicas is well typed.
LEMMA BootTypeStep == BootTypeOK /\ [BootNext]_<<vars, startup>> => BootTypeOK'
<1>. SUFFICES ASSUME BootTypeOK, [BootNext]_<<vars, startup>> PROVE BootTypeOK'
  OBVIOUS
<1>. USE DEF BootTypeOK
<1>1. ASSUME NEW r \in Replicas, Start(r) PROVE BootTypeOK'
  BY <1>1 DEF Start, Set
<1>2. ASSUME NEW r \in Replicas, BeginDelete(r) \/ DeleteRow(r) \/ Delete(r)
      PROVE  BootTypeOK'
  BY <1>2 DEF BeginDelete, DeleteRow, Delete, Set
<1>3. ASSUME NEW r \in Replicas, ImportRecord(r) PROVE BootTypeOK'
  BY <1>3 DEF ImportRecord
<1>4. ASSUME NEW r \in Replicas, ImportStep(r) PROVE BootTypeOK'
  <2>1. nextRecord[r] - 1 \in Nat
    OBVIOUS
  <2>. QED  BY <1>4, <2>1 DEF ImportStep
<1>5. ASSUME NEW r \in Replicas, SeedUnreadable(r) PROVE BootTypeOK'
  <2>1. DOMAIN Seed \subseteq Nat
    BY SeedType
  <2>. QED  BY <1>5, <2>1 DEF SeedUnreadable, Set
<1>6. ASSUME NEW r \in Replicas, EndImport(r) \/ Stop(r) PROVE BootTypeOK'
  BY <1>6 DEF EndImport, Stop, Set
<1>7. CASE UNCHANGED startup
  BY <1>7 DEF startup
<1>. QED
  BY <1>1, <1>2, <1>3, <1>4, <1>5, <1>6, <1>7 DEF BootNext, ClientStep

\* Nothing has started, and every replica will import every record.
LEMMA InitBootInv == BootInit => BootInv
<1>. SUFFICES ASSUME BootInit PROVE BootInv
  OBVIOUS
<1>1. Init
  BY DEF BootInit
<1>2. TypeOK /\ HolderOwns /\ WritesOwnServer
  BY <1>1, InitIInv DEF IInv
<1>3. RowsSound /\ UniqueLatest
  BY <1>1 DEF Init, RowsSound, UniqueLatest, NoWrites, Key
<1>4. \A t \in Tx : Decided(t)
  BY <1>1 DEF Init, Decided
<1>5. BootTypeOK
  BY DEF BootInit, BootTypeOK
<1>6. \A r \in Replicas : Importing(r)
  BY <1>1, BootAssumption DEF BootInit, Init, Importing, Resting
<1>7. \A i \in DOMAIN Seed : Accounted(i)
  BY BootAssumption DEF BootInit, Accounted, AccountedBy, WillImport
<1>. QED  BY <1>2, <1>3, <1>4, <1>5, <1>6, <1>7 DEF BootInv, TableInv

\* Every step preserves the invariant.
LEMMA NextBootInv == BootInv /\ [BootNext]_<<vars, startup>> => BootInv'
<1>. SUFFICES ASSUME BootInv, [BootNext]_<<vars, startup>> PROVE BootInv'
  OBVIOUS
<1>. USE DEF BootInv
<1>1. BootTypeOK'
  BY BootTypeStep
<1>2. CASE \E r \in Replicas : ReplicaStep(r)
  <2>1. PICK r \in Replicas : ReplicaStep(r)
    BY <1>2
  <2>2. TableInv'
    BY <2>1, DeleteTableInv, ReplicaNext, NextTableInv
  <2>3. \A q \in Replicas : Importing(q)'
    <3>1. Importing(r)'
      BY <2>1, ImportingStep DEF TableInv
    <3>2. ASSUME NEW q \in Replicas \ {r} PROVE Importing(q)'
      BY <2>1, <3>2, ReplicaFrame DEF TableInv, Importing
    <3>. QED  BY <3>1, <3>2
  <2>4. ASSUME NEW i \in DOMAIN Seed PROVE Accounted(i)'
    <3>1. PICK q \in Replicas : AccountedBy(q, i)
      BY DEF Accounted
    <3>2. CASE q = r \/ Delete(r)
      BY <2>1, <3>1, <3>2, AccountedStep DEF Accounted
    <3>3. CASE q # r /\ ~Delete(r)
      <4>1. servers[SeedKey(i)] # NoRow => servers'[SeedKey(i)] # NoRow
        BY <2>1, <3>3, ReplicaNext, RowsStay, SeedType DEF TableInv
      <4>2. AccountedBy(q, i)'
        BY <2>1, <3>1, <3>3, <4>1, ReplicaFrame DEF TableInv, AccountedBy, WillImport
      <4>. QED  BY <4>2 DEF Accounted
    <3>. QED  BY <3>2, <3>3
  <2>. QED  BY <1>1, <2>2, <2>3, <2>4
<1>3. ASSUME [Next]_vars, UNCHANGED startup,
             \A q \in Replicas : /\ pc'[Importer[q]] = pc[Importer[q]]
                                  /\ req'[Importer[q]] = req[Importer[q]]
      PROVE  BootInv'
  <2>1. TableInv'
    BY <1>3, NextTableInv
  <2>2. \A q \in Replicas : Importing(q)'
    BY <1>3 DEF Importing, startup
  <2>3. ASSUME NEW i \in DOMAIN Seed PROVE Accounted(i)'
    <3>1. servers[SeedKey(i)] # NoRow => servers'[SeedKey(i)] # NoRow
      BY <1>3, RowsStay, SeedType DEF TableInv
    <3>2. ASSUME NEW q \in Replicas, AccountedBy(q, i) PROVE AccountedBy(q, i)'
      BY <1>3, <3>1, <3>2 DEF AccountedBy, WillImport, startup
    <3>. QED  BY <3>2 DEF Accounted
  <2>. QED  BY <1>1, <2>1, <2>2, <2>3
<1>4. ASSUME NEW t \in Tx \ ImportSlots, ClientStep(t) PROVE BootInv'
  <2>1. StepOf(t) /\ UNCHANGED startup
    BY <1>4 DEF ClientStep, ServeUnlessDeleting, StepOf
  <2>2. [Next]_vars
    BY <2>1 DEF StepOf, Next
  <2>3. ASSUME NEW q \in Replicas
        PROVE  pc'[Importer[q]] = pc[Importer[q]] /\ req'[Importer[q]] = req[Importer[q]]
    <3>1. Importer[q] \in Tx \ {t}
      BY BootAssumption DEF ImportSlots
    <3>. QED  BY <2>1, <3>1, Frame DEF TableInv
  <2>. QED  BY <1>3, <2>1, <2>2, <2>3
<1>5. CASE (Tick /\ UNCHANGED startup) \/ UNCHANGED <<vars, startup>>
  BY <1>3, <1>5 DEF Next, Tick, vars, locals
<1>. QED  BY <1>2, <1>4, <1>5 DEF BootNext, ReplicaStep

\* BootInv holds in every state, however replicas start and stop.
THEOREM BootInductive == BootSpec => []BootInv
BY InitBootInv, NextBootInv, PTL DEF BootSpec

-----------------------------------------------------------------------------
\* Once every replica serves, every record of the seed is in the table or a
\* replica has failed to import it, for any number of replicas that start, stop
\* and start again, and whatever clients publish and edit meanwhile.
THEOREM SeedTheorem == BootSpec => []SeedServed
<1>1. BootInv => SeedServed
  BY DEF BootInv, SeedServed, Accounted, AccountedBy, WillImport
<1>. QED  BY <1>1, BootInductive, PTL

\* A record of the seed that is greater than every other version of its server
\* is the latest once every replica serves.
THEOREM SeedLatestTheorem == BootSpec => []SeedLatest
<1>1. BootInv => SeedLatest
  <2>. SUFFICES ASSUME BootInv, NEW i \in DOMAIN Seed, Greatest(SeedKey(i)),
                       \A r \in Replicas : boot[r] = "serving" /\ failedCreations[r] = {}
                PROVE  servers[SeedKey(i)] # NoRow /\ servers[SeedKey(i)].isLatest
    BY DEF SeedLatest
  <2>1. servers[SeedKey(i)] # NoRow
    BY DEF BootInv, Accounted, AccountedBy, WillImport
  <2>. QED  BY <2>1, SeedType DEF BootInv, TableInv, RowsSound, SoundRow
<1>. QED  BY <1>1, BootInductive, PTL

\* No publish or import meets a unique constraint, although the DELETE of a
\* replica may take the latest row away between its statements.
THEOREM BootNoConstraint == BootSpec => []NoConstraintError
<1>1. BootInv => NoConstraintError
  BY DEF BootInv, TableInv, Decided, NoConstraintError
<1>. QED  BY <1>1, BootInductive, PTL

\* A transaction past AcquirePublishLock has its lock to itself, although replicas
\* import in the slots of their own and stop with a lock in hand.
THEOREM BootExclusion == BootSpec => []PublishExclusion
<1>1. BootInv => PublishExclusion
  BY DEF BootInv, TableInv, HolderOwns, PublishExclusion
<1>. QED  BY <1>1, BootInductive, PTL

-----------------------------------------------------------------------------
(* The limit on versions.  The DELETE of a start takes rows away between the *)
(* count of a publish and its insert, and never adds one.                    *)

Within(S) == IsFiniteSet(S) /\ Cardinality(S) <= MaxServerVersions

Below(S) == IsFiniteSet(S) /\ Cardinality(S) < MaxServerVersions

\* What the count of a publish says of the rows that t reads, until its commit.
Counted(t) ==
    /\ pc[t] \in {"exists", "latest", "unmark", "insert"} => Below(VersionsOf(t, req[t].name))
    /\ pc[t] \in {"setStatus", "commit"} => Within(VersionsOf(t, req[t].name))

Limited ==
    /\ TableInv
    /\ \A n \in Names : Within(Published(n))
    /\ \A t \in Tx : Counted(t)

\* Fewer versions are within the limit too.
LEMMA FewerVersions ==
    ASSUME NEW S, NEW T, T \subseteq S
    PROVE  (Within(S) => Within(T)) /\ (Below(S) => Below(T))
<1>. SUFFICES ASSUME IsFiniteSet(S)
              PROVE  IsFiniteSet(T) /\ (Cardinality(S) <= MaxServerVersions =>
                                            Cardinality(T) <= MaxServerVersions)
                                    /\ (Cardinality(S) < MaxServerVersions =>
                                            Cardinality(T) < MaxServerVersions)
  BY DEF Within, Below
<1>1. IsFiniteSet(T) /\ Cardinality(T) <= Cardinality(S)
  BY FS_Subset
<1>2. Cardinality(S) \in Nat /\ Cardinality(T) \in Nat
  BY <1>1, FS_CardinalityType
<1>. QED  BY <1>1, <1>2, RegistryAssumption

\* One more version fits where the limit is not reached.
LEMMA OneMoreVersion ==
    ASSUME NEW S, NEW v, NEW T, T \subseteq S \cup {v}, Below(S)
    PROVE  Within(T)
<1>1. IsFiniteSet(S) /\ Cardinality(S) \in Nat /\ Cardinality(S) < MaxServerVersions
  BY FS_CardinalityType DEF Below
<1>2. CASE v \in S
  <2>1. T \subseteq S
    BY <1>2
  <2>2. Below(T)
    BY <2>1, FewerVersions
  <2>. QED  BY <2>2, FS_CardinalityType, RegistryAssumption DEF Below, Within
<1>3. CASE v \notin S
  <2>1. IsFiniteSet(S \cup {v}) /\ Cardinality(S \cup {v}) = Cardinality(S) + 1
    BY <1>1, <1>3, FS_AddElement
  <2>2. Within(S \cup {v})
    BY <1>1, <2>1, RegistryAssumption DEF Within
  <2>. QED  BY <2>2, FewerVersions
<1>. QED  BY <1>2, <1>3

\* Rows of its server that disappear leave a transaction what it has counted.
LEMMA CountedLocal ==
    ASSUME NEW t \in Tx, Counted(t),
           pc'[t] = pc[t], req'[t] = req[t], writes'[t] = writes[t],
           \A v \in Versions : servers'[<<req[t].name, v>>]
                                  \in {servers[<<req[t].name, v>>], NoRow}
    PROVE  Counted(t)'
<1>1. VersionsOf(t, req[t].name)' \subseteq VersionsOf(t, req[t].name)
  BY DEF VersionsOf, Exists, Read
<1>. QED  BY <1>1, FewerVersions DEF Counted

\* A transaction that has written nothing reads as many versions as there are.
LEMMA CommittedWithin ==
    ASSUME Limited, NEW t \in Tx, pc[t] \notin Resting,
           pc[t] \notin {"insert", "setStatus", "commit"}
    PROVE  Within(VersionsOf(t, req[t].name))
<1>1. req[t].name \in Names
  BY KeyType DEF Limited, TableInv, Request
<1>2. VersionsOf(t, req[t].name) = Published(req[t].name)
  BY <1>1, ReadsCommitted
  DEF Limited, TableInv, VersionsOf, Published, Exists, Key
<1>. QED  BY <1>1, <1>2 DEF Limited

\* A step of t counts before it adds a version, and adds one at most.
LEMMA OwnCounted ==
    ASSUME Limited, NEW t \in Tx, StepOf(t)
    PROVE  Counted(t)'
<1>. DEFINE n == req[t].name
            Elsewhere == pc'[t] \notin {"exists", "latest", "unmark", "insert",
                                        "setStatus", "commit"}
            Same == UNCHANGED <<servers, req, writes>>
<1>. USE DEF Limited, TableInv, TypeOK
<1>0. Elsewhere => Counted(t)'
  BY DEF Counted
<1>a. Same => VersionsOf(t, n)' = VersionsOf(t, n)
  BY DEF VersionsOf, Exists, Read
<1>b. ASSUME NEW row \in Row, Write(t, KeyOf(t), row), UNCHANGED <<servers, req>>,
             pc[t] \notin Resting
      PROVE  VersionsOf(t, n)' = VersionsOf(t, n) \cup {req[t].version}
  <2>1. KeyOf(t) \in Key /\ KeyOf(t) = <<n, req[t].version>> /\ n \in Names
        /\ req[t].version \in Versions
    BY <1>b, KeyType DEF KeyOf, Request
  <2>2. /\ writes'[t][KeyOf(t)] = row /\ row # NoWrite /\ row # NoRow
        /\ \A k \in Key \ {KeyOf(t)} : writes'[t][k] = writes[t][k]
    BY <1>b, <2>1, RegistryAssumption DEF Write
  <2>3. \A v \in Versions \ {req[t].version} : Exists(t, <<n, v>>)' <=> Exists(t, <<n, v>>)
    BY <1>b, <2>1, <2>2 DEF Exists, Read, Key
  <2>4. Exists(t, <<n, req[t].version>>)'
    BY <1>b, <2>1, <2>2 DEF Exists, Read
  <2>. QED  BY <1>b, <2>1, <2>3, <2>4 DEF VersionsOf
<1>1. CASE \E o \in Outcomes : End(t, o)
  <2>1. Elsewhere
    BY <1>1 DEF End, Outcomes
  <2>. QED  BY <1>0, <2>1
<1>2. CASE ~\E o \in Outcomes : End(t, o)
  <2>0. ~Rollback(t, "error") /\ ~Rollback(t, "constraint") /\ ~Commit(t) /\ ~Abort(t)
    BY <1>2 DEF Rollback, Commit, Abort, Outcomes
  <2>1. ASSUME NEW r \in Requests, Submit(t, r) PROVE Counted(t)'
    BY <1>0, <2>1 DEF Submit
  <2>2. ASSUME \/ ReadCurrent(t) \/ Begin(t) \/ ValidatePublish(t) \/ LoadAndValidate(t)
               \/ AcquirePublishLock(t) \/ RemoteUrlsChecked(t)
        PROVE  Counted(t)'
    BY <1>0, <2>0, <2>2
    DEF ReadCurrent, Begin, ValidatePublish, LoadAndValidate, AcquirePublishLock,
        RemoteUrlsChecked, TakeLock, Step
  <2>3. ASSUME CheckRemoteUrl(t) PROVE Counted(t)'
    BY <1>0, <2>0, <2>3 DEF CheckRemoteUrl
  <2>4. ASSUME CountServerVersions(t) PROVE Counted(t)'
    <3>1. pc[t] = "count" /\ pc'[t] = "exists" /\ ~AtLimit(t) /\ Same
      BY <2>0, <2>4 DEF CountServerVersions, Step, locals
    <3>2. Within(VersionsOf(t, n))
      BY <3>1, CommittedWithin DEF Resting, Outcomes
    <3>3. Below(VersionsOf(t, n))
      BY <3>1, <3>2, FS_CardinalityType, RegistryAssumption DEF AtLimit, Within, Below
    <3>. QED  BY <1>a, <3>1, <3>3 DEF Counted
  <2>5. ASSUME CheckVersionExists(t) \/ GetCurrentLatestVersion(t) PROVE Counted(t)'
    <3>1. /\ pc[t] \in {"exists", "latest"} /\ pc'[t] \in {"latest", "unmark", "insert"}
          /\ Same
      BY <2>0, <2>5 DEF CheckVersionExists, GetCurrentLatestVersion, Step, locals
    <3>. QED  BY <1>a, <3>1 DEF Counted
  <2>6. ASSUME UnmarkAsLatest(t) PROVE Counted(t)'
    <3>1. /\ pc[t] = "unmark" /\ pc'[t] = "insert" /\ UNCHANGED <<servers, req>>
          /\ writes'[t] = [k \in Key |-> IF k \in Marked(t) THEN Unmarked(t, k)
                                         ELSE writes[t][k]]
      BY <2>6 DEF UnmarkAsLatest, Step, locals
    <3>2. n \in Names
      BY <3>1, KeyType DEF Request, Resting, Outcomes
    <3>3. ASSUME NEW v \in Versions, Exists(t, <<n, v>>)' PROVE Exists(t, <<n, v>>)
      <4>1. <<n, v>> \in Key
        BY <3>2 DEF Key
      <4>2. CASE <<n, v>> \in Marked(t)
        BY <4>2 DEF Marked, LatestOf, VersionsOf
      <4>3. CASE <<n, v>> \notin Marked(t)
        BY <3>1, <3>3, <4>1, <4>3 DEF Exists, Read
      <4>. QED  BY <4>2, <4>3
    <3>4. VersionsOf(t, n)' \subseteq VersionsOf(t, n)
      BY <3>1, <3>3 DEF VersionsOf
    <3>5. Below(VersionsOf(t, n))
      BY <3>1 DEF Counted
    <3>6. Below(VersionsOf(t, n)')
      BY <3>4, <3>5, FewerVersions
    <3>. QED  BY <3>1, <3>6 DEF Counted
  <2>7. ASSUME Insert(t) PROVE Counted(t)'
    <3>1. /\ pc[t] = "insert" /\ pc'[t] = "commit" /\ UNCHANGED <<servers, req>>
          /\ Write(t, KeyOf(t), NewRow(t))
      BY <2>0, <2>7 DEF Insert, Step, locals
    <3>2. writes' \in [Tx -> [Key -> Row \cup {NoWrite}]]
      BY NextType, <2>7 DEF Next, Serve, Publish
    <3>3. NewRow(t) \in Row
      BY <3>1, KeyType, StoredAssumption
      DEF NewRow, NewRowWith, Row, Request, Status, Resting, Outcomes
    <3>4. VersionsOf(t, n)' = VersionsOf(t, n) \cup {req[t].version}
      BY <1>b, <3>1, <3>3 DEF Resting, Outcomes
    <3>5. Within(VersionsOf(t, n) \cup {req[t].version})
      BY <3>1, OneMoreVersion DEF Counted
    <3>. QED  BY <3>1, <3>4, <3>5 DEF Counted
  <2>8. ASSUME UpdateRow(t) \/ SetServerStatus(t) PROVE Counted(t)'
    <3>1. /\ pc[t] \in {"update", "setStatus"} /\ pc'[t] \in {"setStatus", "commit"}
          /\ Exists(t, KeyOf(t)) /\ UNCHANGED <<servers, req>>
          /\ \/ Write(t, KeyOf(t), EditedRow(t))
             \/ Write(t, KeyOf(t), WithStatus(t, KeyOf(t))) /\ pc[t] = "setStatus"
      BY <2>0, <2>8 DEF UpdateRow, SetServerStatus, AfterUpdate, Step, locals
    <3>2. /\ req[t] \in Request /\ KeyOf(t) \in Key /\ pc[t] \notin Resting
          /\ KeyOf(t) = <<n, req[t].version>> /\ req[t].version \in Versions
      BY <3>1, KeyType DEF Resting, Outcomes, Request, KeyOf
    <3>3. Read(t, KeyOf(t)) \in Row
      BY <3>1, <3>2, ReadType
    <3>4. EditedRow(t) \in Row /\ (pc[t] = "setStatus" => WithStatus(t, KeyOf(t)) \in Row)
      BY <3>2, <3>3 DEF EditedRow, WithStatus, Row, Request
    <3>5. VersionsOf(t, n)' = VersionsOf(t, n) \cup {req[t].version}
      BY <1>b, <3>1, <3>2, <3>4
    <3>6. req[t].version \in VersionsOf(t, n)
      BY <3>1, <3>2 DEF VersionsOf
    <3>7. Within(VersionsOf(t, n))
      BY <3>1, <3>2, CommittedWithin DEF Counted
    <3>8. VersionsOf(t, n)' = VersionsOf(t, n)
      BY <3>5, <3>6
    <3>. QED  BY <3>1, <3>7, <3>8 DEF Counted
  <2>. QED
    BY <2>0, <2>1, <2>2, <2>3, <2>4, <2>5, <2>6, <2>7, <2>8 DEF StepOf, Serve, Publish, Edit
<1>. QED  BY <1>1, <1>2

\* No step of a publish or an edit takes a server beyond the limit.
LEMMA NextLimited == Limited /\ [Next]_vars => Limited'
<1>. SUFFICES ASSUME Limited, [Next]_vars PROVE Limited'
  OBVIOUS
<1>. USE DEF Limited
<1>1. TableInv'
  BY NextTableInv
<1>2. ASSUME NEW t \in Tx, StepOf(t) PROVE Limited'
  <2>1. ASSUME NEW n \in Names PROVE Within(Published(n))'
    <3>1. CASE Commit(t) /\ n = req[t].name
      <4>1. pc[t] = "commit" /\ \A v \in Versions : servers'[<<n, v>>] = Read(t, <<n, v>>)
        BY <3>1 DEF Commit, Key
      <4>2. Published(n)' = VersionsOf(t, n)
        BY <4>1 DEF Published, VersionsOf, Exists
      <4>3. Within(VersionsOf(t, n))
        BY <3>1, <4>1 DEF Counted
      <4>. QED  BY <4>2, <4>3
    <3>2. CASE ~(Commit(t) /\ n = req[t].name)
      <4>1. \A v \in Versions : servers'[<<n, v>>] = servers[<<n, v>>]
        <5>1. CASE Commit(t)
          BY <3>2, <5>1, CommitLocal DEF TableInv, Key, Commit
        <5>. QED  BY <1>2, <5>1, OnlyCommitChanges
      <4>2. Published(n)' = Published(n)
        BY <4>1 DEF Published
      <4>. QED  BY <4>2
    <3>. QED  BY <3>1, <3>2
  <2>2. ASSUME NEW u \in Tx \ {t} PROVE Counted(u)'
    <3>1. pc'[u] = pc[u] /\ req'[u] = req[u] /\ writes'[u] = writes[u]
      BY <1>2, Frame DEF TableInv
    <3>2. CASE pc[u] \notin Holding
      BY <3>1, <3>2 DEF Counted, Holding, InTx
    <3>3. CASE pc[u] \in Holding
      <4>1. ASSUME NEW v \in Versions
            PROVE  servers'[<<req[u].name, v>>] = servers[<<req[u].name, v>>]
        <5>1. CASE Commit(t)
          <6>1. req[u] \in Request /\ pc[t] \in Holding
            BY <3>3, <5>1, KeyType DEF TableInv, Commit, Holding, InTx, Resting, Outcomes
          <6>2. req[t].name # req[u].name
            BY <3>3, <6>1 DEF TableInv, HolderOwns
          <6>. QED  BY <5>1, <6>1, <6>2, CommitLocal DEF TableInv, Key, Request, Commit
        <5>. QED  BY <1>2, <5>1, OnlyCommitChanges
      <4>. QED  BY <3>1, <4>1, CountedLocal
    <3>. QED  BY <3>2, <3>3
  <2>. QED  BY <1>1, <1>2, <2>1, <2>2, OwnCounted
<1>3. CASE Tick \/ UNCHANGED vars
  <2>1. UNCHANGED <<servers, pc, req, writes>>
    BY <1>3 DEF Tick, vars, locals
  <2>2. \A n \in Names : Published(n)' = Published(n)
    BY <2>1 DEF Published
  <2>3. \A t \in Tx : Counted(t)'
    BY <2>1, CountedLocal
  <2>. QED  BY <1>1, <2>2, <2>3
<1>. QED  BY <1>2, <1>3 DEF Next, StepOf

\* Nor does the DELETE of a start.
LEMMA DeleteLimited ==
    ASSUME Limited, NEW r \in Replicas, Delete(r)
    PROVE  Limited'
<1>. USE DEF Limited
<1>1. UNCHANGED <<pc, req, writes>> /\ \A k \in Key : servers'[k] \in {servers[k], NoRow}
  BY DEF Delete, locals
<1>2. ASSUME NEW n \in Names PROVE Within(Published(n))'
  <2>1. Published(n)' \subseteq Published(n)
    BY <1>1 DEF Published, Key
  <2>. QED  BY <2>1, FewerVersions
<1>3. ASSUME NEW t \in Tx PROVE Counted(t)'
  <2>1. CASE pc[t] \in Holding
    <3>1. req[t] \in Request
      BY <2>1, KeyType DEF TableInv, Holding, InTx, Resting, Outcomes
    <3>2. \A v \in Versions : servers'[<<req[t].name, v>>]
                               \in {servers[<<req[t].name, v>>], NoRow}
      BY <1>1, <3>1 DEF Key, Request
    <3>. QED  BY <1>1, <3>2, CountedLocal
  <2>2. CASE pc[t] \notin Holding
    BY <1>1, <2>2 DEF Counted, Holding, InTx
  <2>. QED  BY <2>1, <2>2
<1>. QED  BY <1>2, <1>3, DeleteTableInv

\* A step of a replica or of a client is a step of the publishes and edits, a
\* DELETE or nothing.
LEMMA BootSteps ==
    ASSUME BootTypeOK, [BootNext]_<<vars, startup>>
    PROVE  [Next]_vars \/ \E r \in Replicas : Delete(r)
<1>1. CASE \E r \in Replicas : ReplicaStep(r)
  BY <1>1, ReplicaNext
<1>2. ASSUME NEW t \in Tx, ClientStep(t) PROVE Next
  BY <1>2 DEF ClientStep, ServeUnlessDeleting, Next
<1>3. CASE Tick \/ UNCHANGED vars
  BY <1>3 DEF Next
<1>. QED  BY <1>1, <1>2, <1>3 DEF BootNext, ReplicaStep

\* No server has more versions than the limit, although the rows that a publish
\* has counted may be gone, and others there, when it inserts its own.
THEOREM BootLimit == BootSpec => []VersionLimit
<1>1. BootInit /\ BootInv => Limited
  <2>. SUFFICES ASSUME BootInit, BootInv PROVE Limited
    OBVIOUS
  <2>1. ASSUME NEW n \in Names PROVE Within(Published(n))
    <3>1. Published(n) = {}
      BY DEF BootInit, Init, Published, Key
    <3>. QED  BY <3>1, FS_EmptySet, RegistryAssumption DEF Within
  <2>2. \A t \in Tx : Counted(t)
    BY DEF BootInit, Init, Counted
  <2>. QED  BY <2>1, <2>2 DEF Limited, BootInv
<1>2. Limited /\ BootInv /\ [BootNext]_<<vars, startup>> => Limited'
  BY NextLimited, DeleteLimited, BootSteps DEF BootInv
<1>3. Limited => VersionLimit
  BY DEF Limited, Within, VersionLimit
<1>. QED  BY <1>1, <1>2, <1>3, BootInductive, PTL DEF BootSpec

-----------------------------------------------------------------------------
(* The rows that the DELETE of a start holds, and who waits for them. *)

\* A DELETE holds committed rows that no transaction and no other DELETE has, and
\* those it has yet to take are there too.
Taken ==
    \A r \in Replicas :
        /\ \A k \in toDelete[r] \cup deleted[r] : servers[k] # NoRow
        /\ \A k \in deleted[r], t \in Tx : writes[t][k] = NoWrite
        /\ \A q \in Replicas \ {r} : deleted[q] \cap deleted[r] = {}

\* Who has written a row waits for nobody: neither for a request nor for a DELETE.
WritersGoOn ==
    \A t \in Tx : writes[t] # NoWrites => ~Waits(t) /\ ~WaitsForDelete(t)

\* A statement writes the rows that it may have to wait for, and no others.
LEMMA WritesNextRows ==
    ASSUME TypeOK, NEW t \in Tx, StepOf(t), NEW k \in Key, writes'[t][k] # NoWrite
    PROVE  writes[t][k] # NoWrite \/ k \in NextRows(t)
<1>. USE DEF TypeOK
<1>1. CASE \E o \in Outcomes : End(t, o)
  BY <1>1 DEF End, NoWrites
<1>2. CASE ~\E o \in Outcomes : End(t, o)
  <2>1. ~Rollback(t, "error") /\ ~Rollback(t, "constraint") /\ ~Commit(t) /\ ~Abort(t)
    BY <1>2 DEF Rollback, Commit, Abort, Outcomes
  <2>2. CASE UnmarkAsLatest(t)
    <3>1. pc[t] = "unmark" /\ (k \notin Marked(t) => writes'[t][k] = writes[t][k])
      BY <2>2 DEF UnmarkAsLatest, Step
    <3>. QED  BY <3>1 DEF NextRows
  <2>3. CASE Insert(t) \/ UpdateRow(t) \/ SetServerStatus(t)
    <3>1. /\ pc[t] \in {"insert", "update", "setStatus"}
          /\ k # KeyOf(t) => writes'[t][k] = writes[t][k]
      BY <2>1, <2>3 DEF Insert, UpdateRow, SetServerStatus, Write
    <3>. QED  BY <3>1 DEF NextRows
  <2>4. CASE ~UnmarkAsLatest(t) /\ ~Insert(t) /\ ~UpdateRow(t) /\ ~SetServerStatus(t)
    <3>1. ASSUME NEW r \in Requests, Submit(t, r) PROVE writes' = writes
      BY <3>1 DEF Submit
    <3>2. ASSUME Publish(t) \/ Edit(t) PROVE writes' = writes
      BY <2>1, <2>4, <3>2
      DEF Publish, Edit, ValidatePublish, CountServerVersions, CheckVersionExists,
          GetCurrentLatestVersion, ReadCurrent, LoadAndValidate
    <3>3. ASSUME Begin(t) \/ AcquirePublishLock(t) \/ CheckRemoteUrl(t) \/ RemoteUrlsChecked(t)
          PROVE  writes' = writes
      BY <2>1, <3>3
      DEF Begin, AcquirePublishLock, TakeLock, CheckRemoteUrl, RemoteUrlsChecked
    <3>. QED  BY <2>1, <3>1, <3>2, <3>3 DEF StepOf, Serve
  <2>. QED  BY <2>2, <2>3, <2>4
<1>. QED  BY <1>1, <1>2

\* A statement that does not wait for a DELETE takes none of its rows.
LEMMA RequestTaken ==
    ASSUME BootInv, Taken, NEW t \in Tx, ServeUnlessDeleting(t) \/ Abort(t),
           \A r \in Replicas : toDelete'[r] \subseteq toDelete[r] /\ deleted'[r] \subseteq deleted[r]
    PROVE  Taken'
<1>. USE DEF BootInv, TableInv, BootTypeOK
<1>0. StepOf(t)
  BY DEF ServeUnlessDeleting, StepOf
<1>1. ASSUME NEW k \in Key, servers[k] # NoRow PROVE servers'[k] # NoRow
  <2>1. [Next]_vars
    BY <1>0 DEF StepOf, Next
  <2>. QED  BY <1>1, <2>1, RowsStay
<1>2. ASSUME NEW r \in Replicas, NEW k \in deleted[r], NEW u \in Tx
      PROVE  writes'[u][k] = NoWrite
  <2>1. k \in Key /\ writes[u][k] = NoWrite
    BY DEF Taken
  <2>2. CASE u # t
    BY <1>0, <2>1, <2>2, Frame
  <2>3. CASE u = t /\ ServeUnlessDeleting(t)
    <3>1. k \notin NextRows(t)
      BY <2>3 DEF ServeUnlessDeleting, WaitsForDelete
    <3>. QED  BY <1>0, <2>1, <2>3, <3>1, WritesNextRows
  <2>4. CASE u = t /\ Abort(t)
    <3>1. writes'[t] = NoWrites
      BY <2>4 DEF Abort, Rollback, End, TypeOK
    <3>. QED  BY <2>1, <2>4, <3>1 DEF NoWrites
  <2>. QED  BY <2>2, <2>3, <2>4
<1>. QED  BY <1>1, <1>2 DEF Taken

\* Every step leaves the rows of the DELETEs to them.
LEMMA NextTaken == BootInv /\ Taken /\ [BootNext]_<<vars, startup>> => Taken'
<1>. SUFFICES ASSUME BootInv, Taken, [BootNext]_<<vars, startup>> PROVE Taken'
  OBVIOUS
<1>. USE DEF BootInv, BootTypeOK
<1>1. ASSUME NEW r \in Replicas, BeginDelete(r) PROVE Taken'
  BY <1>1 DEF BeginDelete, vars, Taken
<1>2. ASSUME NEW r \in Replicas, DeleteRow(r) PROVE Taken'
  <2>1. PICK k \in toDelete[r] :
          /\ RowFree(Importer[r], k)
          /\ \A q \in Replicas : k \notin deleted[q]
          /\ toDelete' = [toDelete EXCEPT ![r] = @ \ {k}]
          /\ deleted' = [deleted EXCEPT ![r] = @ \cup {k}]
    BY <1>2 DEF DeleteRow
  <2>2. UNCHANGED <<servers, writes>> /\ boot[r] = "deleting"
    BY <1>2 DEF DeleteRow, vars
  <2>3. pc[Importer[r]] \in Resting /\ Importer[r] \in Tx /\ k \in Key
    BY <2>2, BootAssumption DEF Importing
  <2>4. writes[Importer[r]][k] = NoWrite
    BY <2>3 DEF TableInv, WritesOwnServer, Resting, Outcomes
  <2>5. \A t \in Tx : writes[t][k] = NoWrite
    BY <2>1, <2>4 DEF RowFree
  <2>. QED  BY <2>1, <2>2, <2>5 DEF Taken
<1>3. ASSUME NEW r \in Replicas, Delete(r) PROVE Taken'
  <2>1. writes' = writes /\ deleted' = [deleted EXCEPT ![r] = {}]
    BY <1>3 DEF Delete
  <2>2. CASE servers' = servers /\ toDelete' = [toDelete EXCEPT ![r] = {}]
    BY <2>1, <2>2 DEF Taken
  <2>3. CASE /\ servers' = [k \in Key |-> IF k \in deleted[r] THEN NoRow ELSE servers[k]]
             /\ toDelete' = [q \in Replicas |-> toDelete[q] \ deleted[r]]
    <3>1. ASSUME NEW q \in Replicas, NEW k \in toDelete'[q] \cup deleted'[q]
          PROVE  servers'[k] # NoRow
      <4>1. k \in toDelete[q] \cup deleted[q] /\ k \notin deleted[r] /\ k \in Key
        BY <2>1, <2>3 DEF Taken
      <4>. QED  BY <2>3, <4>1 DEF Taken
    <3>. QED  BY <2>1, <3>1 DEF Taken
  <2>. QED  BY <1>3, <2>2, <2>3 DEF Delete
<1>4. ASSUME NEW r \in Replicas, ImportStep(r) \/ ImportRecord(r) PROVE Taken'
  <2>1. Importer[r] \in Tx /\ UNCHANGED <<toDelete, deleted>>
    BY <1>4, BootAssumption DEF ImportStep, ImportRecord
  <2>2. CASE ImportStep(r)
    BY <2>1, <2>2, RequestTaken DEF ImportStep
  <2>3. CASE ImportRecord(r)
    BY <2>1, <2>3 DEF ImportRecord, Submit, Taken
  <2>. QED  BY <1>4, <2>2, <2>3
<1>5. ASSUME NEW r \in Replicas, Stop(r) PROVE Taken'
  <2>1. \A q \in Replicas : toDelete'[q] \subseteq toDelete[q] /\ deleted'[q] \subseteq deleted[q]
    BY <1>5 DEF Stop
  <2>2. servers' = servers
    BY <1>5 DEF Stop, Rollback, vars
  <2>3. \A t \in Tx : writes'[t] \in {writes[t], NoWrites}
    BY <1>5, BootAssumption DEF Stop, Rollback, End, vars, TableInv, TypeOK
  <2>4. \A t \in Tx, k \in Key : writes[t][k] = NoWrite => writes'[t][k] = NoWrite
    BY <2>3 DEF NoWrites
  <2>. QED  BY <2>1, <2>2, <2>4 DEF Taken
<1>6. ASSUME NEW t \in Tx, ClientStep(t) PROVE Taken'
  <2>1. UNCHANGED <<toDelete, deleted>>
    BY <1>6 DEF ClientStep, startup
  <2>2. CASE \E r \in Requests : Submit(t, r)
    BY <2>1, <2>2 DEF Submit, Taken
  <2>3. CASE ServeUnlessDeleting(t) \/ Abort(t)
    BY <2>1, <2>3, RequestTaken
  <2>. QED  BY <1>6, <2>2, <2>3 DEF ClientStep
<1>7. ASSUME NEW r \in Replicas, Start(r) \/ SeedUnreadable(r) \/ EndImport(r) PROVE Taken'
  BY <1>7 DEF Start, SeedUnreadable, EndImport, vars, Taken
<1>8. CASE (Tick /\ UNCHANGED startup) \/ UNCHANGED <<vars, startup>>
  BY <1>8 DEF Tick, vars, startup, Taken
<1>. QED
  BY <1>1, <1>2, <1>3, <1>4, <1>5, <1>6, <1>7, <1>8 DEF BootNext

\* The DELETE of a start and the requests never wait for each other in a circle,
\* although it takes the rows one by one: who waits for one of its rows has written
\* none that it could wait for.  Only two DELETEs can, of which the database ends one.
THEOREM BootNoDeadlock == BootSpec => [](SomeoneGoesOn /\ WritersGoOn)
<1>1. BootInit => InOrder /\ Taken
  <2>1. BootInit => Taken
    BY DEF BootInit, Taken
  <2>. QED  BY <2>1, InitInOrder DEF BootInit
<1>2. InOrder /\ BootInv /\ BootInv' /\ [BootNext]_<<vars, startup>> => InOrder'
  <2>. SUFFICES ASSUME InOrder, BootInv, BootInv', [BootNext]_<<vars, startup>>
                PROVE  InOrder'
    OBVIOUS
  <2>1. ASSUME NEW r \in Replicas, Delete(r) PROVE InOrder'
    BY <2>1
    DEF Delete, locals, BootInv, TableInv, InOrder, PoolBounded, Connected, OwnersHold, LockOf
  <2>. QED  BY <2>1, NextInOrder, BootSteps DEF BootInv
<1>3. InOrder /\ BootInv => SomeoneGoesOn
  BY NotAllWait DEF BootInv, TableInv
<1>4. BootInv /\ Taken => WritersGoOn
  <2>. SUFFICES ASSUME BootInv, Taken, NEW t \in Tx, writes[t] # NoWrites
                PROVE  ~Waits(t) /\ ~WaitsForDelete(t)
    BY DEF WritersGoOn
  <2>. USE DEF BootInv, TableInv
  <2>1. PICK k \in Key : writes[t][k] # NoWrite
    BY DEF NoWrites, TypeOK
  <2>2. pc[t] \in {"insert", "setStatus", "commit"}
    BY <2>1 DEF WritesOwnServer
  <2>3. ~Waits(t)
    BY <2>2, HolderGoesOn DEF Holding, InTx
  <2>4. \A r \in Replicas : \A j \in deleted[r] : servers[j] # NoRow /\ writes[t][j] = NoWrite
    BY DEF Taken
  <2>5. CASE pc[t] = "insert"
    <3>1. servers[KeyOf(t)] = NoRow /\ (isNewLatest[t] => Marked(t) = {})
      BY <2>5 DEF Decided, Marked
    <3>. QED  BY <2>3, <2>4, <2>5, <3>1 DEF WaitsForDelete, NextRows
  <2>6. CASE pc[t] = "setStatus"
    <3>1. writes[t][KeyOf(t)] # NoWrite
      BY <2>6 DEF Decided
    <3>. QED  BY <2>3, <2>4, <2>6, <3>1 DEF WaitsForDelete, NextRows
  <2>7. CASE pc[t] = "commit"
    BY <2>3, <2>7 DEF WaitsForDelete, NextRows
  <2>. QED  BY <2>2, <2>5, <2>6, <2>7
<1>. QED  BY <1>1, <1>2, <1>3, <1>4, NextTaken, BootInductive, PTL DEF BootSpec
=============================================================================
