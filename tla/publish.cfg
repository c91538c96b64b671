SPECIFICATION Spec
CONSTANTS
    n1 = n1  n2 = n2
    semver1 = semver1  semver2 = semver2  build2 = build2
    snapshotA = snapshotA  snapshotB = snapshotB
    url1 = url1  url2 = url2
    t1 = t1  t2 = t2  t3 = t3
    NoRow = NoRow  NoWrite = NoWrite  NoTx = NoTx  NoRequest = NoRequest
    Names = {n1}
    Versions = {semver1, semver2, build2, snapshotA, snapshotB}
    Semvers <- MCSemvers
    Precedence <- MCPrecedence
    Urls = {}
    Tx = {t1, t2}
    LockIds = {n1}
    HashServerName <- OwnLock
    Requests <- PublishAndEdit
    MaxServerVersions = 3
    MaxUrlRows = 1
    MaxConns = 2
    Times <- MCTimes
    Stored <- MCStored
    ClockSkew = 1
    MaxNow = 1
SYMMETRY Slots
INVARIANTS
    TypeOK
    PublishExclusion
    LatestIsGreatest
    VersionLimit
    NoConstraintError
PROPERTIES
    LatestNeverGoesBack
    ImplementsCatalog
