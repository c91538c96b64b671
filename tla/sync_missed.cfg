SPECIFICATION ReadsSpec
CONSTANTS
    n1 = n1  n2 = n2
    semver1 = semver1  semver2 = semver2
    t1 = t1
    NoRow = NoRow  NoWrite = NoWrite  NoTx = NoTx  NoRequest = NoRequest
    NoCursor = NoCursor  NoTime = NoTime
    Names = {n1}
    Versions = {semver1, semver2}
    Semvers = {semver1, semver2}
    Precedence <- MCPrecedence
    Urls = {}
    Tx = {t1}
    LockIds = {n1}
    HashServerName <- OwnLock
    Requests <- Publishes
    MaxServerVersions = 2
    MaxUrlRows = 1
    MaxConns = 2
    Times = {0, 1}
    Stored <- ExactTime
    ClockSkew = 0
    MaxNow = 1
    Place <- MCPlace
    PageSize = 1
    Modes = {"full", "changes"}
INVARIANTS
    SyncMissesNothing
