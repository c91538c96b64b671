SPECIFICATION FairSpec
CONSTANTS
    n1 = n1  n2 = n2
    semver1 = semver1  semver2 = semver2  build2 = build2
    snapshotA = snapshotA  snapshotB = snapshotB
    url1 = url1  url2 = url2
    t1 = t1  t2 = t2  t3 = t3
    NoRow = NoRow  NoWrite = NoWrite  NoTx = NoTx  NoRequest = NoRequest
    Names = {n1, n2}
    Versions = {semver1, semver2}
    Semvers <- MCSemvers
    Precedence <- MCPrecedence
    Urls = {url1, url2}
    Tx = {t1, t2, t3}
    LockIds = {n1}
    HashServerName <- OneLock
    Requests <- UrlRequests
    MaxServerVersions = 2
    MaxUrlRows = 1
    MaxConns = 2
    Times = {0}
    Stored <- ExactTime
    ClockSkew = 0
    MaxNow = 0
INVARIANTS
    RemoteUrlUnique
PROPERTIES
    EveryRequestEnds
