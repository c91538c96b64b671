SPECIFICATION ReadsSpec
CONSTANTS
    n1 = n1  n2 = n2
    semver1 = semver1  semver2 = semver2
    t1 = t1
    NoRow = NoRow  NoWrite = NoWrite  NoTx = NoTx  NoRequest = NoRequest
    NoCursor = NoCursor  NoTime = NoTime
    Names = {n1, n2}
    Versions = {semver1, semver2}
    Semvers = {semver1, semver2}
    Precedence <- MCPrecedence
    Urls = {}
    Tx = {t1}
    LockIds = {n1, n2}
    HashServerName <- OwnLock
    Requests <- PublishesAndEdits
    MaxServerVersions = 2
    MaxUrlRows = 1
    MaxConns = 2
    Times = {0}
    Stored <- ExactTime
    ClockSkew = 0
    MaxNow = 0
    Place <- MCPlace
    PageSize = 1
    Modes = {"full", "latest"}
INVARIANTS
    ListingComplete
    LatestListingNamesAll
    LiveServersValidated
PROPERTIES
    DeletedStaysDeleted
