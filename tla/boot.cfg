SPECIFICATION BootSpec
CONSTANTS
    n1 = n1
    semver1 = semver1  semver2 = semver2
    r1 = r1  r2 = r2
    i1 = i1  i2 = i2  c1 = c1
    NoRow = NoRow  NoWrite = NoWrite  NoTx = NoTx  NoRequest = NoRequest
    Names = {n1}
    Versions = {semver1, semver2}
    Semvers = {semver1, semver2}
    Precedence <- MCPrecedence
    Urls = {}
    Tx = {i1, i2, c1}
    LockIds = {n1}
    HashServerName <- OwnLock
    Requests <- Publishes
    MaxServerVersions = 3
    MaxUrlRows = 1
    MaxConns = 3
    Times = {0, 1}
    Stored <- CoarseTime
    ClockSkew = 0
    MaxNow = 1
    Replicas = {r1, r2}
    Importer <- MCImporter
    Seed <- TwoRecords
    MaxStarts = 3
INVARIANTS
    SeedServed
    SeedLatest
    NoConstraintError
