SPECIFICATION Spec
CONSTANTS
    server = server  serverTwo = serverTwo  other = other  path = path
    Servers = {server, serverTwo, other}
    BadNames = {path}
    Extensions <- MCExtensions
    OfPlaceholders = other
    OfUnscoped = path
    UpperCase = {serverTwo, other}
    None = None
    Workdirs <- MCWorkdirs
    Documents <- MCDocuments
INVARIANTS
    TypeOK
    AcceptedOwned
    AcceptedStartable
    RefusedForCause
    DraftsPublishable
