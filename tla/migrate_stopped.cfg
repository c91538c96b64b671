SPECIFICATION LifeSpec
CONSTANTS
    r1 = r1  r2 = r2  r3 = r3
    NoReplica = NoReplica
    Replicas = {r1, r2}
    Last = 4
    OwnCommit = {2, 3}
    Repeatable = {3}
    MaxStops = 2
INVARIANTS
    AppliedWithRecord
CHECK_DEADLOCK FALSE
