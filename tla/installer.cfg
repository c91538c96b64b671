SPECIFICATION Spec
CONSTANTS
    b1 = b1
    t1 = t1
    t2 = t2
    None = None
    Buttons = {b1}
    Ids = {t1, t2}
    MaxClicks = 2
    MaxAttempts = 2
    MaxStops = 1
INVARIANTS
    TypeOK
    OutcomeShown
PROPERTIES
    OutcomeStays
    ButtonComesBack
    EveryJobEnds
CHECK_DEADLOCK FALSE
