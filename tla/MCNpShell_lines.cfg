SPECIFICATION Spec
CONSTANTS
    FdNum = 8
    MaxN = 2
    MaxStage = 3
    MaxLine = 5
    ReleaseEarly = FALSE
CHECK_DEADLOCK FALSE
INVARIANTS
    TypeOK
    PendingIntact
    OnTime
    Joined
PROPERTIES
    OneEndLeftAtMost
