SPECIFICATION Spec
CONSTANTS
    FdNum = 10
    MaxN = 2
    MaxStage = 3
    MaxLine = 3
    ReleaseEarly = TRUE
CHECK_DEADLOCK FALSE
INVARIANTS
    Joined
