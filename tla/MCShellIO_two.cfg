SPECIFICATION Spec
CONSTANTS
    MaxN = 1
    MaxStage = 2
    MaxLine = 3
    Kinds = {"small", "unknown", "big", "filter"}
    None = none
CHECK_DEADLOCK FALSE
PROPERTIES
    
    ChildrenEnd
INVARIANTS
    TypeOK
    FilterGetsAll
