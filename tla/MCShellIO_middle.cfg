SPECIFICATION Spec
CONSTANTS
    MaxN = 0
    MaxStage = 3
    MaxLine = 1
    Kinds = {"small", "big", "filter"}
    None = none
CHECK_DEADLOCK FALSE
PROPERTIES
    LineCompletes
