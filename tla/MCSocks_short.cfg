SPECIFICATION Spec
CONSTANTS
    Bytes = 3
    Room = 2
    ShortWrite = TRUE
    Octet = {1, 2}
    Wild = any
    Pattern <- Patterns
    MaxRule = 2
    Rules <- TwoRules
    NoAddress = noaddress
    Lookups <- Names
CHECK_DEADLOCK FALSE
INVARIANTS
    CompleteAtEnd
