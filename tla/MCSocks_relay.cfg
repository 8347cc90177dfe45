SPECIFICATION Spec
CONSTANTS
    Bytes = 3
    Room = 2
    ShortWrite = FALSE
    Octet = {1, 2}
    Wild = any
    Pattern <- Patterns
    MaxRule = 2
    Rules <- TwoRules
    NoAddress = noaddress
    Lookups <- Names
CHECK_DEADLOCK FALSE
INVARIANTS
    TypeOK
    CompleteAtEnd
    
    
    RulesDecide
PROPERTIES
    StreamsSpec
    EndsAfterBoth
