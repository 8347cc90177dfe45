SPECIFICATION Spec
CONSTANTS
    Session = {s1, s2}
    Files <- SomeFiles
    ShortWrite = TRUE
    MaxJunk = 2
CHECK_DEADLOCK FALSE
INVARIANTS
    TypeOK
    ReadsAsTyped
    OnePerSign
    
PROPERTIES
    SessionEnds
