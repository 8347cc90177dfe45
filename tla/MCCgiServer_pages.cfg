SPECIFICATION Spec
CONSTANTS
    Browser = {b1, b2, b3}
    Slow = {b3}
    s1 = s1
    s2 = s2
    Session = {s1, s2}
    Request <- Requests
    Nothing = nothing
    Leaves = leaves
    NoOne = noone
CHECK_DEADLOCK FALSE
INVARIANTS
    TypeOK
    LateWrites
PROPERTIES
    AnswersSpec
    ServedInTurn
