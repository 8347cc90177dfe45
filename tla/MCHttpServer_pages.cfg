SPECIFICATION Spec
CONSTANTS
    Browser = {b1, b2, b3}
    Request = {"ends", "stays"}
    Nothing = nothing
    Leaves = leaves
    MaxProc = 2
    Length = 2
    NoOne = noone
CHECK_DEADLOCK FALSE
INVARIANTS
    TypeOK
    PeerUnlessOvertaken
PROPERTIES
    AnswersSpec
    EveryoneAnswered
