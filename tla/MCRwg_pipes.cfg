SPECIFICATION Spec
CONSTANTS
    Fd = {f1, f2, f3}
    MaxId = 3
    Name = {}
    Var = {PATH}
    Value = {bin}
    Target = {1, 2, 3}
    ChatRef = {1}
    MaxN = 0
    PipeBound = 3
    NoName = noname
    NoOne = noone
    Unset = unset
    Path = PATH
    InitPath = bin
SYMMETRY Symmetry
INVARIANTS
    IdsAgree
    OnePipePerPair
    AnnouncedUsersOnline
PROPERTIES
    
    RefusalsAreTrue
    NeighboursNotBothLeft
