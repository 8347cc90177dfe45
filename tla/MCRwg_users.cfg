SPECIFICATION Spec
CONSTANTS
    Fd = {f1, f2}
    MaxId = 2
    Name = {n1}
    Var = {PATH, LANG}
    Value = {bin, usr}
    Target = {0}
    ChatRef = {}
    MaxN = 2
    PipeBound = 0
    NoName = noname
    NoOne = noone
    Unset = unset
    Path = PATH
    InitPath = bin
CHECK_DEADLOCK FALSE
SYMMETRY Symmetry
INVARIANTS
    TypeOK
    NamesDiffer
    OwnPath
    CountsOnSchedule
PROPERTIES
    DirectorySpec
