SPECIFICATION Spec
CONSTANTS
    Fd = {f1, f2, f3}
    MaxId = 2
    Name = {}
    Var = {PATH}
    Value = {bin}
    Target = {1, 2}
    ChatRef = {}
    MaxN = 0
    PipeBound = 4
    NoName = noname
    NoOne = noone
    Unset = unset
    Path = PATH
    InitPath = bin
SYMMETRY Symmetry
INVARIANTS
    PipesCloseWithUser
