SPECIFICATION Spec
CONSTANTS
    Ip = {i1, i2}
    Visitor = {v1, v2}
    IpMax = 2
    IpWindow = 3
    TokWindow = 1
    MaxKeys = 2
    MaxTime = 4
    Worker = {w1, w2}
SYMMETRY Symmetry
INVARIANTS
    VisitorLimit
    AddressBurst
    RefusedOnlyForCause
    KeysBounded
