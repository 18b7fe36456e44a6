SPECIFICATION AccessSpec
CONSTANTS
    Admins = {a1, a2}
    Sessions = {x1, x2}
    Requests = {r1, r2}
    MaxOps = 4
SYMMETRY Symmetry
CHECK_DEADLOCK FALSE
INVARIANTS
    AlwaysAnOwner
