SPECIFICATION Spec
CONSTANTS
    c1 = c1
    c2 = c2
    a = a
    b = b
    Client = {c1}
    Leaf <- MCLeaf
    Value = {none, v}
    Absent = none
    Unknown = unknown
    Path <- MCPath
    Tag = {t}
    Initial <- MCInitial
    MaxId = 5
    MaxDrops = 1
    MayReject = TRUE
    Reuse = FALSE
CHECK_DEADLOCK FALSE
INVARIANTS
    TypeOK
PROPERTIES
    NoFlicker
    StaysComplete
