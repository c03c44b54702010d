SPECIFICATION FairSpec
CONSTANTS
    c1 = c1
    c2 = c2
    a = a
    b = b
    Client = {c1, c2}
    Leaf <- MCRoot
    Value = {none, v}
    Absent = none
    Unknown = unknown
    Path <- MCRootPath
    Tag = {t}
    Initial <- MCRootInitial
    MaxId = 3
    MaxDrops = 1
    MayReject = FALSE
    Reuse = FALSE
CHECK_DEADLOCK FALSE
INVARIANTS
    WritesAccounted
    UnackedExact
    NoMissedUpdate
PROPERTIES
    Converges
