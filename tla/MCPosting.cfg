SPECIFICATION FairSpec
CONSTANTS
    d1 = d1
    ann = ann
    bob = bob
    Device = {d1}
    Name = {ann, bob}
    lowercased <- MCLower
    Leaf <- MCRecords
    Unknown = unknown
    Initial <- MCRecordsInit
    Account <- MCAccount
    File = {f1, f2}
    NoName = noname
    MaxAtOnce = 2
    MayFail = TRUE
    MaySwitch = TRUE
    MaxDrops = 1
    MayReject = TRUE
    Reuse = TRUE
CHECK_DEADLOCK FALSE
INVARIANTS
    TypeOK
    PostsKept
    ListedIsStored
    ListedOnce
PROPERTIES
    PostEnds
