SPECIFICATION Spec
CONSTANTS
    d1 = d1
    d2 = d2
    ann = ann
    bob = bob
    cat = cat
    dan = dan
    Device = {d1, d2}
    Name = {ann, bob, cat, dan}
    lowercased <- MCLower
    NoName = noname
    Leaf <- MCShared
    Profile = {ann, cat}
    Unknown = unknown
    Initial <- MCSharedFollowed
    Account <- MCAccount
    MaxDrops = 0
    MayReject = TRUE
    Reuse = TRUE
    MaxGroups = 1
    MaxTaps = 2
CHECK_DEADLOCK FALSE
INVARIANTS
    OnlyAsked
    KeepsOthers
