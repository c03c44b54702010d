SPECIFICATION FairSpec
CONSTANTS
    d1 = d1
    d2 = d2
    ann = ann
    bob = bob
    cat = cat
    dan = dan
    Device = {d1}
    Name = {ann, bob, cat, dan}
    lowercased <- MCLower
    NoName = noname
    Leaf <- MCOwn
    Profile = {ann, cat}
    Unknown = unknown
    Initial <- MCOwnFollowed
    Account <- MCAccountOne
    MaxDrops = 1
    MayReject = FALSE
    Reuse = TRUE
    MaxGroups = 2
    MaxTaps = 1
CHECK_DEADLOCK FALSE
INVARIANTS
    TypeOK
    HeaderIsComplete
    NoTapNoCrash
PROPERTIES
    HeaderIsShown
