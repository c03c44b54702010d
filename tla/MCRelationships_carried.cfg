SPECIFICATION FairSpec
CONSTANTS
    d1 = d1
    d2 = d2
    ann = ann
    bob = bob
    cat = cat
    dan = dan
    Device = {d1}
    Name = {ann, bob, cat, dan}
    lowercased <- MCLower
    NoName = noname
    Leaf <- MCBoth
    Profile = {cat}
    Unknown = unknown
    Initial <- MCBothFollowed
    Account <- MCAccountOne
    MaxDrops = 0
    MayReject = FALSE
    Reuse = TRUE
    MaxGroups = 1
    MaxTaps = 1
CHECK_DEADLOCK FALSE
PROPERTIES
    FollowIsCarriedOut
