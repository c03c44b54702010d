SPECIFICATION FairSpec
CONSTANTS
    d1 = d1
    ann = ann
    bob = bob
    cat = cat
    annEmail = annEmail
    bobEmail = bobEmail
    catEmail = catEmail
    Device = {d1}
    Name = {ann, bob, cat}
    lowercased <- MCLower
    Leaf <- MCUsers
    Unknown = unknown
    Initial <- MCUsersInit
    Email = {annEmail, bobEmail, catEmail}
    Registered = {annEmail}
    NoName = noname
    Nobody = nobody
    MaxSignIns = 2
    MayRefuse = TRUE
    MayHurry = TRUE
    MaxDrops = 1
    MayReject = FALSE
    Reuse = TRUE
CHECK_DEADLOCK FALSE
INVARIANTS
    TypeOK
    RecordsKept
    TabsAreSignedIn
    UsernameIsMine
    JoinedIsListed
PROPERTIES
    UsernameComes
    SignUpIsInserted
