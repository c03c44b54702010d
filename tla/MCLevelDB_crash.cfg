SPECIFICATION Spec
CONSTANTS
    w1 = w1
    w2 = w2
    r1 = r1
    Key = {1}
    NumLevels = 2
    MaxMemCompactLevel = 0
    CompactionTrigger = 1
    Writer = {w1, w2}
    Reader = {r1}
    Batch <- OneKey
    SyncOption = {TRUE, FALSE}
    BufferSize = 0
    SlowdownTrigger = 2
    StopTrigger = 2
    MaxSeq = 3
    MaxFile = 6
    MaxCrashes = 1
    MaxSnapshots = 0
    Faults = {"machine"}
SYMMETRY Writers
INVARIANTS TypeOK AckedIsKept Recoverable ReadersAreServed
CHECK_DEADLOCK FALSE
