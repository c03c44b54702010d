SPECIFICATION Spec
CONSTANTS
    w1 = w1
    w2 = w2
    r1 = r1
    Key = {1, 2}
    NumLevels = 3
    MaxMemCompactLevel = 1
    CompactionTrigger = 2
    Writer = {w1}
    Reader = {}
    Batch <- TwoKeys
    SyncOption = {FALSE}
    BufferSize = 0
    SlowdownTrigger = 3
    StopTrigger = 3
    MaxSeq = 4
    MaxFile = 6
    MaxCrashes = 0
    MaxSnapshots = 1
    Faults = {"tear"}
INVARIANTS SnapshotsAreStable LevelsAreDisjoint
CHECK_DEADLOCK FALSE
