SPECIFICATION FairSpec
CONSTANTS
    w1 = w1
    w2 = w2
    r1 = r1
    Key = {1, 2}
    NumLevels = 2
    MaxMemCompactLevel = 0
    CompactionTrigger = 1
    Writer = {w1, w2}
    Reader = {}
    Batch <- TwoKeys
    SyncOption = {TRUE, FALSE}
    BufferSize = 0
    SlowdownTrigger = 1
    StopTrigger = 1
    MaxSeq = 3
    MaxFile = 6
    MaxCrashes = 1
    MaxSnapshots = 0
    Faults = {"newfile", "append", "sync", "table", "manifest"}
INVARIANTS NoLostWakeup
PROPERTIES IsKeyValueStore WriteReturns
CHECK_DEADLOCK FALSE
