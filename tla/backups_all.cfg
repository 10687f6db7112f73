SPECIFICATION Spec
CONSTANTS
    w1 = w1
    w2 = w2
    c1 = c1
    Workloads = {w1, w2}
    Clients = {c1}
    Sweeper = Sweeper
    Evictor = Evictor
    Reaper = Reaper
    Free = Free
    Worlds <- EveryWorld
    BackupRetain = 2
    BackupRetainDeleted <- KeepAll
    BackupBeforeEvict = TRUE
    BackupBeforeReset = TRUE
    StampFirst = TRUE
    LRUKeepMax = 1
    LRUBatch = 1
    BackupSweepBatch = 1
    MaxClock = 3
INVARIANT TypeOK
INVARIANT CurrentIsExact
INVARIANT CoveredIsStored
INVARIANT UnchangedIsStored
PROPERTY EvictionLosesNothing
CHECK_DEADLOCK FALSE
