SPECIFICATION FairSpec
CONSTANTS
    MaxQueueSize = 3
    FlushThreshold = 2
    MaxBatchSize = 2
    MaxDisk = 2
    MaxEvents = 3
    MaxBlocks = 1
    MaxLate = 1
    MaxCrashes = 1
INVARIANTS
    NoSilentLoss
PROPERTIES
    ImplementsOutbox
    Drains
