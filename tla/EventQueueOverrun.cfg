SPECIFICATION Spec
CONSTANTS
    MaxQueueSize = 2
    FlushThreshold = 2
    MaxBatchSize = 2
    MaxDisk = 2
    MaxEvents = 3
    MaxBlocks = 1
    MaxLate = 1
    MaxCrashes = 1
INVARIANTS
    OnlyOldestDropped
