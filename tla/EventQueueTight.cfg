SPECIFICATION Spec
CONSTANTS
    MaxQueueSize = 2
    FlushThreshold = 2
    MaxBatchSize = 2
    MaxDisk = 3
    MaxEvents = 4
    MaxBlocks = 1
    MaxLate = 1
    MaxCrashes = 1
INVARIANTS
    TypeOK
    LossBounded
    OldestFirst
PROPERTIES
    AnsweredLeaves
