SPECIFICATION FairSpec
CONSTANTS
    MinBackoff = 1
    MaxBackoff = 20
    Threshold = 5
    Pause = 20
    MaxSetBack = 2
    MaxStreak = 6
INVARIANTS
    TypeOK
PROPERTIES
    PauseRespected
    BackoffRespected
    Recovers
