SPECIFICATION AccessSpec
CONSTANTS
    Browser = {b1, b2}
    Token = {t1, t2}
    ttl = 2
    MaxStarts = 2
CHECK_DEADLOCK FALSE
INVARIANTS
    AccessTypeOK
PROPERTIES
    CheckAgreesWithLogins
    ShutdownEnds
