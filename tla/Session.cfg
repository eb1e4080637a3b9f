SPECIFICATION Spec
CONSTANTS
    Thread = {t1, t2}
    Timeout = 2
    MaxSessions = 3
    MaxEvents = 2
SYMMETRY Symmetry
INVARIANTS
    TypeOK
    OneStartPerSession
PROPERTIES
    SilenceEndsSession
    AbsenceEndsSession
    SplitOnlyWithReason
