SPECIFICATION FairSpec
CHECK_DEADLOCK FALSE
CONSTANTS
    Agent = {agent}
    Peer = {peer}
    Status = status
    Channel = {status, studio}
    AutoChannels <- NoRoles
    MaxMessages = 3
    MaxStarts = 2
INVARIANTS
    TypeOK
    NothingPassedOver
PROPERTIES
    PushedInOrder
    CursorNeverBack
    Delivers
