SPECIFICATION FairSpec
CONSTANTS
    Event = {e1, e2}
    Request = {r1, r2}
    Dashboard = {d1, d2}
    Buffer = 1
    MaxRequests = 2
    MaxRestarts = 1
INVARIANTS
    TypeOK
    NeverSendsOnClosed
    AcceptedCountsRowsOnce
    StreamsOnlyCommitted
    CommittedReachesLive
PROPERTIES
    IngestNeverWaits
