SPECIFICATION Spec
CONSTANTS
    Row <- TwoApps
    eventsPerPage = 2
    MaxRows = 6
INVARIANTS
    TypeOK
    RepeatsBoundedByArrivals
    CountCoversPage
