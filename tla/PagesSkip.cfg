SPECIFICATION Spec
CONSTANTS
    Row <- TwoApps
    eventsPerPage = 2
    MaxRows = 4
INVARIANTS
    PagesSkipNothing
