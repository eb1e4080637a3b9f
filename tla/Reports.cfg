SPECIFICATION Spec
CONSTANTS
    None = None
    d1 = d1
    d2 = d2
    x = x
    y = y
    idea = idea
    Row <- Rows
    Hour <- TwoHours
    AvgLimit = 2
    TopLimit = 5
    maxRows = 2
    MaxTable = 3
    MaxFailures = 1
INVARIANTS
    TypeOK
    LaterFiguresCoverEarlier
    SilenceMeansWhole
