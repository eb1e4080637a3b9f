SPECIFICATION Spec
CONSTANTS
    RequestID = {"a", "b", "c"}
    MaxRows = 6
CHECK_DEADLOCK FALSE
INVARIANTS
    NoRowLost
    DoneGroupsTogether
    LeadersInOrder
    MarksFrameGroups
