\* An update during Accept.
CONSTANTS
    MaxUpdates = 1
    Kinds = {"pause"}
    OwnFill = FALSE
    FillHandler = TRUE
    Rejects = FALSE
    Notices = {}
    Queue = 1
SPECIFICATION Spec
INVARIANT StateIsCurrent
CHECK_DEADLOCK FALSE
