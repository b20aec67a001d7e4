\* A subscriber that ends its half before its SUBSCRIBE is accepted.
CONSTANTS
    MaxUpdates = 0
    Kinds = {}
    OwnFill = FALSE
    FillHandler = TRUE
    Rejects = FALSE
    Notices = {}
    Queue = 1
SPECIFICATION Spec
INVARIANT UpdatesEnd
CHECK_DEADLOCK FALSE
