\* Accept, Reject and Close, a fill on the SUBSCRIBE, an update of each kind and
\* a state notification.
CONSTANTS
    MaxUpdates = 1
    Kinds = {"fill", "range", "pause"}
    OwnFill = TRUE
    FillHandler = TRUE
    Rejects = TRUE
    Notices = {"resume"}
    Queue = 1
SPECIFICATION Spec
INVARIANTS
    OneEnding
    EarlyFillsKept
    RangeTerminates
CHECK_DEADLOCK FALSE
