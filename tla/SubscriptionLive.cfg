\* The goroutines of the library under fairness; two updates, one of which may
\* fail, and a queue of one.
CONSTANTS
    MaxUpdates = 2
    Kinds = {"pause", "range", "fill"}
    OwnFill = FALSE
    FillHandler = FALSE
    Rejects = FALSE
    Notices = {}
    Queue = 1
SPECIFICATION FairSpec
INVARIANTS
    OneAnswerPerUpdate
PROPERTIES
    EndNoticed
CHECK_DEADLOCK FALSE
