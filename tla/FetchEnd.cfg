\* How ReadObject ends.
CONSTANTS
    MaxRecords = 1
    Buffer = 1
    Ends = {}
SPECIFICATION Spec
INVARIANT EndIsTruthful
CHECK_DEADLOCK FALSE
