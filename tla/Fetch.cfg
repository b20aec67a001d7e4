\* A response of up to two records, a buffer of one.
CONSTANTS
    MaxRecords = 2
    Buffer = 1
    Ends = {"fin", "reset"}
SPECIFICATION FairSpec
INVARIANTS
    ReadsWhole
    AnswerBeatsCompletion
    ResponseIsAnswered
PROPERTIES
    TornDown
CHECK_DEADLOCK FALSE
