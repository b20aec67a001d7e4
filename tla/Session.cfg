\* A data stream, two requests for a buffer of one, and a second control stream.
CONSTANTS
    Uni = {u1}
    Bidi = {b1, b2}
    Control = {c1, c2}
    Limit = 1
SPECIFICATION FairSpec
INVARIANTS
    TypeOK
    NothingBeforeSetup
    NothingStranded
    OwnCauseStands
PROPERTIES
    HandshakeEnds
    LossReleasesRun
CHECK_DEADLOCK FALSE
