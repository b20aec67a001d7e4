\* One subscription, two streams of up to two objects, a buffer of one, with markers.
CONSTANTS
    a = a
    b = b
    c = c
    d1 = d1
    d2 = d2
    None = None
    Subs = {a}
    Tracks = {"t1", "t2"}
    TrackOf <- OneTrack
    NameOf <- OwnNames
    Aliases = {1}
    Reuse = FALSE
    Streams = {d1, d2}
    MaxObjects = 2
    Buffer = 1
    Markers = TRUE
SPECIFICATION Spec
SYMMETRY Symmetry
ACTION_CONSTRAINT TwoObjectsNext
INVARIANTS
    InOrder
    NoLostWakeup
PROPERTY KeepsPromise
CHECK_DEADLOCK FALSE
