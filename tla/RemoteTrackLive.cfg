\* Under fairness: three subscriptions, two of them to one track, of a publisher
\* that may give them one alias, or one subscription with a stream of two objects
\* for a buffer of one.
CONSTANTS
    a = a
    b = b
    c = c
    d1 = d1
    d2 = d2
    None = None
    Subs = {a, b, c}
    Tracks = {"t1", "t2"}
    TrackOf <- TwoTracks
    NameOf <- OwnNames
    Aliases = {1}
    Reuse = TRUE
    Streams = {d1}
    MaxObjects = 2
    Buffer = 1
    Markers = FALSE
SPECIFICATION FairSpec
ACTION_CONSTRAINT OneAtATimeNext
INVARIANTS
    AliasNamesOneTrack
    SharersRouted
PROPERTIES
    DeliveryEnds
    HandlersReturn
CHECK_DEADLOCK FALSE
