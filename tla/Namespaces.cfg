\* Overlapping subscriptions, a publication without a handler, a channel of one.
CONSTANTS
    wide = wide
    narrow = narrow
    p = p
    Subscriptions = {wide, narrow}
    Publications = {p}
    Handled = {wide, narrow}
    Prefix <- Asked
    Names <- Announced
    MaxRequests = 2
    MaxSends = 2
    Buffer = 1
SPECIFICATION FairSpec
INVARIANTS
    OneSubscriptionPerName
    ViewFollows
    NoFalseAlarm
PROPERTIES
    EndingReleases
CHECK_DEADLOCK FALSE
