SPECIFICATION FairSpec
CONSTANTS
    NoKey = NoKey
    NoMessage = NoMessage
    NoDrone = NoDrone
    Keys = {k1}
    Drones = {d1, d2}
    Requests = {r1, r2}
    Streams = {s1}
INVARIANT TypeOK
INVARIANT Attributed
PROPERTY FeedSpec
INVARIANT StoredIsLatest
PROPERTY FireAndForget
PROPERTY EventuallyShown
CHECK_DEADLOCK FALSE
