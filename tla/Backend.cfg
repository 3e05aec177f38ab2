\* Two replicas and a device; tags with and without a slash.
CONSTANTS
    Replica = {r1, r2}
    Handler = {h1, h2}
    Device = {"trk-1"}
    User = {"admin"}
    Tag <- MCTag
    Body <- MCBody
    MaxRequests = 3
    MaxEnds = 1
    MaxFailures = 1
SPECIFICATION FairSpec
INVARIANT TypeOK
INVARIANT CachedIsRegistered
PROPERTY AnsweredAsRegistered
INVARIANT RelayedAsPosted
INVARIANT LostOnlyByFault
INVARIANT RelayedInOrder
PROPERTY PostsAreRelayed
\* With no request left the replicas wait.
CHECK_DEADLOCK FALSE
