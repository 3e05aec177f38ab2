\* Two routes of up to three legs, honest and pirate.
CONSTANTS
    Street = {"Pisa", "Lucca"}
    BaseSpeed = {54, 84}
    Distance = {1}
    Variation = {97, 103}
    Steps = {1}
    Buffer = 2
    MaxLegs = 3
    MaxRoutes = 2
SPECIFICATION FairSpec
INVARIANT RouteIsFlushed
INVARIANT StatsMatchPositions
INVARIANT FlaggedIsPirate
PROPERTY RoutesConnect
PROPERTY EveryStatusIsReported
\* After the last route the device waits.
CHECK_DEADLOCK FALSE
