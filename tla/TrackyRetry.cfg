\* The retry loop of agent.go:35 with a broker that answers.
CONSTANTS
    MaxRows = 1
    MaxRounds = 1
    MaxStarts = 1
    MaxDrops = 1
    Wtd = 1
SPECIFICATION ReachableSpec
PROPERTY FailedPublishIsRetried
\* make_compose.py gives the device restart="no": down for good is a real state.
CHECK_DEADLOCK FALSE
