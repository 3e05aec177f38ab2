\* Two rounds per process: two Agents and two clients on one queue file.
CONSTANTS
    MaxRows = 3
    MaxRounds = 2
    MaxStarts = 2
    MaxDrops = 1
    Wtd = 1
SPECIFICATION Spec
INVARIANT AckedWasPublished
INVARIANT LossPerDeathIsBounded
INVARIANT DuplicatesNeedDrops
PROPERTY UsesQueueWell
\* make_compose.py gives the device restart="no": down for good is a real state.
CHECK_DEADLOCK FALSE
