\* One replica: a device is created and deleted.
CONSTANTS
    Replica = {r1}
    Handler = {h1}
    Device = {"trk-1"}
    User = {"admin"}
    Tag <- MCTag
    Body <- MCBody
    MaxRequests = 2
    MaxEnds = 0
    MaxFailures = 0
SPECIFICATION Spec
PROPERTY DeleteAnswers204
CHECK_DEADLOCK FALSE
