\* Two replicas with a session each; a lost connection, a crash, a stop, a lost batch.
CONSTANTS
    r1 = r1
    r2 = r2
    m1 = m1
    m2 = m2
    m3 = m3
    truck = truck
    van = van
    Replica = {r1, r2}
    Msg = {m1}
    Device = {truck, van}
    Bad = {}
    Window = 2
    MaxNow = 0
    MaxDrops = 1
    MaxCrashes = 1
    MaxStops = 1
    MaxFailures = 0
    MaxLostFlushes = 1
    From <- OneMessage
SPECIFICATION Spec
INVARIANT StreamedIsRecorded
INVARIANT UnackedIsKept
INVARIANT ForwardedIsLostOnlyByFault
SYMMETRY ReplicaSymmetry
\* With nothing left to publish an idle service waits.
CHECK_DEADLOCK FALSE
