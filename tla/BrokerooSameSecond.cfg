\* Two messages of one device within a second, no fault.
CONSTANTS
    r1 = r1
    r2 = r2
    m1 = m1
    m2 = m2
    m3 = m3
    truck = truck
    van = van
    Replica = {r1}
    Msg = {m1, m2}
    Device = {truck, van}
    Bad = {}
    Window = 2
    MaxNow = 0
    MaxDrops = 0
    MaxCrashes = 0
    MaxStops = 0
    MaxFailures = 0
    MaxLostFlushes = 0
    From <- SameTruck
SPECIFICATION Spec
INVARIANT AckedIsStored
\* With nothing left to publish an idle service waits.
CHECK_DEADLOCK FALSE
