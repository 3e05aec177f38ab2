\* Two good messages and a malformed one, two seconds; a failed call and a crash.
CONSTANTS
    r1 = r1
    r2 = r2
    m1 = m1
    m2 = m2
    m3 = m3
    truck = truck
    van = van
    Replica = {r1}
    Msg = {m1, m2, m3}
    Device = {truck, van}
    Bad = {m3}
    Window = 2
    MaxNow = 1
    MaxDrops = 0
    MaxCrashes = 1
    MaxStops = 0
    MaxFailures = 1
    MaxLostFlushes = 0
    From <- TruckAndVan
SPECIFICATION FairSpec
INVARIANT TypeOK
INVARIANT AckedWasTaken
PROPERTY SessionsMissNothing
PROPERTY QueuedIsSettled
\* With nothing left to publish an idle service waits.
CHECK_DEADLOCK FALSE
