\* Two replicas, one device, and two faults of any kind.
CONSTANTS
    Replica = {r1, r2}
    Device = {truck}
    MaxEvents = 2
    MaxFaults = 2
SPECIFICATION FairSpec
INVARIANT LostOnlyByFault
INVARIANT RepeatedOnlyByFault
INVARIANT TimesAreReal
INVARIANT LoneWatcherIsExact
PROPERTY EventsAreHandled
\* With no event left to report the watchers wait.
CHECK_DEADLOCK FALSE
