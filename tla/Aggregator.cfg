\* Two messages of up to two devices, each forwarded by two replicas.
CONSTANTS
    Device = {truck, van}
    Copies = 2
    Payloads <- MCPayloads
    MaxMessages = 2
    MaxStops = 1
    MaxSubmits = 2
SPECIFICATION FairSpec
INVARIANT RecordsMatchReadings
INVARIANT CountedOnce
INVARIANT LostOnlyByStop
INVARIANT StopsForCause
PROPERTY ReadingsAreRecorded
\* A job that stopped and is not submitted again stays stopped.
CHECK_DEADLOCK FALSE
