\* One round per process: three readings, two starts, two lost connections.
CONSTANTS
    MaxRows = 3
    MaxRounds = 1
    MaxStarts = 2
    MaxDrops = 2
    Wtd = 1
SPECIFICATION FairSpec
PROPERTY PublishedInOrder
PROPERTY NoPublishAfterAck
PROPERTY PublishNeverHangs
PROPERTY ReadingsArePublished
\* make_compose.py gives the device restart="no": down for good is a real state.
CHECK_DEADLOCK FALSE
