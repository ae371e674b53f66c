SPECIFICATION FairSpec
CONSTANTS
    Producers = {p1}
    QueueSize = 1
    MaxMessages = 1
    MaxFrames = 2
    PayloadLen <- MCPayloadLen
    MaxFaults = 1
INVARIANTS
    TypeOK
    OutgoingFramed
    Accounted
    IncomingNotLost
PROPERTIES
    QueueServed
CHECK_DEADLOCK FALSE
