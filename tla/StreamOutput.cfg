SPECIFICATION Spec
CONSTANTS
    Specs <- MCSpecs
    Durations = {1}
    DefaultDuration = 2
    MaxPackets = 3
    MaxOpenings = 2
    MaxTime = 3
    Bytes = {0, 1, 3, 4}
    MaxMessage = 5
    MaxLength = 600
    Counts = {0, 2, 253, 254, 255, 256}
INVARIANTS
    TypeOK
    CacheIsCurrentGop
    RecordingContiguous
    RecordingOfOneSource
    OutputsFollowSource
    SeiFitsPacket
    NothingLeftOpen
    SeiReadable
PROPERTIES
    RecordedAsPromised
