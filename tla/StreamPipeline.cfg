SPECIFICATION Spec
CONSTANTS
    MaxFrames = 3
    Watermark = 1
    Pts <- MCPts
    MatchWindow = 2
    Workers = {w1, w2}
    MaxAudio = 1
    MaxReconnects = 1
SYMMETRY Symmetry
CONSTRAINT Bounded
INVARIANTS
    InUseFrameKept
    NotPublishingInferring
    FramesHavePackets
    IdleFramesNewest
    IndInv
PROPERTIES
    DecodedFrameRemains
    ImplementsContract
