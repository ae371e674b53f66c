SPECIFICATION FairSpec
CONSTANTS
    MaxFrames = 3
    Watermark = 1
    Pts <- MCPts
    MatchWindow = 2
    Workers = {w1}
    MaxAudio = 0
    MaxReconnects = 1
PROPERTIES
    PublishProgress
