SPECIFICATION FairSpec
CONSTANTS
    NumStreams = 1
    Transports = {t1}
    Runtimes = {r1}
    MaxConfigs = 1
    MaxAsyncStops = 0
PROPERTIES
    StopCompletes
