SPECIFICATION Spec
CONSTANTS
    NumStreams = 1
    Transports = {t1, t2}
    Runtimes = {r1}
    MaxConfigs = 2
    MaxAsyncStops = 0
INVARIANTS
    OnePullPerStream
