SPECIFICATION FairSpec
CONSTANTS
    NumStreams = 1
    Transports = {t1, t2}
    Runtimes = {r1, r2}
    MaxConfigs = 2
    MaxAsyncStops = 2
INVARIANTS
    TypeOK
    Converged
    EntryOfListed
PROPERTIES
    ConfigApplied
    AsyncStopServed
