SPECIFICATION FairSpec
CONSTANTS
    StreamIds = {s1, s2, s3}
    Workers = {w1, w2}
    MaxGeneration = 1
INVARIANTS
    OrderConsistent
    OneInFlight
    InflightExact
    BoundedWait
PROPERTIES
    EventuallyServed
