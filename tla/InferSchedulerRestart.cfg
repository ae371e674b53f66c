SPECIFICATION Spec
CONSTANTS
    StreamIds = {s1}
    Workers = {w1, w2}
    MaxGeneration = 2
INVARIANTS
    OneInFlight
