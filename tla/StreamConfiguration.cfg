SPECIFICATION Spec
CONSTANTS
    DisabledTrackers = {"off"}
    ConfigIds = {1, 2}
    AgentConfigs <- MCAgentConfigs
    MaxConfigs = 3
CHECK_DEADLOCK FALSE
INVARIANTS
    MergeReference
    ConfigurationEffective
PROPERTIES
    LeastDisturbance
