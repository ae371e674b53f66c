SPECIFICATION Spec
CONSTANTS
    Objects = {o1, o2}
    ClassOf <- MCClassOf
    Configs <- MCConfigs
    DefaultWindow = 2
    SnapshotInterval = 2
    MaxTrackId = 2
    MaxTime = 4
    MaxUpdates = 2
SYMMETRY Symmetry
INVARIANTS
    TypeOK
    SuppressedByOwnAlarm
    SnapshotFresh
PROPERTIES
    NoAlarmFlood
