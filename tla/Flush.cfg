SPECIFICATION Spec
CONSTANTS
    Keys = {k1, k2}
    Values = {v1, v2}
    Tombstone = Tombstone
    Absent = Absent
    Null = Null
    Preloads <- Fresh
    Threshold = 2
    MaxWrites = 3
    MaxGets = 1
    MaxFlushes = 2
    MaxCompactions = 0
    MaxRestarts = 1
    MaxFaults = 0
    MaxLeftovers = 1
    MaxDrops = 1
SYMMETRY ValueSymmetry
INVARIANTS ReadLatest GetReturnsSnapshot FlushedSurvives
    LogNeverStale
PROPERTIES LosesOnlyAtStops
