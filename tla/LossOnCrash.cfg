SPECIFICATION Spec
CONSTANTS
    Keys = {k1}
    Values = {v1, v2}
    Tombstone = Tombstone
    Absent = Absent
    Null = Null
    Preloads <- Fresh
    Threshold = 2
    MaxWrites = 2
    MaxGets = 0
    MaxFlushes = 1
    MaxCompactions = 0
    MaxRestarts = 0
    MaxFaults = 0
    MaxLeftovers = 0
    MaxDrops = 0
SYMMETRY ValueSymmetry
INVARIANT CrashSafe
