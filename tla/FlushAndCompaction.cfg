SPECIFICATION FairSpec
CONSTANTS
    Keys = {k1}
    Values = {v1}
    Tombstone = Tombstone
    Absent = Absent
    Null = Null
    Preloads <- Two
    Threshold = 2
    MaxWrites = 2
    MaxGets = 0
    MaxFlushes = 1
    MaxCompactions = 1
    MaxRestarts = 0
    MaxFaults = 1
    MaxLeftovers = 1
    MaxDrops = 0
INVARIANTS TypeOK
PROPERTIES WritesComplete FlushEnds CompactionEnds
