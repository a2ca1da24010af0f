SPECIFICATION RangeSpec
CONSTANTS
    Keys = {1, 2}
    Values = {v1}
    Tombstone = Tombstone
    Absent = Absent
    Null = Null
    Preloads <- Two
    Threshold = 2
    MaxWrites = 1
    MaxGets = 0
    MaxFlushes = 0
    MaxCompactions = 2
    MaxRestarts = 1
    MaxFaults = 1
    MaxLeftovers = 0
    MaxDrops = 0
    MaxRanges = 1
    Limits = {0}
    Queries <- Whole
INVARIANTS CrashSafe ManifestFilesExist RangeReturnsSnapshot
PROPERTIES ImplementsKVStore
