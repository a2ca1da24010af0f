SPECIFICATION FairSpec
CONSTANTS
    Keys = {1, 2}
    Values = {v1}
    Tombstone = tombstone
    Absent = absent
    Null = null
    NumSources = 4
    Limits = {0, 1}
INVARIANT YieldsMerge
PROPERTY MergeEnds
