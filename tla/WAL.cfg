SPECIFICATION FairSpec
CONSTANTS
    BatchLimit = 2
    MaxAppends = 3
    MaxQueue = 2
    MaxCheckpoints = 2
    MaxRestarts = 2
    MaxFaults = 1
    MaxTorn = 1
    MaxUnlinkFaults = 1
INVARIANTS
    AckedDurable
    ReplayHasNoHoles
    ReplayInOrder
PROPERTIES
    AppendsSettle
    CheckpointEnds
