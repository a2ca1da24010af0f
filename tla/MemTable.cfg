SPECIFICATION Spec
CONSTANTS
    Keys = {k1, k2, k3}
    KeySize = 1
    ValueSizes = {1, 3}
    Metadata = 2
    SizeLimit = 12
    MaxWrites = 7
INVARIANTS
    SizeExact
    NeverOvercounts
    FreezesWhenFull
