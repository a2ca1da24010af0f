SPECIFICATION Spec
CONSTANTS
    Keys = {1, 2, 3, 4, 5}
    EmptyKey = 0
    Sizes = {1, 2}
    Interval = 2
    Reserved <- MCReserved
    MaxBuffer = 8
    Word = 16
    Hash1 <- MCHash1
    Hash2 <- MCHash2
    NumBits = 13
    NumHashFunctions = 2
    Unset = unset
INVARIANTS FinalIsComplete LookupRight NoFalseNegatives ScanRight
