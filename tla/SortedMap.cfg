SPECIFICATION Spec
CONSTANTS
    Keys = {1, 2, 3, 4, 5, 6, 7, 8, 9, 10}
    Values = {1, 2}
    ValuesOf <- OneChanges
    Nil = nil
INVARIANTS FindsAll RangeRight LinksAgree Balanced
