SPECIFICATION Spec
CONSTANTS
    a = a
    b = b
    Values = {a, b}
    Empty = Empty
    Capacity = 3
    MinSteal = 1
    SliceLens = {1, 2}
    DstLens = {1, 2}
    MaxPushes = 5
    StaleLoads = TRUE
SYMMETRY Twins
INVARIANTS TypeOK CountersInOrder NoRace ReadsPushedValues IInv
PROPERTY LogSpec
