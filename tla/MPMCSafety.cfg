SPECIFICATION Spec
CONSTANTS
    p1 = p1
    p2 = p2
    c1 = c1
    c2 = c2
    a = a
    b = b
    Producers = {p1, p2}
    Consumers = {c1, c2}
    Values = {a, b}
    Uninit = Uninit
    Capacity = 2
    DstLens = {2}
    DstCapacity = 1
    MaxPushes = 3
    StaleLoads = TRUE
    Halted = {}
SYMMETRY Twins
INVARIANTS TypeOK SlotOwnership ReadsPushedValue CountersInRing NothingLost IInv
PROPERTY LogSpec
