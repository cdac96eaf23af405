SPECIFICATION Spec
CONSTANTS
    p = p
    c = c
    producer = p
    consumer = c
    Threads = {p, c}
    Cells = {0, 1, 2, 3}
    Moved = Moved
    Empty = Empty
    AlwaysPow2 = FALSE
    FirstCapacity = 2
    MinSteal = 1
    DstCapacity = 1
    SliceLens = {2, 3}
    DstLens = {1, 3}
    Capacities = {3}
    MaxPushes = 5
    StaleLoads = TRUE
INVARIANTS TypeOK NoRace VersionsAreHeld IInv
PROPERTIES LogSpec OperationsReturn
