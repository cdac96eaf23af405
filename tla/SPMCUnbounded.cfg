SPECIFICATION Spec
CONSTANTS
    w = w
    c1 = c1
    c2 = c2
    owner = w
    Consumers = {c1, c2}
    Threads = {w, c1, c2}
    Cells <- Ids
    Moved = Moved
    Empty = Empty
    AlwaysPow2 = FALSE
    FirstCapacity = 1
    MinSteal = 1
    DstCapacity = 4
    SliceLens = {2}
    DstLens = {2}
    Capacities = {5}
    Modulus = 1024
    MaxPushes = 2
INVARIANTS IInv ValuesInPlace CopyIsValid VersionsAreHeld CounterIsTrue ReaderSeesAValue
PROPERTIES LenIsPossible LogSpec
SYMMETRY Twins
