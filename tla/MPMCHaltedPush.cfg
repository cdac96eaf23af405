SPECIFICATION FairSpec
CONSTANTS
    p1 = p1
    p2 = p2
    c1 = c1
    c2 = c2
    a = a
    b = b
    Producers = {p1, p2}
    Consumers = {c1}
    Values = {a}
    Uninit = Uninit
    Capacity = 2
    DstLens = {1}
    DstCapacity = 1
    MaxPushes = 3
    StaleLoads = FALSE
    Halted = {p1, c1}
PROPERTY LockFreePushesReturn
