SPECIFICATION HistorySpec
CONSTANTS
    p1 = p1
    p2 = p2
    c1 = c1
    a = a
    Producers = {p1, p2}
    Consumers = {c1}
    Values = {a}
    Uninit = Uninit
    Capacity = 2
    DstLens = {1}
    DstCapacity = 1
    MaxPushes = 2
    StaleLoads = FALSE
    Halted = {}
PROPERTY EmptyWasTrue
