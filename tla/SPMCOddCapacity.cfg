SPECIFICATION Spec
CONSTANTS
    w = w
    c1 = c1
    c2 = c2
    owner = w
    Consumers = {c1}
    Empty = Empty
    Capacity = 3
    MinSteal = 1
    Operations = {"push"}
    SliceLens = {2}
    DstLens = {1}
    OwnerLooks = FALSE
    MaxPushes = 6
PROPERTY OverflowTakesHalf
