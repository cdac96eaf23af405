SPECIFICATION Spec
CONSTANTS
    w = w
    c1 = c1
    c2 = c2
    owner = w
    Consumers = {c1, c2}
    Empty = Empty
    Capacity = 2
    MinSteal = 1
    Operations = {"push", "lockFreePush", "maybePush", "pushMany", "maybePushMany", "pushManyUnchecked", "copyAndCommitIf"}
    SliceLens = {2}
    DstLens = {2}
    OwnerLooks = TRUE
    MaxPushes = 3
INVARIANT IInv
PROPERTY OperationsReturn
