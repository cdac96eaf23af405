SPECIFICATION Spec
CONSTANTS
    w = w
    c1 = c1
    c2 = c2
    owner = w
    Consumers = {c1}
    Empty = Empty
    Capacity = 4
    MinSteal = 1
    Operations = {"push", "lockFreePush", "maybePush", "pushMany", "maybePushMany", "pushManyUnchecked", "copyAndCommitIf"}
    SliceLens = {2}
    DstLens = {3}
    OwnerLooks = TRUE
    MaxPushes = 7
INVARIANTS TypeOK RingNotOverrun ValuesInPlace CopyIsValid AnswerIsTrue
PROPERTY LogSpec
