CONSTANTS
    MaxBufs = 4
    RefAllocCanFail = FALSE
SPECIFICATION Spec
INVARIANT TypeOK
INVARIANT CompletedLast
PROPERTY EventuallyCompleted
