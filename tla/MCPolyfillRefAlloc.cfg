CONSTANTS
    MaxBufs = 2
    RefAllocCanFail = TRUE
SPECIFICATION Spec
INVARIANT CompletedWhenQuiescent
