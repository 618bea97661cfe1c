CONSTANTS
    Sockets = {s1, s2}
    NULL = NULL
    Ctls = {c1}
    Senders = {r1}
    MaxInFlight = 1
    IrpAllocCanFail = TRUE
SPECIFICATION Spec
INVARIANT NoUseAfterFree
