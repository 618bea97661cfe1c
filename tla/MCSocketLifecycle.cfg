CONSTANTS
    Sockets = {s1, s2, s3, s4}
    NULL = NULL
    Ctls = {c1, c2}
    Senders = {r1, r2}
    MaxInFlight = 2
    IrpAllocCanFail = FALSE
SPECIFICATION Spec
INVARIANT TypeOK
INVARIANT NoUseAfterFree
PROPERTY ReinitCompletes
