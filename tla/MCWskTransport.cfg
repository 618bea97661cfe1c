CONSTANTS
    Threads = {t1, t2, t3}
    NoThread = NoThread
    TransportLists <- MCTransportLists
    MaxOverflows = 1
SPECIFICATION Spec
INVARIANT TypeOK
INVARIANT ResourcesMatchStatus
PROPERTY ImplementsInitOnce
