CONSTANTS
    Peers = {p1}
    Threads = {t1, t2}
    Receivers = {r1, r2}
    Addrs4 = {"a1", "a2"}
    Addrs6 = {}
    NoAddr = NoAddr
    Ifs = {1, 2}
    RouteOf <- MCRouteOf
    MaxRouteChanges <- MCMaxRouteChanges
    MaxWrites = 2
    MaxSends = 1
    SockInit <- MCSockInit

SPECIFICATION Spec
SYMMETRY MCReceiverSymmetry

INVARIANT TypeOK
INVARIANT ResolvedForCurrentAddr
INVARIANT SentWithOwnSource
INVARIANT SendOwnershipExact
PROPERTY ImplementsEndpointCache
