CONSTANTS
    Peers = {p1}
    Threads = {t1}
    Receivers = {r1}
    Addrs4 = {"a1", "a2"}
    Addrs6 = {"b1"}
    NoAddr = NoAddr
    Ifs = {1, 2}
    RouteOf <- MCRouteOf
    MaxRouteChanges <- MCMaxRouteChanges
    MaxWrites = 0
    MaxSends = 1
    SockInit <- MCSockInit

SPECIFICATION Spec

INVARIANT MibTablesFreed
