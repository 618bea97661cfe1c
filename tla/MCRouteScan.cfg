CONSTANTS
    W4 = 2
    B = 2
    MW = 2
    OwnLuid <- MCOwnLuid
    Interfaces <- MCInterfaces
    MaxRoutes = 3
    RouteMetrics = {3}
    MaxCmsgs = 3
    SW = 8
SPECIFICATION Spec
INVARIANT V4MatchesReference
INVARIANT V6MatchesReference
INVARIANT ScanPicksBestRoute
INVARIANT FindsFirstPktinfo
