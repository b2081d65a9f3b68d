SPECIFICATION Spec
CONSTANTS
    None = None
    o = o
    a = a
    b = b
    c = c
    Origin = o
    Nodes = {o, a, b, c}
    HopLimit = 2
    Threshold = 1
    Topologies <- Moving
    MaxFloods = 2
    MaxFaults = 2
INVARIANTS
    TypeOK
    DescendingRoutes
    LoopFree
    RoutesInduct
    LatestAnnounceWins
    RelayedOrCovered
    LeftOutByCancelling
PROPERTIES
    ImplementsBroadcast
    FloodEnds
