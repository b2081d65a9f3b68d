SPECIFICATION Spec
CONSTANTS
    None = None
    v1 = v1
    v2 = v2
    Nodes = {n1}
    Vias = {v1, v2}
    Offers <- SettleOffers
    MaxHops = 2
    MaxRssi = 1
    TicksPerSecond = 2
    SettleAfter = 2
    FloodGuard = 3
    TTL = 20
    FlushAfter = 4
    FlushEntries = 2
    MaxHot = 1
    Horizon = 9
    MaxRestarts = 0
INVARIANTS
    SettlesOnBest
    HotTracksHearing
PROPERTIES
    SettlesResolve
