SPECIFICATION Spec
CONSTANTS
    None = None
    v1 = v1
    v2 = v2
    Nodes = {n1, n2, n3}
    Vias = {v1}
    Offers <- PlainOffers
    MaxHops = 0
    MaxRssi = 0
    TicksPerSecond = 1
    SettleAfter = 0
    FloodGuard = 0
    TTL = 4
    FlushAfter = 2
    FlushEntries = 4
    MaxHot = 2
    Horizon = 4
    MaxRestarts = 1
PROPERTIES
    EvictsLeastRecentlyUsed
