SPECIFICATION Spec
CONSTANTS
    None = None
    v1 = v1
    v2 = v2
    Nodes = {n1, n2}
    Vias = {v1}
    Offers <- StoreOffers
    MaxHops = 1
    MaxRssi = 0
    TicksPerSecond = 1
    SettleAfter = 1
    FloodGuard = 0
    TTL = 2
    FlushAfter = 2
    FlushEntries = 2
    MaxHot = 1
    Horizon = 4
    MaxRestarts = 1
INVARIANTS
    KeysAreFound
