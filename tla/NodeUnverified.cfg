SPECIFICATION Spec
CONSTANTS
    Keys = {good, bad, own}
    OwnKeys = {own}
    Signed = {good}
    MaxHops = 1
    Threshold = 2
    SeenCapacity = 2
    SeenTTL = 4
    Signals <- SignalsHeard
    NoSignal = NoSignal
    TickMs = 500
    Horizon = 4
    NoRelay = NoRelay
    RecvTime = 2
    ClientTime = 1
    Interval = 2
    MaxClients = 0
    MaxFailures = 0
INVARIANTS
    RoutesAreVerified
