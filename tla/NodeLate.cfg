SPECIFICATION Spec
CONSTANTS
    Keys = {good, own}
    OwnKeys = {own}
    Signed = {good}
    MaxHops = 1
    Threshold = 2
    SeenCapacity = 2
    SeenTTL = 8
    Signals <- SignalsHeard
    NoSignal = NoSignal
    TickMs = 250
    Horizon = 8
    NoRelay = NoRelay
    RecvTime = 4
    ClientTime = 4
    Interval = 6
    MaxClients = 0
    MaxFailures = 0
INVARIANTS
    PunctualInQuietAir
