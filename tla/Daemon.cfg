SPECIFICATION Spec
CONSTANTS
    PollTime = 3
    ProbeTime = 2
    ReadyTime = 2
    ListenTime = 3
    SettleTime = 3
    ReappearTime = 8
    RestTime = 5
    RetryStep = 5
    RetryMax = 20
    RestartTime = 10
    StopTime = 15
    CommandTime = 2
    MaxDeafReloads = 2
    MaxUnplugs = 1
    MaxRefusals = 1
    MaxLoadFailures = 1
    MaxStops = 1
    MaxResets = 1
    MaxStopFailures = 1
INVARIANTS
    TypeOK
    NodeIsNotKilled
    DriverIsPutBack
PROPERTIES
    RecoversWithDriver
    ResetBringsBack
