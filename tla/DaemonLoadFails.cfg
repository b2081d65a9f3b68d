SPECIFICATION Spec
CONSTANTS
    PollTime = 3
    ProbeTime = 2
    ReadyTime = 2
    ListenTime = 3
    SettleTime = 3
    ReappearTime = 20
    RestTime = 5
    RetryStep = 5
    RetryMax = 60
    RestartTime = 10
    StopTime = 15
    CommandTime = 2
    MaxDeafReloads = 2
    MaxUnplugs = 0
    MaxRefusals = 0
    MaxLoadFailures = 1
    MaxStops = 0
    MaxResets = 0
    MaxStopFailures = 0
PROPERTIES
    AlwaysRecovers
