SPECIFICATION Spec
CONSTANTS
    None = None
    Macs = {m1, m2}
    KernelNames = {wlan0, wlan1}
    MaxCrashes = 2
    MaxUninstalls = 1
INVARIANTS
    TypeOK
    PinsAreExclusive
    
PROPERTIES
    FirstNameSurvivesReboot
