SPECIFICATION FairSpec
CONSTANTS
    Threshold = 1
    Window = 3
    ExitCodes = {"error"}
    MaxClock = 4
    MaxOps = 1
    MaxExits = 0
    MaxSelf = 1
    MaxFaults = 0
CHECK_DEADLOCK FALSE
PROPERTY
    EveryTriggerIsResolved
