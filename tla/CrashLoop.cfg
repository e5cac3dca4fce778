SPECIFICATION FairSpec
CONSTANTS
    Threshold = 2
    Window = 3
    ExitCodes = {"error"}
    MaxClock = 4
    MaxOps = 2
    MaxExits = 1
    MaxSelf = 1
    MaxFaults = 1
CHECK_DEADLOCK FALSE
INVARIANTS
    OneRollbackPerTrigger
    RollbackIsNotRepeated
    RollbackNeedsCrashes
    CrashesAreCaughtUp
PROPERTIES
    TriggeredIsResolved
