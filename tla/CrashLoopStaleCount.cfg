SPECIFICATION Spec
CONSTANTS
    Threshold = 3
    Window = 5
    ExitCodes = {"error"}
    MaxClock = 6
    MaxOps = 2
    MaxExits = 0
    MaxSelf = 0
    MaxFaults = 1
CHECK_DEADLOCK FALSE
INVARIANT
    EveryCrashIsCaughtUp
