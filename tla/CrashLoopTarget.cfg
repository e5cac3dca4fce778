SPECIFICATION Spec
CONSTANTS
    Threshold = 1
    Window = 3
    ExitCodes = {"error"}
    MaxClock = 5
    MaxOps = 2
    MaxExits = 0
    MaxSelf = 0
    MaxFaults = 0
CHECK_DEADLOCK FALSE
INVARIANT
    RollbackTargetsCrasher
