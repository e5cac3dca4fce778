SPECIFICATION Spec
CONSTANTS
    Threshold = 3
    Window = 3
    ExitCodes = {"clean"}
    MaxClock = 4
    MaxOps = 1
    MaxExits = 0
    MaxSelf = 0
    MaxFaults = 0
CHECK_DEADLOCK FALSE
INVARIANT
    CleanExitsDoNotCount
