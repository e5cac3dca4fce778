SPECIFICATION FairSpec
CONSTANTS
    Original = Original
    h1 = h1
    h2 = h2
    Helpers = {h1, h2}
    Policies = {TRUE}
    MaxFaults = 0
PROPERTY PreviousIsRestored
CHECK_DEADLOCK FALSE
