SPECIFICATION FairSpec
CONSTANTS
    Original = Original
    h1 = h1
    h2 = h2
    Helpers = {h1, h2}
    Policies = {FALSE}
    MaxFaults = 0
INVARIANT ReplacementIsHealthy
CHECK_DEADLOCK FALSE
