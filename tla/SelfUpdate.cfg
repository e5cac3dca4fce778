SPECIFICATION FairSpec
CONSTANTS
    Original = Original
    h1 = h1
    h2 = h2
    Helpers = {h1, h2}
    Policies = {TRUE, FALSE}
    MaxFaults = 2
CHECK_DEADLOCK FALSE
INVARIANTS
    OneDaemon
PROPERTIES
    OriginalKeptUntilHealthy
    RestoredIsRestored
    ServiceComesBack
