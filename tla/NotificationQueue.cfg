SPECIFICATION FairSpec
CONSTANTS
    Jobs = {j1, j2}
    None = None
    MaxAttempts = 2
    Lease = 1
    BaseBackoff = 1
    MaxBackoff = 2
    MaxLost = 1
    MaxRetries = 1
    MaxBelied = 1
CHECK_DEADLOCK FALSE
INVARIANTS
    SentWasAccepted
    AttemptsAreBounded
    DuplicatesAreExplained
PROPERTIES
    EveryJobSettles
