SPECIFICATION Spec
CONSTANTS
    Jobs = {j1}
    None = None
    MaxAttempts = 2
    Lease = 1
    BaseBackoff = 1
    MaxBackoff = 1
    MaxLost = 1
    MaxRetries = 0
    MaxBelied = 1
CHECK_DEADLOCK FALSE
INVARIANT
    DeadLetterFailed
