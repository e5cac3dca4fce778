SPECIFICATION Spec
CONSTANTS
    Names = {app}
    Tags = {t1}
    Images = {good, bad}
    Broken = {bad}
    Checked = {good}
    Workers = {w1, w2}
    MaxID = 5
    MaxFaults = 2
    MaxUnlogged = 0
    MaxMisses = 0
    MaxExpiries = 1
    MaxExits = 0
    MaxSweeps = 0
    MaxPublish = 1
    MaxRestarts = 1
    Nil = Nil
CHECK_DEADLOCK FALSE
SYMMETRY WorkerSymmetry
INVARIANTS
    NamedOperationsAreExclusive
    NoSilentLoss
    FailureKeepsOriginal
    RecordedMatchesHost
    PreviousIsRetired
