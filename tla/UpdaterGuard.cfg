SPECIFICATION FairSpec
CONSTANTS
    Names = {app}
    Tags = {t1}
    Images = {good}
    Broken = {}
    Checked = {good}
    Workers = {w1, w2}
    MaxID = 5
    MaxFaults = 1
    MaxUnlogged = 0
    MaxMisses = 0
    MaxExpiries = 1
    MaxExits = 1
    MaxSweeps = 0
    MaxPublish = 0
    MaxRestarts = 0
    Nil = Nil
CHECK_DEADLOCK FALSE
INVARIANTS
    KeyHeldOnce
PROPERTIES
    ImplementsGuard
    OperationsReturn
