SPECIFICATION Spec
CONSTANTS
    Names = {app}
    Tags = {t1}
    Images = {good, bad}
    Broken = {bad}
    Checked = {good, bad}
    Workers = {w1}
    MaxID = 6
    MaxFaults = 1
    MaxUnlogged = 0
    MaxMisses = 0
    MaxExpiries = 0
    MaxExits = 0
    MaxSweeps = 1
    MaxPublish = 0
    MaxRestarts = 0
    Nil = Nil
CHECK_DEADLOCK FALSE
INVARIANT
    RevertKeepsRollbackTarget
