SPECIFICATION Spec
CONSTANTS
    Names = {app}
    Tags = {t1}
    Images = {good}
    Broken = {}
    Checked = {good}
    Workers = {w1, w2}
    MaxID = 6
    MaxFaults = 0
    MaxUnlogged = 0
    MaxMisses = 0
    MaxExpiries = 0
    MaxExits = 0
    MaxSweeps = 2
    MaxPublish = 0
    MaxRestarts = 0
    Nil = Nil
CHECK_DEADLOCK FALSE
INVARIANT
    OneOperationPerContainer
