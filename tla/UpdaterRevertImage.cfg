SPECIFICATION Spec
CONSTANTS
    Names = {app}
    Tags = {t1}
    Images = {good, bad}
    Broken = {}
    Checked = {good, bad}
    Workers = {w1}
    MaxID = 4
    MaxFaults = 1
    MaxUnlogged = 0
    MaxMisses = 0
    MaxExpiries = 0
    MaxExits = 0
    MaxSweeps = 0
    MaxPublish = 1
    MaxRestarts = 0
    Nil = Nil
CHECK_DEADLOCK FALSE
INVARIANT
    RevertRestoresImage
