SPECIFICATION Spec
CONSTANTS
    Names = {app}
    Tags = {t1}
    Images = {good, bad}
    Broken = {bad}
    Checked = {}
    Workers = {w1}
    MaxID = 4
    MaxFaults = 0
    MaxUnlogged = 0
    MaxMisses = 0
    MaxExpiries = 0
    MaxExits = 0
    MaxSweeps = 0
    MaxPublish = 1
    MaxRestarts = 1
    Nil = Nil
CHECK_DEADLOCK FALSE
INVARIANT
    StableWindow
