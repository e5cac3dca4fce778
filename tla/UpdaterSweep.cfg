SPECIFICATION Spec
CONSTANTS
    Names = {app}
    Tags = {t1}
    Images = {good, bad}
    Broken = {bad}
    Checked = {good, bad}
    Workers = {w1, w2}
    MaxID = 4
    MaxFaults = 0
    MaxUnlogged = 1
    MaxMisses = 0
    MaxExpiries = 0
    MaxExits = 1
    MaxSweeps = 2
    MaxPublish = 1
    MaxRestarts = 0
    Nil = Nil
CHECK_DEADLOCK FALSE
SYMMETRY WorkerSymmetry
INVARIANTS
    DiscoveryConverges
    CommittedUpdateIsWatched
PROPERTIES
    TagIsRecoverable
