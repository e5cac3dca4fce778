SPECIFICATION SchedSpec
CONSTANTS
    c1 = c1
    c2 = c2
    Tick = Tick
    User = User
    SelfUpdate = SelfUpdate
    Workers = {Tick, User, SelfUpdate}
    Keys = {c1, c2}
    None = None
    Once = {1}
    Cron = {2}
    Relative = {3}
    MaxId = 3
    TargetsOf <- MCTargets
    Delay = 1
    Period = 2
    Interval = 1
    Window = 1
    MaxClock = 2
    MaxCreate = 0
    MaxUsed = 1
PROPERTY RetryOncePerInterval
CHECK_DEADLOCK FALSE
