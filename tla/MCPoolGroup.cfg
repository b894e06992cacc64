SPECIFICATION Spec
CONSTANTS
    Threads = {t1, t2}
    Scheduler = scheduler
    k1 = k1
    k2 = k2
    Tickers <- PartitionSchedulers
    NoThread = none
    NumPartitions = 2
    PoolOwner <- Owner
    Policies = {targeted, untargeted}
    Untargeted = {untargeted}
    MaxCalls = 3
INVARIANTS
    PolicyReachesAllOrNone
    PressureReachedPartitions
PROPERTIES
    CloseIsFinal
    CallsReturn
