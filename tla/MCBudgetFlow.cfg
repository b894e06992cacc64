SPECIFICATION Spec
CONSTANTS
    MaxSize = 2000000000
    MaxClasses = 65536
    Procs = 8
    PoolsOf <- MCPoolsOf
    GroupLimits = {0, 4}
INVARIANT HardBudgetDistributed
