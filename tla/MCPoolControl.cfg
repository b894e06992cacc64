SPECIFICATION Spec
CONSTANTS
    Threads = {t1, t2}
    NoThread = NoThread
    MaxSize = 2000000000
    MaxClasses = 65536
    Procs = 8
    Configs <- MCConfigs
    Mode = "partition_owned"
    Policies <- MCPolicies
    Signals <- MCSignals
    Plans <- MCPlans
    Sizes = {0, 2}
    Capacities = {1, 3}
    MaxCalls = 3
SYMMETRY Symmetry
INVARIANTS ReturnsAccounted TrimsWithinPlan
PROPERTIES BudgetsPrecedePolicy UpdatesKept RetainedUnderLivePolicy
