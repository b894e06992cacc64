SPECIFICATION Spec
CONSTANTS
    Callers = {c1, c2}
    NoCaller = NoCaller
    NumPools = 2
    Levels = {"medium", "high"}
    Policies = {full, untargeted}
    Untargeted = {untargeted}
    MaxCalls = 4
INVARIANTS PressureReachedPools PolicyBudgetsReachedPools
PROPERTIES PoolPressureKept
