SPECIFICATION Spec
CONSTANTS
    Callers = {c1, c2}
    NoCaller = NoCaller
    NumPools = 2
    Levels = {"high"}
    Policies = {full, untargeted}
    Untargeted = {untargeted}
    MaxCalls = 2
INVARIANT PublishedPolicyIsEffective
