CONSTANTS
    Threads = {t1, t2}
    ClassSizes <- MCClassSizes
    NumShards = 2
    FallbackShards = 1
    SlotLimit = 3
    SegmentSlotLimit = 2
    CreditBuffers = 4
    CreditBytes = 9
    Capacities = {1, 2, 3}
    TrimBuffers = {2}
    ByteLimits = {5}
    Reasons = {"oversized"}
    Modulus = 4
    MaxWork = 4
SPECIFICATION TelemetrySpec
INVARIANTS
    StockIsFlow
    ClassFollowsShards
    SampledOutcomesWerePut
    WindowsAddUp
SYMMETRY Symmetry
PROPERTIES
    ImplementsStack
