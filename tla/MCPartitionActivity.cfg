SPECIFICATION Spec
CONSTANTS
    NumPools = 2
    Threads = {t1}
    FullScanInterval = 3
    PoolBytes = 1
    ParentBytes = 2
    MaxCount = 2
INVARIANTS FullScanBounds QuietMarksVisible
PROPERTY ExpiryJustified
