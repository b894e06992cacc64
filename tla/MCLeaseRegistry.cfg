SPECIFICATION Spec
CONSTANTS
    Threads = {t1, t2}
    Bases = {b1, b2}
    NoBase = NoBase
    ClassSizes = {2, 4}
    Growth = 2
    Capacities = {1, 8}
    SlotLimit = 2
    MaxLeases = 3
    MaxRejected = 1
SYMMETRY Symmetry
INVARIANTS ExclusiveOwnership RetainedFitsClass OwnSliceReleases ReturnsAccounted
PROPERTY NoLeaseAfterClose
CHECK_DEADLOCK FALSE
