CONSTANTS
    Threads = {t1, t2, t3}
    NumStores = 2
    StoreLimit = 1
    NoThread = NoThread
SPECIFICATION FairSpec
INVARIANTS
    CleanupBarrier
    CloseIsSynchronous
PROPERTIES
    ImplementsService
    CallsTerminate
