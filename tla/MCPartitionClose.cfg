SPECIFICATION FairSpec
CONSTANTS
    Threads = {t1, t2}
    Scheduler = Scheduler
    NoThread = NoThread
    MaxLeases = 1
INVARIANTS WorkSeesOpenPools CloseIsComplete
PROPERTIES GracefulWaitsForLeases ShutdownEnds
