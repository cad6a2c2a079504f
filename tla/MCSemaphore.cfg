CONSTANTS
    Threads = {t1, t2, t3}
    Max = 2
SPECIFICATION LiveSpec
INVARIANT WakesCoverValue
PROPERTIES ImplementsSemaphore ServesWaiters
