CONSTANTS
    Threads = {t1, t2, t3}
    Writer = 3
SPECIFICATION LiveSpec
INVARIANTS WordCountsHolders NoLostWake
PROPERTIES ImplementsRWLock SleepersServed
