CONSTANTS
    Threads = {t1, t2, t3}
    NoThread = NoThread
    IntMin <- MCIntMin
    Spins = 2
SPECIFICATION LiveSpec
INVARIANTS CongestionCount NoLostWake
PROPERTIES ImplementsLock GrantsFreeLock
