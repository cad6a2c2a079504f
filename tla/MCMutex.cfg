SPECIFICATION Spec
CONSTANTS
    Threads = {t1, t2, t3}
    Mutexes = {m1}
    NoThread = none
    Busy = busy
    NotRec = notrec
    Types <- All
    MaxCount = 1
    Linux = TRUE
    MaxDeaths = 1
INVARIANTS OwnerHolds OwnerDeathReported NoLostWake
PROPERTIES ImplementsLock UnrecoverableForEver
SYMMETRY Symmetry
