SPECIFICATION LiveSpec
CONSTANTS
    Threads = {t1, t2, t3}
    Mutexes = {m1}
    NoThread = none
    Busy = busy
    NotRec = notrec
    Types <- Robust
    MaxCount = 0
    Linux = TRUE
    MaxDeaths = 1
PROPERTIES UnrecoverableReleasesWaiters
