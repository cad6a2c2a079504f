SPECIFICATION Spec
CONSTANTS
    Threads = {t1, t2}
    Mutexes = {m1}
    NoThread = none
    Busy = busy
    NotRec = notrec
    Types <- Recursive
    MaxCount = 1
    Linux = FALSE
    MaxDeaths = 1
INVARIANTS UnlinksWhatWasLinked
