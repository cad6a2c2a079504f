SPECIFICATION Spec
CONSTANTS
    Pair = {a, b}
    Trio = {t1, t2, t3}
    Metas = {m1, m2}
    SEM_NSEMS_MAX = 2
    MaxOpen = 4
    MaxUnlink = 2
    PTHREAD_KEYS_MAX = 2
    PTHREAD_DESTRUCTOR_ITERATIONS = 2
    MaxCreate = 3
    MaxSet = 3
    COUNT = 2
    MaxFuncs = 5
SYMMETRY Symmetry
INVARIANTS
    NoRing
    ChildStartsFree
    ListIntact
    NothingDangling
    SignalReaches
    MutexWakesKept
    WaitersBalanced
    ValuesBelong
    NothingForgotten
    TableTrue
    OneFile
    SlotsPartitioned
    FreeSlotsListed
    AssertionsHold
PROPERTY ImplementsExit
CHECK_DEADLOCK FALSE
