------------------------------ MODULE MCProcess ------------------------------
(***************************************************************************)
(* Instances for TLC of components of a process that several threads use:  *)
(* fork and the locks, condition variables, thread-specific data, exit     *)
(* functions, named semaphores and the allocator. A behaviour is one of    *)
(* one component.                                                          *)
(***************************************************************************)
EXTENDS Integers, TLC

CONSTANTS
    Pair, Trio, Metas, SEM_NSEMS_MAX, MaxOpen, MaxUnlink, PTHREAD_KEYS_MAX,
    PTHREAD_DESTRUCTOR_ITERATIONS, MaxCreate, MaxSet, COUNT, MaxFuncs

VARIABLES
    which,     \* the component this is a behaviour of
    x1, x2, x3, x4, x5, x6, x7, x8, x9, x10, x11, x12, x13, x14, x15, x16,
    x17, x18, x19, x20     \* its variables; those it has no use for are 0

vars == <<which, x1, x2, x3, x4, x5, x6, x7, x8, x9, x10, x11, x12, x13, x14, x15, x16,
          x17, x18, x19, x20>>

Inodes == 1..2
Addrs == 1..3
Counts == 1..3
\* A thread of CondVar locks the mutex and waits, or signals, twice.
Twice == [t \in Trio |-> 2]

\* Nothing tells the threads, or the groups, apart.
Symmetry == Permutations(Pair) \cup Permutations(Metas) \cup Permutations(Trio)

F == INSTANCE Fork WITH
    Threads <- 1..3, Forkers <- {1}, call <- x1, at <- x2, held <- x3, child <- x4
C == INSTANCE CondVar WITH
    Threads <- Trio, Nobody <- 0, Waiters <- Trio, Signallers <- Trio, Calls <- Twice,
    locked <- x1, head <- x2, tail <- x3, prev <- x4, next <- x5, state <- x6, barrier <- x7, notify <- x8, mlock <- x9,
    mwaiters <- x10, pc <- x11, r <- x12, seen <- x13, back <- x14, p <- x15, n <- x16,
    first <- x17, ref <- x18, called <- x19, calls <- x20
D == INSTANCE Tsd WITH
    Threads <- 1..2, Nobody <- 0, keys <- x1, nodtor <- x2, next_key <- x3, made <- x4,
    set <- x5, tsd <- x6, tsd_used <- x7, readers <- x8, writer <- x9, pc <- x10, i <- x11,
    j <- x12, val <- x13, dtor <- x14, victim <- x15, wiped <- x16
X == INSTANCE AtExit WITH
    Threads <- 1..2, Nobody <- 0, head <- x1, slot <- x2, finished_atexit <- x3, lock <- x4,
    exit_lock <- x5, pc <- x6, func <- x7, named <- x8
S == INSTANCE SemOpen WITH
    Threads <- 1..2, semtab <- x1, name <- x2, page <- x3, pc <- x4, slot <- x5, map <- x6,
    ino <- x7, excl <- x8, open <- x9, opened <- x10, unlinked <- x11
M == INSTANCE Malloc WITH
    Threads <- Pair, Nobody <- 0, lock <- x1, meta <- x2, active <- x3, held <- x4, pc <- x5,
    loc <- x6

\* The variables from the nth on, and that they are 0
Rest17 == <<x17, x18, x19, x20>>
Rest12 == <<x12, x13, x14, x15, x16, Rest17>>
Rest9 == <<x9, x10, x11, Rest12>>
Rest7 == <<x7, x8, Rest9>>
Rest5 == <<x5, x6, Rest7>>
Off17 ==
    /\ x17 = 0 /\ x18 = 0 /\ x19 = 0 /\ x20 = 0
Off12 ==
    /\ x12 = 0 /\ x13 = 0 /\ x14 = 0 /\ x15 = 0 /\ x16 = 0 /\ Off17
Off9 ==
    /\ x9 = 0 /\ x10 = 0 /\ x11 = 0 /\ Off12
Off7 ==
    /\ x7 = 0 /\ x8 = 0 /\ Off9
Off5 ==
    /\ x5 = 0 /\ x6 = 0 /\ Off7

Init ==
    \/ which = "fork" /\ F!Init /\ Off5
    \/ which = "condvar" /\ C!Init
    \/ which = "tsd" /\ D!Init /\ Off17
    \/ which = "exit" /\ X!Init /\ Off9
    \/ which = "sem_open" /\ S!Init /\ Off12
    \/ which = "malloc" /\ M!Init /\ Off7

Next ==
    \/ which = "fork" /\ F!Next /\ UNCHANGED <<which, Rest5>>
    \/ which = "condvar" /\ C!Next /\ UNCHANGED which
    \/ which = "tsd" /\ D!Next /\ UNCHANGED <<which, Rest17>>
    \/ which = "exit" /\ X!Next /\ UNCHANGED <<which, Rest9>>
    \/ which = "sem_open" /\ S!Next /\ UNCHANGED <<which, Rest12>>
    \/ which = "malloc" /\ M!Next /\ UNCHANGED <<which, Rest7>>

Spec == Init /\ [][Next]_vars

\* What the proofs about the allocator assume of its constants
ASSUME MallocConstants == M!ConstantsOK

-----------------------------------------------------------------------------
\* fork takes a dozen locks, others take one while they hold another: nobody
\* ever waits for each other in a ring, whatever the threads are doing.
NoRing == which = "fork" => F!NoRing

\* The child finds every lock free, although readers that do not exist in it
\* may have been in some, and no other thread was changing what a lock guards
\* when fork copied the memory.
ChildStartsFree == which = "fork" => F!ChildStartsFree

\* Between critical sections the list of a condition variable is whole, and
\* holds those who wait and those who leave by themselves.
ListIntact == which = "condvar" => C!ListIntact

\* Nobody reaches the stack of a thread that has returned from its wait, nor a
\* condition variable that a broadcast has let everybody out of.
NothingDangling == which = "condvar" => C!NothingDangling

\* A signal or broadcast that returns has signalled as many as it was asked to,
\* or leaves none waiting of those that waited when it was called.
SignalReaches == which = "condvar" => C!SignalReaches

\* While a group of waiters hands the mutex on, one thread at a time holds it,
\* and nobody sleeps on it when it is free and none is about to take or wake.
MutexWakesKept == which = "condvar" => C!MutexWakesKept

\* The count of waiters of the mutex, which a group of signalled threads raises
\* and lowers for each other, is zero when nobody waits and no group is left.
WaitersBalanced == which = "condvar" => C!WaitersBalanced

\* A value reaches only the destructor of the key it was set under, although
\* keys are deleted and made again while threads exit.
ValuesBelong == which = "tsd" => D!ValuesBelong

\* A thread that has run its destructors leaves no value behind that the
\* passes it is allowed could have reached.
NothingForgotten == which = "tsd" => D!NothingForgotten

\* The blocks of exit functions are one stack: exit calls every function
\* registered, each once and the latest first, also those registered while it
\* calls others, and ends only when none is left.
ImplementsExit ==
    /\ which = "exit" => X!Abstract!Init
    /\ [][which = "exit" => X!Abstract!Next \/ UNCHANGED X!Abstract!vars]_vars

\* The table of named semaphores counts the openings, and no slot is lost.
TableTrue == which = "sem_open" => S!TableTrue

\* Those who have opened a name that nobody unlinks have one file, although
\* several may have tried to make it at once.
OneFile == which = "sem_open" => S!OneFile

\* Every slot of a group of the allocator is in exactly one place, although
\* free may put it back without the lock.
SlotsPartitioned == which = "malloc" => M!SlotsPartitioned

\* A group that has slots to give is where malloc will find it.
FreeSlotsListed == which = "malloc" => M!FreeSlotsListed

\* The assertions in the allocator's code hold.
AssertionsHold == which = "malloc" => M!AssertionsHold
=============================================================================
