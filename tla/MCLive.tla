------------------------------ MODULE MCLive ------------------------------
(***************************************************************************)
(* Instances for TLC of the components that put threads to sleep, with the *)
(* fairness of their specifications: a behaviour is one of one component.  *)
(***************************************************************************)
EXTENDS Integers

CONSTANTS
    MaxCount, Linux, MaxDeaths, MaxCalls, MaxOps, MaxQueues

VARIABLES
    which,     \* the component this is a behaviour of
    x1, x2, x3, x4, x5, x6, x7, x8, x9, x10, x11, x12, x13, x14, x15, x16, x17, x18, x19, x20,
    x21, x22, x23     \* its variables; those it has no use for are 0

vars == <<which, x1, x2, x3, x4, x5, x6, x7, x8, x9, x10, x11, x12, x13, x14, x15, x16, x17, x18,
             x19, x20, x21, x22, x23>>

Types == [kind : {"normal"}, robust : BOOLEAN, shared : {FALSE}]
Calls == <<2, 2, 1>>
OpSets == {{}}
Programs == {
    [op |-> <<"write", "sync", "none">>, append |-> FALSE, cancels |-> FALSE, suspends |-> <<1..2, 1..2>>],
    [op |-> <<"read", "write", "none">>, append |-> FALSE, cancels |-> TRUE, suspends |-> <<{1}, {}>>],
    [op |-> <<"write", "write", "sync">>, append |-> TRUE, cancels |-> FALSE, suspends |-> <<{}, {}>>]}

M == INSTANCE Mutex WITH
    Threads <- 1..3, Mutexes <- {1}, NoThread <- 0, Busy <- 4, NotRec <- 5, type <- x1,
    lock <- x2, waiters <- x3, count <- x4, robust <- x5, pending <- x6, pc <- x7, mx <- x8,
    op <- x9, old <- x10, wk <- x11, gave <- x12, depth <- x13, told <- x14, broken <- x15,
    swallowed <- x16, deaths <- x17
C == INSTANCE CondVar WITH
    Threads <- 1..3, Nobody <- 0, Waiters <- 1..2, Signallers <- {3}, locked <- x1, head <- x2,
    tail <- x3, prev <- x4, next <- x5, state <- x6, barrier <- x7, notify <- x8, mlock <- x9,
    mwaiters <- x10, pc <- x11, r <- x12, seen <- x13, back <- x14, p <- x15, n <- x16,
    first <- x17, ref <- x18, called <- x19, calls <- x20
O == INSTANCE Once WITH
    Threads <- 1..3, control <- x1, pc <- x2, ran <- x3
B == INSTANCE Barrier WITH
    Threads <- 1..3, Nobody <- 0, mem <- x1, pc <- x2, w <- x3, inst <- x4, my <- x5,
    entered <- x6, left <- x7, serial <- x8, destroyed <- x9
S == INSTANCE SharedBarrier WITH
    Threads <- 1..3, Nobody <- 0, mem <- x1, pc <- x2, w <- x3, v <- x4, lw <- x5,
    entered <- x6, left <- x7, serial <- x8, destroyer <- x9, unmapped <- x10
T == INSTANCE Threads WITH
    Threads <- 1..3, Nobody <- 0, mem <- x1, pc <- x2, w <- x3, ops <- x4, budget <- x5,
    next <- x6, prev <- x7, minus1 <- x8, tid <- x9, alive <- x10, mapped <- x11,
    handle <- x12, killlock <- x13, arg <- x14, ret <- x15, cont <- x16, stray <- x17,
    td <- x18, count <- x19, sem <- x20, hnd <- x21, called <- x22, aborted <- x23
A == INSTANCE Aio WITH
    Reqs <- 1..3, Nobody <- 0, Callers <- 1..2, prog <- x1, map <- x2, maplock <- x3, q <- x4, made <- x5,
    spc <- x6, wpc <- x7, my <- x8, err <- x9, aterr <- x10, running <- x11, waiting <- x12,
    canceled <- x13, cpc <- x14, cq <- x15, cat <- x16, said <- x17, fut <- x18, upc <- x19,
    expect <- x20

\* The variables from the nth on, and that they are 0
Rest21 == <<x21, x22, x23>>
Rest18 == <<x18, x19, x20, Rest21>>
Rest11 == <<x11, x12, x13, x14, x15, x16, x17, Rest18>>
Rest10 == <<x10, Rest11>>
Rest4 == <<x4, x5, x6, x7, x8, x9, Rest10>>
Off21 ==
    /\ x21 = 0 /\ x22 = 0 /\ x23 = 0
Off18 ==
    /\ x18 = 0 /\ x19 = 0 /\ x20 = 0 /\ Off21
Off11 ==
    /\ x11 = 0 /\ x12 = 0 /\ x13 = 0 /\ x14 = 0 /\ x15 = 0 /\ x16 = 0 /\ x17 = 0 /\ Off18
Off10 ==
    /\ x10 = 0 /\ Off11
Off4 ==
    /\ x4 = 0 /\ x5 = 0 /\ x6 = 0 /\ x7 = 0 /\ x8 = 0 /\ x9 = 0 /\ Off10

Init ==
    \/ which = "mutex" /\ M!Init /\ Off18
    \/ which = "condvar" /\ C!Init /\ Off21
    \/ which = "once" /\ O!Init /\ Off4
    \/ which = "barrier" /\ B!Init /\ Off10
    \/ which = "shared" /\ S!Init /\ Off11
    \/ which = "threads" /\ T!Init
    \/ which = "aio" /\ A!Init /\ Off21

Next ==
    \/ which = "mutex" /\ M!Next /\ UNCHANGED <<which, Rest18>>
    \/ which = "condvar" /\ C!Next /\ UNCHANGED <<which, Rest21>>
    \/ which = "once" /\ O!Next /\ UNCHANGED <<which, Rest4>>
    \/ which = "barrier" /\ B!Next /\ UNCHANGED <<which, Rest10>>
    \/ which = "shared" /\ S!Next /\ UNCHANGED <<which, Rest11>>
    \/ which = "threads" /\ T!Next /\ UNCHANGED which
    \/ which = "aio" /\ A!Next /\ UNCHANGED <<which, Rest21>>

\* What thread t does when it is scheduled.  In aio, thread t submits request t.
Runs(t) ==
    \/ which = "mutex" /\ M!Runs(t) /\ UNCHANGED <<which, Rest18>>
    \/ which = "condvar" /\ C!Runs(t) /\ UNCHANGED <<which, Rest21>>
    \/ which = "once" /\ O!Step(t) /\ UNCHANGED <<which, Rest4>>
    \/ which = "barrier" /\ B!Runs(t) /\ UNCHANGED <<which, Rest10>>
    \/ which = "shared" /\ S!Runs(t) /\ UNCHANGED <<which, Rest11>>
    \/ which = "threads" /\ T!Runs(t) /\ UNCHANGED which
    \/ which = "aio" /\ A!SubmitStep(t) /\ UNCHANGED <<which, Rest21>>
AioRuns(step) == which = "aio" /\ step /\ UNCHANGED <<which, Rest21>>

Spec == Init /\ [][Next]_vars
LiveSpec ==
    /\ Spec
    /\ \A t \in 1..3 : WF_vars(Runs(t)) /\ WF_vars(AioRuns(A!WorkerStep(t)))
    /\ WF_vars(AioRuns(A!CancelStep))
    /\ \A c \in 1..2 : WF_vars(AioRuns(A!SuspendStep(c)))

-----------------------------------------------------------------------------
\* pthread_once runs init to its end once, by one thread at a time, and nobody
\* returns before it has, however many threads were cancelled in it.
InitOnce == which = "once" => O!InitOnce

\* No thread leaves a round of a barrier before all have entered it, and each
\* round has one serial thread.
RoundsSeparate == (which = "barrier" => B!RoundsSeparate) /\ (which = "shared" => S!RoundsSeparate)

\* Nobody touches the instance of a round on another thread's stack once it is
\* gone, nor a barrier once its serial thread, or for a shared one anybody, has
\* destroyed it.  A private barrier that a thread which returned 0 destroys may
\* still be read, once by each thread that unlocked it, but not written.
NoDeadAccess == (which = "barrier" => B!NoDeadAccess) /\ (which = "shared" => S!NoAccessAfterUnmap)

\* An aio queue is freed only when nobody uses it.
QueueOutlivesUse == which = "aio" => A!QueueOutlivesUse

\* A sequenced request waits for the earlier writes, and what aio_cancel says
\* of a request is what aio_error will say.
SequenceAndVerdict == which = "aio" => A!SequenceAndVerdict

==========================================================================
