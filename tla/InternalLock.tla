---------------------------- MODULE InternalLock ----------------------------
(***************************************************************************)
(* LOCK and UNLOCK, the lock the library uses for its own data             *)
(* (src/thread/__lock.c), with the process-wide hint libc.need_locks that  *)
(* lets a single-threaded process skip it and the two places where thread  *)
(* creation and thread exit change that hint (src/thread/pthread_create.c).*)
(*                                                                         *)
(* The lock word is one int: the sign bit (weight IntMin) is the lock      *)
(* flag, the rest counts the threads inside.  Every action below is one    *)
(* access to shared memory or one futex call; arithmetic on locals rides   *)
(* along with the access that follows it, and a local is reset to 0 when   *)
(* it goes out of use.                                                     *)
(***************************************************************************)
EXTENDS Integers, FiniteSets

CONSTANTS Threads,    \* threads that ever exist
          NoThread,   \* "nobody" in the abstract lock
          IntMin,     \* INT_MIN
          Spins       \* iterations of the spin loop, 10 in the code

ASSUME ThreadsAssumption == IsFiniteSet(Threads) /\ NoThread \notin Threads
\* The congestion count never reaches the flag: fewer threads than 2^31.
ASSUME IntMinAssumption == IntMin \in Int /\ IntMin + Cardinality(Threads) < 0
ASSUME SpinsAssumption == Spins \in Nat \ {0}

VARIABLES
    word,            \* l[0]
    need_locks,      \* libc.need_locks
    threads_minus_1, \* libc.threads_minus_1
    pc,              \* where each thread is
    nl,              \* __lock's local copy of need_locks
    current,         \* __lock's local current
    i                \* __lock's loop counter

vars == <<word, need_locks, threads_minus_1, pc, nl, current, i>>

Labels == {"dead",    \* not created yet, or exited
           "out",     \* outside __lock and __unlock
           "cas",     \* __lock.c:24
           "clear",   \* __lock.c:25
           "spin",    \* __lock.c:31
           "add",     \* __lock.c:36
           "wait",    \* __lock.c:44, before the futex call
           "asleep",  \* blocked in the kernel
           "acas",    \* __lock.c:48
           "cs",      \* between LOCK and UNLOCK, the lock taken
           "skipped", \* between LOCK and UNLOCK, the lock skipped
           "unl",     \* __lock.c:58
           "wake"}    \* __lock.c:59

Alive == {t \in Threads : pc[t] # "dead"}

\* Exactly one thread runs when the program starts, and it takes no locks.
Init ==
    /\ word = 0
    /\ need_locks = 0
    /\ threads_minus_1 = 0
    /\ \E t \in Threads : pc = [u \in Threads |-> IF u = t THEN "out" ELSE "dead"]
    /\ nl = [t \in Threads |-> 0]
    /\ current = [t \in Threads |-> 0]
    /\ i = [t \in Threads |-> 0]

Goto(t, label) == pc' = [pc EXCEPT ![t] = label]

-----------------------------------------------------------------------------
(* __lock *)

\* Lines 21-22: a single-threaded process skips the lock.
ReadNeedLocks(t) ==
    /\ pc[t] = "out"
    /\ nl' = [nl EXCEPT ![t] = need_locks]
    /\ Goto(t, IF need_locks = 0 THEN "skipped" ELSE "cas")
    /\ UNCHANGED <<word, need_locks, threads_minus_1, current, i>>

\* Line 24: fast path, the flag and a congestion of one.
FastCas(t) ==
    /\ pc[t] = "cas"
    /\ word' = IF word = 0 THEN IntMin + 1 ELSE word
    /\ current' = [current EXCEPT ![t] = word]
    /\ Goto(t, "clear")
    /\ UNCHANGED <<need_locks, threads_minus_1, nl, i>>

\* Lines 25-26: the first lock taken after the process became
\* single-threaded again is the last one taken.
ClearNeedLocks(t) ==
    /\ pc[t] = "clear"
    /\ need_locks' = IF nl[t] < 0 THEN 0 ELSE need_locks
    /\ nl' = [nl EXCEPT ![t] = 0]
    /\ Goto(t, IF current[t] = 0 THEN "cs" ELSE "spin")
    /\ UNCHANGED <<word, threads_minus_1, current, i>>

\* Variant: the flag is dropped, the congestion count is not.
ReleasedFlagOnly(x) == x - IntMin

\* The value the word has once its present holder has let it go.
Released(x) == x - (IntMin + 1)

\* Lines 28-34: one round of the spin loop.
SpinExpect(t) == IF current[t] < 0 THEN Released(current[t]) ELSE current[t]

Spin(t) ==
    /\ pc[t] = "spin"
    /\ \/ /\ word = SpinExpect(t)
          /\ word' = IntMin + (SpinExpect(t) + 1)
          /\ current' = [current EXCEPT ![t] = 0]
          /\ i' = [i EXCEPT ![t] = 0]
          /\ Goto(t, "cs")
       \/ /\ word # SpinExpect(t)
          /\ current' = [current EXCEPT ![t] = word]
          /\ i' = [i EXCEPT ![t] = IF @ + 1 < Spins THEN @ + 1 ELSE 0]
          /\ Goto(t, IF i[t] + 1 < Spins THEN "spin" ELSE "add")
          /\ UNCHANGED word
    /\ UNCHANGED <<need_locks, threads_minus_1, nl>>

\* Variant: sleep without having seen the lock held.
NextRoundSleeps(x) == "wait"

\* Line 43: only somebody who saw the lock held goes to sleep.
NextRound(x) == IF x < 0 THEN "wait" ELSE "acas"

\* Line 36: count ourselves in.
Enter(t) ==
    /\ pc[t] = "add"
    /\ word' = word + 1
    /\ current' = [current EXCEPT ![t] = word + 1]
    /\ Goto(t, NextRound(word + 1))
    /\ UNCHANGED <<need_locks, threads_minus_1, nl, i>>

\* Line 44: the kernel compares the word and puts the thread to sleep, or
\* returns at once; line 45 follows the return.
FutexWait(t) ==
    /\ pc[t] = "wait"
    /\ \/ /\ word = current[t]
          /\ Goto(t, "asleep")
          /\ UNCHANGED current
       \/ /\ word # current[t]
          /\ current' = [current EXCEPT ![t] = Released(@)]
          /\ Goto(t, "acas")
    /\ UNCHANGED <<word, need_locks, threads_minus_1, nl, i>>

\* The sleeper returns from the futex call and executes line 45.
Wakes(t) == current' = [current EXCEPT ![t] = Released(@)]

\* A signal handler ran: the futex call returns although nobody woke it.
SpuriousWake(t) ==
    /\ pc[t] = "asleep"
    /\ Wakes(t)
    /\ Goto(t, "acas")
    /\ UNCHANGED <<word, need_locks, threads_minus_1, nl, i>>

\* Lines 48-50: take the lock; the count includes us already.
MainCas(t) ==
    /\ pc[t] = "acas"
    /\ \/ /\ word = current[t]
          /\ word' = IntMin + current[t]
          /\ current' = [current EXCEPT ![t] = 0]
          /\ Goto(t, "cs")
       \/ /\ word # current[t]
          /\ current' = [current EXCEPT ![t] = word]
          /\ Goto(t, NextRound(word))
          /\ UNCHANGED word
    /\ UNCHANGED <<need_locks, threads_minus_1, nl, i>>

-----------------------------------------------------------------------------
(* __unlock *)

\* Line 57: "Check l[0] to see if we are multi-threaded."
UnlockCheck(t) ==
    /\ pc[t] \in {"cs", "skipped"}
    /\ Goto(t, IF word < 0 THEN "unl" ELSE "out")
    /\ UNCHANGED <<word, need_locks, threads_minus_1, nl, current, i>>

\* Variant: a single waiter is forgotten.
UnlockAddOneMore(t) ==
    /\ pc[t] = "unl"
    /\ word' = Released(word)
    /\ Goto(t, IF word > IntMin + 2 THEN "wake" ELSE "out")
    /\ UNCHANGED <<need_locks, threads_minus_1, nl, current, i>>

\* Line 58: drop the flag and our congestion in one step.
UnlockAdd(t) ==
    /\ pc[t] = "unl"
    /\ word' = Released(word)
    /\ Goto(t, IF word # IntMin + 1 THEN "wake" ELSE "out")
    /\ UNCHANGED <<need_locks, threads_minus_1, nl, current, i>>

\* Line 59: wake one sleeper, whichever the kernel picks, if there is one.
UnlockWake(t) ==
    /\ pc[t] = "wake"
    /\ \/ \E u \in Threads :
             /\ pc[u] = "asleep"
             /\ Wakes(u)
             /\ pc' = [pc EXCEPT ![t] = "out", ![u] = "acas"]
       \/ /\ \A u \in Threads : pc[u] # "asleep"
          /\ Goto(t, "out")
          /\ UNCHANGED current
    /\ UNCHANGED <<word, need_locks, threads_minus_1, nl, i>>

-----------------------------------------------------------------------------
(* Thread creation and exit, which hold the thread list lock throughout.   *)
(* Neither happens between LOCK and UNLOCK.                                *)

\* Variant: locks are needed from the third thread on.
CreateLate(t, u) ==
    /\ pc[t] = "out" /\ pc[u] = "dead"
    /\ need_locks' = IF threads_minus_1 = 1 THEN 1 ELSE need_locks
    /\ threads_minus_1' = threads_minus_1 + 1
    /\ Goto(u, "out")
    /\ UNCHANGED <<word, nl, current, i>>

\* pthread_create.c:404 and the new thread's first step.
Create(t, u) ==
    /\ pc[t] = "out" /\ pc[u] = "dead"
    /\ need_locks' = IF threads_minus_1 = 0 THEN 1 ELSE need_locks
    /\ threads_minus_1' = threads_minus_1 + 1
    /\ Goto(u, "out")
    /\ UNCHANGED <<word, nl, current, i>>

\* pthread_create.c:404, then 447 because the kernel made no thread.
CreateFails(t) ==
    /\ pc[t] = "out"
    /\ need_locks' = IF threads_minus_1 = 0 THEN 0 ELSE need_locks
    /\ UNCHANGED <<word, threads_minus_1, pc, nl, current, i>>

\* pthread_create.c:104 and 153: a thread that is not the last one goes,
\* and the one that stays behind is told it is alone.
Exit(t) ==
    /\ pc[t] = "out"
    /\ Alive # {t}
    /\ threads_minus_1' = threads_minus_1 - 1
    /\ need_locks' = IF threads_minus_1 - 1 = 0 THEN -1 ELSE need_locks
    /\ Goto(t, "dead")
    /\ UNCHANGED <<word, nl, current, i>>

-----------------------------------------------------------------------------
\* What a thread does once it has entered __lock, up to its return from
\* __unlock: all of it runs without waiting for anybody but the kernel.
Step(t) ==
    \/ FastCas(t) \/ ClearNeedLocks(t) \/ Spin(t) \/ Enter(t)
    \/ FutexWait(t) \/ MainCas(t)
    \/ UnlockCheck(t) \/ UnlockAdd(t) \/ UnlockWake(t)

Next == \E t \in Threads :
           \/ ReadNeedLocks(t) \/ Step(t) \/ SpuriousWake(t)
           \/ \E u \in Threads : Create(t, u)
           \/ CreateFails(t) \/ Exit(t)

Spec == Init /\ [][Next]_vars

\* A thread that can run is scheduled, and a holder reaches its UNLOCK.
Fairness == \A t \in Threads : WF_vars(Step(t))

LiveSpec == Spec /\ Fairness

-----------------------------------------------------------------------------
(* Properties *)

\* The thread whose compare-and-swap took the lock, also while it is still on
\* its way out of __lock, or that skipped it.
Taken(t) == \/ pc[t] \in {"cs", "unl"}
            \/ pc[t] = "clear" /\ current[t] = 0
Holds(t) == Taken(t) \/ pc[t] = "skipped"

\* Threads that counted themselves in before sleeping (line 36).
Queued(t) == pc[t] \in {"wait", "asleep", "acas"}
Counted == {t \in Threads : Taken(t) \/ Queued(t)}

Asking == {t \in Threads : /\ pc[t] \in {"cas", "clear", "spin", "add",
                                       "wait", "asleep", "acas"}
                           /\ ~Taken(t)}

\* Every variable stays in its range; need_locks is the three-valued hint of
\* libc.h and a local is never outside the int the word fits in.
TypeOK ==
    /\ word \in Int
    /\ need_locks \in {-1, 0, 1}
    /\ threads_minus_1 \in Int
    /\ pc \in [Threads -> Labels]
    /\ nl \in [Threads -> {-1, 0, 1}]
    /\ current \in [Threads -> Int]
    /\ i \in [Threads -> 0..Spins-1]

\* __lock.c:3-16: the word is the number of threads inside the critical
\* section, or'ed with INT_MIN exactly while somebody has taken the lock.
CongestionCount ==
    word = Cardinality(Counted)
           + (IF \E t \in Threads : Taken(t) THEN IntMin ELSE 0)

\* The two assertions __lock states in comments (lines 30 and 47): the value
\* expected by the compare-and-swap is that of an unlocked word, and once a
\* thread counted itself in, it expects a count that includes it.
CountIncludesUs ==
    \A t \in Threads :
        /\ pc[t] \in {"clear", "spin"} => SpinExpect(t) >= 0
        /\ pc[t] = "acas" => current[t] > 0
        /\ pc[t] \in {"wait", "asleep"} => current[t] < 0 /\ Released(current[t]) > 0

\* __lock.c:41: a thread sleeps only while somebody will wake it: when the lock
\* is free and threads sleep on it, a wake-up is under way or one of the
\* counted threads is awake and about to retry.
NoLostWake ==
    (word >= 0 /\ \E t \in Threads : pc[t] = "asleep")
        => \E t \in Threads : pc[t] \in {"wake", "wait", "acas"}

\* At most one thread is between LOCK and UNLOCK, including a thread that
\* skipped the lock because libc.need_locks told it that it is alone.
MutualExclusion == \A t, u \in Threads : Holds(t) /\ Holds(u) => t = u

Holder == IF \E t \in Threads : Holds(t)
          THEN CHOOSE t \in Threads : Holds(t)
          ELSE NoThread

Abs == INSTANCE AbstractLock WITH asking <- Asking, holder <- Holder

\* __lock and __unlock implement the abstract lock: no step takes the lock
\* while it is held, and it is passed on only through a release.
ImplementsLock == Abs!Spec

\* No wake-up is lost: while a thread is in __lock and the lock is free,
\* somebody is eventually granted it, even if no newcomer ever arrives.
GrantsFreeLock == Abs!Fairness
=============================================================================
