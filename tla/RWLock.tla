------------------------------- MODULE RWLock -------------------------------
(***************************************************************************)
(* Read-write locks: pthread_rwlock_tryrdlock.c, _trywrlock.c,             *)
(* _timedrdlock.c, _timedwrlock.c, _rdlock.c, _wrlock.c and _unlock.c.     *)
(*                                                                         *)
(* _rw_lock is the number of readers, or 0x7fffffff for a writer (cnt),    *)
(* with a "somebody may sleep" bit in its sign (wait).  _rw_waiters counts *)
(* the threads around the futex call.  Every action is one access to       *)
(* shared memory or one futex call.                                        *)
(*                                                                         *)
(* The lock does not know who holds it and a thread that reads may read    *)
(* again without waiting, so nested read locks of one thread are those of  *)
(* several threads here.                                                   *)
(***************************************************************************)
EXTENDS Integers, FiniteSets

CONSTANTS Threads,
          Writer       \* 0x7fffffff

ASSUME ThreadsAssumption == IsFiniteSet(Threads)
ASSUME WriterAssumption == Writer \in Nat /\ Writer > 2

VARIABLES
    cnt,      \* _rw_lock & 0x7fffffff
    wait,     \* _rw_lock < 0
    waiters,  \* _rw_waiters
    pc,
    mode,     \* the lock the thread asks for or holds: "r", "w" or "none"
    blocking, \* the call is a timed or untimed lock, not a trylock
    val,      \* local r of the lock functions, val of unlock: [n: cnt, f: wait]
    seen,     \* local waiters of unlock is not zero
    ok        \* the futex call returned 0 or EINTR

vars == <<cnt, wait, waiters, pc, mode, blocking, val, seen, ok>>

Labels == {"idle", "held",
           "rread", "rcas",       \* pthread_rwlock_tryrdlock.c:7, 11
           "wcas",                \* pthread_rwlock_trywrlock.c:5
           "look", "inc",         \* pthread_rwlock_timedwrlock.c:14, 16
           "mark", "fwait",       \* pthread_rwlock_timedwrlock.c:17, 18
           "asleep", "dec",       \* in the kernel; line 19
           "uwaiters", "ucas",    \* pthread_rwlock_unlock.c:10, 12
           "uread", "uwake"}      \* pthread_rwlock_unlock.c:8 again, 15

Words == [n : 0..Writer, f : BOOLEAN]
NoWord == [n |-> 0, f |-> FALSE]
Word == [n |-> cnt, f |-> wait]

\* pthread_rwlock_init
Init ==
    /\ cnt = 0
    /\ wait = FALSE
    /\ waiters = 0
    /\ pc = [t \in Threads |-> "idle"]
    /\ mode = [t \in Threads |-> "none"]
    /\ blocking = [t \in Threads |-> FALSE]
    /\ val = [t \in Threads |-> NoWord]
    /\ seen = [t \in Threads |-> FALSE]
    /\ ok = [t \in Threads |-> FALSE]

Goto(t, label) == pc' = [pc EXCEPT ![t] = label]

\* The lock function returns an error: EBUSY, EAGAIN, ETIMEDOUT or EINVAL.
Fail(t) ==
    /\ Goto(t, "idle")
    /\ mode' = [mode EXCEPT ![t] = "none"]
    /\ blocking' = [blocking EXCEPT ![t] = FALSE]

\* The lock function returns 0.
Succeed(t) ==
    /\ Goto(t, "held")
    /\ blocking' = [blocking EXCEPT ![t] = FALSE]
    /\ UNCHANGED mode

Attempt(t) == IF mode[t] = "r" THEN "rread" ELSE "wcas"

-----------------------------------------------------------------------------
(* The lock functions *)

\* One of the trylock functions (b false), or a lock function, which begins
\* by trying.
Begin(t, m, b) ==
    /\ pc[t] = "idle"
    /\ mode' = [mode EXCEPT ![t] = m]
    /\ blocking' = [blocking EXCEPT ![t] = b]
    /\ Goto(t, IF m = "r" THEN "rread" ELSE "wcas")
    /\ UNCHANGED <<cnt, wait, waiters, val, seen, ok>>

\* EBUSY from a trylock: its caller, or the loop of the lock function, goes on
Busy(t) == IF blocking[t] THEN Goto(t, "look") /\ UNCHANGED <<mode, blocking>>
           ELSE Fail(t)

\* Variant: the limit on readers is not tested.
TryReadUnlimited(t) ==
    /\ pc[t] = "rread"
    /\ \/ cnt = Writer /\ Busy(t) /\ UNCHANGED val
       \/ /\ cnt # Writer
          /\ val' = [val EXCEPT ![t] = Word]
          /\ Goto(t, "rcas")
          /\ UNCHANGED <<mode, blocking>>
    /\ UNCHANGED <<cnt, wait, waiters, seen, ok>>

\* pthread_rwlock_tryrdlock.c:7-10
TryRead(t) ==
    /\ pc[t] = "rread"
    /\ \/ cnt = Writer /\ Busy(t) /\ UNCHANGED val
       \/ cnt = Writer - 1 /\ Fail(t) /\ UNCHANGED val
       \/ /\ cnt < Writer - 1
          /\ val' = [val EXCEPT ![t] = Word]
          /\ Goto(t, "rcas")
          /\ UNCHANGED <<mode, blocking>>
    /\ UNCHANGED <<cnt, wait, waiters, seen, ok>>

\* Variant: a store in place of the compare-and-swap.
TryReadStore(t) ==
    /\ pc[t] = "rcas"
    /\ cnt' = val[t].n + 1
    /\ wait' = val[t].f
    /\ Succeed(t)
    /\ val' = [val EXCEPT ![t] = NoWord]
    /\ UNCHANGED <<waiters, seen, ok>>

\* pthread_rwlock_tryrdlock.c:11
TryReadCas(t) ==
    /\ pc[t] = "rcas"
    /\ \/ /\ Word = val[t]
          /\ cnt' = val[t].n + 1
          /\ Succeed(t)
       \/ /\ Word # val[t]
          /\ Goto(t, "rread")
          /\ UNCHANGED <<cnt, mode, blocking>>
    /\ val' = [val EXCEPT ![t] = NoWord]
    /\ UNCHANGED <<wait, waiters, seen, ok>>

\* pthread_rwlock_trywrlock.c:5
TryWriteCas(t) ==
    /\ pc[t] = "wcas"
    /\ \/ /\ Word = NoWord
          /\ cnt' = Writer
          /\ Succeed(t)
       \/ Word # NoWord /\ Busy(t) /\ UNCHANGED cnt
    /\ UNCHANGED <<wait, waiters, val, seen, ok>>

\* pthread_rwlock_timedwrlock.c:14, pthread_rwlock_timedrdlock.c:14: there
\* still is something to wait for.
Blocks(m) == IF m = "r" THEN cnt = Writer ELSE Word # NoWord

Look(t) ==
    /\ pc[t] = "look"
    /\ \/ /\ Blocks(mode[t])
          /\ val' = [val EXCEPT ![t] = Word]
          /\ Goto(t, "inc")
       \/ /\ ~Blocks(mode[t])
          /\ Goto(t, Attempt(t))
          /\ UNCHANGED val
    /\ UNCHANGED <<cnt, wait, waiters, mode, blocking, seen, ok>>

\* pthread_rwlock_timedwrlock.c:16
CountIn(t) ==
    /\ pc[t] = "inc"
    /\ waiters' = waiters + 1
    /\ Goto(t, "mark")
    /\ UNCHANGED <<cnt, wait, mode, blocking, val, seen, ok>>

\* pthread_rwlock_timedwrlock.c:15, 17: the word to sleep on has the bit set.
Mark(t) ==
    /\ pc[t] = "mark"
    /\ wait' = (wait \/ Word = val[t])
    /\ val' = [val EXCEPT ![t].f = TRUE]
    /\ Goto(t, "fwait")
    /\ UNCHANGED <<cnt, waiters, mode, blocking, seen, ok>>

\* Variant: sleep without comparing.
FutexWaitBlind(t) ==
    /\ pc[t] = "fwait"
    /\ Goto(t, "asleep")
    /\ val' = [val EXCEPT ![t] = NoWord]
    /\ UNCHANGED <<cnt, wait, waiters, mode, blocking, seen, ok>>

\* pthread_rwlock_timedwrlock.c:18: the kernel puts the thread to sleep if
\* the word still is the marked one.
FutexWait(t) ==
    /\ pc[t] = "fwait"
    /\ \/ /\ Word = val[t]
          /\ Goto(t, "asleep")
          /\ UNCHANGED ok
       \/ /\ Word # val[t]
          /\ ok' = [ok EXCEPT ![t] = TRUE]
          /\ Goto(t, "dec")
    /\ val' = [val EXCEPT ![t] = NoWord]
    /\ UNCHANGED <<cnt, wait, waiters, mode, blocking, seen>>

\* __timedwait.c:49-66: the deadline is invalid or has passed, or passes
\* during the sleep.
TimeOut(t) ==
    /\ pc[t] \in {"fwait", "asleep"}
    /\ Goto(t, "dec")
    /\ val' = [val EXCEPT ![t] = NoWord]
    /\ UNCHANGED <<cnt, wait, waiters, mode, blocking, seen, ok>>

\* __timedwait.c:61-66: a signal handler ends the sleep, or the futex call
\* fails for a reason that does not count.
SpuriousWake(t) ==
    /\ pc[t] = "asleep"
    /\ ok' = [ok EXCEPT ![t] = TRUE]
    /\ Goto(t, "dec")
    /\ UNCHANGED <<cnt, wait, waiters, mode, blocking, val, seen>>

\* pthread_rwlock_timedwrlock.c:19-21
CountOut(t) ==
    /\ pc[t] = "dec"
    /\ waiters' = waiters - 1
    /\ ok' = [ok EXCEPT ![t] = FALSE]
    /\ IF ok[t] THEN Goto(t, Attempt(t)) /\ UNCHANGED <<mode, blocking>> ELSE Fail(t)
    /\ UNCHANGED <<cnt, wait, val, seen>>

-----------------------------------------------------------------------------
(* pthread_rwlock_unlock *)

\* pthread_rwlock_unlock.c:8, entering the function or repeating its loop
UnlockRead(t) ==
    /\ pc[t] \in {"held", "uread"}
    /\ val' = [val EXCEPT ![t] = Word]
    /\ Goto(t, "uwaiters")
    /\ UNCHANGED <<cnt, wait, waiters, mode, blocking, seen, ok>>

\* pthread_rwlock_unlock.c:10
UnlockReadWaiters(t) ==
    /\ pc[t] = "uwaiters"
    /\ seen' = [seen EXCEPT ![t] = waiters # 0]
    /\ Goto(t, "ucas")
    /\ UNCHANGED <<cnt, wait, waiters, mode, blocking, val, ok>>

\* pthread_rwlock_unlock.c:11: the lock becomes free
Frees(t) == val[t].n \in {1, Writer}

\* Variant: the mark is taken for granted, the count of waiters not consulted.
OwesWakeMarked(t) == Frees(t) /\ val[t].f

\* pthread_rwlock_unlock.c:14
OwesWake(t) == Frees(t) /\ (seen[t] \/ val[t].f)

\* pthread_rwlock_unlock.c:11-14; val[t].n stays for the wake
UnlockCas(t) ==
    /\ pc[t] = "ucas"
    /\ \/ /\ Word = val[t]
          /\ cnt' = IF Frees(t) THEN 0 ELSE val[t].n - 1
          /\ wait' = (val[t].f /\ ~Frees(t))
          /\ mode' = [mode EXCEPT ![t] = "none"]
          /\ val' = [val EXCEPT ![t] = IF OwesWake(t) THEN [@ EXCEPT !.f = FALSE]
                                       ELSE NoWord]
          /\ Goto(t, IF OwesWake(t) THEN "uwake" ELSE "idle")
       \/ /\ Word # val[t]
          /\ val' = [val EXCEPT ![t] = NoWord]
          /\ Goto(t, "uread")
          /\ UNCHANGED <<cnt, wait, mode>>
    /\ seen' = [seen EXCEPT ![t] = FALSE]
    /\ UNCHANGED <<waiters, blocking, ok>>

Sleepers == {t \in Threads : pc[t] = "asleep"}

\* pthread_rwlock_unlock.c:15: a writer wakes everybody, a reader one sleeper.
WakesAll(t) == val[t].n = Writer

UnlockWake(t) ==
    /\ pc[t] = "uwake"
    /\ \E W \in SUBSET Sleepers :
          /\ IF WakesAll(t) THEN W = Sleepers
             ELSE IF Sleepers = {} THEN W = {}
             ELSE \E u \in Sleepers : W = {u}
          /\ pc' = [u \in Threads |-> IF u = t THEN "idle"
                                      ELSE IF u \in W THEN "dec" ELSE pc[u]]
          /\ ok' = [u \in Threads |-> ok[u] \/ u \in W]
    /\ val' = [val EXCEPT ![t] = NoWord]
    /\ UNCHANGED <<cnt, wait, waiters, mode, blocking, seen>>

-----------------------------------------------------------------------------
Step(t) ==
    \/ TryRead(t) \/ TryReadCas(t) \/ TryWriteCas(t)
    \/ Look(t) \/ CountIn(t) \/ Mark(t) \/ FutexWait(t) \/ CountOut(t)
    \/ UnlockRead(t) \/ UnlockReadWaiters(t) \/ UnlockCas(t) \/ UnlockWake(t)

Next == \E t \in Threads :
           \/ \E m \in {"r", "w"}, b \in BOOLEAN : Begin(t, m, b)
           \/ Step(t) \/ TimeOut(t) \/ SpuriousWake(t)

Spec == Init /\ [][Next]_vars

\* A thread inside one of the functions that can run is scheduled, and one
\* that holds the lock unlocks it.
Fairness == \A t \in Threads : WF_vars(Step(t))

LiveSpec == Spec /\ Fairness

-----------------------------------------------------------------------------
(* Properties *)

Owning == {"held", "uread", "uwaiters", "ucas"}
Readers == {t \in Threads : pc[t] \in Owning /\ mode[t] = "r"}
Writers == {t \in Threads : pc[t] \in Owning /\ mode[t] = "w"}

\* Threads of a lock function that try again before they may sleep or give up
Retrying == {t \in Threads : \/ pc[t] = "dec" /\ ok[t]
                             \/ pc[t] \in {"rread", "rcas", "wcas", "look"} /\ blocking[t]}

Waking == {t \in Threads : pc[t] = "uwake"}
WakingAll == {t \in Waking : val[t].n = Writer}

\* Every variable stays in its range.
TypeOK ==
    /\ cnt \in 0..Writer
    /\ wait \in BOOLEAN
    /\ waiters \in Int
    /\ pc \in [Threads -> Labels]
    /\ mode \in [Threads -> {"r", "w", "none"}]
    /\ blocking \in [Threads -> BOOLEAN]
    /\ val \in [Threads -> Words]
    /\ seen \in [Threads -> BOOLEAN]
    /\ ok \in [Threads -> BOOLEAN]

\* _rw_lock is the number of readers, or the writer's value while the one
\* writer has the lock: readers never add up to the writer's value.
WordCountsHolders ==
    \/ Writers = {} /\ cnt = Cardinality(Readers) /\ cnt # Writer
    \/ Readers = {} /\ cnt = Writer /\ \E t \in Threads : Writers = {t}

\* Nobody sleeps on a free lock, unless a thread is about to wake a sleeper
\* or to try for the lock itself.
NoLostWake == Sleepers # {} /\ cnt = 0 => Waking # {} \/ Retrying # {}

\* A reader sleeps only while a writer has the lock, or one that had it is
\* about to wake everybody: a reader's unlock, which wakes one thread, never
\* has to find the right one.
ReadersSleepForWriters ==
    (\E t \in Sleepers : mode[t] = "r") => cnt = Writer \/ WakingAll # {}

Abs == INSTANCE AbstractRWLock WITH
           askR <- {t \in Threads : mode[t] = "r" /\ pc[t] \notin Owning},
           askW <- {t \in Threads : mode[t] = "w" /\ pc[t] \notin Owning},
           readers <- Readers, writers <- Writers

\* The functions implement the abstract lock: readers share it, a writer has
\* it alone.
ImplementsRWLock == Abs!Spec

\* A thread that sleeps is not forgotten on a lock it could have: a reader
\* while no writer has the lock, a writer while nobody has it.
Available(t) == IF mode[t] = "r" THEN cnt # Writer ELSE cnt = 0

SleepersServed ==
    /\ \A t \in Threads : (mode[t] = "r" /\ pc[t] = "asleep" /\ Available(t))
                             ~> ~(pc[t] = "asleep" /\ Available(t))
    /\ (Sleepers # {} /\ cnt = 0) ~> ~(Sleepers # {} /\ cnt = 0)
=============================================================================
