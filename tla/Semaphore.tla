----------------------------- MODULE Semaphore -----------------------------
(***************************************************************************)
(* Unnamed semaphores: sem_post.c, sem_trywait.c, sem_timedwait.c,         *)
(* sem_wait.c, sem_getvalue.c and the futex wait of __timedwait.c.         *)
(*                                                                         *)
(* __val[0] is a count (value) with a "there may be sleepers" bit in its   *)
(* sign (flag); one compare-and-swap reads or writes both.  __val[1] is    *)
(* the number of threads around the futex call (waiters).  Every action is *)
(* one access to shared memory or one futex call.                          *)
(*                                                                         *)
(* A thread cancelled in the futex call runs the cleanup handler and ends; *)
(* another thread may take its place, so cancellation is one more way for  *)
(* sem_timedwait to give up.                                               *)
(***************************************************************************)
EXTENDS Integers, FiniteSets

CONSTANTS Threads,
          Max          \* SEM_VALUE_MAX

ASSUME ThreadsAssumption == IsFiniteSet(Threads)
ASSUME MaxAssumption == Max \in Nat \ {0}

VARIABLES
    value,    \* __val[0] & SEM_VALUE_MAX
    flag,     \* __val[0] < 0
    waiters,  \* __val[1]
    pc,
    kind,     \* "wait" in sem_timedwait, "try" in a direct sem_trywait
    val,      \* local val of sem_trywait and sem_post: [n: count, f: flag]
    lw,       \* local waiters of sem_post
    ok        \* the futex call of sem_timedwait returned 0

vars == <<value, flag, waiters, pc, kind, val, lw, ok>>

Labels == {"idle",
           "tread", "tcas",        \* sem_trywait.c:8, 9
           "inc", "setflag",       \* sem_timedwait.c:22, 23
           "fwait", "asleep",      \* sem_timedwait.c:25 before and in the kernel
           "dec",                  \* sem_timedwait.c:26
           "pread", "pwaiters",    \* sem_post.c:9, 10
           "pcas", "pwake"}        \* sem_post.c:18, 19

Words == [n : 0..Max, f : BOOLEAN]
NoWord == [n |-> 0, f |-> FALSE]

\* sem_init
Init ==
    /\ value \in 0..Max
    /\ flag = FALSE
    /\ waiters = 0
    /\ pc = [t \in Threads |-> "idle"]
    /\ kind = [t \in Threads |-> "try"]
    /\ val = [t \in Threads |-> NoWord]
    /\ lw = [t \in Threads |-> 0]
    /\ ok = [t \in Threads |-> FALSE]

Goto(t, label) == pc' = [pc EXCEPT ![t] = label]

\* Variant: a store in place of the compare-and-swap.
Overwrites(t) == TRUE

\* The compare-and-swap of a thread finds the word it read before.
Unchanged(t) == value = val[t].n /\ flag = val[t].f

sem_getvalue == value

-----------------------------------------------------------------------------
(* sem_trywait, sem_wait and sem_timedwait *)

\* Entering sem_trywait directly, or sem_timedwait, which tries it first.
Begin(t, k) ==
    /\ pc[t] = "idle"
    /\ kind' = [kind EXCEPT ![t] = k]
    /\ Goto(t, "tread")
    /\ UNCHANGED <<value, flag, waiters, val, lw, ok>>

\* sem_trywait.c:8; a zero count ends sem_trywait with EAGAIN.
TryRead(t) ==
    /\ pc[t] = "tread"
    /\ val' = [val EXCEPT ![t] = IF value > 0 THEN [n |-> value, f |-> flag] ELSE NoWord]
    /\ Goto(t, IF value > 0 THEN "tcas"
               ELSE IF kind[t] = "wait" THEN "inc" ELSE "idle")
    /\ UNCHANGED <<value, flag, waiters, kind, lw, ok>>

\* sem_trywait.c:9
TryCas(t) ==
    /\ pc[t] = "tcas"
    /\ val' = [val EXCEPT ![t] = NoWord]
    /\ \/ /\ Unchanged(t)
          /\ value' = val[t].n - 1
          /\ kind' = [kind EXCEPT ![t] = "try"]
          /\ Goto(t, "idle")
       \/ /\ ~Unchanged(t)
          /\ Goto(t, "tread")
          /\ UNCHANGED <<value, kind>>
    /\ UNCHANGED <<flag, waiters, lw, ok>>

\* sem_timedwait.c:22
CountIn(t) ==
    /\ pc[t] = "inc"
    /\ waiters' = waiters + 1
    /\ Goto(t, "setflag")
    /\ UNCHANGED <<value, flag, kind, val, lw, ok>>

\* sem_timedwait.c:23
SetFlag(t) ==
    /\ pc[t] = "setflag"
    /\ flag' = (flag \/ value = 0)
    /\ Goto(t, "fwait")
    /\ UNCHANGED <<value, waiters, kind, val, lw, ok>>

\* Variant: sleep without comparing.
FutexWaitBlind(t) ==
    /\ pc[t] = "fwait"
    /\ Goto(t, "asleep")
    /\ UNCHANGED <<value, flag, waiters, kind, val, lw, ok>>

\* sem_timedwait.c:25: the kernel puts the thread to sleep if the word still
\* is a flagged zero.
FutexWait(t) ==
    /\ pc[t] = "fwait"
    /\ \/ /\ value = 0 /\ flag
          /\ Goto(t, "asleep")
          /\ UNCHANGED ok
       \/ /\ ~(value = 0 /\ flag)
          /\ ok' = [ok EXCEPT ![t] = TRUE]
          /\ Goto(t, "dec")
    /\ UNCHANGED <<value, flag, waiters, kind, val, lw>>

\* __timedwait.c:49-66: the deadline is invalid or has passed, or passes
\* during the sleep; a signal handler interrupts it; the thread is cancelled.
Interrupted(t) ==
    /\ pc[t] \in {"fwait", "asleep"}
    /\ Goto(t, "dec")
    /\ UNCHANGED <<value, flag, waiters, kind, val, lw, ok>>

\* __timedwait.c:61-66: a futex call that fails for a reason that does not
\* count returns 0 without having been woken.
SpuriousWake(t) ==
    /\ pc[t] = "asleep"
    /\ ok' = [ok EXCEPT ![t] = TRUE]
    /\ Goto(t, "dec")
    /\ UNCHANGED <<value, flag, waiters, kind, val, lw>>

\* sem_timedwait.c:26-31, also as the cancellation cleanup of line 5
CountOut(t) ==
    /\ pc[t] = "dec"
    /\ waiters' = waiters - 1
    /\ ok' = [ok EXCEPT ![t] = FALSE]
    /\ kind' = [kind EXCEPT ![t] = IF ok[t] THEN @ ELSE "try"]
    /\ Goto(t, IF ok[t] THEN "tread" ELSE "idle")
    /\ UNCHANGED <<value, flag, val, lw>>

-----------------------------------------------------------------------------
(* sem_post *)

\* sem_post.c:9, entering the function or repeating its loop
PostRead(t) ==
    /\ pc[t] \in {"idle", "pread"}
    /\ val' = [val EXCEPT ![t] = [n |-> value, f |-> flag]]
    /\ Goto(t, "pwaiters")
    /\ UNCHANGED <<value, flag, waiters, kind, lw, ok>>

\* sem_post.c:10-14: a full semaphore is left alone, EOVERFLOW.
PostReadWaiters(t) ==
    /\ pc[t] = "pwaiters"
    /\ \/ /\ val[t].n = Max
          /\ val' = [val EXCEPT ![t] = NoWord]
          /\ Goto(t, "idle")
          /\ UNCHANGED lw
       \/ /\ val[t].n # Max
          /\ lw' = [lw EXCEPT ![t] = waiters]
          /\ Goto(t, "pcas")
          /\ UNCHANGED val
    /\ UNCHANGED <<value, flag, waiters, kind, ok>>

\* Variant: only a counted waiter is woken, the flag is not consulted.
PostCasCounted(t) ==
    /\ pc[t] = "pcas"
    /\ \/ /\ Unchanged(t)
          /\ value' = val[t].n + 1
          /\ flag' = (val[t].f /\ lw[t] > 1)
          /\ Goto(t, IF lw[t] # 0 THEN "pwake" ELSE "idle")
          /\ UNCHANGED lw
       \/ /\ ~Unchanged(t)
          /\ lw' = [lw EXCEPT ![t] = 0]
          /\ Goto(t, "pread")
          /\ UNCHANGED <<value, flag>>
    /\ val' = [val EXCEPT ![t] = NoWord]
    /\ UNCHANGED <<waiters, kind, ok>>

\* sem_post.c:15-18: with at most one waiter the flag goes.
PostCas(t) ==
    /\ pc[t] = "pcas"
    /\ \/ /\ Unchanged(t)
          /\ value' = val[t].n + 1
          /\ flag' = (val[t].f /\ lw[t] > 1)
          /\ Goto(t, IF val[t].f \/ lw[t] # 0 THEN "pwake" ELSE "idle")
          /\ UNCHANGED lw
       \/ /\ ~Unchanged(t)
          /\ lw' = [lw EXCEPT ![t] = 0]
          /\ Goto(t, "pread")
          /\ UNCHANGED <<value, flag>>
    /\ val' = [val EXCEPT ![t] = NoWord]
    /\ UNCHANGED <<waiters, kind, ok>>

\* sem_post.c:19: wake one sleeper, or all of them when the flag was dropped.
WakesAll(t) == lw[t] <= 1
Sleepers == {t \in Threads : pc[t] = "asleep"}

PostWake(t) ==
    /\ pc[t] = "pwake"
    /\ \E W \in SUBSET Sleepers :
          /\ IF WakesAll(t) THEN W = Sleepers
             ELSE IF Sleepers = {} THEN W = {}
             ELSE \E u \in Sleepers : W = {u}
          /\ pc' = [u \in Threads |-> IF u = t THEN "idle"
                                      ELSE IF u \in W THEN "dec" ELSE pc[u]]
          /\ ok' = [u \in Threads |-> ok[u] \/ u \in W]
    /\ lw' = [lw EXCEPT ![t] = 0]
    /\ UNCHANGED <<value, flag, waiters, kind, val>>

-----------------------------------------------------------------------------
Step(t) ==
    \/ TryRead(t) \/ TryCas(t)
    \/ CountIn(t) \/ SetFlag(t) \/ FutexWait(t) \/ CountOut(t)
    \/ (pc[t] = "pread" /\ PostRead(t))
    \/ PostReadWaiters(t) \/ PostCas(t) \/ PostWake(t)

Next == \E t \in Threads :
           \/ \E k \in {"wait", "try"} : Begin(t, k)
           \/ PostRead(t)
           \/ Step(t) \/ Interrupted(t) \/ SpuriousWake(t)

Spec == Init /\ [][Next]_vars

\* A thread inside one of the functions that can run is scheduled.
Fairness == \A t \in Threads : WF_vars(Step(t))

LiveSpec == Spec /\ Fairness

-----------------------------------------------------------------------------
(* Properties *)

\* The counted threads: from line 22 of sem_timedwait to line 26.
Counted == {t \in Threads : pc[t] \in {"setflag", "fwait", "asleep", "dec"}}

\* Threads of sem_timedwait that are bound to try again before they may sleep
\* or give up.
Retrying == {t \in Threads : \/ pc[t] = "dec" /\ ok[t]
                             \/ pc[t] \in {"tread", "tcas"} /\ kind[t] = "wait"}

\* Posters that still owe a wake-up: to everybody, or to one sleeper.
WakingAll == {t \in Threads : pc[t] = "pwake" /\ WakesAll(t)}
WakingOne == {t \in Threads : pc[t] = "pwake" /\ ~WakesAll(t)}

\* Every variable stays in its range; in particular no interleaving of posts
\* drives the count beyond SEM_VALUE_MAX into the flag bit.
TypeOK ==
    /\ value \in 0..Max
    /\ flag \in BOOLEAN
    /\ waiters \in Int
    /\ pc \in [Threads -> Labels]
    /\ kind \in [Threads -> {"wait", "try"}]
    /\ val \in [Threads -> Words]
    /\ lw \in [Threads -> Nat]
    /\ ok \in [Threads -> BOOLEAN]

\* __val[1] counts exactly the threads around the futex call, also when they
\* time out, are interrupted or are cancelled there.
WaitersCounted == waiters = Cardinality(Counted)

\* Whoever sleeps is announced by the flag, or a poster that dropped the flag
\* is about to wake everybody.
SleepersAnnounced == Sleepers # {} => flag \/ WakingAll # {}

\* sem_post.c:16-19: while somebody sleeps, every unit of the count has a
\* thread that is awake for it or a wake-up on its way.
WakesCoverValue ==
    Sleepers # {} => \/ WakingAll # {}
                     \/ value <= Cardinality(Retrying) + Cardinality(WakingOne)

Abs == INSTANCE AbstractSemaphore WITH
           count <- sem_getvalue,
           waiting <- {t \in Threads : kind[t] = "wait"}

\* The semaphore functions implement the abstract semaphore: the count changes
\* by one per post and per successful wait and nothing else changes it.
ImplementsSemaphore == Abs!Spec

\* No post is lost on the sleepers: a positive count somebody waits for is
\* eventually taken.
ServesWaiters == Abs!Fairness
=============================================================================
