------------------------- MODULE AbstractSemaphore -------------------------
(***************************************************************************)
(* What a POSIX semaphore promises: a count that posting raises by one and *)
(* a successful wait lowers by one, never below zero nor above Max.        *)
(***************************************************************************)
EXTENDS Naturals

CONSTANTS Threads, Max

VARIABLES count,     \* what sem_getvalue reports
          waiting    \* threads inside sem_wait or sem_timedwait

vars == <<count, waiting>>

Init == count \in 0..Max /\ waiting = {}

Post == /\ count < Max
        /\ count' = count + 1
        /\ UNCHANGED waiting

Begin(t) == /\ t \notin waiting
            /\ waiting' = waiting \cup {t}
            /\ UNCHANGED count

Take(t) == /\ t \in waiting /\ count > 0
           /\ count' = count - 1
           /\ waiting' = waiting \ {t}

\* sem_trywait that finds the count positive
TryTake == /\ count > 0
           /\ count' = count - 1
           /\ UNCHANGED waiting

\* Timeout, interrupted wait, cancelled thread
GiveUp(t) == /\ t \in waiting
             /\ waiting' = waiting \ {t}
             /\ UNCHANGED count

Next == Post \/ TryTake \/ \E t \in Threads : Begin(t) \/ Take(t) \/ GiveUp(t)

Spec == Init /\ [][Next]_vars

\* A positive count is not left unused while threads wait for it.  A thread
\* may be overtaken, by other waiters or by sem_trywait, any number of times.
Consume == waiting # {} /\ (TryTake \/ \E t \in Threads : Take(t))
Fairness == WF_vars(Consume)
=============================================================================
