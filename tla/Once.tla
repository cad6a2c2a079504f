-------------------------------- MODULE Once --------------------------------
(***************************************************************************)
(* pthread_once.c.  The control word is 0 (nobody has begun), 1 (a thread  *)
(* runs init), 3 (the same, and somebody waits) or 2 (done).  A thread     *)
(* cancelled in init puts the word back to 0.                              *)
(***************************************************************************)
EXTENDS Naturals

CONSTANT Threads

VARIABLES control,
          pc,      \* "idle" between calls, "gone" once cancelled in init
          ran      \* how often init has run to its end (history)

vars == <<control, pc, ran>>

Labels == {"idle", "cas", "mark", "fwait", "asleep", "init", "finish",
           "undo", "wake", "wakeundo", "returned", "gone"}

Init ==
    /\ control = 0
    /\ pc = [t \in Threads |-> "idle"]
    /\ ran = 0

Goto(t, label) == pc' = [pc EXCEPT ![t] = label]

\* Variant: any value but 0 is taken for "done" on the fast path.
CallHasty(t) ==
    /\ pc[t] \in {"idle", "returned"}
    /\ Goto(t, IF control # 0 THEN "returned" ELSE "cas")
    /\ UNCHANGED <<control, ran>>

\* __pthread_once: the fast path, or __pthread_once_full
Call(t) ==
    /\ pc[t] \in {"idle", "returned"}
    /\ Goto(t, IF control = 2 THEN "returned" ELSE "cas")
    /\ UNCHANGED <<control, ran>>

\* The switch on a_cas(control, 0, 1)
Enter(t) ==
    /\ pc[t] = "cas"
    /\ control' = IF control = 0 THEN 1 ELSE control
    /\ Goto(t, CASE control = 0 -> "init"
                 [] control = 1 -> "mark"
                 [] control = 2 -> "returned"
                 [] control = 3 -> "fwait")
    /\ UNCHANGED ran

\* a_cas(control, 1, 3)
MarkWaiter(t) ==
    /\ pc[t] = "mark"
    /\ control' = IF control = 1 THEN 3 ELSE control
    /\ Goto(t, "fwait")
    /\ UNCHANGED ran

\* __wait(control, 0, 3, 1): asleep while the word is 3
FutexWait(t) ==
    /\ pc[t] = "fwait"
    /\ Goto(t, IF control = 3 THEN "asleep" ELSE "cas")
    /\ UNCHANGED <<control, ran>>

\* init() returns
InitReturns(t) ==
    /\ pc[t] = "init"
    /\ ran' = ran + 1
    /\ Goto(t, "finish")
    /\ UNCHANGED control

\* The thread is cancelled, or exits, in init(): the cleanup handler runs.
InitCancelled(t) ==
    /\ pc[t] = "init"
    /\ Goto(t, "undo")
    /\ UNCHANGED <<control, ran>>

\* a_swap(control, 2)
Finish(t) ==
    /\ pc[t] = "finish"
    /\ control' = 2
    /\ Goto(t, IF control = 3 THEN "wake" ELSE "returned")
    /\ UNCHANGED ran


\* undo: a_swap(control, 0)
Undo(t) ==
    /\ pc[t] = "undo"
    /\ control' = 0
    /\ Goto(t, IF control = 3 THEN "wakeundo" ELSE "gone")
    /\ UNCHANGED ran

\* __wake(control, -1, 1): the sleepers go back to the test of __wait.
Wake(t) ==
    /\ pc[t] \in {"wake", "wakeundo"}
    /\ pc' = [u \in Threads |->
                CASE u = t /\ pc[t] = "wake" -> "returned"
                  [] u = t /\ pc[t] = "wakeundo" -> "gone"
                  [] u # t /\ pc[u] = "asleep" -> "fwait"
                  [] OTHER -> pc[u]]
    /\ UNCHANGED <<control, ran>>

\* What a thread inside the call does by itself
Step(t) ==
    \/ Enter(t) \/ MarkWaiter(t) \/ FutexWait(t) \/ InitReturns(t)
    \/ Finish(t) \/ Undo(t) \/ Wake(t)

Next == \E t \in Threads : Call(t) \/ InitCancelled(t) \/ Step(t)

Fairness == \A t \in Threads : WF_vars(Step(t))

Spec == Init /\ [][Next]_vars
LiveSpec == Spec /\ Fairness

-----------------------------------------------------------------------------
Inside == {"init", "finish", "undo"}

TypeOK ==
    /\ control \in 0..3
    /\ pc \in [Threads -> Labels]
    /\ ran \in Nat

\* The word says what is going on, and who sleeps on it: a thread is inside
\* init exactly while the word is 1 or 3, and a thread asleep is one the word
\* tells about or one that is about to be woken.
WordTells ==
    /\ control \in {1, 3} <=> \E t \in Threads : pc[t] \in Inside
    /\ \A t \in Threads : pc[t] = "asleep" =>
          control = 3 \/ \E u \in Threads : pc[u] \in {"wake", "wakeundo"}

\* init runs to its end at most once, by one thread at a time, and nobody
\* returns from pthread_once before it has, however many of the threads that
\* began it were cancelled.
InitOnce ==
    /\ ran <= 1
    /\ \A t, u \in Threads : pc[t] \in Inside /\ pc[u] \in Inside => t = u
    /\ \A t \in Threads : pc[t] = "returned" => ran = 1

\* No call is under way.
Served == \A t \in Threads : pc[t] \in {"idle", "returned", "gone"}

=============================================================================
