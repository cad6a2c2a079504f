----------------------------- MODULE OnceProofs -----------------------------
(***************************************************************************)
(* Proofs about pthread_once, for any set of threads.                      *)
(*                                                                         *)
(* InitOnce is not inductive: that init has not run yet when a thread      *)
(* enters it follows from the word, which tells how far the initialisation *)
(* has come.  Progress says what the word and the position of a thread     *)
(* tell about it; WordTells adds that whoever sleeps is remembered.        *)
(***************************************************************************)
EXTENDS Once, TLAPS

\* How far the initialisation has come
Progress ==
    /\ control = 0 => ran = 0
    /\ control = 2 => ran = 1
    /\ \A t \in Threads :
         /\ pc[t] \in {"init", "undo"} => ran = 0
         /\ pc[t] = "finish" => ran = 1
         /\ pc[t] \in {"wake", "returned"} => control = 2

\* The inductive invariant
IInv == TypeOK /\ Progress /\ WordTells /\ InitOnce

-----------------------------------------------------------------------------
\* The invariant holds at first.
LEMMA InitInv == Init => IInv
BY DEF Init, IInv, TypeOK, Progress, WordTells, InitOnce, Labels, Inside

\* A step of pthread_once by any thread preserves it.
LEMMA NextInv == IInv /\ [Next]_vars => IInv'
<1> SUFFICES ASSUME IInv, [Next]_vars PROVE IInv'
    OBVIOUS
<1> USE DEF IInv, TypeOK, Progress, WordTells, InitOnce, Inside, Goto
<1>1. ASSUME NEW t \in Threads, Call(t) PROVE IInv'
      BY <1>1 DEF Call, Labels
<1>2. ASSUME NEW t \in Threads, Enter(t) PROVE IInv'
      BY <1>2 DEF Enter, Labels
<1>3. ASSUME NEW t \in Threads, MarkWaiter(t) PROVE IInv'
      BY <1>3 DEF MarkWaiter, Labels
<1>4. ASSUME NEW t \in Threads, FutexWait(t) PROVE IInv'
      BY <1>4 DEF FutexWait, Labels
<1>5. ASSUME NEW t \in Threads, InitReturns(t) PROVE IInv'
      BY <1>5 DEF InitReturns, Labels
<1>6. ASSUME NEW t \in Threads, InitCancelled(t) PROVE IInv'
      BY <1>6 DEF InitCancelled, Labels
<1>7. ASSUME NEW t \in Threads, Finish(t) PROVE IInv'
      BY <1>7 DEF Finish, Labels
<1>8. ASSUME NEW t \in Threads, Undo(t) PROVE IInv'
      BY <1>8 DEF Undo, Labels
<1>9. ASSUME NEW t \in Threads, Wake(t) PROVE IInv'
      BY <1>9 DEF Wake, Labels
<1>10. CASE UNCHANGED vars
      BY <1>10 DEF vars
<1> QED
    BY <1>1, <1>2, <1>3, <1>4, <1>5, <1>6, <1>7, <1>8, <1>9, <1>10 DEF Next, Step

-----------------------------------------------------------------------------
\* The inductive invariant holds in every reachable state.
THEOREM Invariance == Spec => []IInv
BY InitInv, NextInv, PTL DEF Spec

\* init runs to its end at most once, by one thread at a time, and nobody
\* returns from pthread_once before it has.
THEOREM InitRunsOnce == Spec => []InitOnce
BY Invariance, PTL DEF IInv

\* The control word tells whether a thread is inside init, and no sleeper is
\* forgotten: the word is 3 while a thread sleeps, or the thread that took the
\* 3 away is about to wake all.
THEOREM SleepersRemembered == Spec => []WordTells
BY Invariance, PTL DEF IInv
=============================================================================
