---------------------------- MODULE AbstractLock ----------------------------
(***************************************************************************)
(* What every lock of the library promises its callers: a thread asks for  *)
(* it, at most one thread is granted it, and the lock is granted again     *)
(* whenever it is free and somebody is asking.  Nothing is promised about  *)
(* the order of the grants: all the locks of the library let a newcomer    *)
(* overtake the threads that sleep.                                        *)
(***************************************************************************)
CONSTANTS Threads, NoThread

VARIABLES asking,     \* threads inside the lock function
          holder      \* the thread between lock and unlock, or NoThread

vars == <<asking, holder>>

Init == asking = {} /\ holder = NoThread

Ask(t) ==
    /\ t \notin asking /\ holder # t
    /\ asking' = asking \cup {t}
    /\ UNCHANGED holder

Grant(t) ==
    /\ t \in asking /\ holder = NoThread
    /\ asking' = asking \ {t}
    /\ holder' = t

\* Lock function that finds the lock free and returns at once.
AskAndGrant(t) ==
    /\ t \notin asking /\ holder = NoThread
    /\ holder' = t
    /\ UNCHANGED asking

\* Lock function that gives up: trylock, a timeout, an error return.
GiveUp(t) ==
    /\ t \in asking
    /\ asking' = asking \ {t}
    /\ UNCHANGED holder

Release(t) ==
    /\ holder = t
    /\ holder' = NoThread
    /\ UNCHANGED asking

Next == \E t \in Threads :
           Ask(t) \/ Grant(t) \/ AskAndGrant(t) \/ GiveUp(t) \/ Release(t)

Spec == Init /\ [][Next]_vars

\* A free lock somebody keeps asking for is granted; a holder lets it go.
Fairness == /\ WF_vars(\E t \in Threads : Grant(t))
            /\ \A t \in Threads : WF_vars(Release(t))

LiveSpec == Spec /\ Fairness
=============================================================================
