-------------------------------- MODULE Fork --------------------------------
(***************************************************************************)
(* fork in a process with several threads: the locks of the library that   *)
(* it takes, in which order, against what the rest of the library takes    *)
(* while it holds others; and what the child finds.  A thread makes one    *)
(* call.  A call is the sequence of its lock operations; what it does in   *)
(* between is left out.  The locks are InternalLock, Mutex and RWLock,     *)
(* taken in one step.  An atfork handler has been registered (funcs is not *)
(* null).                                                                  *)
(***************************************************************************)
EXTENDS LockOrder, FiniteSets

CONSTANTS Threads,
          Forkers   \* threads that call fork; the others make any call

VARIABLES call,     \* the call each thread makes
          at,       \* how many of its lock operations are done
          held,     \* for each lock, the threads in it, with their mode
          child     \* what the child of each fork finds

vars == <<call, at, held, child>>

-----------------------------------------------------------------------------
NoChild == [locks |-> [l \in Locks |-> {}], torn |-> {}]

Init ==
    /\ call \in {f \in [Threads -> DOMAIN Script] : \A t \in Forkers : f[t] = "fork"}
    /\ at = [t \in Threads |-> 0]
    /\ held = [l \in Locks |-> {}]
    /\ child = [t \in Threads |-> NoChild]

Done(t) == at[t] = Len(Script[call[t]])
Op(t) == Script[call[t]][at[t] + 1]

Others(t, l) == {h \in held[l] : h.who # t}
Open(t) ==
    CASE Op(t).do = "take" -> held[Op(t).lock] = {}
      [] Op(t).do = "read" -> \A h \in held[Op(t).lock] : h.mode = "read"
      [] Op(t).do = "wait" -> Others(t, Op(t).lock) = {}
      [] OTHER -> TRUE

\* Locks that _Fork or fork set to their initial state in the child
Reset == {"tl", "aio", "vm", "malloc", "key"} \cup ToSet(atfork_locks)

\* Variant: the child unlocks key_lock as the parent does.
ChildFindsKey(t) ==
    [locks |-> [l \in Locks |-> IF l \in Reset \ {"key"} THEN {} ELSE Others(t, l)],
     torn |-> {l \in Locks : \E h \in Others(t, l) : h.mode = "take"}]

\* The child, once fork has returned in it: the locks as the parent had them,
\* reset or unlocked; and the locks in which another thread was at work.
ChildFinds(t) ==
    [locks |-> [l \in Locks |-> IF l \in Reset THEN {} ELSE Others(t, l)],
     torn |-> {l \in Locks : \E h \in Others(t, l) : h.mode = "take"}]

Step(t) ==
    /\ ~Done(t) /\ Open(t)
    /\ at' = [at EXCEPT ![t] = @ + 1]
    /\ held' = IF Op(t).do \in {"take", "read"}
               THEN [held EXCEPT ![Op(t).lock] = @ \cup {[who |-> t, mode |-> Op(t).do]}]
               ELSE IF Op(t).do = "drop" THEN [held EXCEPT ![Op(t).lock] = Others(t, Op(t).lock)]
               ELSE held
    /\ child' = IF Op(t).do = "fork" THEN [child EXCEPT ![t] = ChildFinds(t)] ELSE child
    /\ UNCHANGED call

Next == \E t \in Threads : Step(t)
Spec == Init /\ [][Next]_vars

-----------------------------------------------------------------------------
\* fork takes a dozen locks, others take one while they hold another: nobody
\* ever waits for each other in a ring, whatever the threads are doing.
NoRing == (\E t \in Threads : ~Done(t)) => \E t \in Threads : ~Done(t) /\ Open(t)

\* The child finds every lock free, although readers that do not exist in it
\* may have been in some, and no other thread was changing what a lock guards
\* when the memory was copied.
ChildStartsFree ==
    \A t \in Threads : child[t] = NoChild
=============================================================================
