------------------------------ MODULE CondVar ------------------------------
(***************************************************************************)
(* Process-private condition variables: pthread_cond_timedwait.c, with the *)
(* signal and broadcast of the same file (__private_cond_signal), used     *)
(* with one normal mutex.                                                  *)
(*                                                                         *)
(* A waiting thread has a node (prev, next, state, barrier, notify) on its *)
(* stack.  The nodes of the condition variable form a list, newest at the  *)
(* head; signal and broadcast detach the oldest, and the threads of a      *)
(* detached group take the mutex one after the other: each opens the       *)
(* barrier of the next younger one and moves it from the futex of its      *)
(* barrier to the futex of the mutex.                                      *)
(*                                                                         *)
(* The lock of the condition variable (lines 33-46) is a flag here: what   *)
(* is done under it in waiting is one step, the scan of signal is one step *)
(* per node.  The mutex is the one of module Mutex for the normal type:    *)
(* its word is "free", "held" or "waited" (EBUSY with the sign bit).       *)
(* The value a wait returns (lines 102, 145 and 162-171) is left out: the  *)
(* caller holds the mutex in every case.                                   *)
(***************************************************************************)
EXTENDS Integers, FiniteSets

CONSTANTS Threads, Nobody,
          Waiters, Signallers,  \* the threads that wait, that signal
          Calls                 \* bound on the locks, waits and signals of each thread

VARIABLES
    locked,             \* _c_lock is held, by a signaller that scans the list
    head, tail,         \* _c_head, _c_tail
    prev, next, state, barrier, notify,     \* the nodes
    mlock, mwaiters,    \* _m_lock, _m_waiters
    pc,
    r,                  \* the mutex word a thread read in timedlock
    seen,               \* unlock saw waiters
    back,               \* where a thread goes when a call returns
    p, n, first, ref,   \* locals of signal
    called,             \* the thread that waited when the signaller took the lock
    calls               \* calls a thread has made

cv == <<locked, head, tail>>
nodes == <<prev, next, state, barrier, notify>>
mutex == <<mlock, mwaiters>>
mlocals == <<r, seen, back>>
slocals == <<p, n, first, ref, called>>
vars == <<cv, nodes, mutex, pc, mlocals, slocals, calls>>

Init ==
    /\ locked = FALSE
    /\ head = Nobody /\ tail = Nobody
    /\ prev = [t \in Threads |-> Nobody]
    /\ next = [t \in Threads |-> Nobody]
    /\ state = [t \in Threads |-> "none"]
    /\ barrier = [t \in Threads |-> 0]
    /\ notify = [t \in Threads |-> Nobody]
    /\ mlock = "free" /\ mwaiters = 0
    /\ pc = [t \in Threads |-> "idle"]
    /\ r = [t \in Threads |-> "free"]
    /\ seen = [t \in Threads |-> FALSE]
    /\ back = [t \in Threads |-> "idle"]
    /\ p = [t \in Threads |-> Nobody]
    /\ n = [t \in Threads |-> 0]
    /\ first = [t \in Threads |-> Nobody]
    /\ ref = [t \in Threads |-> 0]
    /\ called = [t \in Threads |-> {}]
    /\ calls = [t \in Threads |-> 0]

Goto(t, label) == pc' = [pc EXCEPT ![t] = label]
At(label) == {t \in Threads : pc[t] = label}
Count(t) == /\ calls[t] < Calls[t]
            /\ calls' = [calls EXCEPT ![t] = @ + 1]

-----------------------------------------------------------------------------
(* The mutex: pthread_mutex_lock, _timedlock, _unlock for the normal type *)

Lock(t) ==
    /\ pc[t] = "idle" /\ t \in Waiters /\ Count(t)
    /\ back' = [back EXCEPT ![t] = "held"]
    /\ Goto(t, "attempt")
    /\ UNCHANGED <<cv, nodes, mutex, r, seen, slocals>>

\* timedlock.c:61, 78
MutexAttempt(t) ==
    /\ pc[t] = "attempt"
    /\ \/ /\ mlock = "free"
          /\ mlock' = "held"
          /\ Goto(t, back[t])
          /\ back' = [back EXCEPT ![t] = "idle"]
       \/ /\ mlock # "free"
          /\ Goto(t, "read")
          /\ UNCHANGED <<mlock, back>>
    /\ UNCHANGED <<cv, nodes, mwaiters, r, seen, slocals, calls>>

\* timedlock.c:79-82
MutexRead(t) ==
    /\ pc[t] = "read"
    /\ r' = [r EXCEPT ![t] = mlock]
    /\ Goto(t, IF mlock = "free" THEN "attempt" ELSE "count in")
    /\ UNCHANGED <<cv, nodes, mutex, seen, back, slocals, calls>>

\* timedlock.c:87
MutexCountIn(t) ==
    /\ pc[t] = "count in"
    /\ mwaiters' = mwaiters + 1
    /\ Goto(t, "mark")
    /\ UNCHANGED <<cv, nodes, mlock, mlocals, slocals, calls>>

\* timedlock.c:88-89
MutexMark(t) ==
    /\ pc[t] = "mark"
    /\ mlock' = IF mlock = r[t] THEN "waited" ELSE mlock
    /\ r' = [r EXCEPT ![t] = "free"]
    /\ Goto(t, "futex")
    /\ UNCHANGED <<cv, nodes, mwaiters, seen, back, slocals, calls>>

\* timedlock.c:90
MutexWait(t) ==
    /\ pc[t] = "futex"
    /\ Goto(t, IF mlock = "waited" THEN "mutex sleep" ELSE "count out")
    /\ UNCHANGED <<cv, nodes, mutex, mlocals, slocals, calls>>

\* timedlock.c:91
MutexCountOut(t) ==
    /\ pc[t] = "count out"
    /\ mwaiters' = mwaiters - 1
    /\ Goto(t, "attempt")
    /\ UNCHANGED <<cv, nodes, mlock, mlocals, slocals, calls>>

\* unlock.c:6, called by the holder or from timedwait.c:95
Unlock(t) ==
    /\ pc[t] \in {"held", "release"}
    /\ seen' = [seen EXCEPT ![t] = mwaiters # 0]
    /\ back' = [back EXCEPT ![t] = IF pc[t] = "held" THEN "idle" ELSE "sleep"]
    /\ Goto(t, "swap")
    /\ UNCHANGED <<cv, nodes, mutex, r, slocals, calls>>

\* unlock.c:57; a variant that trusts the bit in the word alone
MustWakeMarked(t) == mlock = "waited"
MustWake(t) == seen[t] \/ mlock = "waited"

\* unlock.c:49
MutexSwap(t) ==
    /\ pc[t] = "swap"
    /\ mlock' = "free"
    /\ seen' = [seen EXCEPT ![t] = FALSE]
    /\ \/ /\ MustWake(t)
          /\ Goto(t, "wake")
          /\ UNCHANGED back
       \/ /\ ~MustWake(t)
          /\ Goto(t, back[t])
          /\ back' = [back EXCEPT ![t] = "idle"]
    /\ UNCHANGED <<cv, nodes, mwaiters, r, slocals, calls>>

\* unlock.c:58: wake one of those who sleep on the mutex or were moved to it.
MutexSleepers == At("mutex sleep") \cup At("requeued") \cup At("barrier requeued")
AfterWake(t) == CASE pc[t] = "mutex sleep" -> "count out"
                  [] pc[t] = "requeued" -> "cas state"
                  [] pc[t] = "barrier requeued" -> "barrier"

MutexWake(t) ==
    /\ pc[t] = "wake"
    /\ \/ MutexSleepers = {} /\ Goto(t, back[t])
       \/ \E s \in MutexSleepers : pc' = [pc EXCEPT ![s] = AfterWake(s), ![t] = back[t]]
    /\ back' = [back EXCEPT ![t] = "idle"]
    /\ UNCHANGED <<cv, nodes, mutex, r, seen, slocals, calls>>

-----------------------------------------------------------------------------
(* pthread_cond_wait and pthread_cond_timedwait *)

\* timedwait.c:82-92: the node becomes the head of the list.
Enqueue(t) ==
    /\ pc[t] = "held" /\ ~locked /\ Count(t)
    /\ state' = [state EXCEPT ![t] = "waiting"]
    /\ barrier' = [barrier EXCEPT ![t] = 2]
    /\ next' = [next EXCEPT ![t] = head]
    /\ head' = t
    /\ IF tail = Nobody
       THEN tail' = t /\ UNCHANGED prev
       ELSE prev' = [prev EXCEPT ![head] = t] /\ UNCHANGED tail
    /\ called' = [s \in Threads |-> called[s] \ {t}]
    /\ Goto(t, "release")
    /\ UNCHANGED <<locked, notify, mutex, mlocals, p, n, first, ref>>

\* timedwait.c:100: the futex is the barrier of the node.
TimedWait(t) ==
    /\ pc[t] = "sleep"
    /\ Goto(t, IF barrier[t] = 2 THEN "asleep" ELSE "cas state")
    /\ UNCHANGED <<cv, nodes, mutex, mlocals, slocals, calls>>

\* timedwait.c:100-102: a timeout or a cancellation ends the wait.
GiveUp(t) ==
    /\ pc[t] \in {"sleep", "asleep", "requeued"}
    /\ Goto(t, "cas state")
    /\ UNCHANGED <<cv, nodes, mutex, mlocals, slocals, calls>>

\* A stray wake or a signal handler; the wait goes on if the barrier is shut.
SpuriousWake(t) ==
    /\ \/ pc[t] = "asleep" /\ Goto(t, "sleep")
       \/ pc[t] = "barrier asleep" /\ Goto(t, "barrier")
       \/ pc[t] \in {"requeued", "barrier requeued"} /\ Goto(t, AfterWake(t))
    /\ UNCHANGED <<cv, nodes, mutex, mlocals, slocals, calls>>

\* timedwait.c:115
CasState(t) ==
    /\ pc[t] = "cas state"
    /\ \/ /\ state[t] = "waiting"
          /\ state' = [state EXCEPT ![t] = "leaving"]
          /\ Goto(t, "leave")
       \/ /\ state[t] # "waiting"
          /\ Goto(t, "barrier")
          /\ UNCHANGED state
    /\ UNCHANGED <<cv, prev, next, barrier, notify, mutex, mlocals, slocals, calls>>

\* timedwait.c:145, the call
Relock(t) ==
    /\ back' = [back EXCEPT ![t] = "relocked"]
    /\ Goto(t, "attempt")

\* timedwait.c:127; a variant that leaves the tail dangling
TailKept(t) == tail
TailWithout(t) == IF tail = t THEN prev[t] ELSE tail

\* timedwait.c:123-132
Leave(t) ==
    /\ pc[t] = "leave" /\ ~locked
    /\ head' = IF head = t THEN next[t] ELSE head
    /\ next' = IF head # t /\ prev[t] # Nobody
               THEN [next EXCEPT ![prev[t]] = next[t]] ELSE next
    /\ tail' = TailWithout(t)
    /\ prev' = IF tail # t /\ next[t] # Nobody
               THEN [prev EXCEPT ![next[t]] = prev[t]] ELSE prev
    /\ IF notify[t] # Nobody THEN Goto(t, "notify") /\ UNCHANGED back ELSE Relock(t)
    /\ UNCHANGED <<locked, state, barrier, notify, mutex, r, seen, slocals, calls>>

\* timedwait.c:133
LastReference(t) == ref[notify[t]] = 1

Notify(t) ==
    /\ pc[t] = "notify"
    /\ ref' = [ref EXCEPT ![notify[t]] = @ - 1]
    /\ IF LastReference(t) THEN Goto(t, "notify wake") /\ UNCHANGED back ELSE Relock(t)
    /\ UNCHANGED <<cv, nodes, mutex, r, seen, p, n, first, called, calls>>

\* timedwait.c:134; the signaller may have returned by now, the wake is then
\* one that nobody waits for.
NotifyWake(t) ==
    /\ pc[t] = "notify wake"
    /\ pc' = [pc EXCEPT ![t] = "attempt",
                        ![notify[t]] = IF @ = "ref asleep" THEN "ref" ELSE @]
    /\ back' = [back EXCEPT ![t] = "relocked"]
    /\ UNCHANGED <<cv, nodes, mutex, r, seen, slocals, calls>>

\* timedwait.c:138: lock(&node.barrier); nobody else locks it.
Barrier(t) ==
    /\ pc[t] = "barrier"
    /\ IF barrier[t] # 0 THEN Goto(t, "barrier asleep") /\ UNCHANGED back ELSE Relock(t)
    /\ UNCHANGED <<cv, nodes, mutex, r, seen, slocals, calls>>

\* The node goes out of scope and the caller holds the mutex.
Drop(t) ==
    /\ prev' = [prev EXCEPT ![t] = Nobody]
    /\ next' = [next EXCEPT ![t] = Nobody]
    /\ state' = [state EXCEPT ![t] = "none"]
    /\ notify' = [notify EXCEPT ![t] = Nobody]

\* timedwait.c:149; a variant that counts every member
AnyOfGroup(t) == TRUE
FirstOfGroup(t) == next[t] = Nobody

\* timedwait.c:147-150
Relocked(t) ==
    /\ pc[t] = "relocked"
    /\ \/ /\ state[t] = "leaving"
          /\ Drop(t)
          /\ Goto(t, "held")
          /\ barrier' = [barrier EXCEPT ![t] = 0]
          /\ UNCHANGED mwaiters
       \/ /\ state[t] # "leaving"
          /\ mwaiters' = mwaiters + (IF FirstOfGroup(t) THEN 1 ELSE 0)
          /\ Goto(t, "hand over")
          /\ UNCHANGED nodes
    /\ UNCHANGED <<cv, mlock, mlocals, slocals, calls>>

\* timedwait.c:154-163
HandOver(t) ==
    /\ pc[t] = "hand over"
    /\ \/ /\ prev[t] # Nobody
          /\ mlock' = "waited"
          /\ Goto(t, "open next")
          /\ UNCHANGED <<mwaiters, prev, next, state, notify>>
       \/ /\ prev[t] = Nobody
          /\ mwaiters' = mwaiters - 1
          /\ Drop(t)
          /\ Goto(t, "held")
          /\ UNCHANGED mlock
    /\ UNCHANGED <<cv, barrier, mlocals, slocals, calls>>

\* timedwait.c:50, called from line 157
OpenNext(t) ==
    /\ pc[t] = "open next"
    /\ barrier' = [barrier EXCEPT ![prev[t]] = 0]
    /\ Goto(t, "requeue")
    /\ UNCHANGED <<cv, prev, next, state, notify, mutex, mlocals, slocals, calls>>

\* timedwait.c:52: a sleeper on the barrier becomes one on the mutex.
Requeue(t) ==
    LET q == prev[t] IN
    /\ pc[t] = "requeue"
    /\ Drop(t)
    /\ pc' = [pc EXCEPT ![t] = "held",
                        ![q] = CASE @ = "asleep" -> "requeued"
                                 [] @ = "barrier asleep" -> "barrier requeued"
                                 [] OTHER -> @]
    /\ UNCHANGED <<cv, barrier, mutex, mlocals, slocals, calls>>

-----------------------------------------------------------------------------
(* pthread_cond_signal and pthread_cond_broadcast: __private_cond_signal *)

\* The nodes that are on the list of the condition variable
Listed == {t \in Threads : state[t] = "waiting"}

\* timedwait.c:182-183; signal has k = 1, broadcast k = -1.
SigLock(s, k) ==
    /\ pc[s] \in {"idle", "held"} /\ ~locked /\ s \in Signallers /\ Count(s)
    /\ locked' = TRUE
    /\ p' = [p EXCEPT ![s] = tail]
    /\ n' = [n EXCEPT ![s] = k]
    /\ called' = [called EXCEPT ![s] = Listed]
    /\ back' = [back EXCEPT ![s] = pc[s]]
    /\ Goto(s, "scan")
    /\ UNCHANGED <<head, tail, nodes, mutex, r, seen, first, ref>>

\* Variant: a thread that leaves uses up the signal.
SigScanAny(s) ==
    LET w == p[s] IN
    /\ pc[s] = "scan" /\ n[s] # 0 /\ w # Nobody
    /\ \/ /\ state[w] = "waiting"
          /\ state' = [state EXCEPT ![w] = "signaled"]
          /\ first' = [first EXCEPT ![s] = IF @ = Nobody THEN w ELSE @]
          /\ UNCHANGED <<ref, notify>>
       \/ /\ state[w] # "waiting"
          /\ ref' = [ref EXCEPT ![s] = @ + 1]
          /\ notify' = [notify EXCEPT ![w] = s]
          /\ UNCHANGED <<state, first>>
    /\ n' = [n EXCEPT ![s] = @ - 1]
    /\ p' = [p EXCEPT ![s] = prev[w]]
    /\ UNCHANGED <<cv, prev, next, barrier, mutex, pc, mlocals, called, calls>>

\* timedwait.c:183-191, one round of the loop
SigScan(s) ==
    LET w == p[s] IN
    /\ pc[s] = "scan" /\ n[s] # 0 /\ w # Nobody
    /\ \/ /\ state[w] = "waiting"
          /\ state' = [state EXCEPT ![w] = "signaled"]
          /\ n' = [n EXCEPT ![s] = @ - 1]
          /\ first' = [first EXCEPT ![s] = IF @ = Nobody THEN w ELSE @]
          /\ UNCHANGED <<ref, notify>>
       \/ /\ state[w] # "waiting"
          /\ ref' = [ref EXCEPT ![s] = @ + 1]
          /\ notify' = [notify EXCEPT ![w] = s]
          /\ UNCHANGED <<state, n, first>>
    /\ p' = [p EXCEPT ![s] = prev[w]]
    /\ UNCHANGED <<cv, prev, next, barrier, mutex, pc, mlocals, called, calls>>

\* timedwait.c:193-200
SigSplit(s) ==
    LET w == p[s] IN
    /\ pc[s] = "scan" /\ (n[s] = 0 \/ w = Nobody)
    /\ IF w # Nobody
       THEN /\ prev' = IF next[w] # Nobody THEN [prev EXCEPT ![next[w]] = Nobody] ELSE prev
            /\ next' = [next EXCEPT ![w] = Nobody]
            /\ UNCHANGED head
       ELSE head' = Nobody /\ UNCHANGED <<prev, next>>
    /\ tail' = w
    /\ locked' = FALSE
    /\ p' = [p EXCEPT ![s] = Nobody]
    /\ Goto(s, "ref")
    /\ UNCHANGED <<state, barrier, notify, mutex, mlocals, n, first, ref, called, calls>>

\* Variant: those who leave are not waited for.
SigRefSkipped(s) ==
    /\ pc[s] = "ref"
    /\ Goto(s, IF first[s] # Nobody THEN "open first" ELSE "return")
    /\ UNCHANGED <<cv, nodes, mutex, mlocals, slocals, calls>>

\* timedwait.c:205
SigRef(s) ==
    /\ pc[s] = "ref"
    /\ Goto(s, IF ref[s] # 0 THEN "ref asleep"
               ELSE IF first[s] # Nobody THEN "open first" ELSE "return")
    /\ UNCHANGED <<cv, nodes, mutex, mlocals, slocals, calls>>

\* timedwait.c:208: unlock(&first->barrier); its wake follows.
SigOpen(s) ==
    /\ pc[s] = "open first"
    /\ barrier' = [barrier EXCEPT ![first[s]] = 0]
    /\ Goto(s, IF barrier[first[s]] = 2 THEN "wake first" ELSE "return")
    /\ UNCHANGED <<cv, prev, next, state, notify, mutex, mlocals, slocals, calls>>

SigWake(s) ==
    /\ pc[s] = "wake first"
    /\ pc' = [pc EXCEPT ![s] = "return",
                        ![first[s]] = CASE @ = "asleep" -> "sleep"
                                        [] @ = "barrier asleep" -> "barrier"
                                        [] OTHER -> @]
    /\ UNCHANGED <<cv, nodes, mutex, mlocals, slocals, calls>>

SigReturn(s) ==
    /\ pc[s] = "return"
    /\ Goto(s, back[s])
    /\ back' = [back EXCEPT ![s] = "idle"]
    /\ n' = [n EXCEPT ![s] = 0]
    /\ first' = [first EXCEPT ![s] = Nobody]
    /\ called' = [called EXCEPT ![s] = {}]
    /\ UNCHANGED <<cv, nodes, mutex, r, seen, p, ref, calls>>

-----------------------------------------------------------------------------
\* The steps a thread inside a call takes by itself
Step(t) ==
    \/ MutexAttempt(t) \/ MutexRead(t) \/ MutexCountIn(t) \/ MutexMark(t) \/ MutexWait(t)
    \/ MutexCountOut(t) \/ MutexSwap(t) \/ MutexWake(t)
    \/ TimedWait(t) \/ CasState(t) \/ Leave(t) \/ Notify(t) \/ NotifyWake(t) \/ Barrier(t)
    \/ Relocked(t) \/ HandOver(t) \/ OpenNext(t) \/ Requeue(t)
    \/ SigScan(t) \/ SigSplit(t) \/ SigRef(t) \/ SigOpen(t) \/ SigWake(t) \/ SigReturn(t)

Next ==
    \E t \in Threads :
        \/ Lock(t) \/ Unlock(t) \/ Enqueue(t) \/ Step(t) \/ SpuriousWake(t) \/ GiveUp(t)
        \/ \E k \in {1, -1} : SigLock(t, k)

Spec == Init /\ [][Next]_vars

\* Threads run, and who holds the mutex unlocks it some time.
Runs(t) == Step(t) \/ Unlock(t)
Fairness == \A t \in Threads : WF_vars(Runs(t))

LiveSpec == Spec /\ Fairness

-----------------------------------------------------------------------------
(* Properties *)

\* The list from the head on, at most as long as there are threads
Chain ==
    LET nth[i \in 0..Cardinality(Threads)] ==
            IF i = 0 THEN head
            ELSE IF nth[i-1] = Nobody THEN Nobody ELSE next[nth[i-1]]
    IN {nth[i] : i \in 0..Cardinality(Threads)} \ {Nobody}

\* Between two critical sections the list of the condition variable is whole: it
\* holds the threads that wait, and those that leave and were not detached by a
\* signaller, and prev and next agree from head to tail.
ListIntact ==
    ~locked =>
        /\ Chain = {t \in Threads : \/ state[t] = "waiting"
                                    \/ pc[t] = "leave" /\ notify[t] = Nobody}
        /\ head = Nobody <=> tail = Nobody
        /\ head # Nobody => prev[head] = Nobody /\ next[tail] = Nobody
        /\ \A t \in Chain : t # tail => next[t] # Nobody /\ prev[next[t]] = t

Scanning(s) == pc[s] \in {"scan", "ref", "ref asleep"}

\* Nobody reaches the stack of a thread that has returned, and a thread that
\* leaves still finds the condition variable: who waited for it before a
\* broadcast is through with it when the broadcast returns (timedwait.c:118-121).
NothingDangling ==
    /\ \A t \in Threads :
          /\ pc[t] \in {"hand over", "open next", "requeue"} /\ prev[t] # Nobody
                => state[prev[t]] = "signaled"
          /\ pc[t] = "open first" => state[first[t]] = "signaled"
          /\ pc[t] = "scan" /\ p[t] # Nobody => state[p[t]] \in {"waiting", "leaving"}
          /\ pc[t] = "notify" => Scanning(notify[t]) /\ ref[notify[t]] > 0
          /\ pc[t] = "leave" => \/ notify[t] # Nobody /\ Scanning(notify[t])
                                \/ t \in Chain
    /\ \A t \in At("leave") : ~locked =>
          /\ head # t /\ prev[t] # Nobody => state[prev[t]] # "none"
          /\ tail # t /\ next[t] # Nobody => state[next[t]] # "none"

\* When signal or broadcast returns, it has signalled as many threads as it was
\* asked to, or none of those that waited when it was called waits any more.
SignalReaches ==
    \A s \in At("return") :
        n[s] # 0 \/ first[s] = Nobody => \A t \in called[s] : state[t] # "waiting"

\* Threads that hold the mutex
Holders == {t \in Threads : \/ pc[t] \in {"held", "release", "swap", "relocked", "hand over",
                                         "open next", "requeue"}
                            \/ Scanning(t) /\ back[t] = "held"
                            \/ pc[t] \in {"open first", "wake first", "return"}
                                  /\ back[t] = "held"}

\* The mutex is held by one thread at a time, also while a group of waiters hands
\* it on, and a thread that returns from a wait holds it.  No thread sleeps on a
\* free mutex, requeued or not, unless another is about to take it or to wake one.
MutexWakesKept ==
    /\ Cardinality(Holders) = IF mlock = "free" THEN 0 ELSE 1
    /\ MutexSleepers # {} /\ mlock = "free" =>
          \E t \in Threads : \/ pc[t] \in {"wake", "count out", "attempt", "read"}
                             \/ pc[t] \in {"cas state", "barrier"} /\ barrier[t] = 0

\* A group of signalled threads leaves the count of waiters of the mutex as it
\* was: when nobody waits for the mutex and no group is under way, it is zero.
WaitersBalanced ==
    (\A t \in Threads : /\ state[t] # "signaled"
                        /\ pc[t] \notin {"mark", "futex", "mutex sleep", "count out"})
        => mwaiters = 0

\* A thread that was signalled, or that leaves, returns with the mutex; signal and
\* broadcast return, although they wait for those who leave.
Served ==
    \A t \in Threads :
        state[t] \in {"signaled", "leaving"} \/ Scanning(t) => pc[t] \in {"idle", "held"}
=============================================================================
