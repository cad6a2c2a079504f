--------------------------- MODULE SharedBarrier ----------------------------
(***************************************************************************)
(* pshared_barrier_wait of pthread_barrier_wait.c, pthread_barrier_destroy *)
(* and vmlock.c.  _b_lock is taken with the value limit and given back one *)
(* unit per thread, so that the next round, or a destruction, waits for    *)
(* the last thread to leave.  A thread that has returned from the last     *)
(* round destroys the barrier and unmaps its memory while others are still *)
(* on their way out; the vm lock they hold puts the unmapping off.         *)
(***************************************************************************)
EXTENDS Futex, FiniteSets

CONSTANT MaxCalls

VARIABLES v, lw,        \* locals v and w of the final loop
          entered, left, serial,
          destroyer,    \* the thread that calls pthread_barrier_destroy
          unmapped      \* the destroyer has unmapped the barrier

bvars == <<v, lw, entered, left, serial, destroyer, unmapped>>
vars == <<mem, pc, w, v, lw, entered, left, serial, destroyer, unmapped>>

IntMin == -2147483647 - 1
limit == Cardinality(Threads)
lock == Cell("lock")
waiters == Cell("waiters")
count == Cell("count")
waiters2 == Cell("waiters2")
vmlock == Cell("vmlock")           \* vmlock[0]
vmwaiters == Cell("vmwaiters")     \* vmlock[1]
BarrierCells == {lock, waiters, count, waiters2}

Init ==
    /\ mem = [c \in BarrierCells \cup {vmlock, vmwaiters} |-> 0]
    /\ pc = [t \in Threads |-> "idle"]
    /\ w = [t \in Threads |-> NoWait]
    /\ v = [t \in Threads |-> 0]
    /\ lw = [t \in Threads |-> 0]
    /\ entered = [t \in Threads |-> 0]
    /\ left = [t \in Threads |-> 0]
    /\ serial = 0
    /\ destroyer = Nobody
    /\ unmapped = FALSE

Call(t) ==
    /\ pc[t] = "idle" /\ entered[t] < MaxCalls
    /\ entered' = [entered EXCEPT ![t] = @ + 1]
    /\ Goto(t, "cas")
    /\ UNCHANGED <<mem, w, v, lw, left, serial, destroyer, unmapped>>

\* while ((v=a_cas(&b->_b_lock, 0, limit))) __wait(...)
Lock(t) ==
    /\ pc[t] = "cas"
    /\ IF mem[lock] = 0
       THEN mem' = [mem EXCEPT ![lock] = limit] /\ Goto(t, "count") /\ UNCHANGED w
       ELSE CallWait(t, lock, waiters, mem[lock], "cas") /\ UNCHANGED mem
    /\ UNCHANGED bvars

\* ++b->_b_count == limit, under the lock
CountIn(t) ==
    /\ pc[t] = "count"
    /\ mem' = [mem EXCEPT ![count] = @ + 1]
    /\ Goto(t, IF mem[count] + 1 = limit THEN "reset" ELSE "unlock")
    /\ UNCHANGED <<w, bvars>>

\* The last thread: a_store(&b->_b_count, 0)
Reset(t) ==
    /\ pc[t] = "reset"
    /\ mem' = [mem EXCEPT ![count] = 0]
    /\ serial' = serial + 1
    /\ Goto(t, "wakecount")
    /\ UNCHANGED <<w, v, lw, entered, left, destroyer, unmapped>>

\* if (b->_b_waiters2) __wake(&b->_b_count, -1, 0), in both places
WakeCount(t) ==
    /\ pc[t] \in {"wakecount", "wakecount2"}
    /\ LET next == IF pc[t] = "wakecount" THEN "vmlock" ELSE "readlock"
       IN IF mem[waiters2] # 0 THEN WakeAll(t, count, next)
          ELSE Goto(t, next) /\ UNCHANGED w
    /\ UNCHANGED <<mem, bvars>>

\* The others: a_store(&b->_b_lock, 0) ...
Unlock(t) ==
    /\ pc[t] = "unlock"
    /\ mem' = [mem EXCEPT ![lock] = 0]
    /\ Goto(t, "wakelock")
    /\ UNCHANGED <<w, bvars>>

\* ... if (b->_b_waiters) __wake(&b->_b_lock, 1, 0) ...
WakeLock(t) ==
    /\ pc[t] = "wakelock"
    /\ IF mem[waiters] # 0 THEN WakeOne(t, lock, "await")
       ELSE Goto(t, "await") /\ UNCHANGED w
    /\ UNCHANGED <<mem, bvars>>

\* ... while ((v=b->_b_count)>0) __wait(...); and, in the second phase,
\* while ((v=b->_b_count)) __wait(...)
AwaitCount(t) ==
    /\ pc[t] \in {"await", "await2"}
    /\ IF mem[count] > 0 \/ (pc[t] = "await2" /\ mem[count] # 0)
       THEN CallWait(t, count, waiters2, mem[count], pc[t])
       ELSE Goto(t, IF pc[t] = "await" THEN "vmlock" ELSE "readlock") /\ UNCHANGED w
    /\ UNCHANGED <<mem, bvars>>

\* __vm_lock
VmLock(t) ==
    /\ pc[t] = "vmlock"
    /\ mem' = [mem EXCEPT ![vmlock] = @ + 1]
    /\ Goto(t, "uncount")
    /\ UNCHANGED <<w, bvars>>

\* a_fetch_add(&b->_b_count, -1) == 1-limit
CountOut(t) ==
    /\ pc[t] = "uncount"
    /\ mem' = [mem EXCEPT ![count] = @ - 1]
    /\ Goto(t, IF mem[count] = 1 - limit THEN "reset2" ELSE "await2")
    /\ UNCHANGED <<w, bvars>>

\* a_store(&b->_b_count, 0) again
Reset2(t) ==
    /\ pc[t] = "reset2"
    /\ mem' = [mem EXCEPT ![count] = 0]
    /\ Goto(t, "wakecount2")
    /\ UNCHANGED <<w, bvars>>

\* v = b->_b_lock; w = b->_b_waiters
ReadLock(t) ==
    /\ pc[t] \in {"readlock", "readwaiters"}
    /\ IF pc[t] = "readlock"
       THEN v' = [v EXCEPT ![t] = mem[lock]] /\ Goto(t, "readwaiters") /\ UNCHANGED lw
       ELSE lw' = [lw EXCEPT ![t] = mem[waiters]] /\ Goto(t, "ucas") /\ UNCHANGED v
    /\ UNCHANGED <<mem, w, entered, left, serial, destroyer, unmapped>>

\* a_cas(&b->_b_lock, v, v==INT_MIN+1 ? 0 : v-1) and the test for the wake
GiveBack(t) ==
    /\ pc[t] = "ucas"
    /\ IF mem[lock] = v[t]
       THEN /\ mem' = [mem EXCEPT ![lock] = IF v[t] = IntMin + 1 THEN 0 ELSE v[t] - 1]
            /\ Goto(t, IF v[t] = IntMin + 1 \/ (v[t] = 1 /\ lw[t] # 0)
                       THEN "wakenext" ELSE "vmunlock")
       ELSE Goto(t, "readlock") /\ UNCHANGED mem
    /\ v' = [v EXCEPT ![t] = 0]
    /\ lw' = [lw EXCEPT ![t] = 0]
    /\ UNCHANGED <<w, entered, left, serial, destroyer, unmapped>>

\* __wake(&b->_b_lock, 1, 0): somebody who reuses or destroys the barrier
WakeNext(t) ==
    /\ pc[t] = "wakenext"
    /\ WakeOne(t, lock, "vmunlock")
    /\ UNCHANGED <<mem, bvars>>

\* __vm_unlock and the return
VmUnlock(t) ==
    /\ pc[t] = "vmunlock"
    /\ mem' = [mem EXCEPT ![vmlock] = @ - 1]
    /\ Goto(t, IF mem[vmlock] = 1 THEN "vmwake" ELSE "idle")
    /\ left' = [left EXCEPT ![t] = @ + 1]
    /\ UNCHANGED <<w, v, lw, entered, serial, destroyer, unmapped>>

VmWake(t) ==
    /\ pc[t] = "vmwake"
    /\ IF mem[vmwaiters] # 0 THEN WakeAll(t, vmlock, "idle")
       ELSE Goto(t, "idle") /\ UNCHANGED w
    /\ UNCHANGED <<mem, bvars>>

\* pthread_barrier_destroy, by one thread that is back from its last call
Destroy(t) ==
    /\ pc[t] = "idle" /\ left[t] = MaxCalls /\ destroyer = Nobody
    /\ destroyer' = t
    /\ Goto(t, IF mem[lock] # 0 THEN "dor" ELSE "vmwait")
    /\ UNCHANGED <<mem, w, v, lw, entered, left, serial, unmapped>>

\* a_or(&b->_b_lock, INT_MIN)
MarkDestroyed(t) ==
    /\ pc[t] = "dor"
    /\ mem' = [mem EXCEPT ![lock] = IF @ < 0 THEN @ ELSE @ + IntMin]
    /\ Goto(t, "dwait")
    /\ UNCHANGED <<w, bvars>>

\* while ((v = b->_b_lock) & INT_MAX) __wait(&b->_b_lock, 0, v, 0)
AwaitGivenBack(t) ==
    /\ pc[t] = "dwait"
    /\ IF mem[lock] \in {0, IntMin} THEN Goto(t, "vmwait") /\ UNCHANGED w
       ELSE CallWait(t, lock, NoCell, mem[lock], "dwait")
    /\ UNCHANGED <<mem, bvars>>

\* __vm_wait, then the caller unmaps the barrier
VmWait(t) ==
    /\ pc[t] = "vmwait"
    /\ IF mem[vmlock] = 0
       THEN unmapped' = TRUE /\ Goto(t, "over") /\ UNCHANGED w
       ELSE CallWait(t, vmlock, vmwaiters, mem[vmlock], "vmwait") /\ UNCHANGED unmapped
    /\ UNCHANGED <<mem, v, lw, entered, left, serial, destroyer>>

Step(t) ==
    \/ Lock(t) \/ CountIn(t) \/ Reset(t) \/ WakeCount(t) \/ Unlock(t)
    \/ WakeLock(t) \/ AwaitCount(t) \/ VmLock(t) \/ CountOut(t) \/ Reset2(t)
    \/ ReadLock(t) \/ GiveBack(t) \/ WakeNext(t) \/ VmUnlock(t) \/ VmWake(t)
    \/ MarkDestroyed(t) \/ AwaitGivenBack(t) \/ VmWait(t)
    \/ WaitStep(t) /\ UNCHANGED bvars

Next == \E t \in Threads :
           \/ Call(t) \/ Step(t) \/ Destroy(t)
           \/ Interrupt(t) /\ UNCHANGED bvars

\* Threads run, make their calls, and one of them destroys the barrier.
Runs(t) == Step(t) \/ Call(t) \/ Destroy(t)
Fairness == \A t \in Threads : WF_vars(Runs(t))

Spec == Init /\ [][Next]_vars
LiveSpec == Spec /\ Fairness

-----------------------------------------------------------------------------
\* A thread about to make a futex call on the barrier's memory counts too:
\* the page may hold another process-shared futex by then.
Touches(t) ==
    CASE pc[t] \in {"cas", "count", "unlock", "readlock", "ucas", "wakenext",
                    "dor", "dwait"} -> {lock}
      [] pc[t] \in {"wakelock", "readwaiters"} -> {waiters}
      [] pc[t] \in {"reset", "reset2", "await", "await2", "uncount"} -> {count}
      [] pc[t] \in {"wakecount", "wakecount2"} -> {waiters2}
      [] pc[t] = "asleep" -> {w[t].addr}
      [] OTHER -> WaitTouches(t)

\* No thread leaves a round before all have entered it, and each round has
\* one serial thread.
RoundsSeparate ==
    /\ \A t, u \in Threads : left[t] <= entered[u]
    /\ \A t \in Threads : serial >= left[t] /\ serial <= entered[t]

\* Once the destroyer has unmapped the barrier nobody touches it, although
\* every other thread of the round may have been anywhere in its way out when
\* pthread_barrier_destroy was called.
NoAccessAfterUnmap ==
    unmapped => \A t \in Threads : Touches(t) \cap BarrierCells = {}

\* The last round ends for everybody and the destroyer gets through.
Served == unmapped
=============================================================================
