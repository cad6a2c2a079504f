------------------------------ MODULE Barrier -------------------------------
(***************************************************************************)
(* pthread_barrier_wait.c for a barrier of one process.  The first thread  *)
(* of a round keeps the round's "instance" on its stack and leaves last;   *)
(* it is the one that gets PTHREAD_BARRIER_SERIAL_THREAD.                  *)
(*                                                                         *)
(* mem holds _b_lock and _b_waiters, and the words of each thread's        *)
(* instance.  The barrier is for all the threads: limit + 1 is their       *)
(* number.  Any thread may destroy the barrier and give its memory back    *)
(* when it has returned from its last round.                               *)
(***************************************************************************)
EXTENDS Futex, FiniteSets

CONSTANT MaxCalls

VARIABLES inst,      \* _b_inst: the owner of the instance, or Nobody
          my,        \* local inst: the owner, and which of its calls it was
          entered,   \* calls begun by each thread
          left,      \* calls each thread has returned from
          serial,    \* calls that returned PTHREAD_BARRIER_SERIAL_THREAD
          destroyed  \* the memory of the barrier has been given back: "no",
                     \* "early" (before the last serial value was returned)
                     \* or "late" (after it)

bvars == <<inst, my, entered, left, serial, destroyed>>
vars == <<mem, pc, w, inst, my, entered, left, serial, destroyed>>

limitShort == Cardinality(Threads) - 2     \* variant: off by one
limit == Cardinality(Threads) - 1
Fields == {"count", "last", "iwaiters", "finished"}
lock == Cell("lock")
waiters == Cell("waiters")
Cells == {lock, waiters} \cup (Fields \X Threads)
NoInst == <<Nobody, 0>>

Init ==
    /\ mem = [c \in Cells |-> 0]
    /\ pc = [t \in Threads |-> "idle"]
    /\ w = [t \in Threads |-> NoWait]
    /\ inst = Nobody
    /\ my = [t \in Threads |-> NoInst]
    /\ entered = [t \in Threads |-> 0]
    /\ left = [t \in Threads |-> 0]
    /\ serial = 0
    /\ destroyed = "no"

F(t, field) == <<field, my[t][1]>>

Call(t) ==
    /\ pc[t] = "idle" /\ entered[t] < MaxCalls /\ destroyed = "no"
    /\ entered' = [entered EXCEPT ![t] = @ + 1]
    /\ Goto(t, "swap")
    /\ UNCHANGED <<mem, w, inst, my, left, serial, destroyed>>

\* while (a_swap(&b->_b_lock, 1)) __wait(...)
Lock(t) ==
    /\ pc[t] = "swap"
    /\ mem' = [mem EXCEPT ![lock] = 1]
    /\ IF mem[lock] = 0 THEN Goto(t, "enter") /\ UNCHANGED w
       ELSE CallWait(t, lock, waiters, 1, "swap")
    /\ UNCHANGED bvars

\* Under the lock: the first thread makes an instance, the last one closes
\* it.
Enter(t) ==
    /\ pc[t] = "enter"
    /\ IF inst = Nobody
       THEN /\ mem' = [c \in Cells |->
                         IF c \in Fields \X {t} THEN 0 ELSE mem[c]]
            /\ inst' = t
            /\ my' = [my EXCEPT ![t] = <<t, entered[t]>>]
       ELSE /\ mem' = [mem EXCEPT ![<<"count", inst>>] = @ + 1]
            /\ inst' = IF mem[<<"count", inst>>] + 1 = limit THEN Nobody
                       ELSE inst
            /\ my' = [my EXCEPT ![t] = <<inst, entered[inst]>>]
    /\ Goto(t, IF inst = Nobody THEN "ounlock"
               ELSE IF inst' = Nobody THEN "lunlock" ELSE "unlock")
    /\ UNCHANGED <<w, entered, left, serial, destroyed>>

\* a_store(&b->_b_lock, 0), in the three places
Unlock(t) ==
    /\ pc[t] \in {"ounlock", "lunlock", "unlock"}
    /\ mem' = [mem EXCEPT ![lock] = 0]
    /\ Goto(t, CASE pc[t] = "ounlock" -> "olook" [] pc[t] = "lunlock" -> "llook"
                 [] pc[t] = "unlock" -> "look")
    /\ UNCHANGED <<w, bvars>>

\* What a read of _b_waiters finds; of memory given back, anything.
WaitersRead == IF destroyed = "no" THEN {mem[waiters]} ELSE {0, 1}

\* if (b->_b_waiters) __wake(&b->_b_lock, 1, 1), then on by role
UnlockWake(t) ==
    /\ pc[t] \in {"olook", "llook", "look"}
    /\ LET next == CASE pc[t] = "olook" -> "arrive" [] pc[t] = "llook" -> "setlast"
                     [] pc[t] = "look" -> "await"
       IN \E found \in WaitersRead :
             IF found # 0 THEN WakeOne(t, lock, next) ELSE Goto(t, next) /\ UNCHANGED w
    /\ UNCHANGED <<mem, bvars>>

\* The owner: a_inc(&inst->finished)
OwnerArrives(t) ==
    /\ pc[t] = "arrive"
    /\ mem' = [mem EXCEPT ![F(t, "finished")] = @ + 1]
    /\ Goto(t, "owait")
    /\ UNCHANGED <<w, bvars>>

Leave(t, isSerial) ==
    /\ Goto(t, "idle")
    /\ my' = [my EXCEPT ![t] = NoInst]
    /\ left' = [left EXCEPT ![t] = @ + 1]
    /\ serial' = IF isSerial THEN serial + 1 ELSE serial
    /\ UNCHANGED <<inst, entered, destroyed>>

\* while (inst->finished == 1) futex wait; return the serial value
OwnerWaits(t) ==
    /\ pc[t] = "owait"
    /\ IF mem[F(t, "finished")] = 1
       THEN /\ Goto(t, "asleep")
            /\ w' = [w EXCEPT ![t] = [addr |-> F(t, "finished"), val |-> 1,
                                      waiters |-> NoCell, ret |-> "owait"]]
            /\ UNCHANGED bvars
       ELSE Leave(t, TRUE) /\ UNCHANGED w
    /\ UNCHANGED mem

\* The last thread: a_store(&inst->last, 1)
SetLast(t) ==
    /\ pc[t] = "setlast"
    /\ mem' = [mem EXCEPT ![F(t, "last")] = 1]
    /\ Goto(t, "wakelast")
    /\ UNCHANGED <<w, bvars>>

\* if (inst->waiters) __wake(&inst->last, -1, 1)
WakeLast(t) ==
    /\ pc[t] = "wakelast"
    /\ IF mem[F(t, "iwaiters")] # 0 THEN WakeAll(t, F(t, "last"), "drop")
       ELSE Goto(t, "drop") /\ UNCHANGED w
    /\ UNCHANGED <<mem, bvars>>

\* The others: __wait(&inst->last, &inst->waiters, 0, 1)
AwaitLast(t) ==
    /\ pc[t] = "await"
    /\ CallWait(t, F(t, "last"), F(t, "iwaiters"), 0, "drop")
    /\ UNCHANGED <<mem, bvars>>

\* Variant: every thread that leaves tells the owner.
DropEach(t) ==
    /\ pc[t] = "drop"
    /\ mem' = [mem EXCEPT ![F(t, "count")] = @ - 1]
    /\ Goto(t, "tell")
    /\ UNCHANGED <<w, bvars>>

\* a_fetch_add(&inst->count, -1) == 1 && ...
Drop(t) ==
    /\ pc[t] = "drop"
    /\ mem' = [mem EXCEPT ![F(t, "count")] = @ - 1]
    /\ IF mem[F(t, "count")] = 1 THEN Goto(t, "tell") /\ UNCHANGED bvars
       ELSE Leave(t, FALSE)
    /\ UNCHANGED w

\* ... a_fetch_add(&inst->finished, 1)
TellOwner(t) ==
    /\ pc[t] = "tell"
    /\ mem' = [mem EXCEPT ![F(t, "finished")] = @ + 1]
    /\ IF mem[F(t, "finished")] # 0 THEN Goto(t, "wakeowner") /\ UNCHANGED bvars
       ELSE Leave(t, FALSE)
    /\ UNCHANGED w

\* __wake(&inst->finished, 1, 1)
WakeOwner(t) ==
    /\ pc[t] = "wakeowner"
    /\ pc' = [u \in Threads |->
                IF u = t THEN "idle"
                ELSE IF u \in Sleepers(F(t, "finished")) THEN "wtest" ELSE pc[u]]
    /\ my' = [my EXCEPT ![t] = NoInst]
    /\ left' = [left EXCEPT ![t] = @ + 1]
    /\ UNCHANGED <<mem, w, inst, entered, serial, destroyed>>

\* A thread that has no more rounds destroys the barrier and gives its memory
\* back.  pthread_barrier_destroy waits for nobody on a private barrier.
Destroy(t) ==
    /\ destroyed = "no"
    /\ left[t] = MaxCalls
    /\ destroyed' = IF serial = MaxCalls THEN "late" ELSE "early"
    /\ UNCHANGED <<mem, pc, w, inst, my, entered, left, serial>>

Step(t) ==
    \/ Lock(t) \/ Enter(t) \/ Unlock(t) \/ UnlockWake(t)
    \/ OwnerArrives(t) \/ OwnerWaits(t) \/ SetLast(t) \/ WakeLast(t)
    \/ AwaitLast(t) \/ Drop(t) \/ TellOwner(t) \/ WakeOwner(t)
    \/ WaitStep(t) /\ UNCHANGED bvars

Next == \E t \in Threads :
           \/ Call(t) \/ Step(t) \/ Destroy(t)
           \/ Interrupt(t) /\ UNCHANGED bvars

\* Threads run, and make their calls.
Runs(t) == Step(t) \/ Call(t)
Fairness == \A t \in Threads : WF_vars(Runs(t))

Spec == Init /\ [][Next]_vars
LiveSpec == Spec /\ Fairness

-----------------------------------------------------------------------------
\* Words the next step of a thread reads or writes
Touches(t) ==
    CASE pc[t] \in {"swap", "enter", "ounlock", "lunlock", "unlock"} -> {lock}
      [] pc[t] \in {"olook", "llook", "look"} -> {waiters}
      [] pc[t] \in {"arrive", "owait", "setlast", "wakelast", "drop", "tell"} ->
            {F(t, "count")}
      [] OTHER -> WaitTouches(t)

\* No thread leaves a round before all have entered it, and each round hands
\* out one serial value: once everybody has left k rounds, there were k.
RoundsSeparate ==
    /\ \A t, u \in Threads : left[t] <= entered[u]
    /\ \A k \in 0..MaxCalls :
          (\A t \in Threads : left[t] = k /\ entered[t] = k) => serial = k

\* Nobody reads or writes an instance whose owner has returned from the call
\* it lived in.  A barrier destroyed when the serial value of the last round
\* has been returned is not touched any more, although others may still be on
\* their way out.  A thread that returned 0 may destroy it too early: a thread
\* that has unlocked it but not yet looked at _b_waiters (the owner of the
\* instance, or one that will find itself already let go) then reads memory
\* that was given back; but that read is all, and nobody writes there.
NoDeadAccess ==
    \A t \in Threads : \A c \in Touches(t) :
       IF c \in {lock, waiters}
       THEN destroyed # "no" => destroyed = "early" /\ pc[t] \in {"olook", "look"}
       ELSE LET owner == my[t][1]
            IN pc[owner] # "idle" /\ entered[owner] = my[t][2]

\* Every call returns once all threads have made it.
Served == \A t \in Threads : left[t] = MaxCalls
=============================================================================
