------------------------------- MODULE Futex --------------------------------
(***************************************************************************)
(* __wait.c over words of shared memory, for the objects whose waits all   *)
(* go through it.  A thread inside __wait has a record w[t] of the call's  *)
(* arguments and of the label its caller goes on at.  The kernel's side of *)
(* FUTEX_WAIT and FUTEX_WAKE is external.                                  *)
(***************************************************************************)
EXTENDS Integers

CONSTANTS Threads, Nobody

VARIABLES mem,         \* from words, <<name, thread or Nobody>>, to integers
          pc, w

Cell(name) == <<name, Nobody>>
NoCell == Cell("null") \* a null waiters pointer
NoWait == [addr |-> NoCell, waiters |-> NoCell, val |-> 0, ret |-> "none"]

WaitLabels == {"spin", "winc", "wtest", "asleep", "wdec"}

Goto(t, label) == pc' = [pc EXCEPT ![t] = label]

\* The call __wait(addr, waiters, val, priv), made at the end of an action
CallWait(t, addr, waiters, val, ret) ==
    /\ w' = [w EXCEPT ![t] = [addr |-> addr, waiters |-> waiters,
                              val |-> val, ret |-> ret]]
    /\ Goto(t, "spin")

Return(t) == Goto(t, w[t].ret) /\ w' = [w EXCEPT ![t] = NoWait]

\* The spinning loop: it ends when the word has changed, or else when the
\* count of spins runs out or another thread waits.
Spin(t) ==
    LET others == w[t].waiters # NoCell /\ mem[w[t].waiters] # 0
    IN /\ pc[t] = "spin"
       /\ \/ ~others /\ mem[w[t].addr] # w[t].val /\ Return(t)
          \/ /\ others \/ mem[w[t].addr] = w[t].val
             /\ Goto(t, IF w[t].waiters = NoCell THEN "wtest" ELSE "winc")
             /\ UNCHANGED w
       /\ UNCHANGED mem

\* a_inc(waiters)
Announce(t) ==
    /\ pc[t] = "winc"
    /\ mem' = [mem EXCEPT ![w[t].waiters] = @ + 1]
    /\ Goto(t, "wtest")
    /\ UNCHANGED w

\* The test of the loop and the futex call, which tests again
Sleep(t) ==
    /\ pc[t] = "wtest"
    /\ \/ mem[w[t].addr] = w[t].val /\ Goto(t, "asleep") /\ UNCHANGED w
       \/ /\ mem[w[t].addr] # w[t].val
          /\ IF w[t].waiters = NoCell THEN Return(t)
             ELSE Goto(t, "wdec") /\ UNCHANGED w
    /\ UNCHANGED mem

\* a_dec(waiters)
Withdraw(t) ==
    /\ pc[t] = "wdec"
    /\ mem' = [mem EXCEPT ![w[t].waiters] = @ - 1]
    /\ Return(t)

\* The futex call is interrupted by a signal.
Interrupt(t) ==
    /\ pc[t] = "asleep"
    /\ Goto(t, "wtest")
    /\ UNCHANGED <<mem, w>>

WaitStep(t) == Spin(t) \/ Announce(t) \/ Sleep(t) \/ Withdraw(t)

Sleepers(addr) == {u \in Threads : pc[u] = "asleep" /\ w[u].addr = addr}

\* __wake(addr, -1, priv), then on to a label
WakeAll(t, addr, label) ==
    /\ pc' = [u \in Threads |-> IF u = t THEN label
                                ELSE IF u \in Sleepers(addr) THEN "wtest"
                                ELSE pc[u]]
    /\ UNCHANGED w

\* __wake(addr, 1, priv), then on to a label
WakeOne(t, addr, label) ==
    /\ \/ Sleepers(addr) = {} /\ Goto(t, label)
       \/ \E u \in Sleepers(addr) :
             pc' = [pc EXCEPT ![u] = "wtest", ![t] = label]
    /\ UNCHANGED w

\* The words the next step of a thread inside __wait reads or writes
WaitTouches(t) ==
    CASE pc[t] = "spin" -> {w[t].addr, w[t].waiters} \ {NoCell}
      [] pc[t] \in {"winc", "wdec"} -> {w[t].waiters}
      [] pc[t] = "wtest" -> {w[t].addr}
      [] OTHER -> {}
=============================================================================
