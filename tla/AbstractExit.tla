---------------------------- MODULE AbstractExit ----------------------------
(***************************************************************************)
(* What atexit and exit promise: functions are registered on one stack and *)
(* called from its top, each once, until it is empty; from then on none is *)
(* registered.                                                             *)
(***************************************************************************)
EXTENDS Integers, Sequences

CONSTANT Names     \* of functions

VARIABLES stack,     \* registered and not yet called, the latest first
          running,   \* the function exit is calling, 0 if none
          over       \* nothing will be called any more

vars == <<stack, running, over>>

Init == stack = <<>> /\ running = 0 /\ over = FALSE

Register ==
    /\ ~over
    /\ \E f \in Names : stack' = <<f>> \o stack
    /\ UNCHANGED <<running, over>>

\* The function the stack says, once the one before has returned
Run ==
    /\ running = 0 /\ stack # <<>>
    /\ running' = Head(stack) /\ stack' = Tail(stack)
    /\ UNCHANGED over

Returned == running # 0 /\ running' = 0 /\ UNCHANGED <<stack, over>>

Finish == running = 0 /\ stack = <<>> /\ over' = TRUE /\ UNCHANGED <<stack, running>>

Next == Register \/ Run \/ Returned \/ Finish
Spec == Init /\ [][Next]_vars
=============================================================================
