------------------------------- MODULE AtExit -------------------------------
(***************************************************************************)
(* atexit.c and exit.c: registration of exit functions, in blocks of COUNT *)
(* slots, by several threads and by exit functions themselves; exit, which *)
(* calls them with the lock released, from several threads or from an exit *)
(* function.                                                               *)
(***************************************************************************)
EXTENDS Integers, Sequences, FiniteSets, SequencesExt

CONSTANTS Threads, Nobody, COUNT,
          MaxFuncs      \* bound: how many functions are registered

VARIABLES
    head,       \* the list of blocks: a sequence of functions from slots
    slot, finished_atexit,
    lock, exit_lock,
    pc,         \* per thread: "run", "scan" (has the lock), "func", "pause",
                \* "crash" or "gone" (past __funcs_on_exit)
    func,       \* the function exit is calling, 0 if none
    named       \* how many functions have been registered: they are numbered

vars == <<head, slot, finished_atexit, lock, exit_lock, pc, func, named>>

Slots == 0..COUNT - 1
Empty == [s \in Slots |-> 0]

Init ==
    /\ head = <<>> /\ slot = 0 /\ finished_atexit = FALSE
    /\ lock = Nobody /\ exit_lock = Nobody
    /\ pc = [t \in Threads |-> "run"]
    /\ func = 0 /\ named = 0

\* Variant: a new block does not start at its first slot.
PlaceNoReset ==
    LET base == IF head = <<>> THEN <<Empty>> ELSE head
    IN IF slot = COUNT
       THEN head' = <<[Empty EXCEPT ![COUNT - 1] = named + 1]>> \o base /\ slot' = COUNT
       ELSE head' = [base EXCEPT ![1][slot] = named + 1] /\ slot' = slot + 1

\* The builtin block at first, a new one when the current is full
Place ==
    LET base == IF head = <<>> THEN <<Empty>> ELSE head
    IN IF slot = COUNT
       THEN head' = <<[Empty EXCEPT ![0] = named + 1]>> \o base /\ slot' = 1
       ELSE head' = [base EXCEPT ![1][slot] = named + 1] /\ slot' = slot + 1

\* __cxa_atexit, by a thread or by the exit function it is in.  A failure (no
\* memory, or after the end) changes nothing.
atexit(t) ==
    /\ pc[t] \in {"run", "func"} /\ lock = Nobody
    /\ ~finished_atexit /\ named < MaxFuncs
    /\ Place
    /\ named' = named + 1
    /\ UNCHANGED <<finished_atexit, lock, exit_lock, pc, func>>

\* exit: the first caller goes on; another thread pauses for ever; a recursive
\* call crashes.
exit(t) ==
    /\ pc[t] \in {"run", "func"}
    /\ exit_lock # Nobody \/ lock = Nobody
    /\ pc' = [pc EXCEPT ![t] = IF exit_lock = Nobody THEN "scan"
                               ELSE IF exit_lock = t THEN "crash" ELSE "pause"]
    /\ exit_lock' = IF exit_lock = Nobody THEN t ELSE exit_lock
    /\ lock' = IF exit_lock = Nobody THEN t ELSE lock
    /\ UNCHANGED <<head, slot, finished_atexit, func, named>>

\* The loops of __funcs_on_exit: the end; or take the last slot and unlock for
\* the call; or on to the next block.
Scan(t) ==
    /\ pc[t] = "scan"
    /\ IF head = <<>>
       THEN /\ finished_atexit' = TRUE
            /\ lock' = Nobody /\ pc' = [pc EXCEPT ![t] = "gone"]
            /\ UNCHANGED <<head, slot, func>>
       ELSE IF slot > 0
       THEN /\ func' = head[1][slot - 1] /\ slot' = slot - 1
            /\ lock' = Nobody /\ pc' = [pc EXCEPT ![t] = "func"]
            /\ UNCHANGED <<head, finished_atexit>>
       ELSE /\ head' = Tail(head) /\ slot' = COUNT
            /\ UNCHANGED <<finished_atexit, lock, pc, func>>
    /\ UNCHANGED <<exit_lock, named>>

FuncReturns(t) ==
    /\ pc[t] = "func" /\ lock = Nobody
    /\ func' = 0
    /\ lock' = t /\ pc' = [pc EXCEPT ![t] = "scan"]
    /\ UNCHANGED <<head, slot, finished_atexit, exit_lock, named>>

Next == /\ \A t \in Threads : pc[t] # "crash"
        /\ \E t \in Threads : atexit(t) \/ exit(t) \/ Scan(t) \/ FuncReturns(t)
Spec == Init /\ [][Next]_vars

-----------------------------------------------------------------------------
\* The slots in use, the latest first
Contents ==
    LET used(b) == [n \in 1..(IF b = 1 THEN slot ELSE COUNT) |->
                      head[b][(IF b = 1 THEN slot ELSE COUNT) - n]]
    IN FlattenSeq([b \in 1..Len(head) |-> used(b)])

Abstract == INSTANCE AbstractExit
              WITH Names <- 1..MaxFuncs, stack <- Contents, running <- func, over <- finished_atexit

\* The blocks are one stack: exit calls every function registered, each once
\* and the latest first, also those registered while it calls others, by them
\* or by another thread; and it ends only when none is left.
ImplementsExit == Abstract!Spec
=============================================================================
