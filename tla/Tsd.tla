--------------------------------- MODULE Tsd --------------------------------
(***************************************************************************)
(* pthread_key_create.c: keys of thread-specific data, their destructors    *)
(* when a thread ends, and pthread_key_delete in other threads meanwhile.  *)
(* A program sets a key only while it exists.  A value is the incarnation  *)
(* of the key it was set under; that is all the properties tell apart.     *)
(***************************************************************************)
EXTENDS Integers, FiniteSets

CONSTANTS Threads, Nobody,
          PTHREAD_KEYS_MAX, PTHREAD_DESTRUCTOR_ITERATIONS,
          MaxCreate, MaxSet    \* bounds: how many keys are made and values set

VARIABLES
    keys,       \* 0, or the incarnation of the key in the slot
    nodtor,     \* incarnations made without a destructor
    next_key, made, set,
    tsd, tsd_used,
    readers, writer,      \* key_lock
    pc, i, j,   \* per thread: position, slot, pass
    val,        \* per thread: the value a destructor is called with, and ...
    dtor,       \* ... the incarnation whose destructor it is
    victim,     \* the slot pthread_key_delete is about, or -1
    wiped       \* threads pthread_key_delete has been through

del == <<victim, wiped>>
vars == <<keys, nodtor, next_key, made, set, tsd, tsd_used, readers, writer, pc, i, j, val, dtor,
          del>>

Slots == 0..PTHREAD_KEYS_MAX - 1

Init ==
    /\ keys = [k \in Slots |-> 0] /\ nodtor = {}
    /\ next_key = 0 /\ made = 0 /\ set = 0
    /\ tsd = [t \in Threads |-> [k \in Slots |-> 0]]
    /\ tsd_used = [t \in Threads |-> FALSE]
    /\ readers = {} /\ writer = Nobody
    /\ pc = [t \in Threads |-> "run"]
    /\ i = [t \in Threads |-> 0] /\ j = [t \in Threads |-> 0]
    /\ val = [t \in Threads |-> 0] /\ dtor = [t \in Threads |-> 0]
    /\ victim = -1 /\ wiped = {}

\* The threads that run code of the program: their own, or a destructor
Calls(t) == pc[t] \in {"run", "dtor"}

WriteFree == writer = Nobody /\ readers = {}

\* The first free slot from next_key on, round the table
FirstFree ==
    CHOOSE k \in Slots : /\ keys[k] = 0
                         /\ \A m \in Slots : keys[m] = 0 =>
                               (k - next_key) % PTHREAD_KEYS_MAX <= (m - next_key) % PTHREAD_KEYS_MAX

pthread_key_create(t) ==
    /\ Calls(t) /\ WriteFree
    /\ made < MaxCreate /\ \E k \in Slots : keys[k] = 0
    /\ made' = made + 1
    /\ keys' = [keys EXCEPT ![FirstFree] = made + 1]
    /\ next_key' = FirstFree
    /\ nodtor' \in {nodtor, nodtor \cup {made + 1}}
    /\ UNCHANGED <<set, tsd, tsd_used, readers, writer, pc, i, j, val, dtor, del>>

pthread_setspecific(t) ==
    /\ Calls(t) /\ set < MaxSet
    /\ \E k \in Slots : \E x \in {0, keys[k]} :
          /\ keys[k] # 0 /\ victim # k
          /\ tsd[t][k] # x
          /\ tsd' = [tsd EXCEPT ![t][k] = x]
    /\ tsd_used' = [tsd_used EXCEPT ![t] = TRUE]
    /\ set' = set + 1
    /\ UNCHANGED <<keys, nodtor, next_key, made, readers, writer, pc, i, j, val, dtor, del>>

\* pthread_key_delete: both locks, then every thread of the list in turn.  A
\* thread whose destructors are done is on the list until it has exited.
Delete(t) ==
    /\ Calls(t) /\ WriteFree
    /\ \E k \in Slots : keys[k] # 0 /\ victim' = k
    /\ writer' = t
    /\ pc' = [pc EXCEPT ![t] = "delete"]
    /\ UNCHANGED <<keys, nodtor, next_key, made, set, tsd, tsd_used, readers, i, j, val, dtor, wiped>>

\* Variant: only the caller's own value is cleared.
DeleteWipeOwn(t) ==
    /\ pc[t] = "delete" /\ wiped # Threads
    /\ tsd' = [tsd EXCEPT ![t][victim] = 0]
    /\ wiped' = Threads
    /\ UNCHANGED <<keys, nodtor, next_key, made, set, tsd_used, readers, writer, pc, i, j, val, dtor,
                   victim>>

DeleteWipe(t) ==
    /\ pc[t] = "delete"
    /\ \E u \in Threads \ wiped :
          /\ tsd' = [tsd EXCEPT ![u][victim] = 0]
          /\ wiped' = wiped \cup {u}
    /\ UNCHANGED <<keys, nodtor, next_key, made, set, tsd_used, readers, writer, pc, i, j, val, dtor,
                   victim>>

\* keys[k] = 0, unlock; back to the program, or to the destructor that called.
DeleteFree(t) ==
    /\ pc[t] = "delete" /\ wiped = Threads
    /\ keys' = [keys EXCEPT ![victim] = 0]
    /\ wiped' = {} /\ writer' = Nobody /\ victim' = -1
    /\ pc' = [pc EXCEPT ![t] = IF dtor[t] # 0 THEN "dtor" ELSE "run"]
    /\ UNCHANGED <<nodtor, next_key, made, set, tsd, tsd_used, readers, i, j, val, dtor>>

-----------------------------------------------------------------------------
(* __pthread_tsd_run_dtors *)

Exit(t) ==
    /\ pc[t] = "run"
    /\ pc' = [pc EXCEPT ![t] = "pass"]
    /\ UNCHANGED <<keys, nodtor, next_key, made, set, tsd, tsd_used, readers, writer, i, j, val,
                   dtor, del>>

\* The head of the outer loop, with the read lock and the reset of tsd_used
Pass(t) ==
    /\ pc[t] = "pass"
    /\ IF tsd_used[t] /\ j[t] < PTHREAD_DESTRUCTOR_ITERATIONS
       THEN /\ writer = Nobody /\ readers' = readers \cup {t}
            /\ tsd_used' = [tsd_used EXCEPT ![t] = FALSE]
            /\ i' = [i EXCEPT ![t] = 0]
            /\ pc' = [pc EXCEPT ![t] = "scan"]
       ELSE /\ pc' = [pc EXCEPT ![t] = "gone"]
            /\ UNCHANGED <<readers, tsd_used, i>>
    /\ UNCHANGED <<keys, nodtor, next_key, made, set, tsd, writer, j, val, dtor, del>>

\* One slot: read the value and the destructor, clear; unlock for the call.
ScanSlot(t) ==
    /\ pc[t] = "scan" /\ i[t] \in Slots
    /\ tsd' = [tsd EXCEPT ![t][i[t]] = 0]
    /\ IF tsd[t][i[t]] # 0 /\ keys[i[t]] # 0 /\ keys[i[t]] \notin nodtor
       THEN /\ val' = [val EXCEPT ![t] = tsd[t][i[t]]]
            /\ dtor' = [dtor EXCEPT ![t] = keys[i[t]]]
            /\ readers' = readers \ {t}
            /\ pc' = [pc EXCEPT ![t] = "dtor"]
            /\ UNCHANGED i
       ELSE /\ i' = [i EXCEPT ![t] = @ + 1]
            /\ UNCHANGED <<val, dtor, readers, pc>>
    /\ UNCHANGED <<keys, nodtor, next_key, made, set, tsd_used, writer, j, del>>

\* The destructor returns: lock again, next slot.
DtorReturns(t) ==
    /\ pc[t] = "dtor" /\ writer = Nobody
    /\ readers' = readers \cup {t}
    /\ val' = [val EXCEPT ![t] = 0] /\ dtor' = [dtor EXCEPT ![t] = 0]
    /\ i' = [i EXCEPT ![t] = @ + 1]
    /\ pc' = [pc EXCEPT ![t] = "scan"]
    /\ UNCHANGED <<keys, nodtor, next_key, made, set, tsd, tsd_used, writer, j, del>>

\* Variant: tsd_used is reset at the end of the pass.
PassEndsReset(t) ==
    /\ pc[t] = "scan" /\ i[t] \notin Slots
    /\ readers' = readers \ {t}
    /\ j' = [j EXCEPT ![t] = @ + 1]
    /\ i' = [i EXCEPT ![t] = 0]
    /\ pc' = [pc EXCEPT ![t] = "pass"]
    /\ tsd_used' = [tsd_used EXCEPT ![t] = FALSE]
    /\ UNCHANGED <<keys, nodtor, next_key, made, set, tsd, writer, val, dtor, del>>

PassEnds(t) ==
    /\ pc[t] = "scan" /\ i[t] \notin Slots
    /\ readers' = readers \ {t}
    /\ j' = [j EXCEPT ![t] = @ + 1]
    /\ i' = [i EXCEPT ![t] = 0]
    /\ pc' = [pc EXCEPT ![t] = "pass"]
    /\ UNCHANGED <<keys, nodtor, next_key, made, set, tsd, tsd_used, writer, val, dtor, del>>

Next ==
    \E t \in Threads :
       \/ pthread_key_create(t) \/ pthread_setspecific(t)
       \/ Delete(t) \/ DeleteWipe(t) \/ DeleteFree(t)
       \/ Exit(t) \/ Pass(t) \/ ScanSlot(t) \/ DtorReturns(t) \/ PassEnds(t)

Spec == Init /\ [][Next]_vars

-----------------------------------------------------------------------------
\* A slot that is free holds no thread's value, so a key made anew reads null
\* in every thread; and a destructor is only given a value that was set under
\* its own key, although the slot may have been freed and reused since.
ValuesBelong ==
    /\ \A t \in Threads, k \in Slots : tsd[t][k] \in {0, keys[k]}
    /\ \A t \in Threads : val[t] = dtor[t]

\* A thread that is gone has been through all its passes, or has left no value
\* that a destructor waits for.
NothingForgotten ==
    \A t \in Threads : pc[t] = "gone" =>
       \/ j[t] = PTHREAD_DESTRUCTOR_ITERATIONS
       \/ \A k \in Slots : tsd[t][k] = 0 \/ tsd[t][k] \in nodtor
=============================================================================
