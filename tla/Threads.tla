------------------------------ MODULE Threads -------------------------------
(***************************************************************************)
(* The life of threads: pthread_create.c, pthread_join.c, pthread_detach.c *)
(* and pthread_kill.c, with the thread list and its lock, and synccall.c,  *)
(* which stops every thread of the list in a signal handler.               *)
(*                                                                         *)
(* A thread is a number, which is also its tid; thread 1 is the main one.  *)
(* The thread list lock, detach_state and the control word of the start    *)
(* arguments are words of mem.  killlock and the semaphores of synccall    *)
(* are taken in one step: they are the subject of InternalLock and         *)
(* Semaphore.  Signal masks appear as the labels at which SIGSYNCCALL is   *)
(* blocked.  The robust list is the subject of Mutex.  The platform is     *)
(* Linux: the tree has no __clone for the BSDs.                            *)
(***************************************************************************)
EXTENDS Futex

CONSTANTS OpSets,      \* sets of "detached", "sched", "fail", "kill", "sync" and
                       \* "timeout": the programs to consider
          MaxOps       \* how many kills, synccalls, failures, timeouts

VARIABLES
    ops, budget,       \* the program: an element of OpSets, calls left
    next, prev,        \* the list
    minus1,            \* libc.threads_minus_1
    tid, alive,        \* self->tid is set; the kernel thread exists
    mapped,            \* the thread's stack and structure are mapped
    handle,            \* what the program may do with the pthread_t
    killlock,
    arg, ret, cont,    \* locals: target or child, ret or state, return label
    stray,             \* a signal went to a tid that was no thread's
    \* synccall.c:
    td, count,         \* locals of the caller: position in the list, count
    sem,               \* caller_sem, target_sem and exit_sem
    hnd,               \* each thread's place in handler()
    called,            \* threads that have run the callback (history)
    aborted            \* callback = func = dummy

lvars == <<next, prev, minus1, tid, alive, mapped, handle>>
svars == <<td, count, sem, hnd, called, aborted>>
ovars == <<ops, budget, killlock, stray>>
vars == <<mem, pc, w, lvars, arg, ret, cont, svars, ovars>>

Main == 1
tl == Cell("__thread_list_lock")
tlw == Cell("tl_lock_waiters")
detach_state(t) == <<"detach_state", t>>
control(t) == <<"control", t>>

\* A tid is positive: 0 in the lock word means that the lock is free.
ASSUME ThreadsAssumption ==
    Threads \subseteq Nat \ {0} /\ Main \in Threads /\ Nobody \notin Threads

DT_EXITED == 0
DT_EXITING == 1
DT_JOINABLE == 2
DT_DETACHED == 3

Init ==
    /\ ops \in OpSets
    /\ budget = MaxOps
    /\ mem = [c \in {tl, tlw} \cup ({"detach_state", "control"} \X Threads) |->
                IF c = detach_state(Main) THEN DT_JOINABLE ELSE 0]
    /\ pc = [t \in Threads |-> IF t = Main THEN "run" ELSE "none"]
    /\ w = [t \in Threads |-> NoWait]
    /\ next = [t \in Threads |-> t] /\ prev = [t \in Threads |-> t]
    /\ minus1 = 0
    /\ tid = [t \in Threads |-> t = Main]
    /\ alive = [t \in Threads |-> t = Main]
    /\ mapped = [t \in Threads |-> FALSE]
    /\ handle = [t \in Threads |-> IF t = Main THEN "valid" ELSE "none"]
    /\ killlock = [t \in Threads |-> Nobody]
    /\ arg = [t \in Threads |-> Nobody]
    /\ ret = [t \in Threads |-> 0]
    /\ cont = [t \in Threads |-> "none"]
    /\ stray = FALSE
    /\ td = Nobody /\ count = 0
    /\ sem = [caller |-> 0, target |-> 0, exit |-> 0]
    /\ hnd = [t \in Threads |-> "no"]
    /\ called = {} /\ aborted = FALSE

\* A thread takes steps of its own unless it is in the handler of SIGSYNCCALL.
At(t, label) == pc[t] = label /\ hnd[t] \in {"no", "pending"}

\* __tl_lock, then on to a label
TlLockThen(t, label) == cont' = [cont EXCEPT ![t] = label] /\ Goto(t, "tlcas")
TlUnlockThen(t, label) == cont' = [cont EXCEPT ![t] = label] /\ Goto(t, "tlstore")

Back(t) == Goto(t, "run") /\ arg' = [arg EXCEPT ![t] = Nobody]
                          /\ ret' = [ret EXCEPT ![t] = 0]

-----------------------------------------------------------------------------
(* The thread list lock.  No operation here takes it while it holds it, so *)
(* that tl_lock_count stays zero and is left out.                          *)

TlCas(t) ==
    /\ At(t, "tlcas")
    /\ IF mem[tl] = 0
       THEN /\ mem' = [mem EXCEPT ![tl] = t]
            /\ Goto(t, cont[t])
            /\ cont' = [cont EXCEPT ![t] = "none"]
            /\ UNCHANGED w
       ELSE CallWait(t, tl, tlw, mem[tl], "tlcas") /\ UNCHANGED <<mem, cont>>
    /\ UNCHANGED <<lvars, arg, ret, svars, ovars>>

TlStore(t) ==
    /\ At(t, "tlstore")
    /\ mem' = [mem EXCEPT ![tl] = 0]
    /\ Goto(t, "tlwake")
    /\ UNCHANGED <<w, lvars, arg, ret, cont, svars, ovars>>

TlWake(t) ==
    /\ At(t, "tlwake")
    /\ IF mem[tlw] # 0 THEN WakeOne(t, tl, cont[t])
       ELSE Goto(t, cont[t]) /\ UNCHANGED w
    /\ cont' = [cont EXCEPT ![t] = "none"]
    /\ UNCHANGED <<mem, lvars, arg, ret, svars, ovars>>

-----------------------------------------------------------------------------
(* pthread_create *)

\* Up to the lock: the mapping, the structure and the start arguments
Create(t) ==
    /\ At(t, "run")
    /\ \E c \in Threads,
          d \in {DT_JOINABLE} \cup (IF "detached" \in ops THEN {DT_DETACHED} ELSE {}),
          s \in {0} \cup (IF "sched" \in ops THEN {1} ELSE {}) :
          /\ handle[c] = "none" /\ \A u \in Threads : u < c => handle[u] # "none"
          /\ handle' = [handle EXCEPT ![c] = "new"]
          /\ mapped' = [mapped EXCEPT ![c] = TRUE]
          /\ mem' = [mem EXCEPT ![detach_state(c)] = d, ![control(c)] = s]
          /\ arg' = [arg EXCEPT ![t] = c]
    /\ TlLockThen(t, "clone")
    /\ UNCHANGED <<w, next, prev, minus1, tid, alive, ret, svars, ovars>>

\* libc.threads_minus_1++ and __clone, which fails or makes the thread
Clone(t) ==
    LET c == arg[t]
    IN /\ At(t, "clone")
       /\ minus1' = minus1 + 1
       /\ \/ /\ "fail" \in ops /\ budget > 0
             /\ budget' = budget - 1
             /\ ret' = [ret EXCEPT ![t] = -1]
             /\ Goto(t, "link")
             /\ UNCHANGED <<tid, alive>>
          \/ /\ tid' = [tid EXCEPT ![c] = TRUE]
             /\ alive' = [alive EXCEPT ![c] = TRUE]
             /\ pc' = [pc EXCEPT ![c] = "start",
                                 ![t] = IF mem[control(c)] = 1 THEN "sched" ELSE "link"]
             /\ UNCHANGED <<ret, budget>>
       /\ UNCHANGED <<mem, w, next, prev, mapped, handle, arg, cont, svars, ops,
                      killlock, stray>>

\* The scheduling parameters are set, or refused; then
\* a_swap(&args->control, ret ? 3 : 0).
Sched(t) ==
    /\ At(t, "sched")
    /\ \E r \in {0, -1} :
          /\ ret' = [ret EXCEPT ![t] = r]
          /\ mem' = [mem EXCEPT ![control(arg[t])] = IF r # 0 THEN 3 ELSE 0]
          /\ Goto(t, IF mem[control(arg[t])] = 2 THEN "schedwake"
                     ELSE IF r # 0 THEN "schedwait" ELSE "link")
    /\ UNCHANGED <<w, lvars, arg, cont, svars, ovars>>

SchedWake(t) ==
    /\ At(t, "schedwake")
    /\ WakeOne(t, control(arg[t]), IF ret[t] # 0 THEN "schedwait" ELSE "link")
    /\ UNCHANGED <<mem, lvars, arg, ret, cont, svars, ovars>>

\* if (ret) __wait(&args->control, 0, 3, 0)
SchedWait(t) ==
    /\ At(t, "schedwait")
    /\ CallWait(t, control(arg[t]), NoCell, 3, "link")
    /\ UNCHANGED <<mem, lvars, arg, ret, cont, svars, ovars>>

\* Variant: the count goes up only.
UncountNot == UNCHANGED minus1

\* --libc.threads_minus_1
Uncount == minus1' = minus1 - 1

\* if (ret >= 0) the new thread goes into the list after its creator
Link(t) ==
    LET c == arg[t]
    IN /\ At(t, "link")
       /\ IF ret[t] >= 0
          THEN /\ next' = [next EXCEPT ![c] = next[t], ![t] = c]
               /\ prev' = [prev EXCEPT ![c] = t, ![next[t]] = c]
               /\ UNCHANGED minus1
          ELSE Uncount /\ UNCHANGED <<next, prev>>
       /\ TlUnlockThen(t, "created")
       /\ UNCHANGED <<mem, w, tid, alive, mapped, handle, arg, ret, svars, ovars>>

\* The mapping of a thread that failed goes; else the program has its handle.
Created(t) ==
    LET c == arg[t]
    IN /\ At(t, "created")
       /\ IF ret[t] < 0
          THEN mapped' = [mapped EXCEPT ![c] = FALSE] /\ UNCHANGED handle
          ELSE /\ handle' = [handle EXCEPT ![c] =
                                IF mem[detach_state(c)] = DT_DETACHED THEN "over"
                                ELSE "valid"]
               /\ UNCHANGED mapped
       /\ Back(t)
       /\ UNCHANGED <<mem, w, next, prev, minus1, tid, alive, cont, svars, ovars>>

\* start(): with explicit scheduling, wait for the creator's verdict.
Start(t) ==
    /\ At(t, "start")
    /\ IF mem[control(t)] = 1
       THEN /\ mem' = [mem EXCEPT ![control(t)] = 2]
            /\ CallWait(t, control(t), NoCell, 2, "verdict")
       ELSE /\ Goto(t, IF mem[control(t)] = 0 THEN "run" ELSE "verdict")
            /\ UNCHANGED <<mem, w>>
    /\ UNCHANGED <<lvars, arg, ret, cont, svars, ovars>>

\* if (args->control) exit with the exit futex at the control word
Verdict(t) ==
    /\ At(t, "verdict")
    /\ IF mem[control(t)] = 0
       THEN Goto(t, "run") /\ UNCHANGED <<mem, w, alive>>
       ELSE /\ mem' = [mem EXCEPT ![control(t)] = 0]
            /\ WakeOne(t, control(t), "dead")
            /\ alive' = [alive EXCEPT ![t] = FALSE]
    /\ UNCHANGED <<next, prev, minus1, tid, mapped, handle, arg, ret, cont, svars, ovars>>

-----------------------------------------------------------------------------
(* __pthread_exit *)

\* a_cas(&self->detach_state, DT_JOINABLE, DT_EXITING).  The holders of the vm
\* lock a detached thread waits for next take no lock of this module.
Exit(t) ==
    /\ At(t, "run")
    /\ ret' = [ret EXCEPT ![t] = mem[detach_state(t)]]
    /\ mem' = [mem EXCEPT ![detach_state(t)] =
                 IF @ = DT_JOINABLE THEN DT_EXITING ELSE @]
    /\ Goto(t, "killlock")
    /\ UNCHANGED <<w, lvars, arg, cont, svars, ovars>>

\* LOCK(self->killlock), then the list lock
ExitLock(t) ==
    /\ At(t, "killlock")
    /\ killlock[t] = Nobody
    /\ killlock' = [killlock EXCEPT ![t] = t]
    /\ TlLockThen(t, "only")
    /\ UNCHANGED <<mem, w, lvars, arg, ret, svars, ops, budget, stray>>

\* The last thread goes on to exit(0) with its state restored; another one is
\* committed: its tid goes, and nobody uses it from here on.
ExitCommit(t) ==
    /\ At(t, "only")
    /\ killlock' = [killlock EXCEPT ![t] = Nobody]
    /\ IF next[t] = t
       THEN /\ mem' = [mem EXCEPT ![detach_state(t)] = ret[t]]
            /\ TlUnlockThen(t, "process_exit")
            /\ UNCHANGED tid
       ELSE /\ tid' = [tid EXCEPT ![t] = FALSE]
            /\ Goto(t, "unlink")
            /\ UNCHANGED <<mem, cont>>
    /\ UNCHANGED <<w, next, prev, minus1, alive, mapped, handle, arg, ret, svars,
                   ops, budget, stray>>

\* Out of the list; a detached thread frees itself, another wakes its joiner.
Unlink(t) ==
    /\ At(t, "unlink")
    /\ Uncount
    /\ prev' = [prev EXCEPT ![next[t]] = prev[t], ![t] = t]
    /\ next' = [next EXCEPT ![prev[t]] = next[t], ![t] = t]
    /\ Goto(t, IF ret[t] = DT_DETACHED /\ mapped[t] THEN "unmapself" ELSE "exited")
    /\ UNCHANGED <<mem, w, tid, alive, mapped, handle, arg, ret, cont, svars, ovars>>

\* munmap in __unmapself, which needs no stack
UnmapSelf(t) ==
    /\ At(t, "unmapself")
    /\ mapped' = [mapped EXCEPT ![t] = FALSE]
    /\ Goto(t, "sysexit")
    /\ UNCHANGED <<mem, w, next, prev, minus1, tid, alive, handle, arg, ret, cont,
                   svars, ovars>>

\* a_store(&self->detach_state, DT_EXITED)
Exited(t) ==
    /\ At(t, "exited")
    /\ mem' = [mem EXCEPT ![detach_state(t)] = DT_EXITED]
    /\ Goto(t, "wakejoin")
    /\ UNCHANGED <<w, lvars, arg, ret, cont, svars, ovars>>

WakeJoin(t) ==
    /\ At(t, "wakejoin")
    /\ WakeOne(t, detach_state(t), "lastcall")
    /\ UNCHANGED <<mem, lvars, arg, ret, cont, svars, ovars>>

\* SYS_exit.  The exit futex is the list lock: the kernel clears it and wakes
\* one waiter.
SysExit(t) ==
    /\ At(t, "lastcall") \/ At(t, "sysexit")
    /\ alive' = [alive EXCEPT ![t] = FALSE]
    /\ mem' = [mem EXCEPT ![tl] = 0]
    /\ WakeOne(t, tl, "dead")
    /\ ret' = [ret EXCEPT ![t] = 0]
    /\ UNCHANGED <<next, prev, minus1, tid, mapped, handle, arg, cont, svars, ovars>>

-----------------------------------------------------------------------------
(* pthread_join and pthread_detach *)

Claim(t, u) ==
    /\ u # t /\ handle[u] = "valid"
    /\ \A k \in Threads : ~(pc[k] \in {"kill", "tkill"} /\ arg[k] = u)
    /\ handle' = [handle EXCEPT ![u] = "claimed"]
    /\ arg' = [arg EXCEPT ![t] = u]

\* A thread joins higher ones only, so that no two join each other.
Join(t) ==
    /\ At(t, "run")
    /\ \E u \in Threads : u > t /\ Claim(t, u)
    /\ Goto(t, "join")
    /\ UNCHANGED <<mem, w, next, prev, minus1, tid, alive, mapped, ret, cont, svars, ovars>>

\* a_cas(&t->detach_state, DT_JOINABLE, DT_DETACHED), else join
Detach(t) ==
    /\ At(t, "run")
    /\ \E u \in Threads :
          /\ Claim(t, u)
          /\ IF mem[detach_state(u)] = DT_JOINABLE
             THEN mem' = [mem EXCEPT ![detach_state(u)] = DT_DETACHED] /\ Goto(t, "detached")
             ELSE Goto(t, "join") /\ UNCHANGED mem
    /\ UNCHANGED <<w, next, prev, minus1, tid, alive, mapped, ret, cont, svars, ovars>>

Detached(t) ==
    /\ At(t, "detached")
    /\ handle' = [handle EXCEPT ![arg[t]] = "over"]
    /\ Back(t)
    /\ UNCHANGED <<mem, w, next, prev, minus1, tid, alive, mapped, cont, svars, ovars>>

\* while ((state = t->detach_state)) __timedwait_cp(...), and a_crash()
JoinTest(t) ==
    LET state == mem[detach_state(arg[t])]
    IN /\ At(t, "join")
       /\ CASE state = DT_EXITED -> Goto(t, "tlsync") /\ UNCHANGED w
            [] state = DT_DETACHED -> Goto(t, "crash") /\ UNCHANGED w
            [] OTHER -> CallWait(t, detach_state(arg[t]), NoCell, state, "join")
       /\ UNCHANGED <<mem, lvars, arg, ret, cont, svars, ovars>>

\* The timed wait ends with ETIMEDOUT: the thread can be joined again.
JoinTimeout(t) ==
    /\ At(t, "asleep") /\ w[t].ret = "join" /\ "timeout" \in ops /\ budget > 0
    /\ budget' = budget - 1
    /\ w' = [w EXCEPT ![t] = NoWait]
    /\ handle' = [handle EXCEPT ![arg[t]] = "valid"]
    /\ Back(t)
    /\ UNCHANGED <<mem, next, prev, minus1, tid, alive, mapped, cont, svars, ops,
                   killlock, stray>>

\* Variant: the joiner does not wait for the list lock.
TlSyncNot(t) ==
    /\ At(t, "tlsync")
    /\ Goto(t, "reap")
    /\ UNCHANGED <<mem, w, lvars, arg, ret, cont, svars, ovars>>

\* __tl_sync: wait until the lock is given back once
TlSync(t) ==
    /\ At(t, "tlsync")
    /\ IF mem[tl] = 0 THEN Goto(t, "reap") /\ UNCHANGED w
       ELSE CallWait(t, tl, tlw, mem[tl], "tlsync2")
    /\ UNCHANGED <<mem, lvars, arg, ret, cont, svars, ovars>>

\* if (tl_lock_waiters) __wake(...): pass the wake-up on
TlSyncWake(t) ==
    /\ At(t, "tlsync2")
    /\ IF mem[tlw] # 0 THEN WakeOne(t, tl, "reap") ELSE Goto(t, "reap") /\ UNCHANGED w
    /\ UNCHANGED <<mem, lvars, arg, ret, cont, svars, ovars>>

\* *res = t->result; munmap
Reap(t) ==
    /\ At(t, "reap")
    /\ mapped' = [mapped EXCEPT ![arg[t]] = FALSE]
    /\ handle' = [handle EXCEPT ![arg[t]] = "over"]
    /\ Back(t)
    /\ UNCHANGED <<mem, w, next, prev, minus1, tid, alive, cont, svars, ovars>>

-----------------------------------------------------------------------------
(* pthread_kill: a thread whose identifier is valid, running or not *)

Kill(t) ==
    /\ At(t, "run") /\ "kill" \in ops /\ budget > 0
    /\ budget' = budget - 1
    /\ \E u \in Threads \ {t} :
          handle[u] = "valid" /\ arg' = [arg EXCEPT ![t] = u]
    /\ Goto(t, "kill")
    /\ UNCHANGED <<mem, w, lvars, ret, cont, svars, ops, killlock, stray>>

KillLock(t) ==
    /\ At(t, "kill")
    /\ killlock[arg[t]] = Nobody
    /\ killlock' = [killlock EXCEPT ![arg[t]] = t]
    /\ Goto(t, "tkill")
    /\ UNCHANGED <<mem, w, lvars, arg, ret, cont, svars, ops, budget, stray>>

\* t->tid ? SYS_tkill : 0; then UNLOCK
KillSend(t) ==
    /\ At(t, "tkill")
    /\ stray' = (stray \/ (tid[arg[t]] /\ ~alive[arg[t]]))
    /\ killlock' = [killlock EXCEPT ![arg[t]] = Nobody]
    /\ Back(t)
    /\ UNCHANGED <<mem, w, lvars, cont, svars, ops, budget>>

-----------------------------------------------------------------------------
(* __synccall *)

Synccall(t) ==
    /\ At(t, "run") /\ "sync" \in ops /\ budget > 0
    /\ budget' = budget - 1
    /\ TlLockThen(t, "sync")
    /\ UNCHANGED <<mem, w, lvars, arg, ret, svars, ops, killlock, stray>>

\* The semaphores are set up; a lone thread calls func by itself.  (So does a
\* child of vfork, which the kernel knows by another tid; there is none here.)
SyncBegin(t) ==
    /\ At(t, "sync")
    /\ sem' = [caller |-> 0, target |-> 0, exit |-> 0]
    /\ td' = next[t]
    /\ count' = 0 /\ called' = {} /\ aborted' = FALSE
    /\ Goto(t, IF minus1 = 0 THEN "syncfunc" ELSE "signal")
    /\ UNCHANGED <<mem, w, lvars, arg, ret, cont, hnd, ovars>>

\* for (td=self->next; td!=self; td=td->next) tkill(td->tid, SIGSYNCCALL)
SyncSignal(t) ==
    /\ At(t, "signal")
    /\ \/ /\ td = t
          /\ ret' = [ret EXCEPT ![t] = count]
          /\ Goto(t, "release")
          /\ UNCHANGED <<hnd, aborted, stray>>
       \/ /\ td # t
          /\ hnd' = [hnd EXCEPT ![td] = "pending"]
          /\ stray' = (stray \/ ~alive[td])
          /\ Goto(t, "caught")
          /\ UNCHANGED <<aborted, ret>>
       \/ /\ td # t                     \* the signal cannot be sent
          /\ aborted' = TRUE
          /\ ret' = [ret EXCEPT ![t] = count]
          /\ Goto(t, "release")
          /\ UNCHANGED <<hnd, stray>>
    /\ UNCHANGED <<mem, w, lvars, arg, cont, td, count, sem, called,
                   ops, budget, killlock>>

\* Variant: the next thread is signalled before this one is caught.
SyncCaughtNot(t) ==
    /\ At(t, "caught")
    /\ count' = count + 1
    /\ td' = next[td]
    /\ Goto(t, "signal")
    /\ UNCHANGED <<mem, w, lvars, arg, ret, cont, sem, hnd, called, aborted, ovars>>

\* sem_wait(&caller_sem); count++
SyncCaught(t) ==
    /\ At(t, "caught") /\ sem.caller > 0
    /\ sem' = [sem EXCEPT !.caller = @ - 1]
    /\ count' = count + 1
    /\ td' = next[td]
    /\ Goto(t, "signal")
    /\ UNCHANGED <<mem, w, lvars, arg, ret, cont, hnd, called, aborted, ovars>>

\* for (i=0; i<count; i++) { sem_post(&target_sem); sem_wait(&caller_sem); }
SyncRelease(t) ==
    /\ At(t, "release")
    /\ IF ret[t] = 0 THEN Goto(t, "syncfunc") /\ UNCHANGED <<sem, ret>>
       ELSE /\ sem' = [sem EXCEPT !.target = @ + 1]
            /\ ret' = [ret EXCEPT ![t] = @ - 1]
            /\ Goto(t, "ran")
    /\ UNCHANGED <<mem, w, lvars, arg, cont, td, count, hnd, called, aborted, ovars>>

SyncRan(t) ==
    /\ At(t, "ran") /\ sem.caller > 0
    /\ sem' = [sem EXCEPT !.caller = @ - 1]
    /\ Goto(t, "release")
    /\ UNCHANGED <<mem, w, lvars, arg, ret, cont, td, count, hnd, called, aborted, ovars>>

\* func(ctx) in the caller, then for each caught thread sem_post(&exit_sem)
SyncFunc(t) ==
    /\ At(t, "syncfunc")
    /\ called' = called \cup {t}
    /\ sem' = [sem EXCEPT !.exit = count]
    /\ ret' = [ret EXCEPT ![t] = count]
    /\ Goto(t, "syncleave")
    /\ UNCHANGED <<mem, w, lvars, arg, cont, td, count, hnd, aborted, ovars>>

\* for each sem_wait(&caller_sem); sem_destroy; __tl_unlock
SyncLeave(t) ==
    /\ At(t, "syncleave")
    /\ IF ret[t] > 0
       THEN /\ sem.caller > 0
            /\ sem' = [sem EXCEPT !.caller = @ - 1]
            /\ ret' = [ret EXCEPT ![t] = @ - 1]
            /\ UNCHANGED <<td, count, called, aborted, pc, cont>>
       ELSE /\ TlUnlockThen(t, "run")
            /\ td' = Nobody /\ count' = 0 /\ called' = {} /\ aborted' = FALSE
            /\ UNCHANGED <<sem, ret>>
    /\ UNCHANGED <<mem, w, lvars, arg, hnd, ovars>>

\* Labels between __block_all_sigs and __restore_sigs
Blocked(t) == pc[t] \in {"kill", "tkill", "unmapself", "sysexit"}

\* handler(): sem_post(&caller_sem), then sem_wait(&target_sem)
HandlerEnter(t) ==
    /\ hnd[t] = "pending" /\ ~Blocked(t)
    /\ hnd' = [hnd EXCEPT ![t] = "caught"]
    /\ sem' = [sem EXCEPT !.caller = @ + 1]
    /\ UNCHANGED <<mem, pc, w, lvars, arg, ret, cont, td, count, called, aborted, ovars>>

HandlerCall(t) ==
    /\ hnd[t] = "caught" /\ sem.target > 0
    /\ hnd' = [hnd EXCEPT ![t] = "calling"]
    /\ sem' = [sem EXCEPT !.target = @ - 1]
    /\ UNCHANGED <<mem, pc, w, lvars, arg, ret, cont, td, count, called, aborted, ovars>>

\* callback(context), then sem_post(&caller_sem)
HandlerRan(t) ==
    /\ hnd[t] = "calling"
    /\ hnd' = [hnd EXCEPT ![t] = "ran"]
    /\ called' = called \cup {t}
    /\ sem' = [sem EXCEPT !.caller = @ + 1]
    /\ UNCHANGED <<mem, pc, w, lvars, arg, ret, cont, td, count, aborted, ovars>>

\* sem_wait(&exit_sem), sem_post(&caller_sem), return
HandlerLeave(t) ==
    /\ hnd[t] = "ran" /\ sem.exit > 0
    /\ hnd' = [hnd EXCEPT ![t] = "no"]
    /\ sem' = [sem EXCEPT !.exit = @ - 1, !.caller = @ + 1]
    /\ UNCHANGED <<mem, pc, w, lvars, arg, ret, cont, td, count, called, aborted, ovars>>

Handler(t) == HandlerEnter(t) \/ HandlerCall(t) \/ HandlerRan(t) \/ HandlerLeave(t)

-----------------------------------------------------------------------------
Frozen(t) == hnd[t] \notin {"no", "pending"}

\* What a thread does by itself inside a call
Step(t) ==
    \/ TlCas(t) \/ TlStore(t) \/ TlWake(t)
    \/ Clone(t) \/ Sched(t) \/ SchedWake(t) \/ SchedWait(t) \/ Link(t) \/ Created(t)
    \/ Start(t) \/ Verdict(t)
    \/ ExitLock(t) \/ ExitCommit(t) \/ Unlink(t) \/ UnmapSelf(t) \/ Exited(t)
    \/ WakeJoin(t) \/ SysExit(t)
    \/ Detached(t) \/ JoinTest(t) \/ TlSync(t) \/ TlSyncWake(t) \/ Reap(t)
    \/ KillLock(t) \/ KillSend(t)
    \/ SyncBegin(t) \/ SyncSignal(t) \/ SyncCaught(t) \/ SyncRelease(t) \/ SyncRan(t)
    \/ SyncFunc(t) \/ SyncLeave(t)
    \/ ~Frozen(t) /\ WaitStep(t) /\ UNCHANGED <<lvars, arg, ret, cont, svars, ovars>>

\* What the program decides
Program(t) ==
    Create(t) \/ Exit(t) \/ Join(t) \/ Detach(t) \/ JoinTimeout(t) \/ Kill(t) \/ Synccall(t)

\* The process is over once its last thread has got to exit(0).
Over == \E t \in Threads : pc[t] = "process_exit"
Terminated == Over /\ UNCHANGED vars

Next == (\E t \in Threads : ~Over /\ (Program(t) \/ Step(t) \/ Handler(t)))
        \/ Terminated

\* Threads run, also in the handler, and every thread exits in the end.
Runs(t) == ~Over /\ (Step(t) \/ Handler(t) \/ Exit(t))
Fairness == \A t \in Threads : WF_vars(Runs(t))

Spec == Init /\ [][Next]_vars
LiveSpec == Spec /\ Fairness

-----------------------------------------------------------------------------
\* Labels at which a thread still runs on its stack, or another thread reads
\* its structure.
OnStack(t) == alive[t] /\ pc[t] # "sysexit"

\* A thread's mapping is there while the thread runs on it or somebody who
\* joins or creates it reads it: the joiner frees it only when the kernel
\* thread is gone, and it is freed once.
MappingOutlivesThread ==
    \A t \in Threads \ {Main} :
       /\ OnStack(t) => mapped[t]
       /\ \A u \in Threads : arg[u] = t /\ pc[u] \in {"join", "tlsync", "reap", "clone",
             "sched", "schedwake", "link", "kill", "tkill"} => mapped[t]

\* S has n elements: they can be numbered from 1 to n.
Counts(S, n) == \E f \in [S -> 1..n] : /\ \A x, y \in S : f[x] = f[y] => x = y
                                       /\ \A i \in 1..n : \E x \in S : f[x] = i

\* Following next in S leads around all of it: no part of S is closed.
OneRing(S) == /\ \A t \in S : next[t] \in S
              /\ \A R \in SUBSET S : R # {} /\ (\A t \in R : next[t] \in R) => R = S

\* With the list lock free, the list is one ring through exactly the threads
\* that can still run, and the count of threads says how many.
ListIsLiveThreads ==
    mem[tl] = 0 =>
       LET live == {t \in Threads : alive[t]}
       IN /\ Counts(live, minus1 + 1)
          /\ \A t \in Threads : next[prev[t]] = t /\ prev[next[t]] = t
          /\ OneRing(live)

\* While the caller of __synccall runs the function, every other live thread
\* is stopped in the handler and has run it, unless the call was aborted;
\* no two threads run it at once; and no signal goes to a stale tid.
SynccallStopsAll ==
    /\ ~stray
    /\ \A t, u \in Threads : hnd[t] = "calling" /\ hnd[u] = "calling" => t = u
    /\ \A t \in Threads : pc[t] = "syncfunc" =>
          \A u \in Threads \ {t} : alive[u] =>
             \/ hnd[u] = "ran" /\ u \in called
             \/ aborted

\* pthread_create.c:91: signalling an exiting thread "is a valid usage that
\* must be handled"; synccall.c:52 blocks signals in two steps because
\* blocking them at once "would deadlock".  No ring of waits: a caller of
\* __synccall that waits for a thread in pthread_kill, which has all signals
\* blocked and waits for the killlock of an exiting thread, which waits for
\* the list lock the caller holds.
NoRingOfWaits ==
    \A s, u, v \in Threads :
       ~ /\ pc[s] = "caught" /\ td = u /\ mem[tl] = s
         /\ pc[u] = "kill" /\ arg[u] = v
         /\ killlock[v] = v /\ cont[v] = "only"

\* Every join of a thread that exits comes back, and so does every creation,
\* every exit and every synccall, until the last thread ends the process: no
\* wake-up of the list lock, of detach_state or of the control word is lost.
Served == Over
=============================================================================
