------------------------------- MODULE Mutex -------------------------------
(***************************************************************************)
(* Mutexes: pthread_mutex_lock.c, _trylock.c, _timedlock.c, _unlock.c,     *)
(* _consistent.c, the robust list processing of __pthread_exit             *)
(* (pthread_create.c:124-142) and the kernel's processing of the same list *)
(* when a process dies.  Priority inheritance (type bit 8) is left out:    *)
(* the kernel implements it.                                               *)
(*                                                                         *)
(* The lock word _m_lock is a record: own is the owner's tid (30 bits; the *)
(* constants Busy and NotRec stand for EBUSY and 0x3fffffff), dead is bit  *)
(* 0x40000000 (the owner died) and wait is the sign bit (there are         *)
(* waiters).  A thread that died may be born again under the same tid.     *)
(*                                                                         *)
(* An action is one access to memory that other threads see, or one futex  *)
(* call.  The spin loop of timedlock changes nothing and is left out; the  *)
(* repeated attempts at its beginning are the first rounds of its loop.    *)
(***************************************************************************)
EXTENDS Integers

CONSTANTS Threads, Mutexes, NoThread,
          Busy, NotRec,     \* owner fields that are no tid
          Types,            \* the types a mutex may be given
          MaxCount,         \* INT_MAX, the limit of the recursion count
          Linux,            \* the __linux__ build; else HyperbolaBSD, OpenBSD
          MaxDeaths         \* bound on the number of threads that die

\* What an owner field holds is told apart, and a type is one of those that
\* pthread_mutexattr_settype, _setrobust and _setpshared make.
ASSUME MutexAssumption ==
    /\ Mutexes # {}
    /\ {NoThread, Busy, NotRec} \cap Threads = {}
    /\ NoThread # Busy /\ NoThread # NotRec /\ Busy # NotRec
    /\ Types \subseteq [kind : {"normal", "recursive", "errorcheck"},
                        robust : BOOLEAN, shared : BOOLEAN]
    /\ MaxCount \in Nat /\ Linux \in BOOLEAN /\ MaxDeaths \in Nat

VARIABLES
    type,       \* _m_type: [kind, robust, shared]
    lock,       \* _m_lock
    waiters,    \* _m_waiters
    count,      \* _m_count
    robust,     \* the mutexes on a thread's robust_list
    pending,    \* robust_list.pending
    pc, mx,     \* where a thread is, and on which mutex
    op,         \* "lock" (with or without timeout) or "try"
    old,        \* the word a thread read last: old in trylock, r in timedlock
    wk,         \* locals: waiters were seen (trylock, unlock, exit)
    gave,       \* the futex wait of timedlock ended in a timeout
    \* what callers know
    depth,      \* how often a thread holds a mutex
    told,       \* the present holder was told EOWNERDEAD
    broken,     \* a holder died and nobody made the state consistent
    swallowed,  \* a process died with a wake-up it had been given or owed
    deaths

memory == <<lock, waiters, count>>
locals == <<mx, op, old, wk, gave>>
callers == <<depth, told, broken>>
vars == <<type, memory, robust, pending, pc, locals, callers, swallowed, deaths>>

Free == [own |-> NoThread, dead |-> FALSE, wait |-> FALSE]
Died == [own |-> NoThread, dead |-> TRUE, wait |-> FALSE]
Unrecoverable == [own |-> NotRec, dead |-> TRUE, wait |-> FALSE]

\* Every type but the plain normal one records its owner.
Tracks(m) == type[m].kind # "normal" \/ type[m].robust

\* No owner, and not the word of a dead owner of a mutex that is not robust
Takeable(m) == lock[m].own = NoThread /\ (lock[m] = Free \/ type[m].robust)

Init ==
    /\ type \in [Mutexes -> Types]
    /\ lock = [m \in Mutexes |-> Free]
    /\ waiters = [m \in Mutexes |-> 0]
    /\ count = [m \in Mutexes |-> 0]
    /\ robust = [t \in Threads |-> {}]
    /\ pending = [t \in Threads |-> {}]
    /\ pc = [t \in Threads |-> "idle"]
    /\ mx \in [Threads -> {CHOOSE m \in Mutexes : TRUE}]
    /\ op = [t \in Threads |-> "try"]
    /\ old = [t \in Threads |-> Free]
    /\ wk = [t \in Threads |-> FALSE]
    /\ gave = [t \in Threads |-> FALSE]
    /\ depth = [t \in Threads |-> [m \in Mutexes |-> 0]]
    /\ told = [m \in Mutexes |-> FALSE]
    /\ broken = [m \in Mutexes |-> FALSE]
    /\ swallowed = {}
    /\ deaths = 0

Goto(t, label) == pc' = [pc EXCEPT ![t] = label]
\* A step of lock or trylock, which may be its last
Leave(t, label) ==
    /\ Goto(t, label)
    /\ op' = [op EXCEPT ![t] = IF label = "idle" THEN "try" ELSE @]
Forget(t) == /\ old' = [old EXCEPT ![t] = Free]
             /\ wk' = [wk EXCEPT ![t] = FALSE]
Held(m) == \E t \in Threads : depth[t][m] > 0
Sleepers(m) == {t \in Threads : pc[t] = "asleep" /\ mx[t] = m}

-----------------------------------------------------------------------------
(* pthread_mutex_lock, _timedlock and _trylock *)

\* A caller does not lock a normal mutex it already holds.
Begin(t, m, o) ==
    /\ pc[t] = "idle"
    /\ o = "lock" /\ type[m].kind = "normal" => depth[t][m] = 0
    /\ mx' = [mx EXCEPT ![t] = m]
    /\ op' = [op EXCEPT ![t] = o]
    /\ Goto(t, "attempt")
    /\ UNCHANGED <<type, memory, robust, pending, old, wk, gave, callers, swallowed, deaths>>

\* An attempt that fails with EBUSY ends trylock and a round of timedlock.
AfterBusy(t) == IF op[t] = "try" THEN "idle" ELSE "read"

\* lock.c:5, trylock.c:77, timedlock.c:61
AttemptNormal(t) ==
    LET m == mx[t] IN
    /\ pc[t] = "attempt" /\ ~Tracks(m)
    /\ \/ /\ lock[m] = Free
          /\ lock' = [lock EXCEPT ![m] = [Free EXCEPT !.own = Busy]]
          /\ depth' = [depth EXCEPT ![t][m] = 1]
          /\ Leave(t, "idle")
       \/ /\ lock[m] # Free
          /\ Leave(t, AfterBusy(t))
          /\ UNCHANGED <<lock, depth>>
    /\ UNCHANGED <<type, waiters, count, robust, pending, mx, old, wk, gave, told, broken,
                   swallowed, deaths>>

\* trylock.c:19
CountFits(m) == count[m] < MaxCount

\* trylock.c:10-25: the read of the word and what it decides
AttemptOwner(t) ==
    LET m == mx[t]
        own == lock[m].own
    IN
    /\ pc[t] = "attempt" /\ Tracks(m)
    /\ \/ /\ own = t /\ type[m].kind = "recursive"
          /\ \/ ~CountFits(m) /\ UNCHANGED <<count, depth>>
             \/ /\ CountFits(m)
                /\ count' = [count EXCEPT ![m] = @ + 1]
                /\ depth' = [depth EXCEPT ![t][m] = @ + 1]
          /\ Leave(t, "idle")
          /\ UNCHANGED old
       \/ /\ own = NotRec
          /\ Leave(t, "idle")
          /\ UNCHANGED <<old, count, depth>>
       \/ /\ own # NotRec /\ ~Takeable(m)
          /\ ~(own = t /\ type[m].kind = "recursive")
          /\ Leave(t, AfterBusy(t))
          /\ UNCHANGED <<old, count, depth>>
       \/ /\ Takeable(m)
          /\ old' = [old EXCEPT ![t] = lock[m]]
          /\ Leave(t, IF type[m].shared THEN "announce" ELSE "cas")
          /\ UNCHANGED <<count, depth>>
    /\ UNCHANGED <<type, lock, waiters, robust, pending, mx, wk, gave, told,
                   broken, swallowed, deaths>>

\* trylock.c:27-38, for a process-shared mutex
Announce(t) ==
    /\ pc[t] = "announce"
    /\ wk' = [wk EXCEPT ![t] = waiters[mx[t]] # 0]
    /\ pending' = [pending EXCEPT ![t] = IF Linux THEN {mx[t]} ELSE {}]
    /\ Goto(t, "cas")
    /\ UNCHANGED <<type, memory, robust, mx, op, old, gave, callers, swallowed, deaths>>

\* The word of the new owner, trylock.c:34 and 39; a variant that loses the bit
\* for a dead owner
TakenClean(t) == [own |-> t, dead |-> FALSE, wait |-> wk[t]]
Taken(t) == [own |-> t, dead |-> old[t].dead, wait |-> wk[t]]

\* The compare-and-swap finds the word that was read, trylock.c:41; a variant
\* that stores without comparing
Overwrites(t) == TRUE
Unchanged(t) == lock[mx[t]] = old[t]

\* trylock.c:39-47
TryCas(t) ==
    LET m == mx[t] IN
    /\ pc[t] = "cas"
    /\ \/ /\ Unchanged(t)
          /\ lock' = [lock EXCEPT ![m] = Taken(t)]
          /\ Leave(t, "link")
          /\ UNCHANGED <<pending, old, wk>>
       \/ /\ ~Unchanged(t)
          /\ pending' = [pending EXCEPT ![t] = {}]
          /\ Forget(t)
          /\ Leave(t, AfterBusy(t))
          /\ UNCHANGED lock
    /\ UNCHANGED <<type, waiters, count, robust, mx, gave, callers, swallowed, deaths>>

\* trylock.c:67-68; a variant that keeps the count of the dead owner
CountKept(t) == count[mx[t]]
CountAfter(t) == IF old[t] # Free THEN 0 ELSE count[mx[t]]

\* trylock.c:49-72: onto the robust list; EOWNERDEAD if the owner had died.
TryLink(t) ==
    LET m == mx[t] IN
    /\ pc[t] = "link"
    /\ robust' = [robust EXCEPT ![t] = IF Linux THEN @ \cup {m} ELSE @]
    /\ pending' = [pending EXCEPT ![t] = {}]
    /\ count' = [count EXCEPT ![m] = CountAfter(t)]
    /\ told' = [told EXCEPT ![m] = (old[t] # Free)]
    /\ depth' = [depth EXCEPT ![t][m] = 1]
    /\ Forget(t)
    /\ Leave(t, "idle")
    /\ UNCHANGED <<type, lock, waiters, mx, gave, broken, swallowed, deaths>>

\* timedlock.c:79-85
ReadWord(t) ==
    LET m == mx[t]
        own == lock[m].own
    IN
    /\ pc[t] = "read"
    /\ \/ /\ Takeable(m)
          /\ Leave(t, "attempt")
          /\ UNCHANGED old
       \/ /\ own = t /\ type[m].kind = "errorcheck"
          /\ Leave(t, "idle")
          /\ UNCHANGED old
       \/ /\ ~Takeable(m)
          /\ ~(own = t /\ type[m].kind = "errorcheck")
          /\ old' = [old EXCEPT ![t] = lock[m]]
          /\ Leave(t, "count_in")
    /\ UNCHANGED <<type, memory, robust, pending, mx, wk, gave, callers,
                   swallowed, deaths>>

\* timedlock.c:87
CountIn(t) ==
    /\ pc[t] = "count_in"
    /\ waiters' = [waiters EXCEPT ![mx[t]] = @ + 1]
    /\ Goto(t, "mark")
    /\ UNCHANGED <<type, lock, count, robust, pending, locals, callers, swallowed, deaths>>

\* timedlock.c:88-89
Mark(t) ==
    /\ pc[t] = "mark"
    /\ lock' = [lock EXCEPT ![mx[t]] = IF @ = old[t] THEN [@ EXCEPT !.wait = TRUE] ELSE @]
    /\ old' = [old EXCEPT ![t].wait = TRUE]
    /\ Goto(t, "futex")
    /\ UNCHANGED <<type, waiters, count, robust, pending, mx, op, wk, gave, callers,
                   swallowed, deaths>>

\* timedlock.c:90: the kernel compares and sleeps in one step.
FutexWait(t) ==
    /\ pc[t] = "futex"
    /\ Goto(t, IF lock[mx[t]] = old[t] THEN "asleep" ELSE "count_out")
    /\ old' = [old EXCEPT ![t] = Free]
    /\ UNCHANGED <<type, memory, robust, pending, mx, op, wk, gave, callers,
                   swallowed, deaths>>

\* An absolute time that has passed, before or during the sleep
Timeout(t) ==
    /\ pc[t] \in {"futex", "asleep"}
    /\ gave' = [gave EXCEPT ![t] = TRUE]
    /\ old' = [old EXCEPT ![t] = Free]
    /\ Goto(t, "count_out")
    /\ UNCHANGED <<type, memory, robust, pending, mx, op, wk, callers, swallowed, deaths>>

\* A signal handler or a stray wake ends the sleep.
SpuriousWake(t) ==
    /\ pc[t] = "asleep"
    /\ Goto(t, "count_out")
    /\ UNCHANGED <<type, memory, robust, pending, locals, callers, swallowed, deaths>>

\* timedlock.c:91-92
CountOut(t) ==
    /\ pc[t] = "count_out"
    /\ waiters' = [waiters EXCEPT ![mx[t]] = @ - 1]
    /\ gave' = [gave EXCEPT ![t] = FALSE]
    /\ Leave(t, IF gave[t] THEN "idle" ELSE "attempt")
    /\ UNCHANGED <<type, lock, count, robust, pending, mx, old, wk, callers,
                   swallowed, deaths>>

-----------------------------------------------------------------------------
(* pthread_mutex_unlock and pthread_mutex_consistent *)

\* unlock.c:6: the count of waiters is read before anything else.  A mutex
\* without an owner is unlocked by its holder; of the others any thread may
\* try, and is told EPERM.
UnlockBegin(t, m) ==
    /\ pc[t] = "idle"
    /\ Tracks(m) \/ depth[t][m] > 0
    /\ mx' = [mx EXCEPT ![t] = m]
    /\ wk' = [wk EXCEPT ![t] = waiters[m] # 0]
    /\ depth' = [depth EXCEPT ![t][m] = IF Tracks(m) THEN @ ELSE 0]
    /\ Goto(t, IF Tracks(m) THEN "check" ELSE "swap")
    /\ UNCHANGED <<type, memory, robust, pending, op, old, gave, told, broken,
                   swallowed, deaths>>

\* unlock.c:15-22
UnlockCheck(t) ==
    LET m == mx[t] IN
    /\ pc[t] = "check"
    /\ \/ /\ lock[m].own # t
          /\ Forget(t)
          /\ Goto(t, "idle")
          /\ UNCHANGED <<count, depth>>
       \/ /\ lock[m].own = t
          /\ type[m].kind = "recursive" /\ count[m] # 0
          /\ count' = [count EXCEPT ![m] = @ - 1]
          /\ depth' = [depth EXCEPT ![t][m] = @ - 1]
          /\ Forget(t)
          /\ Goto(t, "idle")
       \/ /\ lock[m].own = t
          /\ ~(type[m].kind = "recursive" /\ count[m] # 0)
          /\ old' = [old EXCEPT ![t] = IF type[m].robust /\ lock[m].dead
                                       THEN Unrecoverable ELSE Free]
          /\ depth' = [depth EXCEPT ![t][m] = 0]
          /\ Goto(t, "unlink")
          /\ UNCHANGED <<count, wk>>
    /\ UNCHANGED <<type, lock, waiters, robust, pending, mx, op, gave, told, broken,
                   swallowed, deaths>>

\* unlock.c:23-35
Unlink(t) ==
    LET m == mx[t] IN
    /\ pc[t] = "unlink"
    /\ pending' = [pending EXCEPT ![t] = IF type[m].shared /\ Linux THEN {m} ELSE @]
    /\ robust' = [robust EXCEPT ![t] = @ \ {m}]
    /\ Goto(t, "swap")
    /\ UNCHANGED <<type, memory, locals, callers, swallowed, deaths>>

\* Whether an unlock, or an exit, wakes a waiter: the count it read at first
\* or the bit in the word it replaced says there is one.  The variant trusts the
\* bit alone.
MustWakeMarked(t) == lock[mx[t]].wait
MustWake(t) == wk[t] \/ lock[mx[t]].wait

\* unlock.c:49; old[t] is the new value the code keeps in new.
UnlockSwap(t) ==
    LET m == mx[t] IN
    /\ pc[t] = "swap"
    /\ lock' = [lock EXCEPT ![m] = old[t]]
    /\ told' = [told EXCEPT ![m] = FALSE]
    /\ old' = [old EXCEPT ![t] = Free]
    /\ \/ /\ Tracks(m) /\ type[m].shared
          /\ wk' = [wk EXCEPT ![t] = MustWake(t)]
          /\ Goto(t, "unpend")
       \/ /\ ~(Tracks(m) /\ type[m].shared)
          /\ wk' = [wk EXCEPT ![t] = FALSE]
          /\ Goto(t, IF MustWake(t) THEN "wake" ELSE "idle")
    /\ UNCHANGED <<type, waiters, count, robust, pending, mx, op, gave, depth, broken,
                   swallowed, deaths>>

\* unlock.c:51-57
Unpend(t) ==
    /\ pc[t] = "unpend"
    /\ pending' = [pending EXCEPT ![t] = {}]
    /\ wk' = [wk EXCEPT ![t] = FALSE]
    /\ Goto(t, IF wk[t] THEN "wake" ELSE "idle")
    /\ UNCHANGED <<type, memory, robust, mx, op, old, gave, callers, swallowed, deaths>>

\* FUTEX_WAKE of one waiter; the caller continues at label.
WakeOne(t, m, label) ==
    \/ /\ Sleepers(m) = {}
       /\ Goto(t, label)
    \/ \E s \in Sleepers(m) :
           pc' = [pc EXCEPT ![s] = "count_out", ![t] = label]

\* unlock.c:58
UnlockWake(t) ==
    /\ pc[t] = "wake"
    /\ WakeOne(t, mx[t], "idle")
    /\ UNCHANGED <<type, memory, robust, pending, locals, callers, swallowed, deaths>>

\* pthread_mutex_consistent.c:6-13, when it succeeds
Consistent(t, m) ==
    /\ pc[t] = "idle"
    /\ type[m].robust
    /\ lock[m].own = t /\ lock[m].dead
    /\ lock' = [lock EXCEPT ![m].dead = FALSE]
    /\ broken' = [broken EXCEPT ![m] = FALSE]
    /\ UNCHANGED <<type, waiters, count, robust, pending, pc, locals, depth, told,
                   swallowed, deaths>>

-----------------------------------------------------------------------------
(* Death and rebirth *)

\* What the callers of a dead thread's mutexes are left with
Orphan(t) ==
    /\ broken' = [m \in Mutexes |-> broken[m] \/ depth[t][m] > 0]
    /\ depth' = [depth EXCEPT ![t] = [m \in Mutexes |-> 0]]
    /\ deaths' = deaths + 1

\* pthread_create.c:125-131.  A thread that holds a mutex without an owner
\* does not exit: nothing would ever unlock it.
Exit(t) ==
    /\ pc[t] = "idle" /\ deaths < MaxDeaths
    /\ \A m \in Mutexes : depth[t][m] > 0 => Tracks(m)
    /\ Orphan(t)
    /\ Goto(t, "exit")
    /\ UNCHANGED <<type, memory, robust, pending, locals, told, swallowed>>

\* pthread_create.c:131-136: the next mutex of the list
ExitNext(t) ==
    /\ pc[t] = "exit"
    /\ \/ /\ robust[t] = {}
          /\ Goto(t, "dead")
          /\ UNCHANGED <<mx, wk, pending, robust>>
       \/ \E m \in robust[t] :
             /\ mx' = [mx EXCEPT ![t] = m]
             /\ wk' = [wk EXCEPT ![t] = waiters[m] # 0]
             /\ pending' = [pending EXCEPT ![t] = {m}]
             /\ robust' = [robust EXCEPT ![t] = @ \ {m}]
             /\ Goto(t, "exit_swap")
    /\ UNCHANGED <<type, memory, op, old, gave, callers, swallowed, deaths>>

\* pthread_create.c:137-139
ExitSwap(t) ==
    LET m == mx[t] IN
    /\ pc[t] = "exit_swap"
    /\ lock' = [lock EXCEPT ![m] = Died]
    /\ told' = [told EXCEPT ![m] = FALSE]
    /\ pending' = [pending EXCEPT ![t] = {}]
    /\ wk' = [wk EXCEPT ![t] = FALSE]
    /\ Goto(t, IF MustWake(t) THEN "exit_wake" ELSE "exit")
    /\ UNCHANGED <<type, waiters, count, robust, mx, op, old, gave, depth, broken,
                   swallowed, deaths>>

\* pthread_create.c:140
ExitWake(t) ==
    /\ pc[t] = "exit_wake"
    /\ WakeOne(t, mx[t], "exit")
    /\ UNCHANGED <<type, memory, robust, pending, locals, callers, swallowed, deaths>>

\* The kernel's walk of the robust list and the pending entry of a process
\* that died: a word the process owned gets the dead bit and keeps the bit
\* for waiters, one of whom is woken; a pending word that is zero may have
\* been released without its wake-up, so one waiter is woken.
KernelOwns(t, m) == m \in robust[t] \cup pending[t] /\ lock[m].own = t
KernelWakes(t, m) ==
    \/ KernelOwns(t, m) /\ lock[m].wait
    \/ m \in pending[t] /\ lock[m] = Free
KernelWoken(t) ==
    {W \in SUBSET {s \in Threads : pc[s] = "asleep" /\ KernelWakes(t, mx[s]) /\ s # t} :
        /\ \A r, s \in W : mx[r] = mx[s] => r = s
        /\ \A m \in Mutexes : KernelWakes(t, m) /\ Sleepers(m) \ {t} # {} => \E s \in W : mx[s] = m}

\* A process is killed, when every mutex is shared between processes of one
\* thread each.  It may have been woken, or be about to wake somebody.
OwesWake(t) ==
    \/ pc[t] \in {"wake", "exit_wake"}
    \/ pc[t] = "count_out" /\ ~gave[t]
    \/ pc[t] \in {"attempt", "announce"} /\ op[t] = "lock"
    \/ pc[t] = "cas" /\ lock[mx[t]] # Free
    \/ pc[t] = "unpend" /\ lock[mx[t]] # Free

\* The word does not show the sleepers: a compare-and-swap succeeded long
\* after its thread read the count of waiters, trylock.c:34 and 41, with the
\* mutex taken, waited for and released in between.
Unmarked(m) == Sleepers(m) # {} /\ ~lock[m].wait

Crash(t) ==
    /\ pc[t] # "dead" /\ Linux
    /\ deaths < MaxDeaths
    /\ \A m \in Mutexes : type[m].shared
    /\ \E W \in KernelWoken(t) :
          pc' = [s \in Threads |-> IF s = t THEN "dead"
                                  ELSE IF s \in W THEN "count_out" ELSE pc[s]]
    /\ lock' = [m \in Mutexes |->
                  IF KernelOwns(t, m) THEN [Died EXCEPT !.wait = lock[m].wait] ELSE lock[m]]
    /\ told' = [m \in Mutexes |-> told[m] /\ ~KernelOwns(t, m)]
    /\ swallowed' = swallowed \cup {m \in Mutexes : \/ m = mx[t] /\ OwesWake(t)
                                                    \/ KernelOwns(t, m) /\ Unmarked(m)}
    /\ robust' = [robust EXCEPT ![t] = {}]
    /\ pending' = [pending EXCEPT ![t] = {}]
    /\ gave' = [gave EXCEPT ![t] = FALSE]
    /\ Forget(t)
    /\ Orphan(t)
    /\ UNCHANGED <<type, waiters, count, mx, op>>

\* A new thread with the tid of a dead one
Spawn(t) ==
    /\ pc[t] = "dead"
    /\ Goto(t, "idle")
    /\ UNCHANGED <<type, memory, robust, pending, locals, callers, swallowed, deaths>>

-----------------------------------------------------------------------------
\* The steps a thread inside one of the functions takes by itself
Step(t) ==
    \/ AttemptNormal(t) \/ AttemptOwner(t) \/ Announce(t) \/ TryCas(t) \/ TryLink(t)
    \/ ReadWord(t) \/ CountIn(t) \/ Mark(t) \/ FutexWait(t) \/ CountOut(t)
    \/ UnlockCheck(t) \/ Unlink(t) \/ UnlockSwap(t) \/ Unpend(t) \/ UnlockWake(t)
    \/ ExitNext(t) \/ ExitSwap(t) \/ ExitWake(t)

Next ==
    \E t \in Threads :
        \/ \E m \in Mutexes, o \in {"lock", "try"} : Begin(t, m, o)
        \/ \E m \in Mutexes : UnlockBegin(t, m) \/ Consistent(t, m)
        \/ Step(t) \/ Timeout(t) \/ SpuriousWake(t)
        \/ Exit(t) \/ Crash(t) \/ Spawn(t)

Spec == Init /\ [][Next]_vars

\* Threads run, and a thread that holds a mutex outside the library unlocks it.
Runs(t) == Step(t) \/ \E m \in Mutexes : depth[t][m] > 0 /\ UnlockBegin(t, m)
Fairness == \A t \in Threads : WF_vars(Runs(t))

LiveSpec == Spec /\ Fairness

-----------------------------------------------------------------------------
(* Properties *)

\* The caller who holds m, and those inside lock or trylock who do not
Holder(m) == IF Held(m) THEN CHOOSE t \in Threads : depth[t][m] > 0 ELSE NoThread
Asking(m) == {t \in Threads : /\ mx[t] = m /\ depth[t][m] = 0
                             /\ pc[t] \in {"attempt", "announce", "cas", "link", "read",
                                          "count_in", "mark", "futex", "asleep", "count_out"}}
Abs(m) == INSTANCE AbstractLock WITH asking <- Asking(m), holder <- Holder(m)

\* Every mutex is a lock: it is granted to one caller at a time, and only to
\* one who asks (pthread_mutex_lock, _trylock, _unlock; the death of a holder
\* releases it).
ImplementsLock ==
    /\ \A m \in Mutexes : Abs(m)!Init
    /\ [][\A m \in Mutexes : [Abs(m)!Next]_(Abs(m)!vars)]_vars

\* No two callers hold a mutex; a recorded owner is the one who holds it, or is
\* inside lock, unlock or exit with it: never a new thread that got the tid of
\* a dead one.  The recursion count is the number of locks beyond the first,
\* also after the previous owner died in the middle of its own, and no lock
\* takes it past its limit.
OwnerHolds ==
    \A t \in Threads, m \in Mutexes :
        /\ depth[t][m] > 0 => \A s \in Threads \ {t} : depth[s][m] = 0
        /\ Tracks(m) /\ depth[t][m] > 0 =>
              /\ lock[m].own = t
              /\ type[m].kind = "recursive" => count[m] = depth[t][m] - 1 /\ count[m] <= MaxCount
        /\ lock[m].own = t /\ depth[t][m] = 0 =>
              \/ pc[t] \in {"link", "unlink", "swap", "exit_swap"} /\ mx[t] = m
              \/ pc[t] \in {"exit", "exit_swap", "exit_wake"} /\ m \in robust[t]

\* Whoever holds a robust mutex whose previous holder died, and whose state
\* nobody has made consistent, was told EOWNERDEAD.
OwnerDeathReported ==
    \A m \in Mutexes : type[m].robust /\ Held(m) /\ broken[m] => told[m]

\* A mutex that was unlocked in the inconsistent state stays unrecoverable.
UnrecoverableForEver ==
    [][\A m \in Mutexes : lock[m].own = NotRec => lock'[m].own = NotRec]_vars

\* A thread that will try to take m, or wake one that will
Minds(t, m) ==
    /\ mx[t] = m
    /\ \/ pc[t] \in {"wake", "exit_wake"}
       \/ pc[t] = "unpend" /\ wk[t]
       \/ pc[t] = "count_out" /\ ~gave[t]
       \/ pc[t] \in {"attempt", "announce", "cas", "read"} /\ op[t] = "lock"

\* Nobody sleeps on a mutex that could be taken unless some thread is about to
\* take it or to wake a sleeper.  The exceptions are a process killed between
\* the two, when the kernel repairs only what is on its list or pending, and one
\* killed while it owns a word without the bit that makes the kernel wake.
NoLostWake ==
    \A m \in Mutexes :
        Sleepers(m) # {} /\ Takeable(m) /\ m \notin swallowed
            => \E t \in Threads : Minds(t, m)

\* While threads sleep on a mutex that can be taken, it does not stay so.
Served(m) == Sleepers(m) = {} \/ ~Takeable(m) \/ m \in swallowed
FreeMutexIsTaken == \A m \in Mutexes : []<>Served(m)

\* Nobody waits for ever for a mutex that will never be unlocked again.
UnrecoverableReleasesWaiters ==
    \A m \in Mutexes, t \in Threads :
        lock[m].own = NotRec /\ t \in Asking(m) ~> t \notin Asking(m)

\* The cell through which unlock.c:31 takes a mutex off the robust list is one
\* that trylock put it on.
UnlinksWhatWasLinked ==
    \A t \in Threads : pc[t] = "unlink" => mx[t] \in robust[t]
=============================================================================
