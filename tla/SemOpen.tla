------------------------------- MODULE SemOpen ------------------------------
(***************************************************************************)
(* sem_open.c: the table of the named semaphores a process has mapped,     *)
(* under sem_open and sem_close from several threads, while the name may   *)
(* be unlinked, and made again, by anybody.  There is one name.  The       *)
(* system numbers files (st_ino) and uses the number of a file again once  *)
(* the file has no name and no mapping; it places a mapping at any free    *)
(* address.                                                                *)
(***************************************************************************)
EXTENDS Integers, FiniteSets, FiniteSetsExt

CONSTANTS Threads, SEM_NSEMS_MAX,
          Inodes, Addrs,     \* positive numbers of files and of pages
          MaxOpen, MaxUnlink \* bounds on the calls

VARIABLES
    semtab,     \* slot -> [ino, sem, refcnt]; sem is 0, -1 (reserved) or a page
    name,       \* the file of the name, 0 if there is none
    page,       \* the file mapped at each address, 0 if none
    pc, slot, map, ino, excl,   \* locals of sem_open and sem_close
    open,       \* per thread: the handles it has, with multiplicity per page
    opened, unlinked

locals == <<slot, map, ino, excl>>
vars == <<semtab, name, page, pc, locals, open, opened, unlinked>>

Slots == 1..SEM_NSEMS_MAX
NoEntry == [ino |-> 0, sem |-> 0, refcnt |-> 0]

Init ==
    /\ semtab = [s \in Slots |-> NoEntry]
    /\ name = 0
    /\ page = [a \in Addrs |-> 0]
    /\ pc = [t \in Threads |-> "run"]
    /\ slot = [t \in Threads |-> 0] /\ map = [t \in Threads |-> 0]
    /\ ino = [t \in Threads |-> 0] /\ excl = [t \in Threads |-> FALSE]
    /\ open = [t \in Threads |-> [a \in Addrs |-> 0]]
    /\ opened = 0 /\ unlinked = 0

Unused(n) == n # name /\ \A a \in Addrs : page[a] # n
FreePages == {a \in Addrs : page[a] = 0}

\* Reserve the first slot in case this semaphore is not mapped yet.
Reserve(t) ==
    /\ pc[t] = "run" /\ opened < MaxOpen
    /\ \E s \in Slots :
          /\ semtab[s].sem = 0 /\ \A r \in 1..s - 1 : semtab[r].sem # 0
          /\ slot' = [slot EXCEPT ![t] = s]
          /\ semtab' = [semtab EXCEPT ![s].sem = -1]
    /\ \E x \in BOOLEAN :
          /\ excl' = [excl EXCEPT ![t] = x]
          /\ pc' = [pc EXCEPT ![t] = IF x THEN "create" ELSE "look"]
    /\ opened' = opened + 1
    /\ UNCHANGED <<name, page, map, ino, open, unlinked>>

\* open, fstat, mmap and close of the file of the name.  If there is none,
\* create it, with O_CREAT; a failure of a system call is final.
Look(t) ==
    /\ pc[t] = "look"
    /\ \/ /\ pc' = [pc EXCEPT ![t] = "fail"]
          /\ UNCHANGED <<page, map, ino>>
       \/ /\ name = 0
          /\ pc' = [pc EXCEPT ![t] = "create"]
          /\ UNCHANGED <<page, map, ino>>
       \/ /\ name # 0
          /\ \E a \in FreePages :
               /\ page' = [page EXCEPT ![a] = name]
               /\ map' = [map EXCEPT ![t] = a] /\ ino' = [ino EXCEPT ![t] = name]
               /\ pc' = [pc EXCEPT ![t] = "enter"]
    /\ UNCHANGED <<semtab, name, slot, excl, open, opened, unlinked>>

\* A file under a temporary name, written and mapped; or a failure, which an
\* exclusive open also has if the name exists; or the temporary name is taken,
\* and the loop goes round.
Create(t) ==
    /\ pc[t] = "create"
    /\ \/ /\ pc' = [pc EXCEPT ![t] = "fail"]
          /\ UNCHANGED <<page, map, ino>>
       \/ /\ pc' = [pc EXCEPT ![t] = IF excl[t] THEN "create" ELSE "look"]
          /\ UNCHANGED <<page, map, ino>>
       \/ \E a \in FreePages, n \in Inodes :
             /\ Unused(n)
             /\ page' = [page EXCEPT ![a] = n]
             /\ map' = [map EXCEPT ![t] = a] /\ ino' = [ino EXCEPT ![t] = n]
             /\ pc' = [pc EXCEPT ![t] = "link"]
    /\ UNCHANGED <<semtab, name, slot, excl, open, opened, unlinked>>

\* Variant: the new file takes the name whoever has it (rename).
LinkOver(t) ==
    /\ pc[t] = "link"
    /\ name' = ino[t]
    /\ pc' = [pc EXCEPT ![t] = "enter"]
    /\ UNCHANGED <<semtab, page, slot, map, ino, excl, open, opened, unlinked>>

\* link(tmp, name): atomically, or the name has come to exist, or link fails
Link(t) ==
    /\ pc[t] = "link"
    /\ \/ /\ name = 0
          /\ name' = ino[t]
          /\ pc' = [pc EXCEPT ![t] = "enter"]
          /\ UNCHANGED <<page, map, ino>>
       \/ /\ page' = [page EXCEPT ![map[t]] = 0]
          /\ map' = [map EXCEPT ![t] = 0] /\ ino' = [ino EXCEPT ![t] = 0]
          /\ \/ pc' = [pc EXCEPT ![t] = "fail"]
             \/ name # 0 /\ ~excl[t] /\ pc' = [pc EXCEPT ![t] = "look"]
          /\ UNCHANGED name
    /\ UNCHANGED <<semtab, slot, excl, open, opened, unlinked>>

\* Back in the program, with a handle on page a or none
Leave(t, a) ==
    /\ pc' = [pc EXCEPT ![t] = "run"]
    /\ slot' = [slot EXCEPT ![t] = 0] /\ map' = [map EXCEPT ![t] = 0]
    /\ ino' = [ino EXCEPT ![t] = 0] /\ excl' = [excl EXCEPT ![t] = FALSE]
    /\ open' = IF a = 0 THEN open ELSE [open EXCEPT ![t][a] = @ + 1]

\* Variant: the slot reserved is not given back.
EnterLeak(t) ==
    LET same == {s \in Slots : semtab[s].ino = ino[t]}
    IN /\ pc[t] = "enter"
       /\ IF same # {}
          THEN LET s == CHOOSE s \in same : \A r \in same : s <= r
               IN /\ page' = [page EXCEPT ![map[t]] = 0]
                  /\ semtab' = [semtab EXCEPT ![s].refcnt = @ + 1]
                  /\ Leave(t, semtab[s].sem)
          ELSE /\ semtab' = [semtab EXCEPT ![slot[t]] =
                               [ino |-> ino[t], sem |-> map[t], refcnt |-> @.refcnt + 1]]
               /\ Leave(t, map[t])
               /\ UNCHANGED page
       /\ UNCHANGED <<name, opened, unlinked>>

\* Under the lock: the file may be mapped already, and then that mapping is
\* used and the slot given back; otherwise it enters the table.
Enter(t) ==
    LET same == {s \in Slots : semtab[s].ino = ino[t]}
    IN /\ pc[t] = "enter"
       /\ IF same # {}
          THEN LET s == CHOOSE s \in same : \A r \in same : s <= r
               IN /\ page' = [page EXCEPT ![map[t]] = 0]
                  /\ semtab' = [semtab EXCEPT ![slot[t]].sem = 0, ![s].refcnt = @ + 1]
                  /\ Leave(t, semtab[s].sem)
          ELSE /\ semtab' = [semtab EXCEPT ![slot[t]] =
                               [ino |-> ino[t], sem |-> map[t], refcnt |-> @.refcnt + 1]]
               /\ Leave(t, map[t])
               /\ UNCHANGED page
       /\ UNCHANGED <<name, opened, unlinked>>

Fail(t) ==
    /\ pc[t] = "fail"
    /\ semtab' = [semtab EXCEPT ![slot[t]].sem = 0]
    /\ Leave(t, 0)
    /\ UNCHANGED <<name, page, opened, unlinked>>

-----------------------------------------------------------------------------
\* sem_close of a handle the thread has; the last one unmaps it, unlocked.
Close(t) ==
    /\ pc[t] = "run"
    /\ \E a \in Addrs : \E s \in Slots :
          /\ open[t][a] > 0 /\ semtab[s].sem = a
          /\ open' = [open EXCEPT ![t][a] = @ - 1]
          /\ IF semtab[s].refcnt > 1
             THEN semtab' = [semtab EXCEPT ![s].refcnt = @ - 1] /\ UNCHANGED <<pc, map>>
             ELSE /\ semtab' = [semtab EXCEPT ![s] = NoEntry]
                  /\ map' = [map EXCEPT ![t] = a]
                  /\ pc' = [pc EXCEPT ![t] = "unmap"]
    /\ UNCHANGED <<name, page, slot, ino, excl, opened, unlinked>>

Unmap(t) ==
    /\ pc[t] = "unmap"
    /\ page' = [page EXCEPT ![map[t]] = 0]
    /\ map' = [map EXCEPT ![t] = 0]
    /\ pc' = [pc EXCEPT ![t] = "run"]
    /\ UNCHANGED <<semtab, name, slot, ino, excl, open, opened, unlinked>>

\* sem_unlink, by this process or another
Unlink ==
    /\ unlinked < MaxUnlink /\ unlinked' = unlinked + 1
    /\ name # 0 /\ name' = 0
    /\ UNCHANGED <<semtab, page, pc, locals, open, opened>>

\* Another process makes the name.
Elsewhere ==
    /\ unlinked < MaxUnlink /\ unlinked' = unlinked + 1
    /\ name = 0 /\ \E n \in Inodes : Unused(n) /\ name' = n
    /\ UNCHANGED <<semtab, page, pc, locals, open, opened>>

Next == \/ \E t \in Threads : \/ Reserve(t) \/ Look(t) \/ Create(t) \/ Link(t) \/ Enter(t)
                              \/ Fail(t) \/ Close(t) \/ Unmap(t)
        \/ Unlink \/ Elsewhere

Spec == Init /\ [][Next]_vars

-----------------------------------------------------------------------------
Handles(a) == MapThenSumSet(LAMBDA t : open[t][a], Threads)

\* What sem_open returns stays mapped, to the file it was opened for, until it
\* has been closed as often as opened; a file is mapped for the program at one
\* address only; and no slot of the table is lost.
TableTrue ==
    /\ \A a \in Addrs : Handles(a) > 0 =>
          \E s \in Slots : semtab[s] = [ino |-> page[a], sem |-> a, refcnt |-> Handles(a)]
    /\ \A a, b \in Addrs : Handles(a) > 0 /\ Handles(b) > 0 /\ page[a] = page[b] => a = b
    /\ Cardinality({s \in Slots : semtab[s].sem # 0}) =
          Cardinality({a \in Addrs : Handles(a) > 0})
            + Cardinality({t \in Threads : pc[t] \notin {"run", "unmap"}})

\* As long as nobody unlinks the name, everyone who has opened it has the same
\* file, however many tried to make it at once.
OneFile ==
    unlinked = 0 => \A a \in Addrs : Handles(a) > 0 => page[a] = name
=============================================================================
