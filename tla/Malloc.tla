------------------------------- MODULE Malloc -------------------------------
(***************************************************************************)
(* mallocng: the groups of one size class.  malloc works under the lock of *)
(* the allocator; free gives its slot back with one atomic operation on    *)
(* freed_mask and no lock, unless it may have to put the group on the list *)
(* or to release it.  The bit masks are sets of slot numbers, the circular *)
(* list of active groups is the sequence that starts at ctx.active[sc].    *)
(* Sizes and addresses are left out; a group is mapped on its own.         *)
(***************************************************************************)
EXTENDS Integers, Sequences

CONSTANTS Threads, Nobody,
          Metas,       \* the struct metas there is memory for
          Counts       \* the numbers of slots a group may be made with

\* The masks have 32 bits, and last_idx has five.
MaxSlots == 32

\* What the constants must be; the data structures are built on it.
ConstantsOK ==
    /\ Nobody \notin Threads /\ Nobody \notin Metas
    /\ Counts \subseteq 1..MaxSlots

VARIABLES
    lock,
    meta,       \* [avail_mask, freed_mask, last_idx, active_idx, mem]
    active,     \* the list
    held,       \* the slots the program has, as <<group, slot>>
    pc, loc     \* per thread: position and locals [g, i, freed, mask]

vars == <<lock, meta, active, held, pc, loc>>

Free == [avail_mask |-> {}, freed_mask |-> {}, last_idx |-> 0, active_idx |-> 0, mem |-> FALSE]
NoLocals == [g |-> Nobody, i |-> 0, freed |-> {}, mask |-> {}]

Init ==
    /\ lock = Nobody
    /\ meta = [m \in Metas |-> Free]
    /\ active = <<>>
    /\ held = {}
    /\ pc = [t \in Threads |-> "run"]
    /\ loc = [t \in Threads |-> NoLocals]

All(m) == 0..meta[m].last_idx
Act(m) == 0..meta[m].active_idx
First(mask) == CHOOSE s \in mask : \A r \in mask : s <= r
Members(list) == {list[i] : i \in 1..Len(list)}
Rotate(list) == Tail(list) \o <<Head(list)>>       \* *pm = m->next
Listed(m) == m \in Members(active)                   \* m->next
Dequeue(m) == LET i == CHOOSE j \in 1..Len(active) : active[j] = m
              IN [k \in 1..Len(active) - 1 |-> active[IF k < i THEN k ELSE k + 1]]

Goto(t, label) == pc' = [pc EXCEPT ![t] = label]

\* Unlock and return slot s of group m.
Success(t, m, s) ==
    /\ held' = held \cup {<<m, s>>}
    /\ lock' = Nobody
    /\ Goto(t, "run")
    /\ loc' = [loc EXCEPT ![t] = NoLocals]

-----------------------------------------------------------------------------
(* malloc *)

\* The head of the list has a slot; or alloc_slot
malloc(t) ==
    /\ pc[t] = "run" /\ lock = Nobody
    /\ IF active # <<>> /\ meta[Head(active)].avail_mask # {}
       THEN LET m == Head(active) s == First(meta[m].avail_mask)
            IN /\ meta' = [meta EXCEPT ![m].avail_mask = @ \ {s}]
               /\ Success(t, m, s)
       ELSE /\ lock' = t
            /\ Goto(t, "try_avail")
            /\ UNCHANGED <<meta, held, loc>>
    /\ UNCHANGED active

\* The head has no slot left: it leaves the list if none has been freed either.
TryAvail(t) ==
    /\ pc[t] = "try_avail"
    /\ IF active = <<>> THEN Goto(t, "alloc_group") /\ UNCHANGED active
       ELSE LET m == Head(active)
            IN IF meta[m].freed_mask = {}
               THEN /\ active' = Dequeue(m)
                    /\ Goto(t, IF active' = <<>> THEN "alloc_group" ELSE "pick")
               ELSE active' = Rotate(active) /\ Goto(t, "pick")
    /\ UNCHANGED <<lock, meta, held, loc>>

\* mask = m->freed_mask; a group that is all free is skipped.
Pick(t) ==
    LET m == Head(active)
        full == meta[m].freed_mask = All(m)
        list == IF full THEN Rotate(active) ELSE active
    IN /\ pc[t] = "pick"
       /\ active' = list
       /\ loc' = [loc EXCEPT ![t].mask = meta[Head(list)].freed_mask]
       /\ Goto(t, "widen")
       /\ UNCHANGED <<lock, meta, held>>

\* Variant: another group is never tried.
WidenFirst(t) ==
    /\ pc[t] = "widen" /\ Goto(t, "activate")
    /\ UNCHANGED <<lock, held, loc, active, meta>>

\* None of its free slots has been activated: try the next group, or activate
\* more slots of this one if it is alone.
Widen(t) ==
    LET m == Head(active)
    IN /\ pc[t] = "widen" /\ Goto(t, "activate")
       /\ IF loc[t].mask \cap Act(m) # {} THEN UNCHANGED <<active, meta>>
          ELSE IF Len(active) > 1 THEN active' = Rotate(active) /\ UNCHANGED meta
          ELSE /\ \E n \in meta[m].active_idx..meta[m].last_idx :
                     /\ n > meta[m].active_idx \/ n = meta[m].last_idx
                     /\ meta' = [meta EXCEPT ![m].active_idx = n]
               /\ UNCHANGED active
       /\ UNCHANGED <<lock, held, loc>>

\* activate_group, in steps that a free without the lock may come between:
\* the exchange on freed_mask, and the store to avail_mask
Exchange(t) ==
    LET m == Head(active)
    IN /\ \/ pc[t] = "activate" /\ Goto(t, "set_avail")
          \/ pc[t] = "activate_new" /\ Goto(t, "set_new")
       /\ meta' = [meta EXCEPT ![m].freed_mask = @ \ Act(m)]
       /\ loc' = [loc EXCEPT ![t].mask = meta[m].freed_mask \cap Act(m)]
       /\ UNCHANGED <<lock, active, held>>

SetAvail(t) ==
    /\ \/ pc[t] = "set_avail" /\ Goto(t, "take")
       \/ pc[t] = "set_new" /\ Goto(t, "release")
    /\ meta' = [meta EXCEPT ![Head(active)].avail_mask = loc[t].mask]
    /\ UNCHANGED <<lock, active, held, loc>>

\* m->avail_mask = mask - first
TakeFirst(t) ==
    LET s == First(loc[t].mask)
    IN /\ pc[t] = "take"
       /\ meta' = [meta EXCEPT ![Head(active)].avail_mask = loc[t].mask \ {s}]
       /\ Success(t, Head(active), s)
       /\ UNCHANGED active

\* A new group, with some of its slots activated; slot 0 is taken.
AllocGroup(t) ==
    /\ pc[t] = "alloc_group"
    /\ \/ \E m \in {n \in Metas : ~meta[n].mem}, cnt \in Counts : \E a \in 0..cnt - 1 :
             /\ meta' = [meta EXCEPT ![m] =
                           [avail_mask |-> 1..a, freed_mask |-> a + 1..cnt - 1,
                            last_idx |-> cnt - 1, active_idx |-> a, mem |-> TRUE]]
             /\ active' = Append(active, m)
             /\ Success(t, m, 0)
       \/ /\ lock' = Nobody                   \* no memory
          /\ Goto(t, "run")
          /\ UNCHANGED <<meta, active, held, loc>>

-----------------------------------------------------------------------------
(* free *)

\* Give p back: from here on it is the thread's, not the program's.
free(t) ==
    /\ pc[t] = "run"
    /\ \E p \in held :
          /\ held' = held \ {p}
          /\ loc' = [loc EXCEPT ![t].g = p[1], ![t].i = p[2]]
    /\ Goto(t, "freed")
    /\ UNCHANGED <<lock, meta, active>>

ReadFreed(t) ==
    /\ pc[t] = "freed" /\ Goto(t, "avail")
    /\ loc' = [loc EXCEPT ![t].freed = meta[loc[t].g].freed_mask]
    /\ UNCHANGED <<lock, meta, active, held>>

\* Variant: the first slot freed is given back without the lock as well.
ReadAvailFirst(t) ==
    LET mask == loc[t].freed \cup meta[loc[t].g].avail_mask
    IN /\ pc[t] = "avail"
       /\ Goto(t, IF mask \cup {loc[t].i} = All(loc[t].g) THEN "lock" ELSE "cas")
       /\ UNCHANGED <<lock, meta, active, held, loc>>

\* avail_mask is read after freed_mask: neither the first nor the last slot
ReadAvail(t) ==
    LET mask == loc[t].freed \cup meta[loc[t].g].avail_mask
    IN /\ pc[t] = "avail"
       /\ Goto(t, IF loc[t].freed = {} \/ mask \cup {loc[t].i} = All(loc[t].g)
                  THEN "lock" ELSE "cas")
       /\ UNCHANGED <<lock, meta, active, held, loc>>

\* Variant: a store in place of the compare-and-swap.
CasStore(t) ==
    /\ pc[t] = "cas"
    /\ meta' = [meta EXCEPT ![loc[t].g].freed_mask = loc[t].freed \cup {loc[t].i}]
    /\ Goto(t, "run") /\ loc' = [loc EXCEPT ![t] = NoLocals]
    /\ UNCHANGED <<lock, active, held>>

\* a_cas(&g->freed_mask, freed, freed+self)
Cas(t) ==
    /\ pc[t] = "cas"
    /\ IF meta[loc[t].g].freed_mask = loc[t].freed
       THEN /\ meta' = [meta EXCEPT ![loc[t].g].freed_mask = @ \cup {loc[t].i}]
            /\ Goto(t, "run") /\ loc' = [loc EXCEPT ![t] = NoLocals]
       ELSE Goto(t, "freed") /\ UNCHANGED <<meta, loc>>
    /\ UNCHANGED <<lock, active, held>>

\* wrlock, and nontrivial_free's reading of the masks
FreeLock(t) ==
    /\ pc[t] = "lock" /\ lock = Nobody
    /\ lock' = t
    /\ loc' = [loc EXCEPT ![t].mask = meta[loc[t].g].freed_mask \cup meta[loc[t].g].avail_mask]
    /\ Goto(t, "nontrivial")
    /\ UNCHANGED <<meta, active, held>>

\* okay_to_free: a group that is alone on the list may be kept.
OkayToFree(m) == IF active = <<m>> THEN BOOLEAN ELSE {TRUE}

\* The last slot: the group leaves the list, and the next is activated if it
\* was the head.
Release(t) ==
    LET m == loc[t].g
        list == IF Listed(m) THEN Dequeue(m) ELSE active
    IN /\ active' = list
       /\ Goto(t, IF Listed(m) /\ Head(active) = m /\ list # <<>> THEN "activate_new" ELSE "release")
       /\ UNCHANGED <<lock, meta, loc>>

\* Otherwise the slot is marked; the first one puts the group on the list,
\* unless it still is its head.
Mark(t) ==
    LET m == loc[t].g
    IN /\ active' = IF loc[t].mask = {} /\ ~(active # <<>> /\ Head(active) = m)
                    THEN Append(active, m) ELSE active
       /\ meta' = [meta EXCEPT ![m].freed_mask = @ \cup {loc[t].i}]
       /\ lock' = Nobody
       /\ Goto(t, "run") /\ loc' = [loc EXCEPT ![t] = NoLocals]

NontrivialFree(t) ==
    /\ pc[t] = "nontrivial"
    /\ \E okay \in OkayToFree(loc[t].g) :
          IF loc[t].mask \cup {loc[t].i} = All(loc[t].g) /\ okay THEN Release(t) ELSE Mark(t)
    /\ UNCHANGED held

\* free_group, and unlock
FreeGroup(t) ==
    /\ pc[t] = "release"
    /\ meta' = [meta EXCEPT ![loc[t].g] = Free]
    /\ lock' = Nobody
    /\ Goto(t, "run") /\ loc' = [loc EXCEPT ![t] = NoLocals]
    /\ UNCHANGED <<active, held>>

Next == \E t \in Threads :
    \/ malloc(t) \/ TryAvail(t) \/ Pick(t) \/ Widen(t) \/ AllocGroup(t)
    \/ Exchange(t) \/ SetAvail(t) \/ TakeFirst(t)
    \/ free(t) \/ ReadFreed(t) \/ ReadAvail(t) \/ Cas(t)
    \/ FreeLock(t) \/ NontrivialFree(t) \/ FreeGroup(t)

Spec == Init /\ [][Next]_vars

-----------------------------------------------------------------------------
\* The slots of m that the program has, that threads are giving back, and that
\* activate_group has in its hands between the two masks
Held(m) == {p[2] : p \in {h \in held : h[1] = m}}
Returning(m) == {loc[t].i : t \in {u \in Threads : loc[u].g = m}}
Activating(m) == UNION {loc[t].mask : t \in {u \in Threads :
                          pc[u] \in {"set_avail", "set_new"} /\ m = Head(active)}}

\* Every slot of a group is in exactly one place: with the program or on its
\* way back, in avail_mask, in freed_mask, or between the two.  No slot is
\* handed out or freed twice, none is lost, and a group is released only when
\* nobody has a slot of it.
SlotsPartitioned ==
    \A m \in Metas :
       LET places == <<Held(m), Returning(m), meta[m].avail_mask, meta[m].freed_mask, Activating(m)>>
       IN /\ UNION {places[i] : i \in 1..5} = IF meta[m].mem THEN All(m) ELSE {}
          /\ \A i, j \in 1..5 : i # j => places[i] \cap places[j] = {}
          /\ \A t, u \in Threads : t # u /\ loc[t].g = m /\ loc[u].g = m => loc[t].i # loc[u].i

\* A group with free slots is on the list, where malloc will find it, although
\* slots are freed without a look at the list; only the head has activated
\* ones.  The exception is a group on its way out.
FreeSlotsListed ==
    \A m \in Metas :
       \/ meta[m].freed_mask \cup meta[m].avail_mask = {}
       \/ Listed(m) /\ (meta[m].avail_mask = {} \/ m = Head(active))
       \/ \E t \in Threads : pc[t] \in {"activate_new", "set_new", "release"} /\ loc[t].g = m

\* The assertions of the code: activate_group is called for a group without
\* available slots, and malloc's call of it finds one; free finds its slot in
\* neither mask; and a group that is queued is not on the list.
AssertionsHold ==
    \A t \in Threads :
       /\ pc[t] \in {"activate", "activate_new"} => meta[Head(active)].avail_mask = {}
       /\ pc[t] = "take" => loc[t].mask # {}
       /\ pc[t] = "avail" => loc[t].i \notin loc[t].freed \cup meta[loc[t].g].avail_mask
       /\ pc[t] = "nontrivial" /\ loc[t].mask = {} /\ Listed(loc[t].g) => loc[t].g = Head(active)
=============================================================================
