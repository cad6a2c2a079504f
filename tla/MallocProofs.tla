---------------------------- MODULE MallocProofs ----------------------------
(***************************************************************************)
(* Proofs about mallocng's groups of one size class, for any number of     *)
(* threads and groups of up to 32 slots, the bits of a mask: the inductive *)
(* invariant, the steps of free, malloc's search for a group with a free   *)
(* slot (the rotation of the list, activate_group, new groups), and the    *)
(* theorems.                                                               *)
(*                                                                         *)
(* The three properties need each other.  That free without the lock loses *)
(* no slot (Slots) rests on the group being on the list (List), for which  *)
(* the mask must not have been empty (Knows); that activation finds a slot *)
(* rests on Groups: slots that were never active are all in freed_mask,    *)
(* and only one group has any, since a new group is made only when the     *)
(* list is empty and a group with slots in freed_mask is always on it.     *)
(***************************************************************************)
EXTENDS Malloc, TLAPS

\* A list without repetitions
NoDup(list) == \A i, j \in 1..Len(list) : list[i] = list[j] => i = j

-----------------------------------------------------------------------------
(* The inductive invariant *)

MayLock == {"try_avail", "pick", "widen", "alloc_group", "activate", "set_avail", "take",
            "nontrivial", "activate_new", "set_new", "release"}
Freeing == {"freed", "avail", "cas", "lock", "nontrivial", "activate_new", "set_new", "release"}
Releasing == {"activate_new", "set_new", "release"}

Meta == [avail_mask : SUBSET Nat, freed_mask : SUBSET Nat, last_idx : Nat, active_idx : Nat,
         mem : BOOLEAN]
Locals == [g : Metas \cup {Nobody}, i : Nat, freed : SUBSET Nat, mask : SUBSET Nat]

TypeOK ==
    /\ lock \in Threads \cup {Nobody}
    /\ meta \in [Metas -> Meta]
    /\ active \in Seq(Metas)
    /\ held \subseteq Metas \X Nat
    /\ pc \in [Threads -> {"run"} \cup MayLock \cup Freeing]
    /\ loc \in [Threads -> Locals]

\* The lock is held where the code is between wrlock and unlock, and a thread
\* has a slot to give back exactly in free.
Control ==
    \A t \in Threads : /\ pc[t] \in MayLock <=> lock = t
                       /\ loc[t].g # Nobody <=> pc[t] \in Freeing

\* The slots of a group that have not been activated are all in freed_mask, and
\* there is at most one group that has any.
Groups ==
    \A m \in Metas :
       /\ meta[m].active_idx <= meta[m].last_idx
       /\ \A s \in Nat : meta[m].active_idx < s /\ s <= meta[m].last_idx => s \in meta[m].freed_mask
       /\ ~meta[m].mem => meta[m].last_idx = 0
       /\ \A n \in Metas : n # m => \/ meta[m].active_idx = meta[m].last_idx
                                   \/ meta[n].active_idx = meta[n].last_idx

\* The thread with the lock is about to release m.
Leaving(m) == lock \in Threads /\ pc[lock] \in Releasing /\ loc[lock].g = m

\* What is on the list: groups that have slots to give, but for the head.
List ==
    /\ NoDup(active)
    /\ \A m \in Members(active) :
          /\ meta[m].mem
          /\ m # Head(active) => meta[m].freed_mask # {}
    /\ \A m \in Metas : Leaving(m) \/
          /\ meta[m].freed_mask # {} => m \in Members(active)
          /\ meta[m].avail_mask # {} => m \in Members(active) /\ m = Head(active)

\* Slot s of m is with activate_group.
Moving(m, s) == /\ lock \in Threads /\ pc[lock] \in {"set_avail", "set_new"}
                /\ m = Head(active) /\ s \in loc[lock].mask

\* A thread is giving slot s of m back.
Coming(m, s) == \E t \in Threads : loc[t].g = m /\ loc[t].i = s

\* Slot s of m is in one of the five places if there is such a slot, and in no
\* two of them.
Slot(m, s) ==
    LET H == <<m, s>> \in held
        A == s \in meta[m].avail_mask
        F == s \in meta[m].freed_mask
        M == Moving(m, s)
        C == Coming(m, s)
    IN /\ H \/ A \/ F \/ M \/ C <=> meta[m].mem /\ s <= meta[m].last_idx
       /\ H => ~A /\ ~F /\ ~M /\ ~C
       /\ A => ~F /\ ~M /\ ~C
       /\ F => ~M /\ ~C
       /\ M => ~C

Slots == \A m \in Metas, s \in Nat : Slot(m, s)

\* No two threads give the same slot back.
Distinct ==
    \A t, u \in Threads : t # u /\ loc[t].g = loc[u].g /\ loc[t].g # Nobody => loc[t].i # loc[u].i

\* What a thread knows at each place
Knows(t) ==
    LET h == Head(active) mask == loc[t].mask g == loc[t].g IN
       /\ pc[t] = "try_avail" /\ active # <<>> => meta[h].avail_mask = {}
       /\ pc[t] \in {"pick", "widen", "activate", "set_avail", "activate_new", "set_new"} =>
             active # <<>> /\ meta[h].avail_mask = {}
       /\ pc[t] = "pick" => meta[h].freed_mask # {}
       /\ pc[t] = "widen" => mask # {} /\ mask \subseteq meta[h].freed_mask
       /\ pc[t] = "activate" => meta[h].freed_mask \cap Act(h) # {}
       /\ pc[t] \in {"set_avail", "set_new"} => mask \subseteq Act(h)
       /\ pc[t] \in {"set_avail", "take"} => mask # {}
       /\ pc[t] = "take" => active # <<>> /\ meta[h].avail_mask = mask
       /\ pc[t] = "alloc_group" => active = <<>>
       /\ pc[t] \in {"avail", "cas"} => loc[t].i \notin loc[t].freed
       /\ pc[t] = "cas" => loc[t].freed # {}
       /\ pc[t] = "nontrivial" =>
             /\ mask \subseteq meta[g].freed_mask \cup meta[g].avail_mask
             /\ mask = {} /\ g \in Members(active) => g = h
       /\ pc[t] \in Releasing =>
             /\ g \notin Members(active)
             /\ All(g) \subseteq meta[g].freed_mask \cup meta[g].avail_mask \cup {loc[t].i}

IInv == /\ TypeOK /\ Control /\ Groups /\ List /\ Slots /\ Distinct
        /\ \A t \in Threads : Knows(t)

-----------------------------------------------------------------------------
(* Lists *)

\* The first slot of a group.
LEMMA FirstIdx == 0 \in Nat
OBVIOUS

\* What a list has, is at one of its places; the first of them is the head.
LEMMA Listing ==
  ASSUME NEW list \in Seq(Metas)
  PROVE  /\ \A m : m \in Members(list) <=> \E i \in 1..Len(list) : list[i] = m
         /\ Members(list) \subseteq Metas
         /\ list = <<>> <=> Members(list) = {}
         /\ list # <<>> => Head(list) \in Members(list) /\ Head(list) = list[1]
<1>1. \A m : m \in Members(list) <=> \E i \in 1..Len(list) : list[i] = m
      BY DEF Members
<1>2. Members(list) \subseteq Metas
      BY <1>1
<1>3. list # <<>> => 1 \in 1..Len(list) /\ Head(list) = list[1]
      OBVIOUS
<1>4. list = <<>> => 1..Len(list) = {}
      OBVIOUS
<1> QED BY <1>1, <1>2, <1>3, <1>4, Zenon

\* Rotation keeps the members of a list and puts another at its head.
LEMMA Rotation ==
  ASSUME NEW list \in Seq(Metas), list # <<>>, NoDup(list)
  PROVE  /\ Rotate(list) \in Seq(Metas) /\ Rotate(list) # <<>>
         /\ NoDup(Rotate(list))
         /\ Members(Rotate(list)) = Members(list)
         /\ Len(list) > 1 => Head(Rotate(list)) # Head(list)
         /\ Len(list) = 1 => Head(Rotate(list)) = Head(list)
         /\ Len(Rotate(list)) = Len(list)
<1> DEFINE n == Len(list)
           r == Rotate(list)
<1>1. /\ n \in Nat \ {0} /\ r \in Seq(Metas) /\ Len(r) = n
      /\ r[n] = list[1]
      /\ \A k \in 1..n - 1 : r[k] = list[k + 1]
      BY DEF Rotate
<1>2. Members(r) = Members(list)
  <2> HIDE DEF r
  <2>0. \A m : m \in Members(r) <=> \E k \in 1..n : r[k] = m
        BY <1>1, Listing
  <2>1. \A m : m \in Members(r) => m \in Members(list)
        BY <1>1, <2>0, Listing, SMTT(60)
  <2>2. ASSUME NEW k \in 1..n PROVE list[k] \in Members(r)
    <3>1. CASE k = 1
          BY <1>1, <2>0, <3>1
    <3>2. CASE k > 1
      <4>1. k - 1 \in 1..n /\ k - 1 \in 1..n - 1
            BY <1>1, <3>2
      <4>2. r[k - 1] = list[k]
            BY <1>1, <4>1
      <4> QED BY <2>0, <4>1, <4>2
    <3> QED BY <3>1, <3>2
  <2>3. \A m : m \in Members(list) => m \in Members(r)
        BY <2>2, Listing
  <2> QED BY <2>1, <2>3, Zenon
<1>3. NoDup(r)
      BY <1>1 DEF NoDup
<1>4. /\ n > 1 => Head(r) # Head(list)
      /\ n = 1 => Head(r) = Head(list)
      BY <1>1 DEF NoDup
<1> QED BY <1>1, <1>2, <1>3, <1>4

\* A group that is put at the end of a list is one more member of it.
LEMMA Queueing ==
  ASSUME NEW list \in Seq(Metas), NoDup(list), NEW m \in Metas, m \notin Members(list)
  PROVE  /\ Append(list, m) \in Seq(Metas) /\ Append(list, m) # <<>>
         /\ NoDup(Append(list, m))
         /\ Members(Append(list, m)) = Members(list) \cup {m}
         /\ Head(Append(list, m)) = IF list = <<>> THEN m ELSE Head(list)
<1> DEFINE n == Len(list)
           a == Append(list, m)
<1>1. /\ n \in Nat /\ a \in Seq(Metas) /\ Len(a) = n + 1 /\ a[n + 1] = m
      /\ \A k \in 1..n : a[k] = list[k]
      OBVIOUS
<1>2. Members(a) = Members(list) \cup {m}
  <2> HIDE DEF a
  <2>0. \A x : x \in Members(a) <=> \E k \in 1..n + 1 : a[k] = x
        BY <1>1, Listing
  <2>1. \A x : x \in Members(a) => x \in Members(list) \cup {m}
        BY <1>1, <2>0, Listing
  <2>2. \A x : x \in Members(list) => x \in Members(a)
        BY <1>1, <2>0, Listing
  <2>3. m \in Members(a)
        BY <1>1, <2>0
  <2> QED BY <2>1, <2>2, <2>3
<1>3. NoDup(a)
      BY <1>1, Listing DEF NoDup
<1>4. a # <<>> /\ Head(a) = IF list = <<>> THEN m ELSE Head(list)
      BY <1>1
<1> QED BY <1>1, <1>2, <1>3, <1>4, Zenon

\* A group that is taken off the list is no longer on it, and all others are.
LEMMA Dequeueing ==
  ASSUME active \in Seq(Metas), NoDup(active), NEW m \in Members(active)
  PROVE  /\ Dequeue(m) \in Seq(Metas)
         /\ NoDup(Dequeue(m))
         /\ Members(Dequeue(m)) = Members(active) \ {m}
         /\ m # Head(active) => Dequeue(m) # <<>> /\ Head(Dequeue(m)) = Head(active)
<1> DEFINE n == Len(active)
           i == CHOOSE j \in 1..n : active[j] = m
           d == Dequeue(m)
<1>1. n \in Nat \ {0} /\ i \in 1..n /\ active[i] = m
      BY Listing
<1> HIDE DEF i
<1>2. /\ d = [k \in 1..n - 1 |-> active[IF k < i THEN k ELSE k + 1]]
      BY DEF Dequeue, i
<1>3. /\ d \in Seq(Metas) /\ Len(d) = n - 1
      /\ \A k \in 1..n - 1 : d[k] = active[IF k < i THEN k ELSE k + 1]
      BY <1>1, <1>2
<1> HIDE DEF d
<1>4. NoDup(d)
      BY <1>1, <1>3 DEF NoDup
<1>5. \A x : x \in Members(d) => x \in Members(active) \ {m}
      BY <1>1, <1>3, Listing, SMTT(60) DEF NoDup
<1>6. ASSUME NEW k \in 1..n, active[k] # m PROVE active[k] \in Members(d)
  <2>1. CASE k < i
    <3>1. k \in 1..n - 1 /\ d[k] = active[k]
          BY <1>1, <1>3, <2>1
    <3> QED BY <1>3, <3>1, Listing
  <2>2. CASE k > i
    <3>1. k - 1 \in 1..n - 1 /\ d[k - 1] = active[k]
          BY <1>1, <1>3, <2>2
    <3> QED BY <1>3, <3>1, Listing
  <2> QED BY <1>1, <1>6, <2>1, <2>2
<1>7. Members(d) = Members(active) \ {m}
      BY <1>5, <1>6, Listing
<1>8. m # Head(active) => d # <<>> /\ Head(d) = Head(active)
      BY <1>1, <1>3
<1> QED BY <1>3, <1>4, <1>7, <1>8 DEF d


-----------------------------------------------------------------------------
(* What the invariant says of a thread and of what it leaves alone *)

\* The types of the fields
LEMMA Types ==
  ASSUME TypeOK
  PROVE  /\ \A m \in Metas : /\ meta[m] \in Meta /\ meta[m].mem \in BOOLEAN
                             /\ meta[m].avail_mask \in SUBSET Nat
                             /\ meta[m].freed_mask \in SUBSET Nat
                             /\ meta[m].last_idx \in Nat /\ meta[m].active_idx \in Nat
         /\ \A t \in Threads : /\ loc[t] \in Locals /\ loc[t].g \in Metas \cup {Nobody}
                               /\ loc[t].i \in Nat
                               /\ loc[t].freed \in SUBSET Nat /\ loc[t].mask \in SUBSET Nat
         /\ active \in Seq(Metas) /\ Members(active) \subseteq Metas
         /\ active # <<>> => Head(active) \in Members(active) /\ Head(active) \in Metas
BY Listing DEF TypeOK, Meta, Locals

\* Only one group has slots that were never active, and they are freed slots.
LEMMA Apart ==
  ASSUME TypeOK, Groups, NEW m \in Metas
  PROVE  /\ meta[m].active_idx # meta[m].last_idx
              => \A n \in Metas : n # m => meta[n].active_idx = meta[n].last_idx
         /\ meta[m].freed_mask = {} => meta[m].active_idx = meta[m].last_idx
<1>1. meta[m].active_idx # meta[m].last_idx
        => \A n \in Metas : n # m => meta[n].active_idx = meta[n].last_idx
      BY Zenon DEF Groups
<1>2. meta[m].active_idx \in Nat /\ meta[m].last_idx \in Nat
      BY Types, Zenon
<1>3. /\ meta[m].active_idx <= meta[m].last_idx
      /\ \A s \in Nat : meta[m].active_idx < s /\ s <= meta[m].last_idx
                          => s \in meta[m].freed_mask
      BY Zenon DEF Groups
<1>4. meta[m].active_idx < meta[m].last_idx => meta[m].last_idx \in meta[m].freed_mask
      BY <1>2, <1>3
<1> QED BY <1>1, <1>2, <1>3, <1>4

\* Groups is not about avail_mask.
LEMMA GroupsKept ==
  ASSUME Groups,
         \A m \in Metas : /\ meta'[m].freed_mask = meta[m].freed_mask
                          /\ meta'[m].last_idx = meta[m].last_idx
                          /\ meta'[m].active_idx = meta[m].active_idx
                          /\ meta'[m].mem = meta[m].mem
  PROVE  Groups'
<1> SUFFICES ASSUME NEW m \in Metas
             PROVE  /\ meta'[m].active_idx <= meta'[m].last_idx
                    /\ \A s \in Nat : meta'[m].active_idx < s /\ s <= meta'[m].last_idx
                                        => s \in meta'[m].freed_mask
                    /\ ~meta'[m].mem => meta'[m].last_idx = 0
                    /\ \A n \in Metas : n # m => \/ meta'[m].active_idx = meta'[m].last_idx
                                                 \/ meta'[n].active_idx = meta'[n].last_idx
    BY Zenon DEF Groups
<1>1. /\ meta[m].active_idx <= meta[m].last_idx
      /\ \A s \in Nat : meta[m].active_idx < s /\ s <= meta[m].last_idx => s \in meta[m].freed_mask
      /\ ~meta[m].mem => meta[m].last_idx = 0
      /\ \A n \in Metas : n # m => \/ meta[m].active_idx = meta[m].last_idx
                                   \/ meta[n].active_idx = meta[n].last_idx
      BY Zenon DEF Groups
<1> QED BY <1>1, Zenon

\* Storing a mask in a group
LEMMA Stored ==
  ASSUME TypeOK, NEW m \in Metas, NEW mask \in SUBSET Nat
  PROVE  /\ [meta EXCEPT ![m].freed_mask = mask] \in [Metas -> Meta]
         /\ [meta EXCEPT ![m].avail_mask = mask] \in [Metas -> Meta]
<1>1. /\ [meta[m] EXCEPT !.freed_mask = mask] \in Meta
      /\ [meta[m] EXCEPT !.avail_mask = mask] \in Meta
      BY Zenon DEF TypeOK, Meta
<1> QED BY <1>1 DEF TypeOK

\* What a thread that is about to release its group knows after a step
LEMMA Releases ==
  ASSUME NEW t \in Threads, pc'[t] \in Releasing,
         (loc[t].g \notin Members(active))',
         (All(loc[t].g) \subseteq meta[loc[t].g].freed_mask \cup meta[loc[t].g].avail_mask
                                 \cup {loc[t].i})',
         pc'[t] # "release" => (active # <<>> /\ meta[Head(active)].avail_mask = {})',
         pc'[t] = "set_new" => (loc[t].mask \subseteq Act(Head(active)))'
  PROVE  Knows(t)'
<1>1. pc'[t] \in {"activate_new", "set_new", "release"}
      BY DEF Releasing
<1> QED BY <1>1 DEF Knows

\* A list of the same groups, as long as a slot becomes free only in groups
\* that had a free one
LEMMA ListKept ==
  ASSUME List, active' = active, Members(active) \subseteq Metas,
         \A m \in Metas : /\ meta'[m].mem = meta[m].mem
                          /\ meta'[m].avail_mask = meta[m].avail_mask
                          /\ meta'[m].freed_mask = {} <=> meta[m].freed_mask = {}
                          /\ Leaving(m)' <=> Leaving(m)
  PROVE  List'
BY DEF List

\* Slots that stay where they are
LEMMA SlotsKept ==
  ASSUME Slots, UNCHANGED <<meta, held>>,
         \A m \in Metas, s \in Nat : /\ Moving(m, s)' <=> Moving(m, s)
                                     /\ Coming(m, s)' <=> Coming(m, s)
  PROVE  Slots'
<1> SUFFICES ASSUME NEW m \in Metas, NEW s \in Nat PROVE Slot(m, s)'
    BY DEF Slots
<1>1. Slot(m, s)
      BY DEF Slots
<1>2. /\ <<m, s>> \in held' <=> <<m, s>> \in held
      /\ meta'[m] = meta[m]
      OBVIOUS
<1> QED BY <1>1, <1>2 DEF Slot

\* What a thread in nontrivial_free knows after a step
LEMMA ReadMasks ==
  ASSUME NEW t \in Threads, pc'[t] = "nontrivial",
         (loc[t].mask \subseteq meta[loc[t].g].freed_mask \cup meta[loc[t].g].avail_mask)',
         (loc[t].mask = {} /\ loc[t].g \in Members(active) => loc[t].g = Head(active))'
  PROVE  Knows(t)'
BY DEF Knows, Releasing

\* What a thread that activates a group for its own malloc knows after a step
LEMMA Activates ==
  ASSUME NEW t \in Threads, pc'[t] = "set_avail", loc'[t].mask # {},
         (active # <<>> /\ meta[Head(active)].avail_mask = {})',
         (loc[t].mask \subseteq Act(Head(active)))'
  PROVE  Knows(t)'
BY DEF Knows, Releasing

\* What a thread knows outside free stays true when other slots become free.
LEMMA Searches ==
  ASSUME NEW t \in Threads, Knows(t), pc[t] \notin Freeing,
         pc'[t] = pc[t], loc'[t] = loc[t], active' = active,
         active # <<>> => Head(active) \in Metas,
         \A m \in Metas : /\ meta'[m].avail_mask = meta[m].avail_mask
                          /\ meta[m].freed_mask \subseteq meta'[m].freed_mask
                          /\ Act(m)' = Act(m)
  PROVE  Knows(t)'
BY DEF Knows, Freeing, Releasing

\* A thread in free has a slot of its own, which is in no mask.
LEMMA InFree ==
  ASSUME ConstantsOK, IInv, NEW t \in Threads, pc[t] \in Freeing
  PROVE  LET g == loc[t].g i == loc[t].i
         IN /\ g \in Metas /\ i \in Nat
            /\ meta[g].mem /\ i <= meta[g].last_idx
            /\ i \notin meta[g].avail_mask /\ i \notin meta[g].freed_mask
            /\ <<g, i>> \notin held /\ ~Moving(g, i)
<1>1. loc[t].g \in Metas /\ loc[t].i \in Nat
      BY Types DEF IInv, Control
<1>2. Coming(loc[t].g, loc[t].i)
      BY DEF Coming
<1> QED BY <1>1, <1>2 DEF IInv, Slots, Slot

\* Only the thread that has the lock is where the code has it, and a thread
\* without it keeps what it knows while its locals stay.
LEMMA Outside ==
  ASSUME IInv, NEW u \in Threads, u # lock
  PROVE  /\ pc[u] \notin MayLock
         /\ pc'[u] = pc[u] /\ loc'[u] = loc[u] => Knows(u)'
BY DEF IInv, Control, Knows, MayLock, Releasing

\* A step of a thread on its locals alone, without the lock
LEMMA LocalStep ==
  ASSUME IInv, NEW t \in Threads, t # lock, UNCHANGED <<lock, meta, active, held>>,
         loc'[t].g = loc[t].g, loc'[t].i = loc[t].i,
         \A u \in Threads \ {t} : pc'[u] = pc[u] /\ loc'[u] = loc[u]
  PROVE  /\ Groups' /\ List' /\ Slots' /\ Distinct'
         /\ \A u \in Threads \ {t} : Knows(u)'
<1> USE DEF IInv
<1>1. \A u \in Threads : loc'[u].g = loc[u].g /\ loc'[u].i = loc[u].i
      OBVIOUS
<1>2. \A m \in Metas : /\ Leaving(m)' <=> Leaving(m)
                       /\ \A s \in Nat : Moving(m, s)' <=> Moving(m, s)
                       /\ \A s \in Nat : Coming(m, s)' <=> Coming(m, s)
      BY <1>1 DEF Leaving, Moving, Coming
<1>3. Groups'
      BY DEF Groups
<1>4. List'
      BY <1>2 DEF List
<1>5. Slots' /\ Distinct'
      BY <1>1, <1>2 DEF Slots, Slot, Distinct
<1>6. \A u \in Threads \ {t} : Knows(u)'
      BY DEF Knows, All, Act
<1> QED BY <1>3, <1>4, <1>5, <1>6

-----------------------------------------------------------------------------
(* free without the lock *)

\* The program gives a slot to free.
LEMMA freeInv ==
  ASSUME ConstantsOK, IInv, NEW t \in Threads, free(t)
  PROVE  IInv'
<1> USE DEF IInv, ConstantsOK
<1>1. PICK p \in held : held' = held \ {p} /\ loc' = [loc EXCEPT ![t].g = p[1], ![t].i = p[2]]
      BY Zenon DEF free
<1>2. PICK m \in Metas, s \in Nat : p = <<m, s>>
      BY DEF TypeOK
<1>3. /\ held' = held \ {<<m, s>>} /\ <<m, s>> \in held
      /\ pc[t] = "run" /\ pc' = [pc EXCEPT ![t] = "freed"]
      /\ loc' = [loc EXCEPT ![t].g = m, ![t].i = s]
      /\ UNCHANGED <<lock, meta, active>>
      BY <1>1, <1>2, Zenon DEF free, Goto
<1>4. TypeOK'
  <2>1. [loc[t] EXCEPT !.g = m, !.i = s] \in Locals
        BY ZenonT(60) DEF TypeOK, Locals
  <2>2. loc' = [loc EXCEPT ![t] = [loc[t] EXCEPT !.g = m, !.i = s]]
        BY <1>3, Zenon DEF TypeOK
  <2>3. loc' \in [Threads -> Locals]
        BY <2>1, <2>2 DEF TypeOK
  <2> QED BY <1>3, <2>3 DEF TypeOK, Freeing
<1>5. Control'
      BY <1>3 DEF TypeOK, Control, Locals, MayLock, Freeing
<1>6. /\ t # lock /\ loc[t].g = Nobody
       /\ UNCHANGED <<lock, meta, active>>
      BY <1>3 DEF Control, MayLock, Freeing
<1>7. /\ pc'[t] = "freed" /\ loc'[t].g = m /\ loc'[t].i = s
       /\ \A u \in Threads \ {t} : pc'[u] = pc[u] /\ loc'[u] = loc[u]
      BY <1>3 DEF TypeOK, Locals
<1>8. \A n \in Metas : /\ Leaving(n)' <=> Leaving(n)
                       /\ \A r \in Nat : Moving(n, r)' <=> Moving(n, r)
                       /\ \A r \in Nat : Coming(n, r)' <=> Coming(n, r) \/ (n = m /\ r = s)
      BY <1>3, <1>6, <1>7, ZenonT(60) DEF Leaving, Moving, Coming
<1>9. Groups' /\ List'
      BY <1>3, <1>8 DEF Groups, List
<1>10. Slots'
  <2> SUFFICES ASSUME NEW n \in Metas, NEW r \in Nat PROVE Slot(n, r)'
      BY DEF Slots
  <2>1. Slot(n, r) /\ (<<n, r>> \in held' <=> <<n, r>> \in held /\ ~(n = m /\ r = s))
        BY <1>3 DEF Slots
  <2>2. UNCHANGED meta
        BY <1>3
  <2>3. CASE n = m /\ r = s
        BY <1>3, <1>8, <2>1, <2>2, <2>3 DEF Slot
  <2>4. CASE ~(n = m /\ r = s)
        BY <1>8, <2>1, <2>2, <2>4 DEF Slot
  <2> QED BY <2>3, <2>4
<1>11. Distinct'
  <2>1. ~Coming(m, s)
        BY <1>2, <1>3 DEF Slots, Slot
  <2> QED BY <1>7, <2>1 DEF Distinct, Coming
<1>12. ASSUME NEW u \in Threads PROVE Knows(u)'
  <2>1. CASE u = t
        BY <1>7, <2>1, Zenon DEF Knows, Releasing
  <2>2. CASE u # t
        BY <1>6, <1>7, <2>2, SMTT(60) DEF Knows, All, Act
  <2> QED BY <2>1, <2>2
<1> QED BY <1>4, <1>5, <1>9, <1>10, <1>11, <1>12

\* free reads freed_mask, which its slot is not in.
LEMMA ReadFreedInv ==
  ASSUME ConstantsOK, IInv, NEW t \in Threads, ReadFreed(t)
  PROVE  IInv'
<1> USE DEF IInv, ConstantsOK
<1>1. /\ pc[t] = "freed" /\ pc' = [pc EXCEPT ![t] = "avail"]
      /\ loc' = [loc EXCEPT ![t].freed = meta[loc[t].g].freed_mask]
      /\ UNCHANGED <<lock, meta, active, held>>
      BY DEF ReadFreed, Goto
<1>2. /\ t # lock /\ loc[t].g \in Metas /\ meta[loc[t].g].freed_mask \in SUBSET Nat
      /\ loc[t].i \notin meta[loc[t].g].freed_mask
      BY <1>1, InFree, Types, Zenon DEF Control, MayLock, Freeing
<1>3. loc' \in [Threads -> Locals]
      BY <1>1, <1>2, ZenonT(60) DEF TypeOK, Locals
<1>4. /\ pc'[t] = "avail"
      /\ loc'[t].g = loc[t].g /\ loc'[t].i = loc[t].i /\ loc'[t].freed = meta[loc[t].g].freed_mask
      /\ \A u \in Threads \ {t} : pc'[u] = pc[u] /\ loc'[u] = loc[u]
      BY <1>1, <1>3 DEF TypeOK, Locals
<1>5. TypeOK' /\ Control'
      BY <1>1, <1>3, <1>4 DEF TypeOK, Control, MayLock, Freeing
<1>6. Knows(t)'
      BY <1>2, <1>4 DEF Knows, Releasing
<1> QED BY <1>1, <1>2, <1>4, <1>5, <1>6, LocalStep

\* free reads avail_mask, and goes on without the lock only if some slot had
\* been freed before.
LEMMA ReadAvailInv ==
  ASSUME ConstantsOK, IInv, NEW t \in Threads, ReadAvail(t)
  PROVE  IInv'
<1> USE DEF IInv, ConstantsOK
<1>1. /\ pc[t] = "avail"
      /\ \/ pc' = [pc EXCEPT ![t] = "lock"]
         \/ pc' = [pc EXCEPT ![t] = "cas"] /\ loc[t].freed # {}
      /\ UNCHANGED <<lock, meta, active, held, loc>>
      BY Zenon DEF ReadAvail, Goto
<1>2. t # lock
      BY <1>1 DEF Control, MayLock
<1>3. TypeOK' /\ Control'
  <2>1. TypeOK'
        BY <1>1 DEF TypeOK, Freeing
  <2>2. Control'
        BY <1>1, Zenon DEF TypeOK, Control, MayLock, Freeing
  <2> QED BY <2>1, <2>2
<1>4. /\ pc'[t] = "lock" \/ (pc'[t] = "cas" /\ loc[t].freed # {})
      /\ \A u \in Threads \ {t} : pc'[u] = pc[u]
      BY <1>1 DEF TypeOK
<1>5. Knows(t)'
      BY <1>1, <1>4 DEF Knows, Releasing
<1> QED BY <1>1, <1>2, <1>3, <1>4, <1>5, LocalStep

\* free puts its slot into freed_mask with a compare-and-swap: the mask was not
\* empty, so the group is on the list.
LEMMA CasInv ==
  ASSUME ConstantsOK, IInv, NEW t \in Threads, Cas(t)
  PROVE  IInv'
<1> USE DEF IInv, ConstantsOK
<1> DEFINE g == loc[t].g
           i == loc[t].i
<1>1. /\ pc[t] = "cas" /\ UNCHANGED <<lock, active, held>>
      BY DEF Cas
<1>2. /\ t # lock /\ g \in Metas /\ i \in Nat
      /\ meta[g].mem /\ i <= meta[g].last_idx
      /\ i \notin meta[g].avail_mask /\ i \notin meta[g].freed_mask
      BY <1>1, InFree, Types, Zenon DEF Control, MayLock, Freeing
<1>3. CASE meta[g].freed_mask # loc[t].freed
  <2>1. pc' = [pc EXCEPT ![t] = "freed"] /\ UNCHANGED <<meta, loc>>
        BY <1>3 DEF Cas, Goto
  <2>2. TypeOK' /\ Control'
        BY <1>1, <2>1 DEF TypeOK, Control, MayLock, Freeing
  <2>3. pc'[t] = "freed" /\ \A u \in Threads \ {t} : pc'[u] = pc[u]
        BY <2>1 DEF TypeOK
  <2>4. Knows(t)'
        BY <2>1, <2>3, Zenon DEF Knows, Releasing
  <2> QED BY <1>1, <1>2, <2>1, <2>2, <2>3, <2>4, LocalStep
<1>4. CASE meta[g].freed_mask = loc[t].freed
  <2>1. /\ meta' = [meta EXCEPT ![g].freed_mask = @ \cup {i}]
        /\ pc' = [pc EXCEPT ![t] = "run"]
        /\ loc' = [loc EXCEPT ![t] = NoLocals]
        BY <1>4, Zenon DEF Cas, Goto
  <2>2. meta' \in [Metas -> Meta] /\ NoLocals \in Locals
    <3>1. meta[g].freed_mask \cup {i} \in SUBSET Nat
          BY <1>2, Types
    <3>2. meta' \in [Metas -> Meta]
          BY <1>2, <2>1, <3>1, Stored, Zenon DEF TypeOK
    <3> QED BY <3>2 DEF NoLocals, Locals
  <2>3. TypeOK'
        BY <1>1, <2>1, <2>2 DEF TypeOK
  <2>4. /\ pc'[t] = "run" /\ loc'[t] = NoLocals /\ loc'[t].g = Nobody
        /\ \A u \in Threads \ {t} : pc'[u] = pc[u] /\ loc'[u] = loc[u]
        BY <2>1 DEF TypeOK, NoLocals
  <2>5. Control'
        BY <1>1, <1>2, <2>4 DEF Control, MayLock, Freeing
  <2>6. /\ meta'[g].freed_mask = meta[g].freed_mask \cup {i}
        /\ \A n \in Metas : /\ meta'[n].avail_mask = meta[n].avail_mask
                            /\ meta'[n].mem = meta[n].mem
                            /\ meta'[n].last_idx = meta[n].last_idx
                            /\ meta'[n].active_idx = meta[n].active_idx
                            /\ n # g => meta'[n].freed_mask = meta[n].freed_mask
        BY <1>2, <2>1 DEF TypeOK, Meta
  <2>7. meta[g].freed_mask # {}
        BY <1>1, <1>4 DEF Knows
  <2>8. \A n \in Metas : /\ Leaving(n)' <=> Leaving(n)
                         /\ \A r \in Nat : Moving(n, r)' <=> Moving(n, r)
        BY <1>1, <1>2, <2>4 DEF Leaving, Moving
  <2>9. \A n \in Metas, r \in Nat :
           Coming(n, r)' <=> Coming(n, r) /\ ~(n = g /\ r = i)
        BY <1>2, <2>4 DEF Coming, Distinct
  <2>10. Groups'
        BY <2>6 DEF Groups
  <2>11. List'
    <3>1. \A n \in Metas : meta'[n].freed_mask = {} <=> meta[n].freed_mask = {}
          BY <1>2, <2>6, <2>7
    <3> QED BY <1>1, <2>6, <2>8, <3>1, Types, ListKept, Zenon
  <2>12. Coming(g, i)
        BY DEF Coming
  <2>13. Slots'
    <3> SUFFICES ASSUME NEW n \in Metas, NEW r \in Nat PROVE Slot(n, r)'
        BY DEF Slots
    <3>1. Slot(n, r)
          BY DEF Slots
    <3>2. CASE n = g /\ r = i
          BY <1>1, <1>2, <2>6, <2>8, <2>9, <2>12, <3>1, <3>2, Zenon DEF Slot
    <3>3. CASE ~(n = g /\ r = i)
          BY <1>1, <2>6, <2>8, <2>9, <3>1, <3>3 DEF Slot
    <3> QED BY <3>2, <3>3
  <2>14. Distinct'
        BY <2>4 DEF Distinct
  <2>15. ASSUME NEW u \in Threads PROVE Knows(u)'
    <3>1. CASE u = t
          BY <2>4, <3>1 DEF Knows, Releasing
    <3>2. CASE u # t
      <4>1. pc'[u] = pc[u] /\ loc'[u] = loc[u]
            BY <2>4, <3>2
      <4>2. CASE u # lock
            BY <4>1, <4>2, Outside
      <4>3. CASE u = lock
        <5>1. \A n \in Metas : meta[n].freed_mask \subseteq meta'[n].freed_mask
              BY <2>6
        <5>2. pc[u] \in Freeing => loc[u].g \in Metas
              BY InFree, Zenon
        <5>3. \A n \in Metas : All(n)' = All(n) /\ Act(n)' = Act(n)
              BY <2>6 DEF All, Act
        <5>4. UNCHANGED active /\ (active # <<>> => Head(active) \in Metas)
              BY <1>1, Types
        <5>5. CASE pc[u] \in Freeing
          <6>1. pc[u] \in {"nontrivial"} \cup Releasing
                BY <4>3, <5>5 DEF Control, MayLock, Freeing, Releasing
          <6>2. CASE pc[u] = "nontrivial"
            <7>1. /\ loc[u].mask \subseteq meta[loc[u].g].freed_mask
                                             \cup meta[loc[u].g].avail_mask
                  /\ loc[u].mask = {} /\ loc[u].g \in Members(active)
                        => loc[u].g = Head(active)
                  BY <6>2, Zenon DEF Knows
            <7>2. (loc[u].mask \subseteq meta[loc[u].g].freed_mask
                                            \cup meta[loc[u].g].avail_mask)'
                  BY <2>6, <4>1, <5>1, <5>2, <5>5, <7>1
            <7> QED BY <4>1, <5>4, <6>2, <7>1, <7>2, ReadMasks, Zenon
          <6>3. CASE pc[u] \in Releasing
            <7>1. /\ loc[u].g \notin Members(active)
                  /\ All(loc[u].g) \subseteq meta[loc[u].g].freed_mask
                        \cup meta[loc[u].g].avail_mask \cup {loc[u].i}
                  /\ pc[u] # "release" => active # <<>> /\ meta[Head(active)].avail_mask = {}
                  /\ pc[u] = "set_new" => loc[u].mask \subseteq Act(Head(active))
                  BY <6>3, Zenon DEF Knows, Releasing
            <7>2. (loc[u].g \notin Members(active))'
                  BY <4>1, <5>4, <7>1, Zenon
            <7>3. (All(loc[u].g) \subseteq meta[loc[u].g].freed_mask
                      \cup meta[loc[u].g].avail_mask \cup {loc[u].i})'
                  BY <2>6, <4>1, <5>1, <5>2, <5>3, <5>5, <7>1
            <7>4. pc'[u] # "release" => (active # <<>> /\ meta[Head(active)].avail_mask = {})'
                  BY <2>6, <4>1, <5>4, <7>1
            <7>5. pc'[u] = "set_new" => (loc[u].mask \subseteq Act(Head(active)))'
                  BY <4>1, <5>3, <5>4, <6>3, <7>1, Zenon
            <7> QED BY <4>1, <6>3, <7>2, <7>3, <7>4, <7>5, Releases, Zenon
          <6> QED BY <6>1, <6>2, <6>3
        <5>6. CASE pc[u] \notin Freeing
              BY <2>6, <4>1, <5>1, <5>3, <5>4, <5>6, Searches
        <5> QED BY <5>5, <5>6
      <4> QED BY <4>2, <4>3
    <3> QED BY <3>1, <3>2, Zenon
  <2> QED BY <2>3, <2>5, <2>10, <2>11, <2>13, <2>14, <2>15
<1> QED BY <1>3, <1>4

-----------------------------------------------------------------------------
(* free with the lock *)

\* free takes the lock and reads both masks.
LEMMA FreeLockInv ==
  ASSUME ConstantsOK, IInv, NEW t \in Threads, FreeLock(t)
  PROVE  IInv'
<1> USE DEF IInv
<1> DEFINE g == loc[t].g
           bits == meta[g].freed_mask \cup meta[g].avail_mask
<1>1. /\ pc[t] = "lock" /\ lock = Nobody /\ lock' = t
      /\ loc' = [loc EXCEPT ![t].mask = bits]
      /\ pc' = [pc EXCEPT ![t] = "nontrivial"]
      /\ UNCHANGED <<meta, active, held>>
      BY DEF FreeLock, Goto
<1>2. g \in Metas /\ \A u \in Threads : pc[u] \notin MayLock /\ u # lock
      BY <1>1, InFree, Zenon DEF Control, Freeing, ConstantsOK
<1>3. /\ loc' \in [Threads -> Locals] /\ loc'[t].mask = bits
      /\ \A u \in Threads : loc'[u].g = loc[u].g /\ loc'[u].i = loc[u].i
      /\ \A u \in Threads \ {t} : loc'[u] = loc[u]
  <2>1. bits \in SUBSET Nat
        BY <1>2, Types
  <2> HIDE DEF bits
  <2> QED BY <1>1, <2>1, Zenon DEF TypeOK, Locals
<1>4. pc'[t] = "nontrivial" /\ \A u \in Threads \ {t} : pc'[u] = pc[u]
      BY <1>1 DEF TypeOK
<1>5. TypeOK'
      BY <1>1, <1>3 DEF TypeOK, MayLock
<1>6. Control'
      BY <1>1, <1>2, <1>3, <1>4 DEF Control, MayLock, Freeing
<1>7. \A m \in Metas : /\ ~Leaving(m) /\ ~Leaving(m)'
                       /\ \A s \in Nat : /\ ~Moving(m, s) /\ ~Moving(m, s)'
                                         /\ Coming(m, s)' <=> Coming(m, s)
  <2>1. \A m \in Metas : ~Leaving(m) /\ ~Leaving(m)'
        BY <1>1, <1>4 DEF Leaving, Releasing, ConstantsOK
  <2>2. \A m \in Metas, s \in Nat : ~Moving(m, s) /\ ~Moving(m, s)'
        BY <1>1, <1>4 DEF Moving, ConstantsOK
  <2>3. \A m \in Metas, s \in Nat : Coming(m, s)' <=> Coming(m, s)
        BY <1>3 DEF Coming
  <2> QED BY <2>1, <2>2, <2>3
<1>8. Groups' /\ List' /\ Distinct'
  <2>1. UNCHANGED <<meta, active>>
        BY <1>1, Zenon
  <2>2. Groups' /\ Distinct'
        BY <1>3, <2>1 DEF Groups, Distinct
  <2>3. List'
        BY <1>7, <2>1, Types, ListKept
  <2> QED BY <2>2, <2>3
<1>9. Slots'
  <2>1. UNCHANGED <<meta, held>>
        BY <1>1, Zenon
  <2> QED BY <1>7, <2>1, SlotsKept
<1>10. Knows(t)'
  <2>1. UNCHANGED <<meta, active>>
        BY <1>1
  <2>2. bits = {} /\ g \in Members(active) => g = Head(active)
    <3>1. \A m \in Members(active) : m # Head(active) => meta[m].freed_mask # {}
          BY Zenon DEF List
    <3> QED BY <1>2, <3>1
  <2> QED BY <1>3, <1>4, <2>1, <2>2 DEF Knows, Releasing
<1>11. \A u \in Threads \ {t} : Knows(u)'
      BY <1>2, <1>3, <1>4, Outside
<1> QED BY <1>5, <1>6, <1>8, <1>9, <1>10, <1>11

\* The last slot comes back: nobody has a slot of the group, which leaves the
\* list.
LEMMA ReleaseInv ==
  ASSUME ConstantsOK, IInv, NEW t \in Threads, pc[t] = "nontrivial",
         loc[t].mask \cup {loc[t].i} = All(loc[t].g), Release(t), UNCHANGED held
  PROVE  IInv'
<1> USE DEF IInv
<1> DEFINE g == loc[t].g
<1>1. /\ lock = t /\ g \in Metas
      /\ loc[t].mask \subseteq meta[g].freed_mask \cup meta[g].avail_mask
      BY InFree, Zenon DEF Control, MayLock, Freeing, Knows
<1>2. PICK label \in {"activate_new", "release"} :
        /\ pc' = [pc EXCEPT ![t] = label]
        /\ label = "activate_new" => Listed(g) /\ Head(active) = g /\ active' # <<>>
      BY Zenon DEF Release, Goto
<1>3. /\ active' = IF Listed(g) THEN Dequeue(g) ELSE active
      /\ UNCHANGED <<lock, meta, loc, held>>
      BY Zenon DEF Release
<1>4. /\ active \in Seq(Metas) /\ NoDup(active) /\ Members(active) \subseteq Metas
      BY Types DEF List
<1>5. /\ active' \in Seq(Metas) /\ NoDup(active') /\ Members(active') = Members(active) \ {g}
      /\ g # Head(active) /\ Members(active') # {} => Head(active') = Head(active)
  <2>1. CASE Listed(g)
        BY <1>3, <1>4, <2>1, Dequeueing DEF Listed
  <2>2. CASE ~Listed(g)
        BY <1>3, <1>4, <2>2 DEF Listed
  <2> QED BY <2>1, <2>2
<1>6. /\ pc'[t] = label /\ \A u \in Threads \ {t} : pc'[u] = pc[u]
      BY <1>2 DEF TypeOK
<1>7. TypeOK' /\ Control' /\ Groups' /\ Distinct'
  <2>1. TypeOK'
        BY <1>2, <1>3, <1>5 DEF TypeOK, MayLock
  <2>2. Control'
        BY <1>2, <1>3, <1>6, Zenon DEF Control, MayLock, Freeing
  <2>3. Groups' /\ Distinct'
        BY <1>3, Zenon DEF Groups, Distinct
  <2> QED BY <2>1, <2>2, <2>3
<1>8. \A m \in Metas : /\ ~Leaving(m) /\ (Leaving(m)' <=> m = g)
                       /\ \A s \in Nat : /\ ~Moving(m, s) /\ ~Moving(m, s)'
                                         /\ Coming(m, s)' <=> Coming(m, s)
  <2>1. \A m \in Metas : ~Leaving(m) /\ (Leaving(m)' <=> m = g)
        BY <1>1, <1>2, <1>3, <1>6 DEF Leaving, Releasing
  <2>2. \A m \in Metas, s \in Nat : ~Moving(m, s) /\ ~Moving(m, s)'
        BY <1>1, <1>2, <1>3, <1>6 DEF Moving
  <2>3. \A m \in Metas, s \in Nat : Coming(m, s)' <=> Coming(m, s)
        BY <1>3 DEF Coming
  <2> QED BY <2>1, <2>2, <2>3
<1>9. Members(active') # {} => active' # <<>> /\ Head(active') \in Members(active')
      BY <1>5, Listing, Zenon
<1>10. List'
  <2>1. UNCHANGED meta
        BY <1>3
  <2>2. ASSUME NEW m \in Members(active')
        PROVE  meta[m].mem /\ (m # Head(active') => meta[m].freed_mask # {})
    <3>1. CASE g = Head(active)
          BY <1>5, <2>2, <3>1 DEF List
    <3>2. CASE g # Head(active)
          BY <1>5, <2>2, <3>2, Zenon DEF List
    <3> QED BY <3>1, <3>2
  <2>3. ASSUME NEW m \in Metas, m # g
        PROVE  /\ meta[m].freed_mask # {} => m \in Members(active')
               /\ meta[m].avail_mask # {} => m \in Members(active') /\ m = Head(active')
        BY <1>5, <1>8, <2>3 DEF List
  <2> QED BY <1>5, <1>8, <2>1, <2>2, <2>3 DEF List
<1>11. Slots'
      BY <1>3, <1>8, ZenonT(60) DEF Slots, Slot
<1>12. Knows(t)'
  <2>1. UNCHANGED <<meta, loc>>
        BY <1>3, Zenon
  <2>2. label = "activate_new" => active' # <<>> /\ meta[Head(active')].avail_mask = {}
    <3>1. ASSUME label = "activate_new" PROVE active' # <<>> /\ meta[Head(active')].avail_mask = {}
      <4>1. active' # <<>> /\ Head(active) = g
            BY <1>2, <3>1
      <4>2. Head(active') \in Metas /\ Head(active') # g
            BY <1>4, <1>5, <4>1, Listing
      <4> QED BY <1>8, <4>1, <4>2 DEF List
    <3> QED BY <3>1
  <2>3. g \notin Members(active')
        BY <1>5
  <2>4. All(g) \subseteq meta[g].freed_mask \cup meta[g].avail_mask \cup {loc[t].i}
        BY <1>1
  <2>5. All(g)' = All(g)
        BY <2>1 DEF All
  <2>6. label \in Releasing /\ label # "set_new"
        BY <1>2, Zenon DEF Releasing
  <2>7. /\ (loc[t].g \notin Members(active))'
        /\ (All(loc[t].g) \subseteq meta[loc[t].g].freed_mask \cup meta[loc[t].g].avail_mask
                                    \cup {loc[t].i})'
        /\ label # "release" => (active # <<>> /\ meta[Head(active)].avail_mask = {})'
        BY <1>2, <2>1, <2>2, <2>3, <2>4, <2>5, Zenon
  <2> QED BY <1>6, <2>6, <2>7, Releases, Zenon
<1>13. \A u \in Threads \ {t} : Knows(u)'
      BY <1>1, <1>3, <1>6, Outside
<1> QED BY <1>7, <1>10, <1>11, <1>12, <1>13

\* The slot is marked as freed, in a group that is on the list afterwards.
LEMMA MarkInv ==
  ASSUME ConstantsOK, IInv, NEW t \in Threads, pc[t] = "nontrivial", Mark(t), UNCHANGED held
  PROVE  IInv'
<1> USE DEF IInv
<1> DEFINE g == loc[t].g
           i == loc[t].i
<1>1. /\ lock = t /\ g \in Metas /\ i \in Nat /\ meta[g].mem /\ i <= meta[g].last_idx
      /\ i \notin meta[g].avail_mask /\ i \notin meta[g].freed_mask
      /\ loc[t].mask \subseteq meta[g].freed_mask \cup meta[g].avail_mask
      /\ loc[t].mask = {} /\ g \in Members(active) => g = Head(active)
      BY InFree, Zenon DEF Control, MayLock, Freeing, Knows
<1>2. /\ meta' = [meta EXCEPT ![g].freed_mask = @ \cup {i}]
      /\ lock' = Nobody /\ held' = held
      /\ pc' = [pc EXCEPT ![t] = "run"] /\ loc' = [loc EXCEPT ![t] = NoLocals]
      BY DEF Mark, Goto
<1>3. /\ meta' \in [Metas -> Meta]
      /\ meta'[g].freed_mask = meta[g].freed_mask \cup {i}
      /\ \A m \in Metas : /\ meta'[m].avail_mask = meta[m].avail_mask
                          /\ meta'[m].last_idx = meta[m].last_idx
                          /\ meta'[m].active_idx = meta[m].active_idx
                          /\ meta'[m].mem = meta[m].mem
                          /\ m # g => meta'[m].freed_mask = meta[m].freed_mask
  <2>1. meta[g].freed_mask \cup {i} \in SUBSET Nat
        BY <1>1, Types, Zenon
  <2>2. meta' \in [Metas -> Meta]
        BY <1>1, <1>2, <2>1, Stored, Zenon
  <2> QED BY <1>1, <1>2, <2>2, Zenon DEF TypeOK, Meta
<1>4. /\ pc'[t] = "run" /\ loc'[t].g = Nobody /\ loc' \in [Threads -> Locals]
      /\ \A u \in Threads \ {t} : pc'[u] = pc[u] /\ loc'[u] = loc[u]
  <2>1. NoLocals \in Locals /\ NoLocals.g = Nobody
        BY DEF NoLocals, Locals
  <2> QED BY <1>2, <2>1, Zenon DEF TypeOK
<1>5. \A u \in Threads \ {t} : pc[u] \notin MayLock /\ u # lock
      BY <1>1 DEF Control
<1>6. \A m \in Metas : /\ ~Leaving(m) /\ ~Leaving(m)'
                       /\ \A s \in Nat : ~Moving(m, s) /\ ~Moving(m, s)'
      BY <1>1, <1>2 DEF Leaving, Moving, Releasing, ConstantsOK
<1>7. \A m \in Metas, s \in Nat : Coming(m, s)' <=> Coming(m, s) /\ ~(m = g /\ s = i)
  <2>1. \A u \in Threads \ {t} : ~(loc[u].g = g /\ loc[u].i = i)
        BY <1>1 DEF Distinct, ConstantsOK
  <2>2. \A m \in Metas : m # loc'[t].g
        BY <1>4, Zenon DEF ConstantsOK
  <2> QED BY <1>4, <2>1, <2>2, Zenon DEF Coming
<1>8. /\ active \in Seq(Metas) /\ NoDup(active) /\ Members(active) \subseteq Metas
      /\ active = <<>> <=> Members(active) = {}
      BY Types, Listing DEF List
<1>9. /\ active' \in Seq(Metas) /\ NoDup(active') /\ Members(active') = Members(active) \cup {g}
      /\ Head(active') = IF active = <<>> THEN g ELSE Head(active)
  <2>1. CASE loc[t].mask = {} /\ ~(active # <<>> /\ Head(active) = g)
    <3>1. active' = Append(active, g) /\ g \notin Members(active)
          BY <1>1, <1>8, <2>1 DEF Mark
    <3> QED BY <1>1, <1>8, <3>1, Queueing
  <2>2. CASE ~(loc[t].mask = {} /\ ~(active # <<>> /\ Head(active) = g))
    <3>1. active' = active
          BY <2>2 DEF Mark
    <3>2. g \in Members(active)
      <4>1. CASE loc[t].mask # {}
            BY <1>1, <1>6, <4>1, Zenon DEF List
      <4>2. CASE active # <<>> /\ Head(active) = g
            BY <1>8, <4>2, Listing
      <4> QED BY <2>2, <4>1, <4>2
    <3>3. active # <<>> /\ Members(active) = Members(active) \cup {g}
          BY <1>8, <3>2
    <3> QED BY <1>8, <3>1, <3>3
  <2> QED BY <2>1, <2>2, Zenon
<1>10. TypeOK'
      BY <1>2, <1>3, <1>4, <1>9 DEF TypeOK
<1>11. Control'
      BY <1>1, <1>2, <1>4, <1>5, Zenon DEF Control, MayLock, Freeing, ConstantsOK
<1>12. Groups'
  <2> SUFFICES ASSUME NEW m \in Metas
               PROVE  /\ meta'[m].active_idx <= meta'[m].last_idx
                      /\ \A s \in Nat : meta'[m].active_idx < s /\ s <= meta'[m].last_idx
                                       => s \in meta'[m].freed_mask
                      /\ ~meta'[m].mem => meta'[m].last_idx = 0
                      /\ \A n \in Metas : n # m => \/ meta'[m].active_idx = meta'[m].last_idx
                                                  \/ meta'[n].active_idx = meta'[n].last_idx
      BY Zenon DEF Groups
  <2>1. meta[m].freed_mask \subseteq meta'[m].freed_mask
        BY <1>1, <1>3, Zenon
  <2>2. /\ meta'[m].active_idx = meta[m].active_idx /\ meta'[m].last_idx = meta[m].last_idx
        /\ meta'[m].mem = meta[m].mem
        BY <1>3, Zenon
  <2>3. \A s \in Nat : meta'[m].active_idx < s /\ s <= meta'[m].last_idx => s \in meta'[m].freed_mask
        BY <2>1, <2>2, Zenon DEF Groups
  <2> QED BY <1>3, <2>2, <2>3 DEF Groups
<1>13. List'
  <2>1. ASSUME NEW m \in Members(active')
        PROVE  meta'[m].mem /\ (m # Head(active') => meta'[m].freed_mask # {})
    <3>1. CASE m = g
          BY <1>1, <1>3, <3>1, Zenon
    <3>2. CASE m # g
          BY <1>3, <1>8, <1>9, <2>1, <3>2, Zenon DEF List
    <3> QED BY <3>1, <3>2, Zenon
  <2>2. ASSUME NEW m \in Metas
        PROVE  /\ meta'[m].freed_mask # {} => m \in Members(active')
               /\ meta'[m].avail_mask # {} => m \in Members(active') /\ m = Head(active')
        BY <1>3, <1>6, <1>8, <1>9 DEF List
  <2> QED BY <1>9, <2>1, <2>2 DEF List
<1>14. Slots'
  <2> SUFFICES ASSUME NEW m \in Metas, NEW s \in Nat PROVE Slot(m, s)'
      BY DEF Slots
  <2>1. Slot(m, s) /\ Coming(g, i)
        BY Zenon DEF Slots, Coming
  <2>2. /\ held' = held /\ ~Moving(m, s) /\ ~Moving(m, s)'
        /\ s \in meta'[m].freed_mask <=> s \in meta[m].freed_mask \/ (m = g /\ s = i)
        /\ meta'[m].avail_mask = meta[m].avail_mask /\ meta'[m].mem = meta[m].mem
        /\ meta'[m].last_idx = meta[m].last_idx
        /\ Coming(m, s)' <=> Coming(m, s) /\ ~(m = g /\ s = i)
        BY <1>2, <1>3, <1>6, <1>7
  <2>3. CASE m = g /\ s = i
        BY <2>1, <2>2, <2>3, Zenon DEF Slot
  <2>4. CASE ~(m = g /\ s = i)
        BY <2>1, <2>2, <2>4 DEF Slot
  <2> QED BY <2>3, <2>4
<1>15. Distinct'
      BY <1>4 DEF Distinct
<1>16. ASSUME NEW u \in Threads PROVE Knows(u)'
  <2>1. CASE u = t
        BY <1>4, <2>1, Zenon DEF Knows, Releasing
  <2>2. CASE u # t
        BY <1>4, <1>5, <2>2, Outside
  <2> QED BY <2>1, <2>2, Zenon
<1> QED BY <1>10, <1>11, <1>12, <1>13, <1>14, <1>15, <1>16

\* A group is released when its masks have all its slots but the one that comes
\* back.
LEMMA FreeGroupInv ==
  ASSUME ConstantsOK, IInv, NEW t \in Threads, FreeGroup(t)
  PROVE  IInv'
<1> USE DEF IInv
<1> DEFINE g == loc[t].g
           i == loc[t].i
<1>1. /\ pc[t] = "release" /\ meta' = [meta EXCEPT ![g] = Free] /\ lock' = Nobody
      /\ pc' = [pc EXCEPT ![t] = "run"] /\ loc' = [loc EXCEPT ![t] = NoLocals]
      /\ UNCHANGED <<active, held>>
      BY DEF FreeGroup, Goto
<1>2. /\ lock = t /\ g \in Metas /\ i \in Nat /\ g \notin Members(active)
      /\ All(g) \subseteq meta[g].freed_mask \cup meta[g].avail_mask \cup {i}
      BY <1>1, InFree, Zenon DEF Control, MayLock, Freeing, Knows, Releasing
<1>3. /\ meta' \in [Metas -> Meta] /\ meta'[g] = Free
      /\ Free.avail_mask = {} /\ Free.freed_mask = {} /\ Free.mem = FALSE
      /\ Free.last_idx = 0 /\ Free.active_idx = 0
      /\ \A m \in Metas \ {g} : meta'[m] = meta[m]
  <2>1. /\ Free \in Meta
        /\ Free.avail_mask = {} /\ Free.freed_mask = {} /\ Free.mem = FALSE
        /\ Free.last_idx = 0 /\ Free.active_idx = 0
        BY Zenon DEF Free, Meta
  <2> QED BY <1>1, <1>2, <2>1 DEF TypeOK
<1>4. /\ pc'[t] = "run" /\ loc'[t].g = Nobody /\ loc' \in [Threads -> Locals]
      /\ \A u \in Threads \ {t} : pc'[u] = pc[u] /\ loc'[u] = loc[u]
  <2>1. NoLocals \in Locals /\ NoLocals.g = Nobody
        BY DEF NoLocals, Locals
  <2> QED BY <1>1, <2>1, Zenon DEF TypeOK
<1>5. \A u \in Threads \ {t} : pc[u] \notin MayLock /\ u # lock
      BY <1>2, Zenon DEF Control
<1>6. \A m \in Metas : /\ Leaving(m) <=> m = g
                       /\ ~Leaving(m)'
                       /\ \A s \in Nat : ~Moving(m, s) /\ ~Moving(m, s)'
      BY <1>1, <1>2, Zenon DEF Leaving, Moving, Releasing, ConstantsOK
<1>7. \A m \in Metas, s \in Nat : Coming(m, s)' <=> Coming(m, s) /\ ~(m = g /\ s = i)
  <2>1. \A u \in Threads \ {t} : ~(loc[u].g = g /\ loc[u].i = i)
        BY <1>2 DEF Distinct, ConstantsOK
  <2>2. \A m \in Metas : m # loc'[t].g
        BY <1>4 DEF ConstantsOK
  <2> QED BY <1>4, <2>1, <2>2, Zenon DEF Coming
<1>8. TypeOK'
      BY <1>1, <1>3, <1>4, Zenon DEF TypeOK
<1>9. Control'
      BY <1>1, <1>2, <1>4, <1>5, Zenon DEF Control, MayLock, Freeing, ConstantsOK
<1>10. Groups'
  <2> SUFFICES ASSUME NEW m \in Metas
               PROVE  /\ meta'[m].active_idx <= meta'[m].last_idx
                      /\ \A s \in Nat : meta'[m].active_idx < s /\ s <= meta'[m].last_idx
                                          => s \in meta'[m].freed_mask
                      /\ ~meta'[m].mem => meta'[m].last_idx = 0
                      /\ \A k \in Metas : k # m => \/ meta'[m].active_idx = meta'[m].last_idx
                                                   \/ meta'[k].active_idx = meta'[k].last_idx
      BY Zenon DEF Groups
  <2>1. CASE m = g
        BY <1>3, <2>1, SMTT(60)
  <2>2. CASE m # g
        BY <1>3, <2>2 DEF Groups
  <2> QED BY <2>1, <2>2
<1>11. List'
  <2>1. Members(active) \subseteq Metas
        BY Types
  <2> QED BY <1>1, <1>2, <1>3, <1>6, <2>1, Zenon DEF List
<1>12. Slots'
  <2> SUFFICES ASSUME NEW m \in Metas, NEW s \in Nat PROVE Slot(m, s)'
      BY DEF Slots
  <2>1. Slot(m, s) /\ Coming(g, i)
        BY DEF Slots, Coming
  <2>2. held' = held
        BY <1>1, Zenon
  <2>3. CASE m = g
    <3>1. s <= meta[g].last_idx => s \in meta[g].freed_mask \/ s \in meta[g].avail_mask \/ s = i
      <4>1. meta[g].last_idx \in Nat
            BY <1>2, Types
      <4>2. s <= meta[g].last_idx => s \in All(g)
            BY <4>1 DEF All
      <4> QED BY <1>2, <4>2
    <3>2. Slot(g, s)
          BY <2>1, <2>3, Zenon
    <3>3. <<g, s>> \notin held
          BY <2>1, <3>1, <3>2, Zenon DEF Slot
    <3>4. Coming(g, s) => s = i
          BY <3>1, <3>2, Zenon DEF Slot
    <3>5. ~Coming(m, s)' /\ ~Moving(m, s)'
          BY <1>6, <1>7, <2>3, <3>4
    <3>6. s \notin meta'[g].freed_mask /\ s \notin meta'[g].avail_mask /\ ~meta'[g].mem
          BY <1>3, Zenon
    <3> QED BY <2>2, <2>3, <3>3, <3>5, <3>6, Zenon DEF Slot
  <2>4. CASE m # g
        BY <1>3, <1>6, <1>7, <2>1, <2>2, <2>4 DEF Slot
  <2> QED BY <2>3, <2>4
<1>13. Distinct'
      BY <1>4 DEF Distinct
<1>14. ASSUME NEW u \in Threads PROVE Knows(u)'
  <2>1. CASE u = t
        BY <1>4, <2>1, Zenon DEF Knows, Releasing
  <2>2. CASE u # t
        BY <1>4, <1>5, <2>2, Outside, Zenon
  <2> QED BY <2>1, <2>2
<1> QED BY <1>8, <1>9, <1>10, <1>11, <1>12, <1>13, <1>14

\* With the lock, free releases the group or marks the slot.
LEMMA NontrivialFreeInv ==
  ASSUME ConstantsOK, IInv, NEW t \in Threads, NontrivialFree(t)
  PROVE  IInv'
<1>1. pc[t] = "nontrivial" /\ UNCHANGED held
      BY DEF NontrivialFree
<1>2. \/ loc[t].mask \cup {loc[t].i} = All(loc[t].g) /\ Release(t)
      \/ Mark(t)
      BY Zenon DEF NontrivialFree
<1> QED BY <1>1, <1>2, ReleaseInv, MarkInv

-----------------------------------------------------------------------------
(* malloc: the search of the list *)

\* While malloc searches the list, no group has available slots, and none is
\* leaving or being activated.
LEMMA Searching ==
  ASSUME ConstantsOK, IInv, NEW t \in Threads, pc[t] \in {"try_avail", "pick", "widen", "activate"}
  PROVE  /\ lock = t /\ loc[t].g = Nobody
         /\ \A m \in Metas : /\ meta[m].avail_mask = {} /\ ~Leaving(m)
                             /\ meta[m].freed_mask # {} => m \in Members(active)
         /\ \A m \in Metas, s \in Nat : ~Moving(m, s)
<1> USE DEF IInv
<1>1. lock = t /\ loc[t].g = Nobody
      BY DEF Control, MayLock, Freeing
<1>2. /\ \A m \in Metas : ~Leaving(m)
      /\ \A m \in Metas, s \in Nat : ~Moving(m, s)
      BY <1>1, Zenon DEF Leaving, Moving, Releasing
<1>3. active # <<>> => meta[Head(active)].avail_mask = {}
      BY DEF Knows
<1>4. Members(active) # {} => active # <<>>
      BY Listing, Zenon DEF TypeOK
<1> QED BY <1>1, <1>2, <1>3, <1>4 DEF List

\* A step of the search changes the list, and possibly which slots are active,
\* but leaves every slot where it is.
LEMMA SearchStep ==
  ASSUME ConstantsOK, IInv, NEW t \in Threads, pc[t] \in {"try_avail", "pick", "widen"},
         NEW label \in {"pick", "widen", "activate", "alloc_group"},
         pc' = [pc EXCEPT ![t] = label], UNCHANGED <<lock, held>>,
         loc' \in [Threads -> Locals], loc'[t].g = loc[t].g,
         \A u \in Threads \ {t} : loc'[u] = loc[u],
         active' \in Seq(Metas), NoDup(active'), Members(active') \subseteq Members(active),
         \A m \in Members(active) \ Members(active') : meta[m].freed_mask = {},
         \A m \in Members(active') : m # Head(active') => meta[m].freed_mask # {},
         meta' \in [Metas -> Meta],
         \A m \in Metas : /\ meta'[m].freed_mask = meta[m].freed_mask
                          /\ meta'[m].avail_mask = meta[m].avail_mask
                          /\ meta'[m].last_idx = meta[m].last_idx
                          /\ meta'[m].mem = meta[m].mem
  PROVE  /\ TypeOK' /\ Control' /\ List' /\ Slots' /\ Distinct'
         /\ \A u \in Threads \ {t} : Knows(u)'
<1> USE DEF IInv
<1>1. /\ lock = t /\ loc[t].g = Nobody
      /\ \A m \in Metas : /\ meta[m].avail_mask = {} /\ ~Leaving(m)
                          /\ meta[m].freed_mask # {} => m \in Members(active)
      /\ \A m \in Metas, s \in Nat : ~Moving(m, s)
      BY Searching, Zenon
<1>2. pc'[t] = label /\ \A u \in Threads \ {t} : pc'[u] = pc[u]
      BY DEF TypeOK
<1>3. TypeOK'
      BY Zenon DEF TypeOK, MayLock
<1>4. Control'
  <2>1. /\ pc[t] \in MayLock /\ pc'[t] \in MayLock /\ lock' = lock
        /\ pc'[t] \notin Freeing /\ loc'[t].g = Nobody
        BY <1>1, <1>2, Zenon DEF MayLock, Freeing
  <2> QED BY <1>1, <1>2, <2>1, Zenon DEF Control
<1>5. /\ \A m \in Metas : ~Leaving(m)'
      /\ \A m \in Metas, s \in Nat : ~Moving(m, s)' /\ (Coming(m, s)' <=> Coming(m, s))
  <2>1. \A m \in Metas : ~Leaving(m)' /\ \A s \in Nat : ~Moving(m, s)'
        BY <1>1, <1>2, Zenon DEF Leaving, Moving, Releasing
  <2>2. \A m \in Metas, s \in Nat : Coming(m, s)' <=> Coming(m, s)
    <3>1. \A m \in Metas : loc[t].g # m /\ loc'[t].g # m
          BY <1>1, Zenon DEF ConstantsOK
    <3> QED BY <3>1, Zenon DEF Coming
  <2> QED BY <2>1, <2>2, Zenon
<1>6. List'
  <2>1. Members(active) \subseteq Metas
        BY Types
  <2> QED BY <1>1, <2>1, Zenon DEF List
<1>7. Slots'
      BY <1>1, <1>5, ZenonT(60) DEF Slots, Slot
<1>8. Distinct'
  <2>1. loc'[t].g = Nobody
        BY <1>1, Zenon
  <2> SUFFICES ASSUME NEW u \in Threads, NEW v \in Threads, u # v,
                      loc'[u].g = loc'[v].g, loc'[u].g # Nobody
               PROVE  loc'[u].i # loc'[v].i
      BY Zenon DEF Distinct
  <2>2. u # t /\ v # t
        BY <2>1, Zenon
  <2>3. loc'[u] = loc[u] /\ loc'[v] = loc[v]
        BY <2>2, Zenon
  <2>4. loc[u].g = loc[v].g /\ loc[u].g # Nobody
        BY <2>3, Zenon
  <2>5. loc[u].i # loc[v].i
        BY <2>4, Zenon DEF Distinct
  <2> QED BY <2>3, <2>5, Zenon
<1>9. \A u \in Threads \ {t} : Knows(u)'
      BY <1>1, <1>2, Outside, Zenon
<1> QED BY <1>3, <1>4, <1>6, <1>7, <1>8, <1>9, Zenon

\* The head without available slots leaves the list or goes to its end.
LEMMA TryAvailInv ==
  ASSUME ConstantsOK, IInv, NEW t \in Threads, TryAvail(t)
  PROVE  IInv'
<1> USE DEF IInv
<1> DEFINE h == Head(active)
<1>1. pc[t] = "try_avail" /\ UNCHANGED <<lock, meta, held, loc>>
      BY DEF TryAvail
<1>2. lock = t /\ \A m \in Metas : meta[m].avail_mask = {}
      BY <1>1, Searching, Zenon
<1>3. Groups'
      BY <1>1, Zenon DEF Groups
<1>4. /\ active \in Seq(Metas) /\ NoDup(active) /\ Members(active) \subseteq Metas
      /\ active # <<>> => h \in Members(active) /\ h \in Metas
      /\ loc \in [Threads -> Locals] /\ meta \in [Metas -> Meta]
      BY Types DEF List, TypeOK
<1>5. ASSUME NEW label \in {"pick", "alloc_group"}, pc' = [pc EXCEPT ![t] = label],
             active' \in Seq(Metas), NoDup(active'), Members(active') \subseteq Members(active),
             \A m \in Members(active) \ Members(active') : meta[m].freed_mask = {},
             \A m \in Members(active') : m # Head(active') => meta[m].freed_mask # {},
             label = "pick" => active' # <<>> /\ meta[Head(active')].freed_mask # {},
             label = "alloc_group" => active' = <<>>
      PROVE  IInv'
  <2>1. /\ TypeOK' /\ Control' /\ List' /\ Slots' /\ Distinct'
        /\ \A u \in Threads \ {t} : Knows(u)'
        BY <1>1, <1>4, <1>5, SearchStep, Zenon
  <2>2. pc'[t] = label
        BY <1>5 DEF TypeOK
  <2>3. active' # <<>> => Head(active') \in Metas
        BY <2>1, Listing DEF TypeOK
  <2>4. Knows(t)'
        BY <1>1, <1>2, <1>5, <2>2, <2>3, Zenon DEF Knows, Releasing
  <2> QED BY <1>3, <2>1, <2>4
<1>6. CASE active = <<>>
  <2>1. active' = active /\ pc' = [pc EXCEPT ![t] = "alloc_group"]
        BY <1>6 DEF TryAvail, Goto
  <2>2. Members(active) = {}
        BY <1>4, <1>6, Listing, Zenon
  <2> QED BY <1>4, <1>5, <1>6, <2>1, <2>2
<1>7. CASE active # <<>> /\ meta[h].freed_mask = {}
  <2>1. /\ active' = Dequeue(h)
        /\ pc' = [pc EXCEPT ![t] = IF active' = <<>> THEN "alloc_group" ELSE "pick"]
        BY <1>7, Zenon DEF TryAvail, Goto
  <2>2. active' \in Seq(Metas) /\ NoDup(active') /\ Members(active') = Members(active) \ {h}
        BY <1>4, <1>7, <2>1, Dequeueing, Zenon
  <2>3. \A m \in Members(active') : meta[m].freed_mask # {}
        BY <2>2 DEF List
  <2>4. active' # <<>> => Head(active') \in Members(active')
        BY <2>2, Listing, Zenon
  <2> QED BY <1>5, <1>7, <2>1, <2>2, <2>3, <2>4, Zenon
<1>8. CASE active # <<>> /\ meta[h].freed_mask # {}
  <2>1. active' = Rotate(active) /\ pc' = [pc EXCEPT ![t] = "pick"]
        BY <1>8, Zenon DEF TryAvail, Goto
  <2>2. /\ active' \in Seq(Metas) /\ NoDup(active') /\ Members(active') = Members(active)
        /\ active' # <<>>
        BY <1>4, <1>8, <2>1, Rotation, Zenon
  <2>3. \A m \in Members(active') : meta[m].freed_mask # {}
        BY <1>8, <2>2 DEF List
  <2>4. Head(active') \in Members(active')
        BY <2>2, Listing
  <2> QED BY <1>5, <2>1, <2>2, <2>3, <2>4
<1> QED BY <1>6, <1>7, <1>8, Zenon

\* The mask to activate is read from the head, or from the next group.
LEMMA PickInv ==
  ASSUME ConstantsOK, IInv, NEW t \in Threads, Pick(t)
  PROVE  IInv'
<1> USE DEF IInv
<1> DEFINE h == Head(active)
<1>1. /\ pc[t] = "pick" /\ pc' = [pc EXCEPT ![t] = "widen"] /\ UNCHANGED <<lock, meta, held>>
      /\ active' = active \/ active' = Rotate(active)
      /\ loc' = [loc EXCEPT ![t].mask = meta[Head(active')].freed_mask]
      BY DEF Pick, Goto
<1>2. lock = t /\ \A m \in Metas : meta[m].avail_mask = {}
      BY <1>1, Searching
<1>3. /\ active \in Seq(Metas) /\ NoDup(active) /\ Members(active) \subseteq Metas
      /\ active # <<>> /\ h \in Members(active)
      /\ meta \in [Metas -> Meta] /\ meta[h].freed_mask # {}
      BY <1>1, Types DEF List, TypeOK, Knows
<1>4. /\ active' \in Seq(Metas) /\ NoDup(active') /\ Members(active') = Members(active)
      /\ active' # <<>>
      BY <1>1, <1>3, Rotation
<1>5. Head(active') \in Members(active) /\ Head(active') \in Metas
      BY <1>3, <1>4, Listing
<1>6. \A m \in Members(active) : meta[m].freed_mask # {}
      BY <1>3, Zenon DEF List
<1>7. /\ loc' \in [Threads -> Locals] /\ loc'[t].g = loc[t].g
      /\ loc'[t].mask = meta[Head(active')].freed_mask
      /\ \A u \in Threads \ {t} : loc'[u] = loc[u]
  <2>1. meta[Head(active')].freed_mask \in SUBSET Nat
        BY <1>5, Types
  <2> QED BY <1>1, <2>1, Zenon DEF TypeOK, Locals
<1>8. /\ TypeOK' /\ Control' /\ List' /\ Slots' /\ Distinct'
      /\ \A u \in Threads \ {t} : Knows(u)'
      BY <1>1, <1>3, <1>4, <1>6, <1>7, SearchStep, Zenon
<1>9. Groups'
      BY <1>1 DEF Groups
<1>10. pc'[t] = "widen"
      BY <1>1, Zenon DEF TypeOK
<1>11. Knows(t)'
      BY <1>1, <1>2, <1>4, <1>5, <1>6, <1>7, <1>10, Zenon DEF Knows, Releasing
<1> QED BY <1>8, <1>9, <1>11

\* Whatever malloc finds at the head, it activates a group that has a slot to
\* activate: of the groups only one has slots that were never active.
LEMMA WidenInv ==
  ASSUME ConstantsOK, IInv, NEW t \in Threads, Widen(t)
  PROVE  IInv'
<1> USE DEF IInv
<1> DEFINE h == Head(active)
           mask == loc[t].mask
<1>1. pc[t] = "widen" /\ pc' = [pc EXCEPT ![t] = "activate"] /\ UNCHANGED <<lock, held, loc>>
      BY DEF Widen, Goto
<1>2. lock = t /\ \A m \in Metas : meta[m].avail_mask = {}
      BY <1>1, Searching
<1>3. /\ active \in Seq(Metas) /\ NoDup(active) /\ Members(active) \subseteq Metas
      /\ active # <<>> /\ h \in Members(active) /\ h \in Metas
      /\ meta \in [Metas -> Meta] /\ loc \in [Threads -> Locals]
      /\ mask # {} /\ mask \subseteq meta[h].freed_mask
      BY <1>1, Types, Zenon DEF List, TypeOK, Knows
<1>4. \A m \in Members(active) : meta[m].freed_mask # {}
      BY <1>3 DEF List
<1>5. \A m \in Metas : \A s \in meta[m].freed_mask : s \in Nat /\ s <= meta[m].last_idx
      BY Types, Zenon DEF Slots, Slot
<1>6. ASSUME active' \in Seq(Metas), NoDup(active'), Members(active') = Members(active),
             meta' \in [Metas -> Meta],
             \A m \in Metas : /\ meta'[m].freed_mask = meta[m].freed_mask
                              /\ meta'[m].avail_mask = meta[m].avail_mask
                              /\ meta'[m].last_idx = meta[m].last_idx
                              /\ meta'[m].mem = meta[m].mem,
             Groups',
             NEW s \in meta[Head(active')].freed_mask, s <= meta'[Head(active')].active_idx
      PROVE  IInv'
  <2>1. /\ TypeOK' /\ Control' /\ List' /\ Slots' /\ Distinct'
        /\ \A u \in Threads \ {t} : Knows(u)'
        BY <1>1, <1>3, <1>4, <1>6, SearchStep, Zenon
  <2>2. pc'[t] = "activate"
        BY <1>1 DEF TypeOK
  <2>3. active' # <<>> /\ Head(active') \in Metas
        BY <1>3, <1>6, Listing, Zenon
  <2>4. s \in 0..meta'[Head(active')].active_idx
        BY <1>5, <1>6, <2>3
  <2>5. Knows(t)'
        BY <1>2, <1>6, <2>2, <2>3, <2>4, Zenon DEF Knows, Releasing, Act
  <2> QED BY <1>6, <2>1, <2>5
<1>7. CASE mask \cap Act(h) # {}
  <2>1. UNCHANGED <<active, meta>>
        BY <1>7, Zenon DEF Widen
  <2>2. PICK s \in mask : s \in Act(h)
        BY <1>7
  <2>3. s <= meta[h].active_idx
        BY <2>2 DEF Act
  <2>4. Groups'
        BY <2>1 DEF Groups
  <2> QED BY <1>3, <1>6, <2>1, <2>2, <2>3, <2>4, Zenon
<1>8. CASE mask \cap Act(h) = {}
  <2>1. meta[h].active_idx < meta[h].last_idx
    <3>1. PICK s \in mask : s \notin Act(h)
          BY <1>3, <1>8, Zenon
    <3>2. s \in Nat /\ s <= meta[h].last_idx /\ meta[h].active_idx \in Nat /\ meta[h].last_idx \in Nat
          BY <1>3, <1>5, <3>1, Types, Zenon
    <3> QED BY <3>1, <3>2 DEF Act
  <2>2. CASE Len(active) > 1
    <3>1. active' = Rotate(active) /\ UNCHANGED meta
          BY <1>8, <2>2, Zenon DEF Widen
    <3>2. /\ active' \in Seq(Metas) /\ NoDup(active') /\ Members(active') = Members(active)
          /\ active' # <<>> /\ Head(active') # h
          BY <1>3, <2>2, <3>1, Rotation, Zenon
    <3>3. Head(active') \in Members(active) /\ Head(active') \in Metas
          BY <1>3, <3>2, Listing
    <3>4. meta[Head(active')].active_idx = meta[Head(active')].last_idx
      <4>1. h # Head(active')
            BY <2>2, <3>2, Zenon
      <4>2. meta[h].active_idx # meta[h].last_idx
            BY <1>3, <2>1, Types
      <4> QED BY <1>3, <3>3, <4>1, <4>2, Apart, Zenon
    <3>5. PICK s \in meta[Head(active')].freed_mask : TRUE
          BY <1>4, <3>3, Zenon
    <3>6. Groups'
          BY <3>1, Zenon DEF Groups
    <3>7. s <= meta'[Head(active')].active_idx
          BY <1>5, <3>1, <3>3, <3>4, <3>5
    <3> QED BY <1>3, <1>6, <3>1, <3>2, <3>6, <3>7
  <2>3. CASE ~(Len(active) > 1)
    <3>1. PICK n \in meta[h].active_idx..meta[h].last_idx :
             /\ n > meta[h].active_idx \/ n = meta[h].last_idx
             /\ meta' = [meta EXCEPT ![h].active_idx = n]
             /\ UNCHANGED active
          BY <1>8, <2>3, Zenon DEF Widen
    <3>2. /\ meta[h].active_idx \in Nat /\ meta[h].last_idx \in Nat
          /\ n \in Nat /\ n > meta[h].active_idx /\ n <= meta[h].last_idx
          BY <1>3, <2>1, <3>1, Types
    <3>3. meta' \in [Metas -> Meta]
      <4>1. [meta[h] EXCEPT !.active_idx = n] \in Meta
            BY <1>3, <3>2, Zenon DEF Meta
      <4> QED BY <1>3, <3>1, <4>1
    <3>4. /\ meta'[h].active_idx = n
          /\ \A m \in Metas : /\ meta'[m].freed_mask = meta[m].freed_mask
                              /\ meta'[m].avail_mask = meta[m].avail_mask
                              /\ meta'[m].last_idx = meta[m].last_idx
                              /\ meta'[m].mem = meta[m].mem
                              /\ m # h => meta'[m].active_idx = meta[m].active_idx
          BY <1>3, <3>1, Zenon DEF Meta
    <3>5. Groups'
      <4> SUFFICES ASSUME NEW m \in Metas
                   PROVE  /\ meta'[m].active_idx <= meta'[m].last_idx
                          /\ \A s \in Nat : meta'[m].active_idx < s /\ s <= meta'[m].last_idx
                                              => s \in meta'[m].freed_mask
                          /\ ~meta'[m].mem => meta'[m].last_idx = 0
                          /\ \A k \in Metas : k # m => \/ meta'[m].active_idx = meta'[m].last_idx
                                                       \/ meta'[k].active_idx = meta'[k].last_idx
          BY DEF Groups
      <4>1. \A k \in Metas : k # h => meta[k].active_idx = meta[k].last_idx
        <5>1. meta[h].active_idx # meta[h].last_idx
              BY <3>2
        <5> QED BY <1>3, <5>1, Apart, Zenon
      <4>2. CASE m = h
        <5>1. /\ meta'[m].active_idx = n /\ meta'[m].last_idx = meta[h].last_idx
              /\ meta'[m].freed_mask = meta[h].freed_mask /\ meta'[m].mem = meta[h].mem
              /\ \A k \in Metas : k # m => meta'[k].active_idx = meta'[k].last_idx
              BY <1>3, <3>4, <4>1, <4>2, Zenon
        <5>2. /\ \A s \in Nat : meta[h].active_idx < s /\ s <= meta[h].last_idx
                                  => s \in meta[h].freed_mask
              /\ ~meta[h].mem => meta[h].last_idx = 0
              BY <1>3, Zenon DEF Groups
        <5> HIDE DEF IInv
        <5> QED BY <3>2, <5>1, <5>2
      <4>3. CASE m # h
            BY <3>4, <4>1, <4>3, Zenon DEF Groups
      <4> QED BY <4>2, <4>3, Zenon
    <3>6. meta[h].active_idx + 1 \in meta[h].freed_mask
          BY <1>3, <3>2 DEF Groups
    <3>7. meta[h].active_idx + 1 <= meta'[h].active_idx
          BY <3>2, <3>4
    <3> QED BY <1>3, <1>6, <3>1, <3>3, <3>4, <3>5, <3>6, <3>7
  <2> QED BY <2>2, <2>3, Zenon
<1> QED BY <1>7, <1>8

-----------------------------------------------------------------------------
(* malloc: activation, and handing out a slot *)

\* The exchange takes the active slots out of freed_mask; a thread has them
\* until it stores them in avail_mask.
LEMMA ExchangeInv ==
  ASSUME ConstantsOK, IInv, NEW t \in Threads, Exchange(t)
  PROVE  IInv'
<1> USE DEF IInv
<1> DEFINE h == Head(active)
           bits == meta[h].freed_mask \cap Act(h)
<1>1. PICK label \in {"set_avail", "set_new"} :
        /\ pc' = [pc EXCEPT ![t] = label]
        /\ pc[t] = IF label = "set_avail" THEN "activate" ELSE "activate_new"
      BY DEF Exchange, Goto
<1>2. /\ meta' = [meta EXCEPT ![h].freed_mask = @ \ Act(h)]
      /\ loc' = [loc EXCEPT ![t].mask = bits]
      /\ UNCHANGED <<lock, active, held>>
      BY DEF Exchange
<1>3. /\ lock = t /\ active # <<>> /\ h \in Members(active) /\ h \in Metas
      /\ meta[h].avail_mask = {}
      /\ label = "set_avail" => bits # {}
      BY <1>1, Types, Zenon DEF Control, MayLock, Knows
<1>4. /\ meta' \in [Metas -> Meta]
      /\ meta'[h].freed_mask = meta[h].freed_mask \ Act(h)
      /\ \A m \in Metas : /\ meta'[m].avail_mask = meta[m].avail_mask
                          /\ meta'[m].last_idx = meta[m].last_idx
                          /\ meta'[m].active_idx = meta[m].active_idx
                          /\ meta'[m].mem = meta[m].mem
                          /\ m # h => meta'[m].freed_mask = meta[m].freed_mask
  <2>1. meta[h].freed_mask \ Act(h) \in SUBSET Nat
        BY <1>3, Types
  <2>2. meta' \in [Metas -> Meta]
        BY <1>2, <1>3, <2>1, Stored, Zenon
  <2> QED BY <1>2, <1>3, <2>2 DEF TypeOK, Meta
<1>5. /\ loc' \in [Threads -> Locals] /\ loc'[t].mask = bits
      /\ \A u \in Threads : loc'[u].g = loc[u].g /\ loc'[u].i = loc[u].i
      /\ \A u \in Threads \ {t} : loc'[u] = loc[u]
  <2>1. bits \in SUBSET Nat
        BY <1>3, Types
  <2> HIDE DEF bits
  <2> QED BY <1>2, <2>1, Zenon DEF TypeOK, Locals
<1>6. pc'[t] = label /\ \A u \in Threads \ {t} : pc'[u] = pc[u]
      BY <1>1 DEF TypeOK
<1>7. TypeOK' /\ Control'
      BY <1>1, <1>2, <1>4, <1>5, <1>6 DEF TypeOK, Control, MayLock, Freeing
<1>8. Groups'
  <2>1. \A s \in Nat : meta[h].active_idx < s => s \notin Act(h)
        BY <1>3, Types DEF Act
  <2> QED BY <1>3, <1>4, <2>1, SMTT(30) DEF Groups
<1>9. \A m \in Metas : /\ Leaving(m)' <=> Leaving(m)
                       /\ \A s \in Nat : /\ ~Moving(m, s)
                                         /\ Moving(m, s)' <=> m = h /\ s \in bits
                                         /\ Coming(m, s)' <=> Coming(m, s)
  <2>1. \A m \in Metas : Leaving(m)' <=> Leaving(m)
        BY <1>1, <1>2, <1>3, <1>5, <1>6 DEF Leaving, Releasing
  <2>2. \A m \in Metas, s \in Nat : ~Moving(m, s) /\ (Moving(m, s)' <=> m = h /\ s \in bits)
        BY <1>1, <1>2, <1>3, <1>5, <1>6, Zenon DEF Moving
  <2>3. \A m \in Metas, s \in Nat : Coming(m, s)' <=> Coming(m, s)
        BY <1>5 DEF Coming
  <2> QED BY <2>1, <2>2, <2>3
<1>10. List'
      BY <1>2, <1>3, <1>4, <1>9, Types DEF List
<1>11. Slots'
  <2> SUFFICES ASSUME NEW m \in Metas, NEW s \in Nat PROVE Slot(m, s)'
      BY DEF Slots
  <2>1. Slot(m, s)
        BY DEF Slots
  <2> QED BY <1>2, <1>3, <1>4, <1>9, <2>1 DEF Slot
<1>12. Distinct'
      BY <1>5 DEF Distinct
<1>13. Knows(t)'
  <2>1. loc[t].g \in Members(active) => pc[t] \notin Releasing
        BY Zenon DEF Knows
  <2>2. pc[t] \in Releasing => loc[t].g \in Metas /\ loc[t].g # h
        BY <1>3, <2>1, InFree, Zenon DEF Freeing, Releasing
  <2>3. UNCHANGED active /\ bits \subseteq Act(h) /\ Act(h)' = Act(h)
        BY <1>2, <1>3, <1>4 DEF Act
  <2>4. CASE label = "set_avail"
        BY <1>3, <1>4, <1>5, <1>6, <2>3, <2>4, Activates, Zenon
  <2>5. CASE label = "set_new"
    <3>1. /\ loc[t].g \in Metas /\ loc[t].g # h /\ loc[t].g \notin Members(active)
          /\ All(loc[t].g) \subseteq meta[loc[t].g].freed_mask \cup meta[loc[t].g].avail_mask
                                    \cup {loc[t].i}
          BY <1>1, <2>2, <2>5 DEF Knows, Releasing
    <3>2. loc'[t].g = loc[t].g /\ loc'[t].i = loc[t].i /\ meta'[loc[t].g] = meta[loc[t].g]
          BY <1>2, <1>5, <3>1 DEF TypeOK
    <3>3. pc'[t] \in Releasing
          BY <1>6, <2>5 DEF Releasing
    <3>4. /\ (loc[t].g \notin Members(active))'
          /\ (All(loc[t].g) \subseteq meta[loc[t].g].freed_mask \cup meta[loc[t].g].avail_mask
                                      \cup {loc[t].i})'
          BY <2>3, <3>1, <3>2, Zenon DEF All
    <3>5. (active # <<>> /\ meta[Head(active)].avail_mask = {})'
          BY <1>3, <1>4, <2>3, Zenon
    <3>6. (loc[t].mask \subseteq Act(Head(active)))'
          BY <1>5, <2>3
    <3> QED BY <3>3, <3>4, <3>5, <3>6, Releases, Zenon
  <2> QED BY <2>4, <2>5
<1>14. \A u \in Threads \ {t} : Knows(u)'
      BY <1>3, <1>5, <1>6, Outside
<1> QED BY <1>7, <1>8, <1>10, <1>11, <1>12, <1>13, <1>14

\* Then they are in avail_mask.
LEMMA SetAvailInv ==
  ASSUME ConstantsOK, IInv, NEW t \in Threads, SetAvail(t)
  PROVE  IInv'
<1> USE DEF IInv
<1> DEFINE h == Head(active)
           mask == loc[t].mask
<1>1. PICK label \in {"take", "release"} :
        /\ pc' = [pc EXCEPT ![t] = label]
        /\ pc[t] = IF label = "take" THEN "set_avail" ELSE "set_new"
      BY DEF SetAvail, Goto
<1>2. /\ meta' = [meta EXCEPT ![h].avail_mask = mask]
      /\ UNCHANGED <<lock, active, held, loc>>
      BY Zenon DEF SetAvail
<1>3. /\ lock = t /\ active # <<>> /\ h \in Members(active) /\ h \in Metas
      /\ meta[h].avail_mask = {} /\ mask \in SUBSET Nat
      /\ label = "take" => mask # {}
      BY <1>1, Types DEF Control, MayLock, Knows
<1>4. /\ meta' \in [Metas -> Meta]
      /\ meta'[h].avail_mask = mask
      /\ \A m \in Metas : /\ meta'[m].freed_mask = meta[m].freed_mask
                          /\ meta'[m].last_idx = meta[m].last_idx
                          /\ meta'[m].active_idx = meta[m].active_idx
                          /\ meta'[m].mem = meta[m].mem
                          /\ m # h => meta'[m].avail_mask = meta[m].avail_mask
  <2>1. meta' \in [Metas -> Meta]
        BY <1>2, <1>3, Stored, Zenon
  <2> QED BY <1>2, <1>3, <2>1, Zenon DEF TypeOK, Meta
<1>5. pc'[t] = label /\ \A u \in Threads \ {t} : pc'[u] = pc[u]
      BY <1>1 DEF TypeOK
<1>6. TypeOK' /\ Control'
  <2>1. TypeOK'
        BY <1>1, <1>2, <1>4 DEF TypeOK, MayLock, Freeing
  <2>2. Control'
        BY <1>1, <1>2, <1>5 DEF Control, MayLock, Freeing
  <2> QED BY <2>1, <2>2
<1>7. Groups'
      BY <1>4, GroupsKept, Zenon
<1>8. \A m \in Metas : /\ Leaving(m)' <=> Leaving(m)
                       /\ \A s \in Nat : /\ Moving(m, s) <=> m = h /\ s \in mask
                                         /\ ~Moving(m, s)'
                                         /\ Coming(m, s)' <=> Coming(m, s)
  <2>1. \A m \in Metas : Leaving(m)' <=> Leaving(m)
        BY <1>1, <1>2, <1>3, <1>5 DEF Leaving, Releasing
  <2>2. \A m \in Metas, s \in Nat : ~Moving(m, s)' /\ (Moving(m, s) <=> m = h /\ s \in mask)
        BY <1>1, <1>2, <1>3, <1>5 DEF Moving
  <2>3. \A m \in Metas, s \in Nat : Coming(m, s)' <=> Coming(m, s)
        BY <1>2 DEF Coming
  <2> QED BY <2>1, <2>2, <2>3, Zenon
<1>9. List'
      BY <1>2, <1>3, <1>4, <1>8, Types DEF List
<1>10. Slots'
  <2> SUFFICES ASSUME NEW m \in Metas, NEW s \in Nat PROVE Slot(m, s)'
      BY DEF Slots
  <2>1. Slot(m, s)
        BY DEF Slots
  <2> QED BY <1>2, <1>3, <1>4, <1>8, <2>1 DEF Slot
<1>11. Distinct'
      BY <1>2 DEF Distinct
<1>12. Knows(t)'
  <2>1. loc[t].g \in Members(active) => pc[t] \notin Releasing
        BY Zenon DEF Knows
  <2>2. pc[t] \in Releasing => loc[t].g \in Metas /\ loc[t].g # h
        BY <1>3, <2>1, InFree, Zenon DEF Freeing, Releasing
  <2> QED BY <1>1, <1>2, <1>3, <1>4, <1>5, <2>2, ZenonT(60) DEF Knows, Releasing, All
<1>13. \A u \in Threads \ {t} : Knows(u)'
      BY <1>2, <1>3, <1>5, Outside, Zenon
<1> QED BY <1>6, <1>7, <1>9, <1>10, <1>11, <1>12, <1>13

\* A new group comes when the list is empty, so no other group has slots that
\* were never active.
LEMMA AllocGroupInv ==
  ASSUME ConstantsOK, IInv, NEW t \in Threads, AllocGroup(t)
  PROVE  IInv'
<1> USE DEF IInv
<1>1. /\ pc[t] = "alloc_group" /\ lock = t /\ active = <<>> /\ loc[t].g = Nobody
      BY Zenon DEF AllocGroup, Control, MayLock, Freeing, Knows
<1>2. /\ \A m \in Metas : ~Leaving(m)
      /\ \A m \in Metas, s \in Nat : ~Moving(m, s)
      BY <1>1 DEF Leaving, Moving, Releasing
<1>3. \A m \in Metas : meta[m].avail_mask = {} /\ meta[m].freed_mask = {}
  <2>1. Members(active) = {}
        BY <1>1, Listing, Zenon DEF TypeOK
  <2> QED BY <1>2, <2>1, Zenon DEF List
<1>4. \A u \in Threads \ {t} : pc[u] \notin MayLock /\ u # lock
      BY <1>1, Zenon DEF Control
<1>5. /\ lock' = Nobody /\ pc' = [pc EXCEPT ![t] = "run"]
      /\ pc'[t] = "run" /\ \A u \in Threads \ {t} : pc'[u] = pc[u]
      BY DEF AllocGroup, Success, Goto, TypeOK
<1>6. ASSUME loc' \in [Threads -> Locals], loc'[t].g = Nobody,
             \A u \in Threads \ {t} : loc'[u] = loc[u]
      PROVE  /\ Control' /\ Distinct'
             /\ \A m \in Metas : /\ ~Leaving(m)'
                                 /\ \A s \in Nat : ~Moving(m, s)' /\ (Coming(m, s)' <=> Coming(m, s))
             /\ \A u \in Threads : Knows(u)'
  <2>1. Control'
        BY <1>1, <1>4, <1>5, <1>6, Zenon DEF Control, MayLock, Freeing, ConstantsOK
  <2>2. Distinct'
        BY <1>1, <1>6, Zenon DEF Distinct
  <2>3. \A m \in Metas : ~Leaving(m)' /\ \A s \in Nat : ~Moving(m, s)'
        BY <1>5 DEF Leaving, Moving, ConstantsOK
  <2>4. \A m \in Metas, s \in Nat : Coming(m, s)' <=> Coming(m, s)
        BY <1>1, <1>6 DEF Coming, ConstantsOK
  <2>5. ASSUME NEW u \in Threads PROVE Knows(u)'
    <3>1. CASE u = t
          BY <1>5, <3>1, Zenon DEF Knows, Releasing
    <3>2. CASE u # t
          BY <1>4, <1>5, <1>6, <3>2, Outside
    <3> QED BY <3>1, <3>2
  <2> QED BY <2>1, <2>2, <2>3, <2>4, <2>5, Zenon
<1>7. CASE UNCHANGED <<meta, active, held, loc>>
  <2>1. /\ Control' /\ Distinct' /\ \A u \in Threads : Knows(u)'
        /\ \A m \in Metas : /\ ~Leaving(m)'
                            /\ \A s \in Nat : ~Moving(m, s)' /\ (Coming(m, s)' <=> Coming(m, s))
        BY <1>1, <1>6, <1>7, Zenon DEF TypeOK
  <2>2. TypeOK' /\ Groups'
        BY <1>5, <1>7, Zenon DEF TypeOK, Groups
  <2>3. List'
        BY <1>2, <1>7, <2>1 DEF List
  <2>4. Slots'
    <3>1. UNCHANGED <<meta, held>>
          BY <1>7
    <3> QED BY <1>2, <2>1, <3>1, SlotsKept
  <2> QED BY <2>1, <2>2, <2>3, <2>4, Zenon
<1>8. ASSUME NEW m \in Metas, ~meta[m].mem, NEW cnt \in Counts, NEW a \in 0..cnt - 1,
             meta' = [meta EXCEPT ![m] =
                         [avail_mask |-> 1..a, freed_mask |-> a + 1..cnt - 1,
                          last_idx |-> cnt - 1, active_idx |-> a, mem |-> TRUE]],
             active' = Append(active, m), Success(t, m, 0)
      PROVE  IInv'
  <2>1. /\ cnt \in Nat /\ cnt > 0 /\ a \in Nat /\ a <= cnt - 1 /\ cnt - 1 \in Nat
        /\ 1..a \in SUBSET Nat /\ a + 1..cnt - 1 \in SUBSET Nat
        BY DEF ConstantsOK, MaxSlots
  <2>2. held' = held \cup {<<m, 0>>} /\ loc' = [loc EXCEPT ![t] = NoLocals]
        BY <1>8 DEF Success
  <2>3. /\ loc' \in [Threads -> Locals] /\ loc'[t].g = Nobody
        /\ \A u \in Threads \ {t} : loc'[u] = loc[u]
    <3>1. NoLocals \in Locals /\ NoLocals.g = Nobody
          BY Zenon DEF NoLocals, Locals
    <3> QED BY <2>2, <3>1, Zenon DEF TypeOK
  <2>4. /\ Control' /\ Distinct' /\ \A u \in Threads : Knows(u)'
        /\ \A n \in Metas : /\ ~Leaving(n)'
                            /\ \A s \in Nat : ~Moving(n, s)' /\ (Coming(n, s)' <=> Coming(n, s))
        BY <1>6, <2>3, Zenon
  <2>5. /\ meta' \in [Metas -> Meta]
        /\ meta'[m].avail_mask = 1..a /\ meta'[m].freed_mask = a + 1..cnt - 1
        /\ meta'[m].last_idx = cnt - 1 /\ meta'[m].active_idx = a /\ meta'[m].mem
        /\ \A n \in Metas \ {m} : meta'[n] = meta[n]
    <3>1. [avail_mask |-> 1..a, freed_mask |-> a + 1..cnt - 1,
           last_idx |-> cnt - 1, active_idx |-> a, mem |-> TRUE] \in Meta
          BY <2>1, Zenon DEF Meta
    <3> QED BY <1>8, <3>1, Zenon DEF TypeOK
  <2>6. /\ active' \in Seq(Metas) /\ NoDup(active') /\ Members(active') = {m} /\ Head(active') = m
    <3>1. m \notin Members(active) /\ Members(active) = {} /\ active \in Seq(Metas) /\ NoDup(active)
          BY <1>1, Listing, Zenon DEF TypeOK, List
    <3>2. /\ active' \in Seq(Metas) /\ NoDup(active')
          /\ Members(active') = Members(active) \cup {m}
          /\ Head(active') = IF active = <<>> THEN m ELSE Head(active)
          BY <1>8, <3>1, Queueing, Zenon
    <3> HIDE <1>8
    <3> QED BY <1>1, <3>1, <3>2
  <2>7. TypeOK'
    <3>1. <<m, 0>> \in Metas \X Nat
          BY FirstIdx, Zenon
    <3>2. held' \subseteq Metas \X Nat
          BY <2>2, <3>1, Zenon DEF TypeOK
    <3>3. pc' \in [Threads -> {"run"} \cup MayLock \cup Freeing]
          BY <1>5, Zenon DEF TypeOK
    <3> QED BY <1>5, <2>3, <2>5, <2>6, <3>2, <3>3, Zenon DEF TypeOK
  <2>8. \A n \in Metas : meta[n].active_idx = meta[n].last_idx
        BY <1>3, Apart, Zenon
  <2>9. Groups'
    <3> SUFFICES ASSUME NEW n \in Metas
                 PROVE  /\ meta'[n].active_idx <= meta'[n].last_idx
                        /\ \A s \in Nat : meta'[n].active_idx < s /\ s <= meta'[n].last_idx
                                            => s \in meta'[n].freed_mask
                        /\ ~meta'[n].mem => meta'[n].last_idx = 0
                        /\ \A k \in Metas : k # n => \/ meta'[n].active_idx = meta'[n].last_idx
                                                     \/ meta'[k].active_idx = meta'[k].last_idx
        BY Zenon DEF Groups
    <3>1. CASE n = m
          BY <2>1, <2>5, <2>8, <3>1
    <3>2. CASE n # m
          BY <2>5, <2>8, <3>2 DEF Groups
    <3> QED BY <3>1, <3>2, Zenon
  <2>10. List'
        BY <1>3, <2>5, <2>6, Zenon DEF List
  <2>11. Slots'
    <3> SUFFICES ASSUME NEW n \in Metas, NEW s \in Nat PROVE Slot(n, s)'
        BY DEF Slots
    <3>1. Slot(n, s)
          BY DEF Slots
    <3>2. <<n, s>> \in held' <=> <<n, s>> \in held \/ (n = m /\ s = 0)
          BY <2>2, Zenon
    <3>3. CASE n = m
      <4>1. ~Coming(n, s) /\ <<n, s>> \notin held
        <5>1. ~meta[n].mem
              BY <1>8, <3>3
        <5> QED BY <3>1, <5>1, Zenon DEF Slot
      <4>2. /\ s \in meta'[n].avail_mask <=> 1 <= s /\ s <= a
            /\ s \in meta'[n].freed_mask <=> a + 1 <= s /\ s <= cnt - 1
        <5>1. meta'[n].avail_mask = 1..a /\ meta'[n].freed_mask = a + 1..cnt - 1
              BY <2>5, <3>3, Zenon
        <5> HIDE <1>8, <3>3 DEF IInv
        <5> QED BY <2>1, <5>1
      <4>3. /\ <<n, s>> \in held' <=> s = 0
            /\ ~Moving(n, s)' /\ ~Coming(n, s)'
            /\ meta'[n].mem /\ meta'[n].last_idx = cnt - 1
            BY <2>4, <2>5, <3>2, <3>3, <4>1, Zenon
      <4> HIDE DEF IInv
      <4> QED BY <2>1, <4>2, <4>3 DEF Slot
    <3>4. CASE n # m
          BY <1>2, <2>4, <2>5, <3>1, <3>2, <3>4, Zenon DEF Slot
    <3> QED BY <3>3, <3>4
  <2> QED BY <2>4, <2>7, <2>9, <2>10, <2>11
<1> QED BY <1>7, <1>8 DEF AllocGroup

-----------------------------------------------------------------------------
(* Masks *)

\* A mask with one of its 32 bits set has a first slot: look in the lower half
\* of the bits, then in the upper one.
LEMMA FirstSlot ==
  ASSUME NEW mask \in SUBSET Nat, \E s \in mask : s < MaxSlots
  PROVE  First(mask) \in mask
<1> DEFINE Has(S) == \E s \in S : \A r \in S : s <= r
           Found(w) == \A S \in SUBSET Nat : (\E s \in S : s < w) => Has(S)
<1>1. Found(1)
  <2> SUFFICES ASSUME NEW S \in SUBSET Nat, NEW s \in S, s < 1 PROVE Has(S)
      BY Zenon
  <2>1. \A r \in S : s <= r
        OBVIOUS
  <2> QED BY <2>1
<1>2. ASSUME NEW w \in Nat, Found(w) PROVE Found(w + w)
  <2> SUFFICES ASSUME NEW S \in SUBSET Nat, NEW s \in S, s < w + w PROVE Has(S)
      BY Zenon
  <2>1. CASE \E r \in S : r < w
        BY <1>2, <2>1
  <2>2. CASE ~\E r \in S : r < w
    <3> DEFINE T == {r - w : r \in S}
    <3>1. \A r \in S : r \in Nat /\ r - w \in Nat
          BY <2>2
    <3>2. T \in SUBSET Nat /\ s - w \in T /\ s - w < w
          BY <3>1
    <3>3. Has(T)
          BY <1>2, <3>2, Zenon
    <3>4. PICK r \in S : \A q \in T : r - w <= q
          BY <3>3
    <3>5. \A q \in S : r <= q
          BY <3>1, <3>4
    <3> QED BY <3>5
  <2> QED BY <2>1, <2>2
<1> HIDE DEF Found
<1>3. Found(2) /\ Found(4) /\ Found(8) /\ Found(16) /\ Found(32)
  <2>1. Found(2)
        BY <1>1, <1>2, 1 + 1 = 2
  <2>2. Found(4)
        BY <1>2, <2>1, 2 + 2 = 4
  <2>3. Found(8)
        BY <1>2, <2>2, 4 + 4 = 8
  <2>4. Found(16)
        BY <1>2, <2>3, 8 + 8 = 16
  <2>5. Found(32)
        BY <1>2, <2>4, 16 + 16 = 32
  <2> QED BY <2>1, <2>2, <2>3, <2>4, <2>5
<1> QED BY <1>3, Zenon DEF Found, First, MaxSlots

\* No group has more slots than the masks have bits.
Narrow == \A m \in Metas : meta[m].last_idx < MaxSlots

\* An available slot is one of the 32.
LEMMA FirstAvailable ==
  ASSUME IInv, Narrow, NEW m \in Metas, meta[m].avail_mask # {}
  PROVE  First(meta[m].avail_mask) \in meta[m].avail_mask
<1>1. PICK s \in meta[m].avail_mask : TRUE
      OBVIOUS
<1>2. meta[m].avail_mask \in SUBSET Nat /\ meta[m].last_idx \in Nat
      BY DEF IInv, TypeOK, Meta
<1>3. s \in Nat /\ Slot(m, s)
      BY <1>2, Zenon DEF IInv, Slots
<1>4. s <= meta[m].last_idx /\ meta[m].last_idx < MaxSlots
      BY <1>3 DEF Slot, Narrow
<1> QED BY <1>2, <1>3, <1>4, FirstSlot DEF MaxSlots

\* Only a new group changes the number of its slots.
LEMMA NarrowNext ==
  ASSUME ConstantsOK, TypeOK, Narrow, [Next]_vars
  PROVE  Narrow'
<1>1. CASE UNCHANGED meta
      BY <1>1 DEF Narrow
<1>2. ASSUME NEW m, NEW v,
             \/ meta' = [meta EXCEPT ![m].avail_mask = v]
             \/ meta' = [meta EXCEPT ![m].freed_mask = v]
             \/ meta' = [meta EXCEPT ![m].active_idx = v]
      PROVE  Narrow'
      BY <1>2, Zenon DEF Narrow, TypeOK, Meta
<1>3. ASSUME NEW m, NEW g, meta' = [meta EXCEPT ![m] = g], g.last_idx < MaxSlots PROVE Narrow'
      BY <1>3 DEF Narrow, TypeOK
<1>4. CASE Next
  <2>1. PICK t \in Threads :
           \/ malloc(t) \/ TryAvail(t) \/ Pick(t) \/ Widen(t) \/ AllocGroup(t)
           \/ Exchange(t) \/ SetAvail(t) \/ TakeFirst(t)
           \/ free(t) \/ ReadFreed(t) \/ ReadAvail(t) \/ Cas(t)
           \/ FreeLock(t) \/ NontrivialFree(t) \/ FreeGroup(t)
        BY <1>4 DEF Next
  <2>2. CASE malloc(t) \/ TakeFirst(t)
        BY <1>1, <1>2, <2>2, Zenon DEF malloc, TakeFirst
  <2>3. CASE TryAvail(t) \/ Pick(t) \/ free(t) \/ ReadFreed(t) \/ ReadAvail(t) \/ FreeLock(t)
        BY <1>1, <2>3 DEF TryAvail, Pick, free, ReadFreed, ReadAvail, FreeLock
  <2>4. CASE Widen(t)
        BY <1>1, <1>2, <2>4, Zenon DEF Widen
  <2>5. CASE AllocGroup(t)
    <3>1. CASE UNCHANGED meta
          BY <1>1, <3>1
    <3>2. CASE ~UNCHANGED meta
      <4>1. PICK m \in Metas, cnt \in Counts : \E a \in 0..cnt - 1 :
               meta' = [meta EXCEPT ![m] =
                          [avail_mask |-> 1..a, freed_mask |-> a + 1..cnt - 1,
                           last_idx |-> cnt - 1, active_idx |-> a, mem |-> TRUE]]
            BY <2>5, <3>2 DEF AllocGroup
      <4>2. cnt \in 1..32
            BY <4>1, Zenon DEF ConstantsOK, MaxSlots
      <4>3. cnt - 1 < MaxSlots
            BY <4>2 DEF MaxSlots
      <4>4. PICK a \in 0..cnt - 1 :
               meta' = [meta EXCEPT ![m] =
                          [avail_mask |-> 1..a, freed_mask |-> a + 1..cnt - 1,
                           last_idx |-> cnt - 1, active_idx |-> a, mem |-> TRUE]]
            BY <4>1, Zenon
      <4> DEFINE g == [avail_mask |-> 1..a, freed_mask |-> a + 1..cnt - 1,
                       last_idx |-> cnt - 1, active_idx |-> a, mem |-> TRUE]
      <4>5. g.last_idx < MaxSlots /\ meta' = [meta EXCEPT ![m] = g]
            BY <4>3, <4>4
      <4> HIDE DEF g
      <4> QED BY <1>3, <4>5, Zenon
    <3> QED BY <3>1, <3>2
  <2>6. CASE Exchange(t) \/ SetAvail(t)
        BY <1>2, <2>6 DEF Exchange, SetAvail
  <2>7. CASE Cas(t)
        BY <1>1, <1>2, <2>7, Zenon DEF Cas
  <2>8. CASE NontrivialFree(t)
        BY <1>1, <1>2, <2>8, Zenon DEF NontrivialFree, Release, Mark
  <2>9. CASE FreeGroup(t)
    <3>1. Free.last_idx < MaxSlots
          BY DEF Free, MaxSlots
    <3> QED BY <1>3, <2>9, <3>1, Zenon DEF FreeGroup
  <2> QED BY <2>1, <2>2, <2>3, <2>4, <2>5, <2>6, <2>7, <2>8, <2>9, Zenon
<1> QED BY <1>1, <1>4 DEF vars

\* A slot that is available goes to the program.
LEMMA HandOut ==
  ASSUME ConstantsOK, IInv, NEW t \in Threads, lock \in {t, Nobody}, pc[t] \in {"run", "take"},
         active # <<>>, NEW s \in meta[Head(active)].avail_mask,
         meta' = [meta EXCEPT ![Head(active)].avail_mask = @ \ {s}],
         Success(t, Head(active), s), UNCHANGED active
  PROVE  IInv'
<1> USE DEF IInv
<1> DEFINE h == Head(active)
<1>1. /\ held' = held \cup {<<h, s>>} /\ lock' = Nobody /\ active' = active
      /\ pc' = [pc EXCEPT ![t] = "run"] /\ loc' = [loc EXCEPT ![t] = NoLocals]
      BY DEF Success, Goto
<1>2. h \in Members(active) /\ h \in Metas /\ s \in Nat
      BY Types
<1>3. /\ meta' \in [Metas -> Meta]
      /\ meta'[h].avail_mask = meta[h].avail_mask \ {s}
      /\ \A m \in Metas : /\ meta'[m].freed_mask = meta[m].freed_mask
                          /\ meta'[m].last_idx = meta[m].last_idx
                          /\ meta'[m].active_idx = meta[m].active_idx
                          /\ meta'[m].mem = meta[m].mem
                          /\ m # h => meta'[m].avail_mask = meta[m].avail_mask
  <2>1. meta[h].avail_mask \ {s} \in SUBSET Nat
        BY <1>2, Types
  <2>2. meta' \in [Metas -> Meta]
        BY <1>2, <2>1, Stored, Zenon
  <2> QED BY <1>2, <2>2, Zenon DEF TypeOK, Meta
<1>4. /\ pc'[t] = "run" /\ loc'[t] = NoLocals /\ loc'[t].g = Nobody /\ loc[t].g = Nobody
      /\ \A u \in Threads \ {t} : pc'[u] = pc[u] /\ loc'[u] = loc[u]
      BY <1>1, Zenon DEF TypeOK, NoLocals, Control, Freeing
<1>5. \A u \in Threads \ {t} : pc[u] \notin MayLock /\ u # lock
      BY DEF Control, ConstantsOK
<1>6. TypeOK'
  <2>1. NoLocals \in Locals
        BY DEF NoLocals, Locals
  <2> QED BY <1>1, <1>2, <1>3, <2>1 DEF TypeOK
<1>7. Control'
      BY <1>1, <1>4, <1>5, Zenon DEF Control, MayLock, Freeing, ConstantsOK
<1>8. Groups'
      BY <1>3 DEF Groups
<1>9. \A m \in Metas : /\ ~Leaving(m) /\ ~Leaving(m)'
                       /\ \A r \in Nat : /\ ~Moving(m, r) /\ ~Moving(m, r)'
                                         /\ Coming(m, r)' <=> Coming(m, r)
  <2>1. \A m \in Metas : ~Leaving(m) /\ ~Leaving(m)'
        BY <1>1 DEF Leaving, Releasing, ConstantsOK
  <2>2. \A m \in Metas, r \in Nat : ~Moving(m, r) /\ ~Moving(m, r)'
        BY <1>1 DEF Moving, ConstantsOK
  <2>3. \A m \in Metas, r \in Nat : Coming(m, r)' <=> Coming(m, r)
        BY <1>4 DEF Coming, ConstantsOK
  <2> QED BY <2>1, <2>2, <2>3
<1>10. List'
  <2>1. Members(active) \subseteq Metas
        BY Types
  <2>2. \A m \in Metas : meta'[m].avail_mask # {} => meta[m].avail_mask # {}
        BY <1>2, <1>3
  <2> QED BY <1>1, <1>3, <1>9, <2>1, <2>2 DEF List
<1>11. Slots'
  <2> SUFFICES ASSUME NEW m \in Metas, NEW r \in Nat PROVE Slot(m, r)'
      BY DEF Slots
  <2>1. Slot(m, r)
        BY DEF Slots
  <2>2. <<m, r>> \in held' <=> <<m, r>> \in held \/ (m = h /\ r = s)
        BY <1>1
  <2> QED BY <1>2, <1>3, <1>9, <2>1, <2>2 DEF Slot
<1>12. Distinct'
      BY <1>4 DEF Distinct
<1>13. ASSUME NEW u \in Threads PROVE Knows(u)'
  <2>1. CASE u = t
        BY <1>4, <2>1 DEF Knows, Releasing
  <2>2. CASE u # t
        BY <1>4, <1>5, <2>2, Outside
  <2> QED BY <2>1, <2>2, Zenon
<1> QED BY <1>6, <1>7, <1>8, <1>10, <1>11, <1>12, <1>13

\* The slot just activated goes to the program.
LEMMA TakeFirstInv ==
  ASSUME ConstantsOK, IInv, Narrow, NEW t \in Threads, TakeFirst(t)
  PROVE  IInv'
<1> USE DEF IInv
<1> DEFINE h == Head(active)
           s == First(loc[t].mask)
<1>1. /\ pc[t] = "take" /\ UNCHANGED active /\ Success(t, h, s)
      /\ meta' = [meta EXCEPT ![h].avail_mask = loc[t].mask \ {s}]
      BY DEF TakeFirst
<1>2. lock = t /\ active # <<>> /\ h \in Metas /\ meta[h].avail_mask = loc[t].mask
      BY <1>1, Types, Zenon DEF Control, MayLock, Knows
<1>3. loc[t].mask # {}
      BY <1>1, Zenon DEF Knows
<1>4. s \in meta[h].avail_mask
      BY <1>2, <1>3, FirstAvailable
<1> HIDE DEF s
<1>5. meta' = [meta EXCEPT ![h].avail_mask = @ \ {s}]
      BY <1>1, <1>2, Zenon DEF TypeOK
<1> QED BY <1>1, <1>2, <1>4, <1>5, HandOut, Zenon

\* malloc hands out an available slot, or begins to search.
LEMMA mallocInv ==
  ASSUME ConstantsOK, IInv, Narrow, NEW t \in Threads, malloc(t)
  PROVE  IInv'
<1> USE DEF IInv
<1> DEFINE h == Head(active)
           s == First(meta[h].avail_mask)
<1>1. pc[t] = "run" /\ lock = Nobody /\ UNCHANGED active
      BY DEF malloc
<1>2. CASE active # <<>> /\ meta[h].avail_mask # {}
  <2>1. meta' = [meta EXCEPT ![h].avail_mask = @ \ {s}] /\ Success(t, h, s)
        BY <1>2, Zenon DEF malloc
  <2>2. s \in meta[h].avail_mask
        BY <1>2, FirstAvailable, Types, Zenon
  <2> HIDE DEF s
  <2> QED BY <1>1, <1>2, <2>1, <2>2, HandOut, Zenon
<1>3. CASE ~(active # <<>> /\ meta[h].avail_mask # {})
  <2>1. lock' = t /\ pc' = [pc EXCEPT ![t] = "try_avail"] /\ UNCHANGED <<meta, held, loc>>
        BY <1>3 DEF malloc, Goto
  <2>2. /\ pc'[t] = "try_avail" /\ \A u \in Threads \ {t} : pc'[u] = pc[u]
        /\ loc[t].g = Nobody /\ \A u \in Threads : pc[u] \notin MayLock /\ u # lock
        BY <1>1, <2>1, Zenon DEF TypeOK, Control, Freeing, ConstantsOK
  <2>3. TypeOK' /\ Control'
        BY <1>1, <2>1, <2>2 DEF TypeOK, Control, MayLock, Freeing
  <2>4. \A m \in Metas : /\ ~Leaving(m) /\ ~Leaving(m)'
                         /\ \A r \in Nat : /\ ~Moving(m, r) /\ ~Moving(m, r)'
                                           /\ Coming(m, r)' <=> Coming(m, r)
        BY <1>1, <2>1, <2>2, Zenon DEF Leaving, Moving, Coming, Releasing, ConstantsOK
  <2>5. Groups' /\ List' /\ Distinct'
        BY <1>1, <2>1, <2>4, Zenon DEF Groups, List, Distinct
  <2>6. Slots'
        BY <2>1, <2>4, ZenonT(60) DEF Slots, Slot
  <2>7. Knows(t)'
        BY <1>1, <1>3, <2>1, <2>2, Zenon DEF Knows, Releasing
  <2>8. \A u \in Threads \ {t} : Knows(u)'
        BY <2>1, <2>2, Outside
  <2> QED BY <2>3, <2>5, <2>6, <2>7, <2>8
<1> QED BY <1>2, <1>3

-----------------------------------------------------------------------------
(* The theorems *)

\* The invariant holds before the first allocation.
LEMMA InitInv ==
  ASSUME ConstantsOK, Init
  PROVE  IInv
<1> USE DEF Init
<1>1. Free \in Meta /\ NoLocals \in Locals
      BY DEF Free, Meta, NoLocals, Locals
<1>2. TypeOK
      BY <1>1 DEF TypeOK
<1>3. /\ \A m \in Metas : /\ meta[m].avail_mask = {} /\ meta[m].freed_mask = {}
                          /\ ~meta[m].mem /\ meta[m].last_idx = 0 /\ meta[m].active_idx = 0
      /\ \A t \in Threads : loc[t].g = Nobody /\ pc[t] = "run"
      /\ Members(active) = {}
  <2>1. Members(active) = {}
        BY <1>2, Listing, Zenon DEF TypeOK
  <2> QED BY <2>1 DEF Free, NoLocals
<1>4. Control
      BY <1>3, Zenon DEF Control, MayLock, Freeing, ConstantsOK
<1>5. Groups /\ List /\ Distinct
  <2>1. Groups
    <3>1. 0 <= 0 /\ \A s \in Nat : ~(0 < s /\ s <= 0)
          OBVIOUS
    <3> QED BY <1>3, <3>1, Zenon DEF Groups
  <2>2. NoDup(active)
    <3>1. \A i \in 1..Len(active) : active[i] \in Members(active)
          BY <1>2, Listing, Zenon DEF TypeOK
    <3> QED BY <1>3, <3>1, Zenon DEF NoDup
  <2>3. List
        BY <1>3, <2>2, Zenon DEF List
  <2>4. Distinct
        BY <1>3, Zenon DEF Distinct
  <2> QED BY <2>1, <2>3, <2>4
<1>6. Slots
      BY <1>3, Zenon DEF Slots, Slot, Moving, Coming, ConstantsOK
<1>7. \A t \in Threads : Knows(t)
      BY <1>3, Zenon DEF Knows, Releasing
<1> QED BY <1>2, <1>4, <1>5, <1>6, <1>7, Zenon DEF IInv

\* Every step of malloc and free preserves it.
LEMMA NextInv ==
  ASSUME ConstantsOK, IInv, Narrow, [Next]_vars
  PROVE  IInv'
<1>1. CASE UNCHANGED vars
  <2> USE <1>1 DEF vars, IInv
  <2>1. TypeOK' /\ Control' /\ Groups' /\ Distinct'
        BY Zenon DEF TypeOK, Control, Groups, Distinct
  <2>2. \A m \in Metas : /\ Leaving(m)' <=> Leaving(m)
                         /\ \A s \in Nat : /\ Moving(m, s)' <=> Moving(m, s)
                                           /\ Coming(m, s)' <=> Coming(m, s)
        BY DEF Leaving, Moving, Coming
  <2>3. List' /\ Slots'
        BY <2>2, ZenonT(40) DEF List, Slots, Slot
  <2>4. \A t \in Threads : Knows(t)'
    <3> SUFFICES ASSUME NEW t \in Threads PROVE Knows(t)'
        OBVIOUS
    <3>1. /\ pc'[t] = pc[t] /\ loc'[t] = loc[t] /\ active' = active /\ meta' = meta
          /\ Knows(t)
          BY Zenon
    <3> HIDE <1>1
    <3>2. \A m : All(m)' = All(m) /\ Act(m)' = Act(m)
          BY <3>1, Zenon DEF All, Act
    <3> QED BY <3>1, <3>2, ZenonT(60) DEF Knows
  <2> QED BY <2>1, <2>3, <2>4, Zenon
<1>2. CASE Next
      BY <1>2, mallocInv, TryAvailInv, PickInv, WidenInv, AllocGroupInv, ExchangeInv, SetAvailInv,
         TakeFirstInv, freeInv, ReadFreedInv, ReadAvailInv, CasInv, FreeLockInv, NontrivialFreeInv,
         FreeGroupInv, Zenon DEF Next
<1> QED BY <1>1, <1>2

\* The invariant gives the partition of the slots.
LEMMA Partition ==
  ASSUME ConstantsOK, IInv
  PROVE  SlotsPartitioned
<1> USE DEF IInv
<1> SUFFICES ASSUME NEW m \in Metas
             PROVE  LET places == <<Held(m), Returning(m), meta[m].avail_mask,
                                    meta[m].freed_mask, Activating(m)>>
                    IN /\ UNION {places[i] : i \in 1..5} = IF meta[m].mem THEN All(m) ELSE {}
                       /\ \A i, j \in 1..5 : i # j => places[i] \cap places[j] = {}
                       /\ \A t, u \in Threads : t # u /\ loc[t].g = m /\ loc[u].g = m
                                                  => loc[t].i # loc[u].i
    BY Zenon DEF SlotsPartitioned
<1> DEFINE H == Held(m)
           R == Returning(m)
           A == meta[m].avail_mask
           F == meta[m].freed_mask
           M == Activating(m)
           places == <<H, R, A, F, M>>
<1>1. H \subseteq Nat /\ \A s \in Nat : s \in H <=> <<m, s>> \in held
  <2>1. held \subseteq Metas \X Nat
        BY Zenon DEF TypeOK
  <2> HIDE DEF IInv
  <2> QED BY <2>1 DEF Held
<1>2. R \subseteq Nat /\ \A s \in Nat : s \in R <=> Coming(m, s)
      BY Types, Zenon DEF Returning, Coming
<1>3. M \subseteq Nat /\ \A s \in Nat : s \in M <=> Moving(m, s)
  <2>1. \A u \in Threads : pc[u] \in {"set_avail", "set_new"} => lock = u
        BY DEF Control, MayLock
  <2>2. \A s : s \in M <=> \E u \in Threads : /\ pc[u] \in {"set_avail", "set_new"}
                                              /\ m = Head(active) /\ s \in loc[u].mask
        BY DEF Activating
  <2>3. M \subseteq Nat
        BY <2>2, Types, Zenon
  <2> HIDE DEF M
  <2> QED BY <2>1, <2>2, <2>3 DEF Moving
<1>4. A \subseteq Nat /\ F \subseteq Nat /\ meta[m].last_idx \in Nat
      BY Types, Zenon
<1>5. All(m) \subseteq Nat /\ \A s \in Nat : s \in All(m) <=> s <= meta[m].last_idx
      BY <1>4 DEF All
<1> HIDE DEF H, R, A, F, M
<1>6. ASSUME NEW s \in Nat
      PROVE  /\ s \in H \/ s \in R \/ s \in A \/ s \in F \/ s \in M <=> meta[m].mem /\ s \in All(m)
             /\ s \in H => s \notin R /\ s \notin A /\ s \notin F /\ s \notin M
             /\ s \in R => s \notin A /\ s \notin F /\ s \notin M
             /\ s \in A => s \notin F /\ s \notin M
             /\ s \in F => s \notin M
  <2>1. Slot(m, s)
        BY DEF Slots
  <2> QED BY <1>1, <1>2, <1>3, <1>5, <2>1 DEF Slot, A, F
<1>7. H \cup R \cup A \cup F \cup M = IF meta[m].mem THEN All(m) ELSE {}
      BY <1>1, <1>2, <1>3, <1>4, <1>5, <1>6, Zenon
<1>8. /\ H \cap R = {} /\ H \cap A = {} /\ H \cap F = {} /\ H \cap M = {}
      /\ R \cap A = {} /\ R \cap F = {} /\ R \cap M = {}
      /\ A \cap F = {} /\ A \cap M = {} /\ F \cap M = {}
      BY <1>1, <1>2, <1>3, <1>4, <1>6
<1>9. UNION {places[i] : i \in 1..5} = H \cup R \cup A \cup F \cup M
  <2>1. /\ places[1] = H /\ places[2] = R /\ places[3] = A /\ places[4] = F /\ places[5] = M
        OBVIOUS
  <2> HIDE DEF places
  <2>2. \A s : s \in UNION {places[i] : i \in 1..5} <=> \E i \in 1..5 : s \in places[i]
        OBVIOUS
  <2>3. \A i \in 1..5 : i = 1 \/ i = 2 \/ i = 3 \/ i = 4 \/ i = 5
        OBVIOUS
  <2>4. 1 \in 1..5 /\ 2 \in 1..5 /\ 3 \in 1..5 /\ 4 \in 1..5 /\ 5 \in 1..5
        OBVIOUS
  <2>5. \A s : s \in UNION {places[i] : i \in 1..5} <=> s \in H \cup R \cup A \cup F \cup M
        BY <2>1, <2>2, <2>3, <2>4
  <2> QED BY <2>5
<1>10. \A i, j \in 1..5 : i # j => places[i] \cap places[j] = {}
      BY <1>8
<1>11. \A t, u \in Threads : t # u /\ loc[t].g = m /\ loc[u].g = m => loc[t].i # loc[u].i
      BY Zenon DEF Distinct, ConstantsOK
<1> QED BY <1>7, <1>9, <1>10, <1>11 DEF H, R, A, F, M

\* It gives the place of groups with free slots.
LEMMA Findable ==
  ASSUME ConstantsOK, IInv
  PROVE  FreeSlotsListed
BY Zenon DEF IInv, List, Leaving, Releasing, FreeSlotsListed, Listed

\* It gives the assertions.
LEMMA Asserted ==
  ASSUME ConstantsOK, IInv
  PROVE  AssertionsHold
<1> SUFFICES ASSUME NEW t \in Threads
             PROVE  /\ pc[t] \in {"activate", "activate_new"} => meta[Head(active)].avail_mask = {}
                    /\ pc[t] = "take" => loc[t].mask # {}
                    /\ pc[t] = "avail" => loc[t].i \notin loc[t].freed \cup meta[loc[t].g].avail_mask
                    /\ pc[t] = "nontrivial" /\ loc[t].mask = {} /\ Listed(loc[t].g)
                         => loc[t].g = Head(active)
    BY Zenon DEF AssertionsHold
<1>1. pc[t] = "avail" => loc[t].i \notin meta[loc[t].g].avail_mask
      BY InFree, Zenon DEF Freeing
<1> QED BY <1>1 DEF IInv, Knows, Listed

\* The inductive invariant holds in every reachable state.
THEOREM Invariance ==
  ASSUME ConstantsOK
  PROVE  Spec => []IInv
<1>1. Init => IInv /\ Narrow
  <2>1. Init => Narrow
        BY DEF Init, Narrow, Free, MaxSlots
  <2> QED BY <2>1, InitInv, Zenon
<1>2. IInv /\ Narrow /\ [Next]_vars => IInv' /\ Narrow'
      BY NextInv, NarrowNext DEF IInv
<1> QED BY <1>1, <1>2, PTL DEF Spec

\* Every slot of every group is in one place, with the program, on its way back,
\* in one of the masks or between them, although free may put it back without
\* the lock.
THEOREM NoSlotLostOrShared ==
  ASSUME ConstantsOK
  PROVE  Spec => []SlotsPartitioned
<1>1. IInv => SlotsPartitioned
      BY Partition
<1> QED BY <1>1, Invariance, PTL

\* A group with slots to give is on the list, or about to be released.
THEOREM FreeSlotsAreFound ==
  ASSUME ConstantsOK
  PROVE  Spec => []FreeSlotsListed
<1>1. IInv => FreeSlotsListed
      BY Findable
<1> QED BY <1>1, Invariance, PTL

\* The assertions of malloc and free hold; malloc's search ends with a slot.
THEOREM CodeAssertionsHold ==
  ASSUME ConstantsOK
  PROVE  Spec => []AssertionsHold
<1>1. IInv => AssertionsHold
      BY Asserted
<1> QED BY <1>1, Invariance, PTL
=============================================================================
