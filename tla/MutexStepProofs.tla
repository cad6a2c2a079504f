-------------------------- MODULE MutexStepProofs --------------------------
(***************************************************************************)
(* The inductive invariant of Mutex, for the build that keeps robust lists *)
(* (Linux), and the steps of the callers of lock, trylock, timedlock,      *)
(* unlock and consistent that preserve it.  MutexProofs goes on with       *)
(* exits, crashes and the theorems.                                        *)
(*                                                                         *)
(* The invariant says who owns each word.  For a mutex that records its    *)
(* owner, the word names a thread exactly while the thread holds the mutex *)
(* or is at one of the steps around it (Owner); for a plain one, at most   *)
(* one thread holds it or is about to swap (Plain).  Everything else is    *)
(* said of that thread: what its robust list and pending entry have        *)
(* (Local), and what the count, the bit for a dead owner and the value to  *)
(* be stored are (Account).                                                *)
(***************************************************************************)
EXTENDS Mutex, TLAPS

Words == [own : Threads \cup {NoThread, Busy, NotRec}, dead : BOOLEAN, wait : BOOLEAN]
Exiting == {"exit", "exit_swap", "exit_wake"}
Counting == {"mark", "futex", "asleep", "count_out"}
Labels == {"idle", "attempt", "announce", "cas", "link", "read", "count_in", "check",
           "unlink", "swap", "unpend", "wake", "dead"} \cup Exiting \cup Counting

TypeOK ==
    /\ type \in [Mutexes -> Types]
    /\ lock \in [Mutexes -> Words]
    /\ waiters \in [Mutexes -> Int]
    /\ count \in [Mutexes -> Nat]
    /\ robust \in [Threads -> SUBSET Mutexes]
    /\ pending \in [Threads -> SUBSET Mutexes]
    /\ pc \in [Threads -> Labels]
    /\ mx \in [Threads -> Mutexes]
    /\ op \in [Threads -> {"lock", "try"}]
    /\ old \in [Threads -> Words]
    /\ wk \in [Threads -> BOOLEAN]
    /\ gave \in [Threads -> BOOLEAN]
    /\ depth \in [Threads -> [Mutexes -> Nat]]
    /\ told \in [Mutexes -> BOOLEAN]
    /\ broken \in [Mutexes -> BOOLEAN]
    /\ swallowed \in SUBSET Mutexes
    /\ deaths \in Nat

\* The word was read when it could not be taken.
NotTakeable(w, m) == w.own # NoThread \/ (w # Free /\ ~type[m].robust)

\* What a thread remembers at each place
Remembers(t) ==
    /\ pc[t] \in {"read", "count_in"} \cup Counting => op[t] = "lock"
    /\ gave[t] => pc[t] = "count_out"
    /\ pc[t] \notin {"announce", "cas", "link", "count_in", "mark", "futex", "unlink", "swap"}
          => old[t] = Free
    /\ pc[t] \in {"count_in", "mark", "futex"} => NotTakeable(old[t], mx[t])
    /\ pc[t] = "futex" => old[t].wait
    /\ pc[t] \in {"announce", "cas", "link"} => old[t].own = NoThread
    /\ pc[t] = "swap" /\ ~Tracks(mx[t]) => old[t] = Free
    /\ pc[t] \in {"announce", "cas", "link", "check", "unlink", "exit_swap", "unpend"}
          => Tracks(mx[t])
    /\ pc[t] \in {"announce", "unpend"} => type[mx[t]].shared

\* What its lists have, and how often it holds what
Lists(t) ==
    /\ pc[t] \in {"announce", "cas", "link", "unlink", "swap"} => depth[t][mx[t]] = 0
    /\ pc[t] \in Exiting \cup {"dead"} => \A m \in Mutexes : depth[t][m] = 0
    /\ pc[t] \in {"cas", "link", "swap", "unpend"} /\ Tracks(mx[t]) /\ type[mx[t]].shared
          => mx[t] \in pending[t]
    /\ pc[t] = "exit_swap" => mx[t] \in pending[t]
    /\ pc[t] = "unlink" => mx[t] \in robust[t]
    /\ pc[t] \in {"link", "swap", "exit_swap"} => mx[t] \notin robust[t]
    /\ \A m \in Mutexes : Tracks(m) /\ depth[t][m] > 0 => m \in robust[t]
    /\ \A m \in robust[t] : /\ Tracks(m)
                           /\ \/ depth[t][m] > 0
                              \/ pc[t] = "unlink" /\ mx[t] = m
                              \/ pc[t] \in Exiting

Local(t) == Remembers(t) /\ Lists(t)

\* t holds m, or is on its way into it or out of it.
Here(t, m) == mx[t] = m /\ pc[t] \in {"link", "unlink", "swap", "exit_swap"}
Holding(t, m) == depth[t][m] > 0 \/ Here(t, m) \/ (pc[t] \in Exiting /\ m \in robust[t])

Owner == \A t \in Threads, m \in Mutexes : Tracks(m) => (lock[m].own = t <=> Holding(t, m))

Has(t, m) == depth[t][m] > 0 \/ (pc[t] = "swap" /\ mx[t] = m)
Plain ==
    \A m \in Mutexes : ~Tracks(m) =>
        /\ lock[m].own \in {NoThread, Busy}
        /\ \A t \in Threads : Has(t, m) =>
              /\ lock[m].own = Busy
              /\ \A s \in Threads : Has(s, m) => s = t

\* What the owner knows of the mutex
Knows(t, m) ==
    /\ type[m].kind = "recursive" /\ depth[t][m] > 0
          => count[m] = depth[t][m] - 1 /\ count[m] <= MaxCount
    /\ type[m].robust /\ depth[t][m] > 0 /\ lock[m].dead => told[m]
    /\ pc[t] = "link" /\ mx[t] = m =>
          /\ lock[m].dead => old[t].dead
          /\ type[m].kind = "recursive" /\ old[t] = Free => count[m] = 0
    /\ pc[t] \in {"unlink", "swap"} /\ mx[t] = m =>
          /\ old[t] = IF type[m].robust /\ lock[m].dead THEN Unrecoverable ELSE Free
          /\ type[m].kind = "recursive" => count[m] = 0
Account == \A t \in Threads, m \in Mutexes : lock[m].own = t => Knows(t, m)

\* A free recursive mutex has no count; one whose holder died says so, or is
\* about to.
Says(m) ==
    /\ type[m].kind = "recursive" /\ lock[m] = Free => count[m] = 0
    /\ type[m].robust /\ broken[m] =>
          lock[m].dead \/ \E t \in Threads : lock[m].own = t /\ pc[t] \in Exiting
Words0 == \A m \in Mutexes : Says(m)

\* Everybody between lines 87 and 91 of timedlock.c has been counted: they can
\* be numbered from 1, and the count of waiters is no less.
Counted(m) == {t \in Threads : pc[t] \in Counting /\ mx[t] = m}
Numbers(f, S, w) == \A s \in S : /\ 1 <= f[s] /\ f[s] <= w
                                 /\ \A r \in S : f[r] = f[s] => r = s
Numbered(m) == waiters[m] >= 0 /\ \E f \in [Threads -> Nat] : Numbers(f, Counted(m), waiters[m])
WaitersCounted == \A m \in Mutexes : Numbered(m)

\* Whoever is about to release m knows of its sleepers, or will see the bit.
Releases(t, m) ==
    /\ mx[t] = m /\ pc[t] \in {"check", "unlink", "swap", "exit_swap"}
    /\ lock[m].own = t \/ ~Tracks(m)
ReleaserSees ==
    \A t \in Threads, m \in Mutexes :
        Releases(t, m) /\ ~wk[t] /\ Sleepers(m) # {} => lock[m].wait

\* A thread that minds, and has not been overtaken
MindsStill(t, m) ==
    /\ mx[t] = m
    /\ \/ pc[t] \in {"wake", "exit_wake"}
       \/ pc[t] = "unpend" /\ wk[t]
       \/ pc[t] = "count_out" /\ ~gave[t]
       \/ pc[t] = "attempt" /\ op[t] = "lock"
       \/ pc[t] \in {"announce", "cas"} /\ op[t] = "lock" /\ old[t] = lock[m]
WakeKept ==
    \A m \in Mutexes :
        Sleepers(m) # {} /\ Takeable(m) /\ m \notin swallowed
            => \E t \in Threads : MindsStill(t, m)

IInv == /\ TypeOK /\ (\A t \in Threads : Local(t))
        /\ Owner /\ Plain /\ Account /\ Words0
        /\ WaitersCounted /\ ReleaserSees /\ WakeKept

-----------------------------------------------------------------------------
(* Words and types *)

\* The words the code stores, and the ones that differ
LEMMA WordFacts ==
  /\ Free \in Words /\ Died \in Words /\ Unrecoverable \in Words
  /\ Free.own = NoThread /\ Died.own = NoThread /\ Unrecoverable.own = NotRec
  /\ ~Free.dead /\ Died.dead /\ Unrecoverable.dead
  /\ ~Free.wait /\ ~Died.wait /\ ~Unrecoverable.wait
  /\ [Free EXCEPT !.own = Busy] \in Words
  /\ [Free EXCEPT !.own = Busy].own = Busy
  /\ \A b \in BOOLEAN : /\ [Died EXCEPT !.wait = b] \in Words
                        /\ [Died EXCEPT !.wait = b].own = NoThread
                        /\ [Died EXCEPT !.wait = b].dead
BY Zenon DEF Free, Died, Unrecoverable, Words

\* Setting the bit for waiters
LEMMA Marked ==
  ASSUME NEW w \in Words, NEW v, v = [w EXCEPT !.wait = TRUE]
  PROVE  v \in Words /\ v.own = w.own /\ v.dead = w.dead /\ v.wait /\ v # Free
BY Zenon DEF Free, Words

\* Clearing the bit for a dead owner
LEMMA Cleared ==
  ASSUME NEW w \in Words, NEW v, v = [w EXCEPT !.dead = FALSE]
  PROVE  v \in Words /\ v.own = w.own /\ ~v.dead /\ v.wait = w.wait
BY Zenon DEF Words

\* The new owner's word
LEMMA TakenFacts ==
  ASSUME TypeOK, NEW t \in Threads
  PROVE  /\ Taken(t) \in Words
         /\ Taken(t).own = t /\ Taken(t).dead = old[t].dead /\ Taken(t).wait = wk[t]
BY WordFacts DEF Taken, Words, TypeOK

\* Owner fields that name no thread
LEMMA NoTid ==
  /\ NoThread \notin Threads /\ Busy \notin Threads /\ NotRec \notin Threads
  /\ NoThread # Busy /\ NoThread # NotRec /\ Busy # NotRec
BY MutexAssumption

\* Depths that are zero and depths that are not
LEMMA ZeroFacts ==
  ~(0 > 0) /\ 1 > 0 /\ \A n \in Nat : n + 1 > 0 /\ (n = 0 \/ n > 0)
OBVIOUS

\* A mutex that records no owner is normal and not robust.
LEMMA TypeFacts ==
  ASSUME TypeOK, NEW m \in Mutexes
  PROVE  /\ type[m].robust \in BOOLEAN /\ type[m].shared \in BOOLEAN /\ Tracks(m) \in BOOLEAN
         /\ ~Tracks(m) => ~type[m].robust /\ type[m].kind = "normal"
         /\ lock[m] \in Words
BY MutexAssumption DEF TypeOK, Tracks

\* The first state
LEMMA TypeInit == Init => TypeOK
<1> SUFFICES ASSUME Init PROVE TypeOK
    OBVIOUS
<1>1. (CHOOSE m \in Mutexes : TRUE) \in Mutexes
      BY MutexAssumption
<1>2. mx \in [Threads -> Mutexes]
      BY <1>1 DEF Init
<1>3. depth \in [Threads -> [Mutexes -> Nat]]
      BY DEF Init
<1>4. pc \in [Threads -> Labels] /\ op \in [Threads -> {"lock", "try"}]
      BY DEF Init, Labels
<1>5. lock \in [Mutexes -> Words] /\ old \in [Threads -> Words]
      BY WordFacts DEF Init
<1>6. /\ type \in [Mutexes -> Types] /\ waiters \in [Mutexes -> Int] /\ count \in [Mutexes -> Nat]
      /\ robust \in [Threads -> SUBSET Mutexes] /\ pending \in [Threads -> SUBSET Mutexes]
      /\ wk \in [Threads -> BOOLEAN] /\ gave \in [Threads -> BOOLEAN]
      /\ told \in [Mutexes -> BOOLEAN] /\ broken \in [Mutexes -> BOOLEAN]
      /\ swallowed \in SUBSET Mutexes /\ deaths \in Nat
      BY DEF Init
<1> QED
  BY <1>2, <1>3, <1>4, <1>5, <1>6 DEF TypeOK

-----------------------------------------------------------------------------
(* What a step leaves alone *)

\* Threads whose variables a step does not touch
Same(u) == /\ pc'[u] = pc[u] /\ mx'[u] = mx[u] /\ op'[u] = op[u] /\ old'[u] = old[u]
           /\ wk'[u] = wk[u] /\ gave'[u] = gave[u] /\ depth'[u] = depth[u]
           /\ robust'[u] = robust[u] /\ pending'[u] = pending[u]

\* A thread that takes no step keeps what it knows.
LEMMA LocalKept ==
  ASSUME NEW u \in Threads, Local(u), type' = type, Same(u)
  PROVE  Local(u)'
<1>1. \A m : Tracks(m)' <=> Tracks(m)
      BY DEF Tracks
<1>2. Remembers(u)'
  <2>1. NotTakeable(old[u], mx[u])' <=> NotTakeable(old[u], mx[u])
        BY DEF NotTakeable, Same, Free
  <2>2. Tracks(mx[u])' <=> Tracks(mx[u])
        BY DEF Tracks, Same
  <2> QED BY <2>1, <2>2 DEF Local, Remembers, Same, Free
<1>3. Lists(u)'
  <2>1. Tracks(mx[u])' <=> Tracks(mx[u])
        BY DEF Tracks, Same
  <2> QED BY <1>1, <2>1 DEF Local, Lists, Same
<1> QED BY <1>2, <1>3 DEF Local

\* Steps that do not change who owns what, nor what the owners know
LEMMA Quiet ==
  ASSUME Owner, Plain, Account, Words0, UNCHANGED <<type, count, told, broken, depth>>,
         \A m \in Mutexes : /\ lock'[m].own = lock[m].own /\ lock'[m].dead = lock[m].dead
                            /\ lock'[m] = Free => lock[m] = Free,
         \A u \in Threads, m \in Mutexes :
            /\ Tracks(m) => (Holding(u, m)' <=> Holding(u, m))
            /\ ~Tracks(m) => (Has(u, m)' <=> Has(u, m))
            /\ lock[m].own = u /\ pc[u] \in Exiting => pc'[u] \in Exiting,
         \A u \in Threads :
            /\ pc'[u] = "link" => pc[u] = "link" /\ mx'[u] = mx[u] /\ old'[u] = old[u]
            /\ pc'[u] \in {"unlink", "swap"} =>
                  \/ pc[u] \in {"unlink", "swap"} /\ mx'[u] = mx[u] /\ old'[u] = old[u]
                  \/ ~Tracks(mx'[u])
  PROVE  Owner' /\ Plain' /\ Account' /\ Words0'
<1>1. \A m : Tracks(m)' <=> Tracks(m)
      BY DEF Tracks
<1>2. Owner'
      BY <1>1 DEF Owner
<1>3. Plain'
      BY <1>1 DEF Plain
<1>4. Account'
  <2> SUFFICES ASSUME NEW t \in Threads, NEW m \in Mutexes, lock'[m].own = t
               PROVE  Knows(t, m)'
      BY DEF Account
  <2>1. lock[m].own = t
        OBVIOUS
  <2>2. Tracks(m)
        BY <2>1, NoTid DEF Plain
  <2>3. Knows(t, m)
        BY <2>1 DEF Account
  <2> QED BY <2>1, <2>2, <2>3 DEF Knows, Free, Unrecoverable
<1>5. Words0'
  <2>1. \A m \in Mutexes : type[m].kind = "recursive" /\ lock'[m] = Free => count[m] = 0
        BY DEF Words0, Says
  <2>2. \A m \in Mutexes : type[m].robust /\ broken[m] =>
              lock'[m].dead \/ \E t \in Threads : lock'[m].own = t /\ pc'[t] \in Exiting
        BY DEF Words0, Says
  <2> QED BY <2>1, <2>2, Zenon DEF Words0, Says, Free
<1> QED BY <1>2, <1>3, <1>4, <1>5

\* Steps that neither put a thread to sleep nor begin a release
LEMMA SeesKept ==
  ASSUME ReleaserSees,
         \A m \in Mutexes : Sleepers(m)' \subseteq Sleepers(m),
         \A u \in Threads, m \in Mutexes :
            Releases(u, m)' => /\ Releases(u, m) /\ wk'[u] = wk[u]
                               /\ lock[m].wait => lock'[m].wait
  PROVE  ReleaserSees'
BY DEF ReleaserSees

\* Steps after which whoever minded still minds
LEMMA MindKept ==
  ASSUME WakeKept,
         \A m \in Mutexes : /\ Sleepers(m)' \subseteq Sleepers(m)
                            /\ Takeable(m)' => Takeable(m)
                            /\ m \in swallowed => m \in swallowed',
         \A u \in Threads, m \in Mutexes :
            MindsStill(u, m) /\ Takeable(m)' => MindsStill(u, m)'
  PROVE  WakeKept'
BY DEF WakeKept

\* One more thread gets the next number.
LEMMA NumbersMore ==
  ASSUME NEW S \in SUBSET Threads, NEW t \in Threads \ S, NEW w \in Nat,
         NEW f \in [Threads -> Nat], Numbers(f, S, w)
  PROVE  \E g \in [Threads -> Nat] : Numbers(g, S \cup {t}, w + 1)
<1> DEFINE g == [f EXCEPT ![t] = w + 1]
<1>1. g \in [Threads -> Nat] /\ g[t] = w + 1 /\ \A s \in S : g[s] = f[s]
      OBVIOUS
<1> HIDE DEF g
<1>2. ASSUME NEW s \in S \cup {t} PROVE 1 <= g[s] /\ g[s] <= w + 1
      BY <1>1 DEF Numbers
<1>3. ASSUME NEW s \in S \cup {t}, NEW r \in S \cup {t}, g[r] = g[s] PROVE r = s
      BY <1>1, <1>3 DEF Numbers
<1> QED BY <1>1, <1>2, <1>3 DEF Numbers

\* When one of them leaves, the last takes its number.
LEMMA NumbersLess ==
  ASSUME NEW S \in SUBSET Threads, NEW t \in S, NEW w \in Nat,
         NEW f \in [Threads -> Nat], Numbers(f, S, w)
  PROVE  w > 0 /\ \E g \in [Threads -> Nat] : Numbers(g, S \ {t}, w - 1)
<1> DEFINE g == [s \in Threads |-> IF f[s] = w THEN f[t] ELSE f[s]]
<1>1. g \in [Threads -> Nat]
      OBVIOUS
<1>2. ASSUME NEW s \in S \ {t} PROVE 1 <= g[s] /\ g[s] <= w - 1
      BY DEF Numbers
<1>3. ASSUME NEW s \in S \ {t}, NEW r \in S \ {t}, g[r] = g[s] PROVE r = s
      BY <1>3 DEF Numbers
<1>4. w > 0
      BY DEF Numbers
<1> HIDE DEF g
<1> QED BY <1>1, <1>2, <1>3, <1>4 DEF Numbers

\* Steps after which no more threads are to be counted
LEMMA CountedKept ==
  ASSUME WaitersCounted, waiters' = waiters,
         \A u \in Threads : pc'[u] \in Counting => pc[u] \in Counting /\ mx'[u] = mx[u]
  PROVE  WaitersCounted'
<1> SUFFICES ASSUME NEW m \in Mutexes PROVE Numbered(m)'
    BY DEF WaitersCounted
<1>1. Counted(m)' \subseteq Counted(m)
      BY DEF Counted
<1>2. Numbered(m)
      BY DEF WaitersCounted
<1> QED BY <1>1, <1>2 DEF Numbered, Numbers

\* Places that have nothing to do with owning or releasing a mutex
Aside == {"idle", "attempt", "announce", "cas", "read", "count_in", "unpend", "wake", "dead"}
         \cup Counting

\* A step of t from one such place, or from the check, to another, which leaves the owners alone and keeps
\* minding what it minded
LEMMA AsideStep ==
  ASSUME IInv, NEW t \in Threads, TypeOK', Local(t)', WaitersCounted',
         UNCHANGED <<type, count, told, broken, depth, robust, swallowed>>,
         \A u \in Threads \ {t} : Same(u),
         pc[t] \in Aside \cup {"check"}, pc'[t] \in Aside, pc'[t] # "asleep",
         \A m \in Mutexes : /\ lock'[m].own = lock[m].own /\ lock'[m].dead = lock[m].dead
                            /\ lock'[m] = Free => lock[m] = Free
                            /\ lock[m].wait => lock'[m].wait
                            /\ Takeable(m)' => lock'[m] = lock[m],
         \A m \in Mutexes : MindsStill(t, m) /\ Takeable(m)' => MindsStill(t, m)'
  PROVE  IInv'
<1> USE DEF IInv
<1>1. ASSUME NEW u \in Threads PROVE Local(u)'
      BY <1>1, LocalKept
<1>2. \A m : Tracks(m)' <=> Tracks(m)
      BY Zenon DEF Tracks
<1>3. Owner' /\ Plain' /\ Account' /\ Words0'
  <2>1. ASSUME NEW u \in Threads, NEW m \in Mutexes
        PROVE  /\ Holding(u, m)' <=> Holding(u, m)
               /\ Has(u, m)' <=> Has(u, m)
               /\ pc[u] \in Exiting => pc'[u] \in Exiting
    <3>1. CASE u = t
          BY <3>1 DEF Holding, Here, Has, Aside, Counting, Exiting
    <3>2. CASE u # t
          BY <3>2 DEF Holding, Here, Has, Same
    <3> QED BY <3>1, <3>2
  <2>2. ASSUME NEW u \in Threads, pc'[u] \in {"link", "unlink", "swap"}
        PROVE  pc'[u] = pc[u] /\ mx'[u] = mx[u] /\ old'[u] = old[u]
        BY <2>2 DEF Aside, Counting, Same
  <2> QED BY <2>1, <2>2, Quiet
<1>4. \A m \in Mutexes : Sleepers(m)' \subseteq Sleepers(m)
      BY DEF Sleepers, Same
<1>5. ReleaserSees'
  <2>1. ASSUME NEW u \in Threads, NEW m \in Mutexes, Releases(u, m)'
        PROVE  Releases(u, m) /\ wk'[u] = wk[u]
        BY <1>2, <2>1 DEF Releases, Same, Aside, Counting
  <2> QED BY <1>4, <2>1, SeesKept
<1>6. WakeKept'
  <2>1. \A m \in Mutexes : Takeable(m)' => Takeable(m)
        BY Zenon DEF Takeable, Free
  <2>2. ASSUME NEW u \in Threads, NEW m \in Mutexes, MindsStill(u, m), Takeable(m)'
        PROVE  MindsStill(u, m)'
    <3>1. CASE u = t
          BY <2>2, <3>1
    <3>2. CASE u # t
          BY <2>2, <3>2, Zenon DEF MindsStill, Same
    <3> QED BY <3>1, <3>2
  <2> QED BY <1>4, <2>1, <2>2, MindKept
<1> QED BY <1>1, <1>3, <1>5, <1>6

\* The lists of a thread that moves between such places
LEMMA ListsAside ==
  ASSUME NEW t \in Threads, Lists(t), UNCHANGED <<type, depth, robust>>,
         pc[t] \in Aside \cup {"check"}, pc'[t] \in Aside, pc'[t] = "dead" => pc[t] = "dead",
         pc'[t] \in {"announce", "cas"} => depth[t][mx'[t]] = 0,
         pc'[t] \in {"cas", "unpend"} /\ type[mx'[t]].shared => mx'[t] \in pending'[t]
  PROVE  Lists(t)'
<1>1. \A m : Tracks(m)' <=> Tracks(m)
      BY DEF Tracks
<1>2. \A m \in robust[t] : Tracks(m) /\ depth[t][m] > 0
      BY DEF Lists, Aside, Counting, Exiting
<1>3. \A m \in Mutexes : Tracks(m) /\ depth[t][m] > 0 => m \in robust[t]
      BY DEF Lists
<1>4. pc[t] = "dead" => \A m \in Mutexes : depth[t][m] = 0
      BY DEF Lists
<1>5. pc'[t] \notin Exiting \cup {"link", "unlink", "swap"}
      BY DEF Aside, Counting, Exiting
<1>6. "exit_swap" \in Exiting
      BY DEF Exiting
<1> QED BY <1>1, <1>2, <1>3, <1>4, <1>5, <1>6 DEF Lists

-----------------------------------------------------------------------------
(* lock and trylock, up to the compare-and-swap *)

\* A caller enters lock or trylock.
LEMMA BeginInv ==
  ASSUME IInv, NEW t \in Threads, NEW m \in Mutexes, NEW o \in {"lock", "try"}, Begin(t, m, o)
  PROVE  IInv'
<1>1. /\ pc[t] = "idle" /\ pc' = [pc EXCEPT ![t] = "attempt"]
      /\ mx' = [mx EXCEPT ![t] = m] /\ op' = [op EXCEPT ![t] = o]
      /\ UNCHANGED <<type, lock, waiters, count, robust, pending, old, wk, gave, depth, told,
                     broken, swallowed, deaths>>
      BY DEF Begin, Goto, memory, callers
<1>2. TypeOK'
      BY <1>1 DEF IInv, TypeOK, Labels
<1>3. /\ pc'[t] = "attempt" /\ mx'[t] = m
      /\ \A u \in Threads \ {t} : Same(u)
      BY <1>1 DEF IInv, TypeOK, Same
<1>4. Local(t)'
  <2>1. old[t] = Free /\ ~gave[t]
        BY <1>1, Zenon DEF IInv, Local, Remembers
  <2>2. Remembers(t)'
        BY <1>1, <1>3, <2>1, Zenon DEF Remembers, Counting, Free
  <2>3. Lists(t)'
        BY <1>1, <1>3, ListsAside, Zenon DEF IInv, Local, Aside
  <2> QED BY <2>2, <2>3 DEF Local
<1>5. WaitersCounted'
      BY <1>1, <1>3, CountedKept DEF IInv, Counting, Same
<1>6. \A n \in Mutexes : ~MindsStill(t, n)
      BY <1>1 DEF MindsStill
<1> QED BY <1>1, <1>2, <1>3, <1>4, <1>5, <1>6, AsideStep DEF Aside

\* A step of t to a place where it remembers no word
LEMMA Retreat ==
  ASSUME IInv, NEW t \in Threads, TypeOK', WaitersCounted', pc[t] \in Aside \cup {"check"},
         pc'[t] \in {"idle", "attempt", "read", "wake", "count_out"},
         pc'[t] \in {"read", "count_out"} => op'[t] = "lock",
         gave'[t] => pc'[t] = "count_out", old'[t] = Free,
         UNCHANGED <<type, lock, count, mx, robust, depth, told, broken, swallowed>>,
         \A u \in Threads \ {t} : Same(u),
         MindsStill(t, mx[t]) /\ Takeable(mx[t]) => MindsStill(t, mx[t])'
  PROVE  IInv'
<1>1. Remembers(t)'
      BY DEF Remembers, Counting, Free
<1>2. Lists(t)'
      BY ListsAside, Zenon DEF IInv, Local, Aside, Counting
<1>3. \A m \in Mutexes : Takeable(m)' <=> Takeable(m)
      BY DEF Takeable, Free
<1>4. \A m \in Mutexes : MindsStill(t, m) /\ Takeable(m)' => MindsStill(t, m)'
      BY <1>3, Zenon DEF MindsStill
<1> QED BY <1>1, <1>2, <1>4, AsideStep, Zenon DEF Aside, Counting, Local

\* A step from one place to another
LEMMA GotoFacts ==
  ASSUME TypeOK, NEW t \in Threads, NEW l \in Labels, pc' = [pc EXCEPT ![t] = l]
  PROVE  /\ pc' \in [Threads -> Labels] /\ pc'[t] = l
         /\ \A u \in Threads \ {t} : pc'[u] = pc[u]
BY DEF TypeOK

\* The last step of lock or trylock, or one that goes on
LEMMA LeaveFacts ==
  ASSUME TypeOK, NEW t \in Threads, NEW l \in Labels, Leave(t, l)
  PROVE  /\ pc' \in [Threads -> Labels] /\ op' \in [Threads -> {"lock", "try"}]
         /\ pc'[t] = l /\ (l # "idle" => op'[t] = op[t])
         /\ \A u \in Threads \ {t} : pc'[u] = pc[u] /\ op'[u] = op[u]
BY DEF TypeOK, Leave, Goto

\* The first read of trylock, except when the owner counts once more
LEMMA AttemptOwnerInv ==
  ASSUME IInv, NEW t \in Threads, AttemptOwner(t), UNCHANGED count
  PROVE  IInv'
<1> DEFINE m == mx[t]
<1>1. /\ pc[t] = "attempt" /\ Tracks(m) /\ m \in Mutexes
      /\ UNCHANGED <<type, lock, waiters, count, robust, pending, mx, wk, gave, told,
                     broken, swallowed, deaths>>
      BY DEF AttemptOwner, IInv, TypeOK
<1>2. ~(CountFits(m) /\ count' = [count EXCEPT ![m] = @ + 1])
      BY <1>1 DEF IInv, TypeOK
<1>3. old[t] = Free /\ ~gave[t]
      BY <1>1, Zenon DEF IInv, Local, Remembers
<1>4. WaitersCounted'
  <2>1. \A u \in Threads \ {t} : pc'[u] = pc[u]
        BY Zenon DEF AttemptOwner, Leave, Goto, IInv, TypeOK
  <2>2. pc'[t] \notin Counting
        BY DEF AttemptOwner, Leave, Goto, AfterBusy, IInv, TypeOK, Counting
  <2> QED BY <1>1, <2>1, <2>2, CountedKept, Zenon DEF IInv
<1>5. CASE Takeable(m)
  <2> DEFINE l == IF type[m].shared THEN "announce" ELSE "cas"
  <2>1. lock[m].own = NoThread
        BY <1>5, Zenon DEF Takeable
  <2>2. /\ old' = [old EXCEPT ![t] = lock[m]] /\ pc' = [pc EXCEPT ![t] = l]
        /\ op' = [op EXCEPT ![t] = @] /\ UNCHANGED depth
        BY <1>5, <2>1, NoTid, Zenon DEF AttemptOwner, Leave, Goto
  <2>3. TypeOK'
        BY <1>1, <2>2 DEF IInv, TypeOK, Labels
  <2>4. /\ old'[t] = lock[m] /\ op'[t] = op[t]
        /\ pc'[t] \in {"announce", "cas"} /\ (pc'[t] = "announce" <=> type[m].shared)
        /\ \A u \in Threads \ {t} : Same(u)
    <3>1. pc'[t] = l /\ old'[t] = lock[m] /\ op'[t] = op[t]
          BY <2>2 DEF IInv, TypeOK
    <3>2. \A u \in Threads \ {t} : Same(u)
          BY <1>1, <2>2 DEF IInv, TypeOK, Same
    <3> QED BY <3>1, <3>2
  <2> HIDE DEF l
  <2>5. depth[t][m] = 0
    <3>1. ~Holding(t, m)
          BY <1>1, <2>1, NoTid, Zenon DEF IInv, Owner
    <3> QED BY <1>1, <3>1 DEF Holding, IInv, TypeOK
  <2>6. Remembers(t)'
    <3>1. Tracks(m)'
          BY <1>1 DEF Tracks
    <3> QED BY <1>1, <1>3, <2>1, <2>4, <3>1 DEF Remembers, Counting
  <2>7. Lists(t)'
        BY <1>1, <2>2, <2>4, <2>5, ListsAside, Zenon DEF IInv, Local, Aside
  <2>8. \A n \in Mutexes : MindsStill(t, n) => MindsStill(t, n)'
        BY <1>1, <2>4, Zenon DEF MindsStill
  <2>9. Local(t)' /\ pc[t] \in Aside /\ pc'[t] \in Aside /\ pc'[t] # "asleep"
        BY <1>1, <2>4, <2>6, <2>7 DEF Local, Aside
  <2> QED BY <1>1, <1>4, <2>2, <2>3, <2>4, <2>8, <2>9, AsideStep
<1>6. CASE ~Takeable(m)
  <2>1. UNCHANGED <<old, depth>>
        BY <1>1, <1>2, <1>6, Zenon DEF AttemptOwner
  <2>2. PICK l \in {"idle", "read"} : Leave(t, l) /\ (l = "read" => op[t] = "lock")
        BY <1>6, Zenon DEF AttemptOwner, AfterBusy, IInv, TypeOK
  <2>3. /\ pc' \in [Threads -> Labels] /\ op' \in [Threads -> {"lock", "try"}]
        /\ pc'[t] = l /\ (l = "read" => op'[t] = "lock")
        /\ \A u \in Threads \ {t} : pc'[u] = pc[u] /\ op'[u] = op[u]
        BY <2>2, LeaveFacts, Zenon DEF IInv, Labels
  <2>4. TypeOK' /\ \A u \in Threads \ {t} : Same(u)
        BY <1>1, <2>1, <2>3, Zenon DEF IInv, TypeOK, Same
  <2> QED BY <1>1, <1>3, <1>4, <1>6, <2>1, <2>3, <2>4, Retreat, Zenon DEF Aside
<1> QED BY <1>5, <1>6

\* The count of waiters is read and the mutex becomes pending.
LEMMA AnnounceInv ==
  ASSUME Linux, IInv, NEW t \in Threads, Announce(t)
  PROVE  IInv'
<1>1. /\ pc[t] = "announce" /\ pc' = [pc EXCEPT ![t] = "cas"]
      /\ wk' = [wk EXCEPT ![t] = waiters[mx[t]] # 0]
      /\ pending' = [pending EXCEPT ![t] = {mx[t]}]
      /\ UNCHANGED <<type, lock, waiters, count, robust, mx, op, old, gave, depth, told,
                     broken, swallowed, deaths>>
      BY Zenon DEF Announce, Goto, memory, callers
<1>2. TypeOK'
  <2>1. /\ wk' \in [Threads -> BOOLEAN] /\ pc' \in [Threads -> Labels]
        /\ pending' \in [Threads -> SUBSET Mutexes]
        BY <1>1, Zenon DEF IInv, TypeOK, Labels
  <2> QED BY <1>1, <2>1, Zenon DEF IInv, TypeOK
<1>3. /\ pc'[t] = "cas" /\ mx[t] \in pending'[t]
      /\ \A u \in Threads \ {t} : Same(u)
      BY <1>1 DEF IInv, TypeOK, Same
<1>4. Local(t)'
  <2>1. Tracks(mx[t])' <=> Tracks(mx[t])
        BY <1>1, Zenon DEF Tracks
  <2>2. Remembers(t)'
        BY <1>1, <1>3, <2>1, Zenon DEF IInv, Local, Remembers, Counting
  <2>3. depth[t][mx[t]] = 0
        BY <1>1, Zenon DEF IInv, Local, Lists
  <2>4. Lists(t)'
        BY <1>1, <1>3, <2>3, ListsAside, Zenon DEF IInv, Local, Aside
  <2> QED BY <2>2, <2>4 DEF Local
<1>5. WaitersCounted'
      BY <1>1, <1>3, CountedKept, Zenon DEF IInv, Counting, Same
<1>6. \A n \in Mutexes : MindsStill(t, n) => MindsStill(t, n)'
      BY <1>1, <1>3, Zenon DEF MindsStill
<1> QED BY <1>1, <1>2, <1>3, <1>4, <1>5, <1>6, AsideStep, Zenon DEF Aside

\* The compare-and-swap fails.
LEMMA TryCasFailsInv ==
  ASSUME IInv, NEW t \in Threads, TryCas(t), ~Unchanged(t)
  PROVE  IInv'
<1>1. /\ pc[t] = "cas" /\ Leave(t, AfterBusy(t)) /\ lock[mx[t]] # old[t]
      /\ pending' = [pending EXCEPT ![t] = {}]
      /\ old' = [old EXCEPT ![t] = Free] /\ wk' = [wk EXCEPT ![t] = FALSE]
      /\ UNCHANGED <<type, lock, waiters, count, robust, mx, gave, depth, told, broken,
                     swallowed, deaths>>
      BY Zenon DEF TryCas, Forget, Unchanged, callers
<1>2. /\ AfterBusy(t) \in {"idle", "read"} /\ AfterBusy(t) \in Labels
      /\ AfterBusy(t) = "read" => op[t] = "lock"
      BY DEF AfterBusy, Labels, IInv, TypeOK
<1>3. /\ pc' \in [Threads -> Labels] /\ op' \in [Threads -> {"lock", "try"}]
      /\ pc'[t] = AfterBusy(t) /\ (pc'[t] = "read" => op'[t] = "lock")
      /\ \A u \in Threads \ {t} : pc'[u] = pc[u] /\ op'[u] = op[u]
      BY <1>1, <1>2, LeaveFacts, Zenon DEF IInv
<1>4. TypeOK'
      BY <1>1, <1>3, WordFacts, Zenon DEF IInv, TypeOK
<1>5. /\ old'[t] = Free /\ ~gave[t] /\ \A u \in Threads \ {t} : Same(u)
  <2>1. ~gave[t]
        BY <1>1, Zenon DEF IInv, Local, Remembers
  <2> QED BY <1>1, <1>3, <2>1, Zenon DEF IInv, TypeOK, Same
<1>6. WaitersCounted'
      BY <1>1, <1>2, <1>3, CountedKept, Zenon DEF IInv, Counting
<1>7. ~MindsStill(t, mx[t])
      BY <1>1, Zenon DEF MindsStill
<1> QED BY <1>1, <1>2, <1>3, <1>4, <1>5, <1>6, <1>7, Retreat, Zenon DEF Aside

-----------------------------------------------------------------------------
(* timedlock's loop *)

\* The word is read again: try, fail, or wait.
LEMMA ReadWordInv ==
  ASSUME IInv, NEW t \in Threads, ReadWord(t)
  PROVE  IInv'
<1> DEFINE m == mx[t]
<1>1. /\ pc[t] = "read" /\ m \in Mutexes
      /\ UNCHANGED <<type, lock, waiters, count, robust, pending, mx, wk, gave, depth, told,
                     broken, swallowed, deaths>>
      BY Zenon DEF ReadWord, memory, callers, IInv, TypeOK
<1>2. old[t] = Free /\ ~gave[t] /\ op[t] = "lock"
      BY <1>1, Zenon DEF IInv, Local, Remembers
<1>3. \A n \in Mutexes : ~MindsStill(t, n)
      BY <1>1, Zenon DEF MindsStill
<1>4. CASE UNCHANGED old /\ \E l \in {"idle", "attempt"} : Leave(t, l)
  <2>1. PICK l \in {"idle", "attempt"} : Leave(t, l)
        BY <1>4, Zenon
  <2>2. /\ pc' \in [Threads -> Labels] /\ op' \in [Threads -> {"lock", "try"}]
        /\ pc'[t] = l /\ \A u \in Threads \ {t} : pc'[u] = pc[u] /\ op'[u] = op[u]
        BY <2>1, LeaveFacts, Zenon DEF IInv, Labels
  <2>3. TypeOK' /\ \A u \in Threads \ {t} : Same(u)
        BY <1>1, <1>4, <2>2 DEF IInv, TypeOK, Same
  <2>4. WaitersCounted'
        BY <1>1, <2>2, CountedKept, Zenon DEF IInv, Counting
  <2> QED BY <1>1, <1>2, <1>3, <1>4, <2>2, <2>3, <2>4, Retreat DEF Aside
<1>5. CASE /\ ~Takeable(m) /\ old' = [old EXCEPT ![t] = lock[m]] /\ Leave(t, "count_in")
  <2>1. /\ pc' \in [Threads -> Labels] /\ op' \in [Threads -> {"lock", "try"}]
        /\ pc'[t] = "count_in" /\ op'[t] = "lock"
        /\ \A u \in Threads \ {t} : pc'[u] = pc[u] /\ op'[u] = op[u]
        BY <1>2, <1>5, LeaveFacts DEF IInv, Labels
  <2>2. TypeOK'
        BY <1>1, <1>5, <2>1, Zenon DEF IInv, TypeOK
  <2>3. old'[t] = lock[m] /\ \A u \in Threads \ {t} : Same(u)
        BY <1>1, <1>5, <2>1, Zenon DEF IInv, TypeOK, Same
  <2>4. NotTakeable(old[t], mx[t])'
        BY <1>1, <1>5, <2>3, Zenon DEF NotTakeable, Takeable, Free
  <2>5. Remembers(t)'
        BY <1>1, <1>2, <2>1, <2>4 DEF Remembers, Counting
  <2>6. Lists(t)'
        BY <1>1, <2>1, ListsAside, Zenon DEF IInv, Local, Aside
  <2>7. WaitersCounted'
        BY <1>1, <2>1, CountedKept, Zenon DEF IInv, Counting
  <2>8. Local(t)' /\ pc[t] \in Aside /\ pc'[t] \in Aside
        BY <1>1, <2>1, <2>5, <2>6, Zenon DEF Local, Aside
  <2> QED BY <1>1, <1>3, <2>1, <2>2, <2>3, <2>7, <2>8, AsideStep, Zenon
<1> QED BY <1>4, <1>5, Zenon DEF ReadWord

\* A waiter is counted before it asks to be woken.
LEMMA CountInInv ==
  ASSUME IInv, NEW t \in Threads, CountIn(t)
  PROVE  IInv'
<1> DEFINE m == mx[t]
<1>1. /\ pc[t] = "count_in" /\ pc' = [pc EXCEPT ![t] = "mark"] /\ m \in Mutexes
      /\ waiters' = [waiters EXCEPT ![m] = @ + 1]
      /\ UNCHANGED <<type, lock, count, robust, pending, mx, op, old, wk, gave, depth, told,
                     broken, swallowed, deaths>>
      BY Zenon DEF CountIn, Goto, locals, callers, IInv, TypeOK
<1>2. TypeOK'
  <2>1. pc' \in [Threads -> Labels]
        BY <1>1, GotoFacts, Zenon DEF IInv, Labels, Counting
  <2>2. waiters \in [Mutexes -> Int]
        BY DEF IInv, TypeOK
  <2>3. waiters' \in [Mutexes -> Int]
        BY <1>1, <2>2
  <2> QED BY <1>1, <2>1, <2>3 DEF IInv, TypeOK
<1>3. /\ pc'[t] = "mark" /\ \A u \in Threads \ {t} : Same(u)
      BY <1>1, Zenon DEF IInv, TypeOK, Same
<1>4. Remembers(t)'
  <2>1. NotTakeable(old[t], m) /\ op[t] = "lock" /\ ~gave[t]
        BY <1>1, Zenon DEF IInv, Local, Remembers
  <2>2. NotTakeable(old[t], mx[t])'
        BY <1>1, <2>1, Zenon DEF NotTakeable, Free
  <2> QED BY <1>1, <1>3, <2>1, <2>2, Zenon DEF Remembers, Counting
<1>5. Lists(t)'
      BY <1>1, <1>3, ListsAside, Zenon DEF IInv, Local, Aside, Counting
<1>6. WaitersCounted'
  <2> SUFFICES ASSUME NEW n \in Mutexes PROVE Numbered(n)'
      BY DEF WaitersCounted
  <2>1. Numbered(n) /\ waiters[n] \in Int
        BY DEF IInv, TypeOK, WaitersCounted
  <2>2. CASE n = m
    <3>1. /\ Counted(n)' = Counted(n) \cup {t}
          /\ Counted(n) \in SUBSET Threads /\ t \in Threads \ Counted(n)
          BY <1>1, <1>3, <2>2 DEF Counted, Counting, Same
    <3>2. waiters'[n] = waiters[n] + 1 /\ waiters[n] \in Nat
          BY <1>1, <2>1, <2>2 DEF IInv, TypeOK, Numbered
    <3>3. PICK f \in [Threads -> Nat] : Numbers(f, Counted(n), waiters[n])
          BY <2>1, Zenon DEF Numbered
    <3>4. \E g \in [Threads -> Nat] : Numbers(g, Counted(n) \cup {t}, waiters[n] + 1)
          BY <3>1, <3>2, <3>3, NumbersMore, Zenon
    <3> QED BY <3>1, <3>2, <3>4 DEF Numbered
  <2>3. CASE n # m
    <3>1. Counted(n)' = Counted(n)
          BY <1>1, <1>3, <2>3 DEF Counted, Counting, Same
    <3>2. waiters'[n] = waiters[n]
          BY <1>1, <2>3 DEF IInv, TypeOK
    <3> QED BY <2>1, <3>1, <3>2 DEF Numbered
  <2> QED BY <2>2, <2>3
<1>7. \A n \in Mutexes : ~MindsStill(t, n)
      BY <1>1 DEF MindsStill
<1>8. Local(t)' /\ pc[t] \in Aside /\ pc'[t] \in Aside
      BY <1>1, <1>3, <1>4, <1>5 DEF Local, Aside, Counting
<1> QED BY <1>1, <1>2, <1>3, <1>6, <1>7, <1>8, AsideStep, Zenon

\* The bit for waiters is set, if the word is still the one that was read.
LEMMA MarkInv ==
  ASSUME IInv, NEW t \in Threads, Mark(t)
  PROVE  IInv'
<1> DEFINE m == mx[t]
<1>1. /\ pc[t] = "mark" /\ pc' = [pc EXCEPT ![t] = "futex"] /\ m \in Mutexes
      /\ lock' = [lock EXCEPT ![m] = IF @ = old[t] THEN [@ EXCEPT !.wait = TRUE] ELSE @]
      /\ old' = [old EXCEPT ![t].wait = TRUE]
      /\ UNCHANGED <<type, waiters, count, robust, pending, mx, op, wk, gave, depth, told,
                     broken, swallowed, deaths>>
      BY DEF Mark, Goto, callers, IInv, TypeOK
<1>2. /\ pc' \in [Threads -> Labels] /\ pc'[t] = "futex"
      /\ \A u \in Threads \ {t} : pc'[u] = pc[u]
      BY <1>1, GotoFacts, Zenon DEF IInv, Labels, Counting
<1>3. /\ old[t] \in Words /\ lock[m] \in Words /\ op[t] = "lock" /\ ~gave[t]
      /\ NotTakeable(old[t], m)
      BY <1>1 DEF IInv, TypeOK, Local, Remembers, Counting
<1>4. /\ old' \in [Threads -> Words] /\ old'[t] = [old[t] EXCEPT !.wait = TRUE]
      /\ \A u \in Threads \ {t} : old'[u] = old[u]
  <2>1. old \in [Threads -> Words] /\ [old[t] EXCEPT !.wait = TRUE] \in Words
        BY <1>3, Marked DEF IInv, TypeOK
  <2> QED BY <1>1, <2>1
<1>5. /\ lock' \in [Mutexes -> Words]
      /\ lock'[m] = IF lock[m] = old[t] THEN [lock[m] EXCEPT !.wait = TRUE] ELSE lock[m]
      /\ \A n \in Mutexes \ {m} : lock'[n] = lock[n]
  <2>1. lock \in [Mutexes -> Words] /\ [lock[m] EXCEPT !.wait = TRUE] \in Words
        BY <1>3, Marked DEF IInv, TypeOK
  <2> QED BY <1>1, <2>1, Zenon
<1>6. TypeOK' /\ \A u \in Threads \ {t} : Same(u)
      BY <1>1, <1>2, <1>4, <1>5 DEF IInv, TypeOK, Same
<1>7. /\ old'[t].own = old[t].own /\ old'[t].wait
      /\ old'[t] # Free
      BY <1>3, <1>4, Marked
<1>8. Remembers(t)'
  <2>1. NotTakeable(old[t], mx[t])'
        BY <1>1, <1>3, <1>7 DEF NotTakeable, Free
  <2> QED BY <1>1, <1>2, <1>3, <1>7, <2>1 DEF Remembers, Counting
<1>9. Lists(t)'
      BY <1>1, <1>2, ListsAside, Zenon DEF IInv, Local, Aside, Counting
<1>10. \A n \in Mutexes : /\ lock'[n].own = lock[n].own /\ lock'[n].dead = lock[n].dead
                          /\ lock'[n] = Free => lock[n] = Free
                          /\ lock[n].wait => lock'[n].wait
                          /\ Takeable(n)' => lock'[n] = lock[n]
  <2>1. CASE lock[m] # old[t]
        BY <1>5, <2>1
  <2>2. CASE lock[m] = old[t]
    <3>1. /\ lock'[m].own = lock[m].own /\ lock'[m].dead = lock[m].dead
          /\ lock'[m].wait /\ lock'[m] # Free
          BY <1>3, <1>5, <2>2, Marked
    <3>2. lock'[m].own # NoThread \/ (lock'[m] # Free /\ ~type'[m].robust)
          BY <1>1, <1>3, <2>2, <3>1 DEF NotTakeable
    <3>3. ~Takeable(m)'
          BY <1>1, <3>2 DEF Takeable, Free
    <3> QED BY <1>1, <1>5, <3>1, <3>3
  <2> QED BY <2>1, <2>2
<1>11. WaitersCounted'
      BY <1>1, <1>2, CountedKept DEF IInv, Counting
<1>12. \A n \in Mutexes : ~MindsStill(t, n)
      BY <1>1 DEF MindsStill
<1>13. Local(t)' /\ pc[t] \in Aside /\ pc'[t] \in Aside
      BY <1>1, <1>2, <1>8, <1>9 DEF Local, Aside, Counting
<1> QED BY <1>1, <1>2, <1>6, <1>10, <1>11, <1>12, <1>13, AsideStep, Zenon

\* The wait ends, or does not begin: the word is another one, a timeout, a
\* signal.
LEMMA WaitEndsInv ==
  ASSUME IInv, NEW t \in Threads,
         \/ FutexWait(t) /\ lock[mx[t]] # old[t]
         \/ Timeout(t)
         \/ SpuriousWake(t)
  PROVE  IInv'
<1>1. /\ pc[t] \in {"futex", "asleep"} /\ pc' = [pc EXCEPT ![t] = "count_out"]
      /\ old' = [old EXCEPT ![t] = Free] \/ (pc[t] = "asleep" /\ old' = old)
      /\ gave' = [gave EXCEPT ![t] = TRUE] \/ gave' = gave
      /\ UNCHANGED <<type, lock, waiters, count, robust, pending, mx, op, wk, depth, told,
                     broken, swallowed, deaths>>
  <2>1. CASE FutexWait(t) /\ lock[mx[t]] # old[t]
        BY <2>1, Zenon DEF FutexWait, Goto, memory, callers
  <2>2. CASE Timeout(t)
        BY <2>2, Zenon DEF Timeout, Goto, memory, callers
  <2>3. CASE SpuriousWake(t)
        BY <2>3, Zenon DEF SpuriousWake, Goto, memory, callers, locals
  <2> QED BY <2>1, <2>2, <2>3
<1>2. /\ pc' \in [Threads -> Labels] /\ pc'[t] = "count_out"
      /\ \A u \in Threads \ {t} : pc'[u] = pc[u]
      BY <1>1, GotoFacts, Zenon DEF IInv, Labels, Counting
<1>3. /\ old' \in [Threads -> Words] /\ old'[t] = Free
      /\ \A u \in Threads \ {t} : old'[u] = old[u]
  <2>1. pc[t] = "asleep" => old[t] = Free
        BY Zenon DEF IInv, Local, Remembers
  <2>2. old \in [Threads -> Words] /\ Free \in Words
        BY WordFacts DEF IInv, TypeOK
  <2> QED BY <1>1, <2>1, <2>2, Zenon
<1>4. /\ gave' \in [Threads -> BOOLEAN] /\ \A u \in Threads \ {t} : gave'[u] = gave[u]
      BY <1>1, Zenon DEF IInv, TypeOK
<1>5. TypeOK' /\ \A u \in Threads \ {t} : Same(u)
      BY <1>1, <1>2, <1>3, <1>4, Zenon DEF IInv, TypeOK, Same
<1>6. op[t] = "lock"
      BY <1>1, Zenon DEF IInv, Local, Remembers, Counting
<1>7. WaitersCounted'
      BY <1>1, <1>2, CountedKept, Zenon DEF IInv, Counting
<1>8. ~MindsStill(t, mx[t])
      BY <1>1, Zenon DEF MindsStill
<1> QED BY <1>1, <1>2, <1>3, <1>5, <1>6, <1>7, <1>8, Retreat, Zenon DEF Aside, Counting

\* A waiter that was woken leaves the count and tries again.
LEMMA CountOutInv ==
  ASSUME IInv, NEW t \in Threads, CountOut(t)
  PROVE  IInv'
<1> DEFINE m == mx[t]
           l == IF gave[t] THEN "idle" ELSE "attempt"
<1>1. /\ pc[t] = "count_out" /\ Leave(t, l) /\ m \in Mutexes
      /\ waiters' = [waiters EXCEPT ![m] = @ - 1]
      /\ gave' = [gave EXCEPT ![t] = FALSE]
      /\ UNCHANGED <<type, lock, count, robust, pending, mx, old, wk, depth, told,
                     broken, swallowed, deaths>>
      BY DEF CountOut, callers, IInv, TypeOK
<1>2. /\ pc' \in [Threads -> Labels] /\ op' \in [Threads -> {"lock", "try"}]
      /\ pc'[t] = l /\ (l # "idle" => op'[t] = op[t])
      /\ \A u \in Threads \ {t} : pc'[u] = pc[u] /\ op'[u] = op[u]
  <2>1. l \in Labels
        BY DEF Labels
  <2> HIDE DEF l
  <2> QED BY <1>1, <2>1, LeaveFacts, Zenon DEF IInv
<1>3. /\ waiters' \in [Mutexes -> Int] /\ waiters'[m] = waiters[m] - 1
      /\ \A n \in Mutexes \ {m} : waiters'[n] = waiters[n]
  <2>1. waiters \in [Mutexes -> Int]
        BY DEF IInv, TypeOK
  <2> HIDE DEF l
  <2> QED BY <1>1, <2>1
<1>4. /\ gave' \in [Threads -> BOOLEAN] /\ ~gave'[t]
      /\ \A u \in Threads \ {t} : gave'[u] = gave[u]
      BY <1>1, Zenon DEF IInv, TypeOK
<1>5. TypeOK' /\ \A u \in Threads \ {t} : Same(u)
      BY <1>1, <1>2, <1>3, <1>4 DEF IInv, TypeOK, Same
<1>6. op[t] = "lock" /\ old[t] = Free
      BY <1>1, Zenon DEF IInv, Local, Remembers, Counting
<1>7. WaitersCounted'
  <2> SUFFICES ASSUME NEW n \in Mutexes PROVE Numbered(n)'
      BY DEF WaitersCounted
  <2>1. Numbered(n) /\ waiters[n] \in Int
        BY DEF IInv, TypeOK, WaitersCounted
  <2>2. pc'[t] \notin Counting /\ pc[t] \in Counting
        BY <1>1, <1>2, Zenon DEF Counting
  <2>3. CASE n = m
    <3>1. /\ Counted(n)' = Counted(n) \ {t}
          /\ Counted(n) \in SUBSET Threads /\ t \in Counted(n)
          BY <1>1, <1>2, <2>2, <2>3, Zenon DEF Counted
    <3>2. waiters'[n] = waiters[n] - 1 /\ waiters[n] \in Nat
          BY <1>3, <2>1, <2>3 DEF Numbered
    <3>3. PICK f \in [Threads -> Nat] : Numbers(f, Counted(n), waiters[n])
          BY <2>1 DEF Numbered
    <3>4. /\ waiters[n] > 0
          /\ \E g \in [Threads -> Nat] : Numbers(g, Counted(n) \ {t}, waiters[n] - 1)
          BY <3>1, <3>2, <3>3, NumbersLess
    <3> QED BY <3>1, <3>2, <3>4 DEF Numbered
  <2>4. CASE n # m
    <3>1. Counted(n)' = Counted(n)
          BY <1>1, <1>2, <2>2, <2>4, Zenon DEF Counted
    <3>2. waiters'[n] = waiters[n]
          BY <1>3, <2>4
    <3> QED BY <2>1, <3>1, <3>2 DEF Numbered
  <2> QED BY <2>3, <2>4
<1>8. MindsStill(t, m) => MindsStill(t, m)'
      BY <1>1, <1>2, <1>6, Zenon DEF MindsStill
<1> QED BY <1>1, <1>2, <1>4, <1>5, <1>6, <1>7, <1>8, Retreat, Zenon DEF Aside, Counting

\* A thread goes to sleep on a word that shows that it waits, and that no
\* thread could take.
LEMMA SleepInv ==
  ASSUME IInv, NEW t \in Threads, FutexWait(t), lock[mx[t]] = old[t]
  PROVE  IInv'
<1> DEFINE m == mx[t]
<1>1. /\ pc[t] = "futex" /\ pc' = [pc EXCEPT ![t] = "asleep"] /\ m \in Mutexes
      /\ old' = [old EXCEPT ![t] = Free]
      /\ UNCHANGED <<type, lock, waiters, count, robust, pending, mx, op, wk, gave, depth, told,
                     broken, swallowed, deaths>>
      BY DEF FutexWait, Goto, memory, callers, IInv, TypeOK
<1>2. /\ pc' \in [Threads -> Labels] /\ pc'[t] = "asleep"
      /\ \A u \in Threads \ {t} : pc'[u] = pc[u]
      BY <1>1, GotoFacts, Zenon DEF IInv, Labels, Counting
<1>3. /\ old' \in [Threads -> Words] /\ old'[t] = Free
      /\ \A u \in Threads \ {t} : old'[u] = old[u]
  <2>1. old \in [Threads -> Words] /\ Free \in Words
        BY WordFacts DEF IInv, TypeOK
  <2> QED BY <1>1, <2>1, Zenon
<1>4. TypeOK' /\ \A u \in Threads \ {t} : Same(u)
      BY <1>1, <1>2, <1>3, Zenon DEF IInv, TypeOK, Same
<1>5. op[t] = "lock" /\ ~gave[t] /\ lock[m].wait /\ NotTakeable(lock[m], m)
      BY <1>1, Zenon DEF IInv, Local, Remembers, Counting
<1>6. \A u \in Threads : Local(u)'
  <2>1. Remembers(t)'
        BY <1>1, <1>2, <1>3, <1>5, Zenon DEF Remembers, Counting, Free
  <2>2. Lists(t)'
        BY <1>1, <1>2, ListsAside, Zenon DEF IInv, Local, Aside, Counting
  <2>3. ASSUME NEW u \in Threads, u # t PROVE Local(u)'
        BY <1>1, <1>4, <2>3, LocalKept, Zenon DEF IInv
  <2> QED BY <2>1, <2>2, <2>3 DEF Local
<1>7. Owner' /\ Plain' /\ Account' /\ Words0'
  <2>1. ASSUME NEW u \in Threads, NEW n \in Mutexes
        PROVE  /\ Holding(u, n)' <=> Holding(u, n)
               /\ Has(u, n)' <=> Has(u, n)
               /\ pc[u] \in Exiting => pc'[u] \in Exiting
        BY <1>1, <1>2, Zenon DEF Holding, Here, Has, Exiting
  <2>2. ASSUME NEW u \in Threads, pc'[u] \in {"link", "unlink", "swap"}
        PROVE  pc'[u] = pc[u] /\ mx'[u] = mx[u] /\ old'[u] = old[u]
        BY <1>1, <1>2, <1>3, <2>2, Zenon
  <2> QED BY <1>1, <2>1, <2>2, Quiet, Zenon DEF IInv
<1>8. WaitersCounted'
      BY <1>1, <1>2, CountedKept, Zenon DEF IInv, Counting
<1>9. \A n \in Mutexes : Sleepers(n)' \subseteq Sleepers(n) \cup (IF n = m THEN {t} ELSE {})
      BY <1>1, <1>2, Zenon DEF Sleepers
<1>10. ReleaserSees'
  <2> SUFFICES ASSUME NEW u \in Threads, NEW n \in Mutexes,
                      Releases(u, n)', ~wk'[u], Sleepers(n)' # {}
               PROVE  lock'[n].wait
      BY Zenon DEF ReleaserSees
  <2>1. CASE n = m
        BY <1>1, <1>5, <2>1, Zenon
  <2>2. CASE n # m
    <3>1. Sleepers(n) # {}
          BY <1>9, <2>2, Zenon
    <3>2. Releases(u, n)
          BY <1>1, <1>2, Zenon DEF Releases, Tracks
    <3> QED BY <1>1, <3>1, <3>2, Zenon DEF IInv, ReleaserSees
  <2> QED BY <2>1, <2>2, Zenon
<1>11. WakeKept'
  <2> SUFFICES ASSUME NEW n \in Mutexes, Sleepers(n)' # {}, Takeable(n)', n \notin swallowed'
               PROVE  \E u \in Threads : MindsStill(u, n)'
      BY Zenon DEF WakeKept
  <2>1. Takeable(n) /\ n \notin swallowed
        BY <1>1, Zenon DEF Takeable, Free
  <2>2. n # m
        BY <1>5, <2>1, Zenon DEF Takeable, NotTakeable
  <2>3. PICK u \in Threads : MindsStill(u, n)
        BY <1>9, <2>1, <2>2, Zenon DEF IInv, WakeKept
  <2>4. u # t
        BY <1>1, <2>3, Zenon DEF MindsStill
  <2>5. MindsStill(u, n)'
        BY <1>1, <1>2, <1>3, <2>3, <2>4, Zenon DEF MindsStill
  <2> QED BY <2>5, Zenon
<1> QED BY <1>4, <1>6, <1>7, <1>8, <1>10, <1>11, Zenon DEF IInv

-----------------------------------------------------------------------------
(* Wake-ups *)

\* The lists of a thread that leaves a place and stays out of the ones where
\* the lists change
LEMMA ListsStay ==
  ASSUME NEW t \in Threads, Lists(t), type' = type,
         depth'[t] = depth[t], robust'[t] = robust[t],
         pc[t] # "unlink", pc[t] \in Exiting => pc'[t] \in Exiting,
         pc'[t] \in {"idle", "exit", "count_out", "wake"}, pc'[t] = "exit" => pc[t] \in Exiting
  PROVE  Lists(t)'
<1>1. \A m : Tracks(m)' <=> Tracks(m)
      BY Zenon DEF Tracks
<1>2. \A m \in robust[t] : Tracks(m) /\ (depth[t][m] > 0 \/ pc'[t] \in Exiting)
      BY Zenon DEF Lists
<1>3. \A m \in Mutexes : Tracks(m) /\ depth[t][m] > 0 => m \in robust[t]
      BY Zenon DEF Lists
<1>4. pc[t] \in Exiting => \A m \in Mutexes : depth[t][m] = 0
      BY DEF Lists
<1>5. pc'[t] \in Exiting => pc'[t] = "exit"
      BY Zenon DEF Exiting
<1> QED BY <1>1, <1>2, <1>3, <1>4, <1>5, Zenon DEF Lists

\* The waker goes on, and one thread that slept on the mutex minds it now.
LEMMA WakeOneInv ==
  ASSUME IInv, NEW t \in Threads, NEW label \in {"idle", "exit"},
         pc[t] = IF label = "idle" THEN "wake" ELSE "exit_wake", WakeOne(t, mx[t], label),
         UNCHANGED <<type, lock, waiters, count, robust, pending, mx, op, old, wk, gave, depth,
                     told, broken, swallowed, deaths>>
  PROVE  IInv'
<1> DEFINE m == mx[t]
<1>1. /\ m \in Mutexes /\ label \in Labels /\ "count_out" \in Labels
      /\ pc[t] \in Exiting <=> label \in Exiting
      /\ pc[t] \in {"wake", "exit_wake"} /\ (label = "exit" => pc[t] \in Exiting)
      BY Zenon DEF IInv, TypeOK, Labels, Exiting, Counting
<1>2. PICK s \in Threads : /\ s = t => Sleepers(m) = {} /\ pc' = [pc EXCEPT ![t] = label]
                           /\ s # t => /\ s \in Sleepers(m)
                                       /\ pc' = [pc EXCEPT ![s] = "count_out", ![t] = label]
      BY <1>1, Zenon DEF WakeOne, Goto, Sleepers
<1>3. /\ pc' \in [Threads -> Labels] /\ pc'[t] = label
      /\ s # t => pc[s] = "asleep" /\ mx[s] = m /\ pc'[s] = "count_out"
      /\ \A u \in Threads \ {s, t} : pc'[u] = pc[u]
  <2>1. pc \in [Threads -> Labels]
        BY Zenon DEF IInv, TypeOK
  <2> QED BY <1>1, <1>2, <2>1, Zenon DEF Sleepers
<1>4. TypeOK'
      BY <1>3 DEF IInv, TypeOK
<1>5. /\ old[t] = Free /\ ~gave[t]
      /\ s # t => old[s] = Free /\ ~gave[s] /\ op[s] = "lock"
      BY <1>1, <1>3, Zenon DEF IInv, Local, Remembers, Counting
<1>6. \A u \in Threads : Local(u)'
  <2>1. Local(t)'
    <3>1. Remembers(t)'
          BY <1>3, <1>5, Zenon DEF Remembers, Counting, Free
    <3>2. Lists(t)'
          BY <1>1, <1>3, ListsStay, Zenon DEF IInv, Local, Exiting
    <3> QED BY <3>1, <3>2, Zenon DEF Local
  <2>2. ASSUME s # t PROVE Local(s)'
    <3>1. Remembers(s)'
          BY <1>3, <1>5, <2>2, Zenon DEF Remembers, Counting, Free
    <3>2. Lists(s)'
          BY <1>3, <2>2, ListsStay, Zenon DEF IInv, Local, Exiting
    <3> QED BY <3>1, <3>2, Zenon DEF Local
  <2>3. ASSUME NEW u \in Threads \ {s, t} PROVE Local(u)'
        BY <1>3, <2>3, LocalKept, Zenon DEF IInv, Same
  <2> QED BY <2>1, <2>2, <2>3, Zenon
<1>7. Owner' /\ Plain' /\ Account' /\ Words0'
  <2>1. ASSUME NEW u \in Threads, NEW n \in Mutexes
        PROVE  /\ Holding(u, n)' <=> Holding(u, n)
               /\ Has(u, n)' <=> Has(u, n)
               /\ pc[u] \in Exiting => pc'[u] \in Exiting
    <3>1. /\ pc[u] \in Exiting <=> pc'[u] \in Exiting
          /\ \A l \in {"link", "unlink", "swap", "exit_swap"} : pc[u] = l <=> pc'[u] = l
      <4>1. /\ pc[t] \in {"wake", "exit_wake"} /\ pc'[t] \in {"idle", "exit"}
            /\ pc[t] \in Exiting <=> pc'[t] \in Exiting
            BY <1>1, <1>3, Zenon
      <4>2. CASE u = t
            BY <4>1, <4>2, Zenon
      <4>3. CASE u = s /\ s # t
            BY <1>3, <4>3, Zenon DEF Exiting
      <4>4. CASE u # s /\ u # t
            BY <1>3, <4>4, Zenon
      <4> QED BY <4>2, <4>3, <4>4, Zenon
    <3> QED BY <3>1, Zenon DEF Holding, Here, Has
  <2>2. ASSUME NEW u \in Threads, pc'[u] \in {"link", "unlink", "swap"}
        PROVE  pc'[u] = pc[u]
        BY <1>1, <1>3, <2>2, Zenon
  <2> QED BY <2>1, <2>2, Quiet, Zenon DEF IInv
<1>8. WaitersCounted'
  <2>1. \A u \in Threads : pc'[u] \in Counting => pc[u] \in Counting
        BY <1>1, <1>3, Zenon DEF Counting
  <2> QED BY <2>1, CountedKept, Zenon DEF IInv
<1>9. \A n \in Mutexes : Sleepers(n)' \subseteq Sleepers(n)
      BY <1>1, <1>3, Zenon DEF Sleepers
<1>10. ReleaserSees'
  <2>1. ASSUME NEW u \in Threads, NEW n \in Mutexes, Releases(u, n)' PROVE Releases(u, n)
        BY <1>1, <1>3, <2>1, Zenon DEF Releases, Tracks
  <2> QED BY <1>9, <2>1, SeesKept, Zenon DEF IInv
<1>11. WakeKept'
  <2> SUFFICES ASSUME NEW n \in Mutexes, Sleepers(n)' # {}, Takeable(n)', n \notin swallowed'
               PROVE  \E u \in Threads : MindsStill(u, n)'
      BY Zenon DEF WakeKept
  <2>1. Takeable(n) /\ n \notin swallowed /\ Sleepers(n) # {}
        BY <1>9, Zenon DEF Takeable, Free
  <2>2. CASE n = m
    <3>1. s # t
          BY <1>2, <2>1, <2>2, Zenon
    <3> QED BY <1>3, <1>5, <2>2, <3>1, Zenon DEF MindsStill
  <2>3. CASE n # m
    <3>1. PICK u \in Threads : MindsStill(u, n)
          BY <2>1, Zenon DEF IInv, WakeKept
    <3>2. u # t /\ u # s
          BY <1>3, <2>3, <3>1, Zenon DEF MindsStill
    <3> QED BY <1>3, <3>1, <3>2, Zenon DEF MindsStill
  <2> QED BY <2>2, <2>3, Zenon
<1> QED BY <1>4, <1>6, <1>7, <1>8, <1>10, <1>11, Zenon DEF IInv

-----------------------------------------------------------------------------
(* Steps of one thread on one mutex that it owns before or after *)

\* The places where a thread is concerned with who owns mx[t]
Owning == {"link", "check", "unlink", "swap", "exit_swap"}

\* A step of t leaves every other thread and every mutex but m alone.
OnlyOn(t, m) ==
    /\ UNCHANGED <<type, waiters, swallowed>>
    /\ \A u \in Threads \ {t} : Same(u)
    /\ \A n \in Mutexes \ {m} :
          /\ lock'[n] = lock[n] /\ count'[n] = count[n] /\ told'[n] = told[n]
          /\ broken'[n] = broken[n] /\ depth'[t][n] = depth[t][n]
          /\ n \in robust'[t] <=> n \in robust[t]
          /\ ~MindsStill(t, n)
    /\ pc'[t] \notin Counting
    /\ pc[t] \in Owning => mx[t] = m
    /\ pc'[t] \in Owning => mx'[t] = m
    /\ pc'[t] \in Exiting <=> pc[t] \in Exiting

\* No other thread has m, neither before the step nor after it.
OnlyHas(t, m) ==
    /\ Tracks(m) => /\ \A u \in Threads \ {t} : lock[m].own # u /\ lock'[m].own # u
                    /\ lock'[m].own = t <=> Holding(t, m)'
    /\ ~Tracks(m) => /\ lock'[m].own \in {NoThread, Busy}
                     /\ \A u \in Threads \ {t} : ~Has(u, m)
                     /\ Has(t, m)' => lock'[m].own = Busy

\* What the step leaves alone of t itself
LEMMA OnlyOnFacts ==
  ASSUME NEW t \in Threads, NEW m \in Mutexes, OnlyOn(t, m)
  PROVE  /\ \A n : Tracks(n)' <=> Tracks(n)
         /\ \A u \in Threads, n \in Mutexes : u # t \/ n # m =>
               /\ Holding(u, n)' <=> Holding(u, n)
               /\ Has(u, n)' <=> Has(u, n)
<1>1. \A n : Tracks(n)' <=> Tracks(n)
      BY Zenon DEF OnlyOn, Tracks
<1>2. ASSUME NEW u \in Threads, NEW n \in Mutexes, u # t
      PROVE  (Holding(u, n)' <=> Holding(u, n)) /\ (Has(u, n)' <=> Has(u, n))
      BY <1>2, Zenon DEF OnlyOn, Same, Holding, Has, Here
<1>3. ASSUME NEW n \in Mutexes, n # m
      PROVE  (Holding(t, n)' <=> Holding(t, n)) /\ (Has(t, n)' <=> Has(t, n))
  <2>1. ~Here(t, n) /\ ~Here(t, n)'
        BY <1>3, Zenon DEF OnlyOn, Here, Owning
  <2>2. ~(pc[t] = "swap" /\ mx[t] = n) /\ ~(pc'[t] = "swap" /\ mx'[t] = n)
        BY <1>3, Zenon DEF OnlyOn, Owning
  <2>3. depth'[t][n] = depth[t][n] /\ (n \in robust'[t] <=> n \in robust[t])
        BY <1>3, Zenon DEF OnlyOn
  <2>4. pc'[t] \in Exiting <=> pc[t] \in Exiting
        BY DEF OnlyOn
  <2> QED BY <2>1, <2>2, <2>3, <2>4, Zenon DEF Holding, Has
<1> QED BY <1>1, <1>2, <1>3, Zenon

\* Who owns what
LEMMA TouchOwners ==
  ASSUME IInv, NEW t \in Threads, NEW m \in Mutexes, OnlyOn(t, m), OnlyHas(t, m),
         lock'[m].own = t => Knows(t, m)', Says(m)'
  PROVE  Owner' /\ Plain' /\ Account' /\ Words0'
<1>1. /\ \A n : Tracks(n)' <=> Tracks(n)
      /\ \A u \in Threads, n \in Mutexes : u # t \/ n # m =>
            (Holding(u, n)' <=> Holding(u, n)) /\ (Has(u, n)' <=> Has(u, n))
      BY OnlyOnFacts
<1>2. /\ Owner /\ Plain /\ Account /\ Words0
      /\ \A n \in Mutexes \ {m} : lock'[n] = lock[n]
      BY Zenon DEF IInv, OnlyOn
<1>3. Owner'
  <2> SUFFICES ASSUME NEW u \in Threads, NEW n \in Mutexes, Tracks(n)
               PROVE  lock'[n].own = u <=> Holding(u, n)'
      BY <1>1, Zenon DEF Owner
  <2>1. CASE n # m
        BY <1>1, <1>2, <2>1, Zenon DEF Owner
  <2>2. CASE n = m /\ u = t
        BY <2>2, Zenon DEF OnlyHas
  <2>3. CASE n = m /\ u # t
        BY <1>1, <1>2, <2>3 DEF OnlyHas, Owner
  <2> QED BY <2>1, <2>2, <2>3
<1>4. Plain'
  <2> SUFFICES ASSUME NEW n \in Mutexes, ~Tracks(n)
               PROVE  /\ lock'[n].own \in {NoThread, Busy}
                      /\ \A u \in Threads : Has(u, n)' =>
                            /\ lock'[n].own = Busy
                            /\ \A s \in Threads : Has(s, n)' => s = u
      BY <1>1 DEF Plain
  <2>1. CASE n # m
        BY <1>1, <1>2, <2>1, Zenon DEF Plain
  <2>2. CASE n = m
        BY <1>1, <2>2 DEF OnlyHas
  <2> QED BY <2>1, <2>2
<1>5. Account'
  <2> SUFFICES ASSUME NEW u \in Threads, NEW n \in Mutexes, lock'[n].own = u
               PROVE  Knows(u, n)'
      BY DEF Account
  <2>1. CASE n # m
    <3>1. /\ Knows(u, n) /\ lock'[n] = lock[n] /\ type' = type /\ count'[n] = count[n]
          /\ told'[n] = told[n]
          BY <1>2, <2>1 DEF Account, OnlyOn
    <3>2. CASE u = t
      <4>1. ~(pc'[t] \in {"link", "unlink", "swap"} /\ mx'[t] = n) /\ depth'[t][n] = depth[t][n]
            BY <2>1, Zenon DEF OnlyOn, Owning
      <4> QED BY <3>1, <3>2, <4>1, Zenon DEF Knows
    <3>3. CASE u # t
      <4>1. Same(u)
            BY <3>3, Zenon DEF OnlyOn
      <4> QED BY <3>1, <4>1, Zenon DEF Knows, Same, Free, Unrecoverable
    <3> QED BY <3>2, <3>3, Zenon
  <2>2. CASE n = m /\ u # t
        BY <2>2, NoTid DEF OnlyHas
  <2>3. CASE n = m /\ u = t
        BY <2>3
  <2> QED BY <2>1, <2>2, <2>3
<1>6. Words0'
  <2> SUFFICES ASSUME NEW n \in Mutexes, n # m PROVE Says(n)'
      BY DEF Words0
  <2>1. /\ Says(n) /\ lock'[n] = lock[n] /\ type' = type /\ count'[n] = count[n]
        /\ broken'[n] = broken[n]
        BY <1>2, Zenon DEF Words0, OnlyOn
  <2>2. \A u \in Threads : pc[u] \in Exiting => pc'[u] \in Exiting
        BY Zenon DEF OnlyOn, Same
  <2> QED BY <2>1, <2>2, Zenon DEF Says, Free
<1> QED BY <1>3, <1>4, <1>5, <1>6, Zenon

\* Who sleeps, who will release and who minds
LEMMA TouchWakes ==
  ASSUME IInv, NEW t \in Threads, NEW m \in Mutexes, OnlyOn(t, m), OnlyHas(t, m),
         Releases(t, m)' /\ ~wk'[t] /\ Sleepers(m) # {} => lock'[m].wait,
         Sleepers(m) # {} /\ Takeable(m)' /\ m \notin swallowed
            => \E u \in Threads : MindsStill(u, m)'
  PROVE  WaitersCounted' /\ ReleaserSees' /\ WakeKept'
<1>1. \A n : Tracks(n)' <=> Tracks(n)
      BY OnlyOnFacts
<1>2. \A n \in Mutexes : Sleepers(n)' \subseteq Sleepers(n)
  <2>1. pc'[t] # "asleep"
        BY Zenon DEF OnlyOn, Counting
  <2> QED BY <2>1, Zenon DEF Sleepers, OnlyOn, Same
<1>3. WaitersCounted'
      BY CountedKept, Zenon DEF IInv, OnlyOn, Same
<1>4. ReleaserSees'
  <2> SUFFICES ASSUME NEW u \in Threads, NEW n \in Mutexes,
                      Releases(u, n)', ~wk'[u], Sleepers(n) # {}
               PROVE  lock'[n].wait
      BY <1>2 DEF ReleaserSees
  <2>1. CASE u = t
    <3>1. n = m
          BY <2>1, Zenon DEF OnlyOn, Owning, Releases
    <3> QED BY <2>1, <3>1
  <2>2. CASE u # t /\ n # m
    <3>1. Releases(u, n) /\ ~wk[u] /\ lock'[n] = lock[n]
          BY <1>1, <2>2, Zenon DEF Releases, OnlyOn, Same
    <3> QED BY <3>1, Zenon DEF IInv, ReleaserSees
  <2>3. CASE u # t /\ n = m
    <3>1. /\ Same(u) /\ Local(u) /\ mx[u] = m /\ pc[u] \in {"check", "unlink", "swap", "exit_swap"}
          /\ lock'[m].own = u \/ ~Tracks(m)
          BY <1>1, <2>3, Zenon DEF IInv, OnlyOn, Releases, Same
    <3>2. CASE Tracks(m)
          BY <2>3, <3>1, <3>2, Zenon DEF OnlyHas
    <3>3. CASE ~Tracks(m)
      <4>1. pc[u] = "swap"
            BY <3>1, <3>3, Zenon DEF Local, Remembers
      <4> QED BY <2>3, <3>1, <3>3, <4>1, Zenon DEF OnlyHas, Has
    <3> QED BY <3>2, <3>3
  <2> QED BY <2>1, <2>2, <2>3
<1>5. WakeKept'
  <2> SUFFICES ASSUME NEW n \in Mutexes, Sleepers(n) # {}, Takeable(n)', n \notin swallowed
               PROVE  \E u \in Threads : MindsStill(u, n)'
      BY <1>2, Zenon DEF WakeKept, OnlyOn
  <2>1. CASE n = m
        BY <2>1
  <2>2. CASE n # m
    <3>1. lock'[n] = lock[n] /\ type' = type /\ ~MindsStill(t, n)
          BY <2>2, Zenon DEF OnlyOn
    <3>2. Takeable(n)
          BY <3>1, Zenon DEF Takeable, Free
    <3>3. PICK u \in Threads : MindsStill(u, n)
          BY <3>2 DEF IInv, WakeKept
    <3>4. Same(u)
          BY <3>1, <3>3, Zenon DEF OnlyOn
    <3>5. MindsStill(u, n)'
          BY <3>1, <3>3, <3>4, Zenon DEF MindsStill, Same
    <3> QED BY <3>5
  <2> QED BY <2>1, <2>2
<1> QED BY <1>3, <1>4, <1>5

\* A step of t on m keeps the invariant.
LEMMA Touch ==
  ASSUME IInv, TypeOK', NEW t \in Threads, NEW m \in Mutexes, OnlyOn(t, m), OnlyHas(t, m),
         Local(t)', lock'[m].own = t => Knows(t, m)', Says(m)',
         Releases(t, m)' /\ ~wk'[t] /\ Sleepers(m) # {} => lock'[m].wait,
         Sleepers(m) # {} /\ Takeable(m)' /\ m \notin swallowed
            => \E u \in Threads : MindsStill(u, m)'
  PROVE  IInv'
<1>1. Owner' /\ Plain' /\ Account' /\ Words0'
      BY TouchOwners, Zenon
<1>2. WaitersCounted' /\ ReleaserSees' /\ WakeKept'
      BY TouchWakes, Zenon
<1>3. ASSUME NEW u \in Threads, u # t PROVE Local(u)'
      BY <1>3, LocalKept, Zenon DEF IInv, OnlyOn
<1> QED BY <1>1, <1>2, <1>3, Zenon DEF IInv

\* Whoever sleeps on m has been counted.
LEMMA SleepersCounted ==
  ASSUME IInv, NEW m \in Mutexes, Sleepers(m) # {}
  PROVE  waiters[m] # 0
<1>1. PICK s \in Counted(m) : TRUE
      BY DEF Counted, Sleepers, Counting
<1>2. PICK f \in [Threads -> Nat] : Numbers(f, Counted(m), waiters[m])
      BY Zenon DEF IInv, WaitersCounted, Numbered
<1>3. f[s] \in Nat /\ 1 <= f[s] /\ f[s] <= waiters[m] /\ waiters[m] \in Int
      BY <1>2, Zenon DEF Numbers, Counted, IInv, TypeOK
<1> QED BY <1>3

\* What the list of a thread has when the thread is neither exiting nor between
\* giving up a mutex and taking it off the list
LEMMA ListExact ==
  ASSUME IInv, NEW t \in Threads, pc[t] \notin Exiting \cup {"unlink"}
  PROVE  /\ \A n \in Mutexes : n \in robust[t] <=> Tracks(n) /\ depth[t][n] > 0
         /\ robust[t] \in SUBSET Mutexes
BY DEF IInv, TypeOK, Local, Lists

\* A thread that returns to its caller
LEMMA IdleLocal ==
  ASSUME NEW t \in Threads, pc'[t] = "idle", old'[t] = Free, ~gave'[t], type' = type,
         robust'[t] \in SUBSET Mutexes,
         \A n \in Mutexes : n \in robust'[t] <=> Tracks(n) /\ depth'[t][n] > 0
  PROVE  Local(t)'
<1>1. \A n : Tracks(n)' <=> Tracks(n)
      BY Zenon DEF Tracks
<1>2. Remembers(t)'
      BY DEF Remembers, Counting, Free
<1>3. Lists(t)'
      BY <1>1, Zenon DEF Lists, Exiting
<1> QED BY <1>2, <1>3, Zenon DEF Local

\* A thread owns what it holds, and its word can not be taken.
LEMMA HeldFacts ==
  ASSUME IInv, NEW t \in Threads, NEW m \in Mutexes, Tracks(m), Holding(t, m)
  PROVE  /\ lock[m].own = t /\ Knows(t, m) /\ ~Takeable(m) /\ lock[m] # Free
         /\ pc[t] \notin Exiting /\ type[m].robust /\ broken[m] => lock[m].dead
<1>1. lock[m].own = t
      BY DEF IInv, Owner
<1>2. Knows(t, m)
      BY <1>1 DEF IInv, Account
<1>3. ~Takeable(m) /\ lock[m] # Free
      BY <1>1, NoTid, WordFacts, Zenon DEF Takeable
<1>4. pc[t] \notin Exiting /\ type[m].robust /\ broken[m] => lock[m].dead
      BY <1>1 DEF IInv, Words0, Says
<1> QED BY <1>1, <1>2, <1>3, <1>4, Zenon

-----------------------------------------------------------------------------
(* A mutex is taken *)

\* lock and trylock on a mutex without an owner
LEMMA AttemptNormalInv ==
  ASSUME IInv, NEW t \in Threads, AttemptNormal(t)
  PROVE  IInv'
<1> DEFINE m == mx[t]
<1>1. /\ pc[t] = "attempt" /\ ~Tracks(m) /\ m \in Mutexes
      /\ UNCHANGED <<type, waiters, count, robust, pending, mx, old, wk, gave, told, broken,
                     swallowed, deaths>>
      BY DEF AttemptNormal, IInv, TypeOK
<1>2. old[t] = Free /\ ~gave[t] /\ ~type[m].robust /\ type[m].kind # "recursive"
  <2>1. old[t] = Free /\ ~gave[t]
        BY <1>1, Zenon DEF IInv, Local, Remembers
  <2> QED BY <1>1, <2>1, TypeFacts, Zenon DEF IInv
<1>3. CASE lock[m] = Free
  <2>1. /\ lock' = [lock EXCEPT ![m] = [Free EXCEPT !.own = Busy]]
        /\ depth' = [depth EXCEPT ![t][m] = 1] /\ Leave(t, "idle")
        BY <1>3 DEF AttemptNormal
  <2>2. /\ pc' \in [Threads -> Labels] /\ op' \in [Threads -> {"lock", "try"}] /\ pc'[t] = "idle"
        /\ \A u \in Threads \ {t} : pc'[u] = pc[u] /\ op'[u] = op[u]
        BY <2>1, LeaveFacts DEF IInv, Labels
  <2>3. /\ lock' \in [Mutexes -> Words] /\ lock'[m].own = Busy /\ lock'[m] # Free
        /\ \A n \in Mutexes \ {m} : lock'[n] = lock[n]
    <3>1. lock \in [Mutexes -> Words]
          BY DEF IInv, TypeOK
    <3>2. lock'[m] = [Free EXCEPT !.own = Busy]
          BY <1>1, <2>1, <3>1
    <3> QED BY <1>1, <2>1, <3>1, <3>2, WordFacts, NoTid, Zenon
  <2>4. /\ depth' \in [Threads -> [Mutexes -> Nat]] /\ depth'[t][m] = 1
        /\ \A n \in Mutexes \ {m} : depth'[t][n] = depth[t][n]
        /\ \A u \in Threads \ {t} : depth'[u] = depth[u]
    <3>1. depth \in [Threads -> [Mutexes -> Nat]]
          BY Zenon DEF IInv, TypeOK
    <3> QED BY <1>1, <2>1, <3>1, Zenon
  <2>5. TypeOK'
        BY <1>1, <2>2, <2>3, <2>4 DEF IInv, TypeOK
  <2>6. OnlyOn(t, m)
    <3>1. \A u \in Threads \ {t} : Same(u)
          BY <1>1, <2>2, <2>4, Zenon DEF Same
    <3>2. \A n \in Mutexes \ {m} : ~MindsStill(t, n)
          BY DEF MindsStill
    <3> QED BY <1>1, <2>2, <2>3, <2>4, <3>1, <3>2, Zenon DEF OnlyOn, Counting, Owning, Exiting
  <2>7. OnlyHas(t, m)
    <3>1. \A u \in Threads \ {t} : ~Has(u, m)
      <4>1. lock[m].own # Busy
            BY <1>3, WordFacts, NoTid
      <4> QED BY <1>1, <4>1, Zenon DEF IInv, Plain
    <3> QED BY <1>1, <2>3, <3>1, Zenon DEF OnlyHas
  <2>8. Local(t)'
    <3>1. /\ robust'[t] \in SUBSET Mutexes
          /\ \A n \in Mutexes : n \in robust'[t] <=> Tracks(n) /\ depth'[t][n] > 0
          BY <1>1, <2>4, ListExact, Zenon DEF Exiting
    <3> QED BY <1>1, <1>2, <2>2, <3>1, IdleLocal, Zenon
  <2>9. Says(m)' /\ lock'[m].own # t /\ ~Releases(t, m)' /\ ~Takeable(m)'
    <3>1. Says(m)'
          BY <1>1, <1>2, Zenon DEF Says
    <3>2. lock'[m].own # t /\ lock'[m].own # NoThread
          BY <2>3, NoTid
    <3> QED BY <1>1, <2>2, <3>1, <3>2, Zenon DEF Releases, Takeable
  <2> QED BY <1>1, <2>5, <2>6, <2>7, <2>8, <2>9, Touch, Zenon
<1>4. CASE lock[m] # Free
  <2>1. Leave(t, AfterBusy(t)) /\ UNCHANGED <<lock, depth>>
        BY <1>4, Zenon DEF AttemptNormal
  <2>2. /\ AfterBusy(t) \in {"idle", "read"} /\ AfterBusy(t) \in Labels
        /\ AfterBusy(t) = "read" => op[t] = "lock"
        BY Zenon DEF AfterBusy, Labels, IInv, TypeOK
  <2>3. /\ pc' \in [Threads -> Labels] /\ op' \in [Threads -> {"lock", "try"}]
        /\ pc'[t] = AfterBusy(t) /\ (pc'[t] = "read" => op'[t] = "lock")
        /\ \A u \in Threads \ {t} : pc'[u] = pc[u] /\ op'[u] = op[u]
        BY <2>1, <2>2, LeaveFacts, Zenon DEF IInv
  <2>4. TypeOK' /\ \A u \in Threads \ {t} : Same(u)
        BY <1>1, <2>1, <2>3, Zenon DEF IInv, TypeOK, Same
  <2>5. WaitersCounted'
        BY <1>1, <2>2, <2>3, CountedKept, Zenon DEF IInv, Counting
  <2>6. ~Takeable(m)
        BY <1>2, <1>4, Zenon DEF Takeable
  <2> QED BY <1>1, <1>2, <2>1, <2>2, <2>3, <2>4, <2>5, <2>6, Retreat, Zenon DEF Aside
<1> QED BY <1>3, <1>4

\* The owner of a recursive mutex counts once more.
LEMMA CountMoreInv ==
  ASSUME IInv, NEW t \in Threads, AttemptOwner(t), count' # count
  PROVE  IInv'
<1> DEFINE m == mx[t]
<1>1. /\ pc[t] = "attempt" /\ Tracks(m) /\ m \in Mutexes
      /\ lock[m].own = t /\ type[m].kind = "recursive" /\ count[m] < MaxCount
      /\ count' = [count EXCEPT ![m] = @ + 1] /\ depth' = [depth EXCEPT ![t][m] = @ + 1]
      /\ Leave(t, "idle")
      /\ UNCHANGED <<type, lock, waiters, robust, pending, mx, old, wk, gave, told,
                     broken, swallowed, deaths>>
      BY Zenon DEF AttemptOwner, CountFits, IInv, TypeOK
<1>2. old[t] = Free /\ ~gave[t]
      BY <1>1, Zenon DEF IInv, Local, Remembers
<1>3. Holding(t, m)
      BY <1>1, Zenon DEF IInv, Owner
<1>4. /\ depth[t][m] > 0 /\ Knows(t, m) /\ ~Takeable(m) /\ lock[m] # Free
      /\ type[m].robust /\ broken[m] => lock[m].dead
      BY <1>1, <1>3, HeldFacts, Zenon DEF Holding, Here, Exiting
<1>5. /\ pc' \in [Threads -> Labels] /\ op' \in [Threads -> {"lock", "try"}] /\ pc'[t] = "idle"
      /\ \A u \in Threads \ {t} : pc'[u] = pc[u] /\ op'[u] = op[u]
      BY <1>1, LeaveFacts, Zenon DEF IInv, Labels
<1>6. /\ depth' \in [Threads -> [Mutexes -> Nat]] /\ depth'[t][m] = depth[t][m] + 1
      /\ \A n \in Mutexes \ {m} : depth'[t][n] = depth[t][n]
      /\ \A u \in Threads \ {t} : depth'[u] = depth[u]
  <2>1. depth \in [Threads -> [Mutexes -> Nat]]
        BY Zenon DEF IInv, TypeOK
  <2>2. depth' = [depth EXCEPT ![t][m] = @ + 1] /\ m \in Mutexes
        BY <1>1, Zenon
  <2> HIDE DEF m
  <2> QED BY <2>1, <2>2
<1>7. /\ count' \in [Mutexes -> Nat] /\ count'[m] = count[m] + 1 /\ count[m] \in Nat
      /\ \A n \in Mutexes \ {m} : count'[n] = count[n]
  <2>1. count \in [Mutexes -> Nat]
        BY Zenon DEF IInv, TypeOK
  <2>2. count' = [count EXCEPT ![m] = @ + 1] /\ m \in Mutexes
        BY <1>1, Zenon
  <2> HIDE DEF m
  <2> QED BY <2>1, <2>2
<1>8. TypeOK'
      BY <1>1, <1>5, <1>6, <1>7, Zenon DEF IInv, TypeOK
<1>9. OnlyOn(t, m)
  <2>1. \A u \in Threads \ {t} : Same(u)
        BY <1>1, <1>5, <1>6, Zenon DEF Same
  <2>2. \A n \in Mutexes \ {m} : ~MindsStill(t, n)
        BY Zenon DEF MindsStill
  <2> QED BY <1>1, <1>5, <1>6, <1>7, <2>1, <2>2, Zenon DEF OnlyOn, Counting, Owning, Exiting
<1>10. depth[t][m] \in Nat /\ depth'[t][m] > 0 /\ Holding(t, m)'
  <2>1. depth[t][m] \in Nat
        BY <1>1, Zenon DEF IInv, TypeOK
  <2>2. depth'[t][m] > 0
        BY <1>6, <2>1, ZeroFacts, Zenon
  <2> QED BY <1>1, <2>1, <2>2, Zenon DEF Holding
<1>11. OnlyHas(t, m)
       BY <1>1, <1>10, Zenon DEF OnlyHas
<1>12. Local(t)'
  <2>1. /\ robust'[t] \in SUBSET Mutexes
        /\ \A n \in Mutexes : n \in robust'[t] <=> Tracks(n) /\ depth'[t][n] > 0
        BY <1>1, <1>4, <1>6, <1>10, ListExact, Zenon DEF Exiting
  <2> QED BY <1>1, <1>2, <1>5, <2>1, IdleLocal
<1>13. Knows(t, m)'
  <2>1. count[m] = depth[t][m] - 1
        BY <1>1, <1>4, Zenon DEF Knows
  <2>2. count'[m] = depth'[t][m] - 1 /\ count'[m] <= MaxCount
    <3>1. /\ depth'[t][m] = depth[t][m] + 1 /\ depth[t][m] \in Nat
          /\ count'[m] = count[m] + 1 /\ count[m] \in Nat /\ count[m] < MaxCount
          BY <1>1, <1>6, <1>7, <1>10, Zenon
    <3> HIDE DEF m
    <3> QED BY <2>1, <3>1, MutexAssumption
  <2> QED BY <1>1, <1>4, <1>5, <2>2, Zenon DEF Knows
<1>14. Says(m)' /\ ~Releases(t, m)' /\ ~Takeable(m)'
  <2>1. Says(m)'
        BY <1>1, <1>4, Zenon DEF Says, Free
  <2>2. ~Takeable(m)'
        BY <1>1, NoTid DEF Takeable
  <2> QED BY <1>5, <2>1, <2>2, Zenon DEF Releases
<1> QED BY <1>1, <1>8, <1>9, <1>11, <1>12, <1>13, <1>14, Touch, Zenon

\* The compare-and-swap succeeds: the word names its new owner.
LEMMA TryCasInv ==
  ASSUME IInv, NEW t \in Threads, TryCas(t), Unchanged(t)
  PROVE  IInv'
<1> DEFINE m == mx[t]
<1>1. /\ pc[t] = "cas" /\ m \in Mutexes /\ lock[m] = old[t]
      /\ lock' = [lock EXCEPT ![m] = Taken(t)] /\ Leave(t, "link")
      /\ UNCHANGED <<type, waiters, count, robust, pending, mx, old, wk, gave, depth, told,
                     broken, swallowed, deaths>>
      BY DEF TryCas, Unchanged, callers, IInv, TypeOK
<1>2. /\ old[t].own = NoThread /\ Tracks(m) /\ ~gave[t]
      /\ depth[t][m] = 0 /\ (type[m].shared => m \in pending[t])
  <2>1. old[t].own = NoThread /\ Tracks(m) /\ ~gave[t]
        BY <1>1, Zenon DEF IInv, Local, Remembers
  <2>2. depth[t][m] = 0 /\ (type[m].shared => m \in pending[t])
        BY <1>1, <2>1, Zenon DEF IInv, Local, Lists
  <2> QED BY <2>1, <2>2, Zenon
<1>3. /\ pc' \in [Threads -> Labels] /\ op' \in [Threads -> {"lock", "try"}] /\ pc'[t] = "link"
      /\ \A u \in Threads \ {t} : pc'[u] = pc[u] /\ op'[u] = op[u]
      BY <1>1, LeaveFacts, Zenon DEF IInv, Labels
<1>4. /\ lock' \in [Mutexes -> Words] /\ lock'[m].own = t /\ lock'[m].dead = old[t].dead
      /\ \A n \in Mutexes \ {m} : lock'[n] = lock[n]
  <2>1. lock \in [Mutexes -> Words]
        BY DEF IInv, TypeOK
  <2>2. /\ Taken(t) \in Words /\ Taken(t).own = t /\ Taken(t).dead = old[t].dead
        /\ lock'[m] = Taken(t)
        BY <1>1, <2>1, TakenFacts, Zenon DEF IInv
  <2> QED BY <1>1, <2>1, <2>2, Zenon
<1>5. TypeOK'
      BY <1>1, <1>3, <1>4 DEF IInv, TypeOK
<1>6. OnlyOn(t, m)
  <2>1. \A u \in Threads \ {t} : Same(u)
        BY <1>1, <1>3, Zenon DEF Same
  <2>2. \A n \in Mutexes \ {m} : ~MindsStill(t, n)
        BY Zenon DEF MindsStill
  <2> QED BY <1>1, <1>3, <1>4, <2>1, <2>2, Zenon DEF OnlyOn, Counting, Owning, Exiting
<1>7. OnlyHas(t, m)
  <2>1. Holding(t, m)'
        BY <1>1, <1>3, Zenon DEF Holding, Here
  <2>2. \A u \in Threads \ {t} : lock[m].own # u /\ lock'[m].own # u
        BY <1>1, <1>2, <1>4, NoTid, Zenon
  <2> QED BY <1>2, <1>4, <2>1, <2>2, Zenon DEF OnlyHas
<1>8. Local(t)'
  <2>1. \A n : Tracks(n)' <=> Tracks(n)
        BY <1>1, Zenon DEF Tracks
  <2>2. Remembers(t)'
        BY <1>1, <1>2, <1>3, <2>1, Zenon DEF Remembers, Counting
  <2>3. \A n \in Mutexes : n \in robust[t] <=> Tracks(n) /\ depth[t][n] > 0
        BY <1>1, ListExact, Zenon DEF Exiting
  <2>4. robust[t] \in SUBSET Mutexes /\ m \notin robust[t]
        BY <1>1, <1>2, <2>3, SMTT(30) DEF IInv, TypeOK
  <2>5. Lists(t)'
        BY <1>1, <1>2, <1>3, <2>1, <2>3, <2>4, Zenon DEF Lists, Exiting
  <2> QED BY <2>2, <2>5 DEF Local
<1>9. Says(m)
      BY <1>1, Zenon DEF IInv, Words0
<1>10. Knows(t, m)'
  <2>1. type[m].kind = "recursive" /\ old[t] = Free => count[m] = 0
        BY <1>1, <1>9, Zenon DEF Says
  <2>2. /\ pc'[t] = "link" /\ lock'[m].dead = old[t].dead /\ old' = old /\ count' = count
        /\ type' = type /\ depth'[t][m] = 0 /\ mx' = mx
        BY <1>1, <1>2, <1>3, <1>4, Zenon
  <2> QED BY <2>1, <2>2, ZeroFacts, Zenon DEF Knows, Free
<1>11. Says(m)'
  <2>1. type[m].robust /\ broken[m] => lock[m].dead
        BY <1>1, <1>2, <1>9, NoTid, Zenon DEF Says
  <2>2. lock'[m] # Free
        BY <1>4, WordFacts, NoTid
  <2> QED BY <1>1, <1>4, <2>1, <2>2, Zenon DEF Says, Free
<1>12. ~Releases(t, m)' /\ ~Takeable(m)'
  <2>1. pc'[t] = "link" /\ lock'[m].own # NoThread /\ mx' = mx
        BY <1>1, <1>3, <1>4, NoTid, Zenon
  <2> QED BY <2>1, Zenon DEF Releases, Takeable
<1> QED BY <1>1, <1>5, <1>6, <1>7, <1>8, <1>10, <1>11, <1>12, Touch, Zenon

\* The new owner puts the mutex on its list and returns.
LEMMA TryLinkInv ==
  ASSUME Linux, IInv, NEW t \in Threads, TryLink(t)
  PROVE  IInv'
<1> DEFINE m == mx[t]
<1>1. /\ pc[t] = "link" /\ m \in Mutexes
      /\ robust' = [robust EXCEPT ![t] = @ \cup {m}] /\ pending' = [pending EXCEPT ![t] = {}]
      /\ count' = [count EXCEPT ![m] = CountAfter(t)]
      /\ told' = [told EXCEPT ![m] = (old[t] # Free)]
      /\ depth' = [depth EXCEPT ![t][m] = 1]
      /\ old' = [old EXCEPT ![t] = Free] /\ wk' = [wk EXCEPT ![t] = FALSE]
      /\ Leave(t, "idle")
      /\ UNCHANGED <<type, lock, waiters, mx, gave, broken, swallowed, deaths>>
      BY Zenon DEF TryLink, Forget, IInv, TypeOK
<1>2. Tracks(m) /\ ~gave[t] /\ Holding(t, m) /\ depth[t][m] = 0
  <2>1. Tracks(m) /\ ~gave[t]
        BY <1>1, Zenon DEF IInv, Local, Remembers
  <2> QED BY <1>1, <2>1, Zenon DEF Holding, Here, IInv, Local, Lists
<1>3. /\ lock[m].own = t /\ Knows(t, m) /\ ~Takeable(m) /\ lock[m] # Free
      /\ type[m].robust /\ broken[m] => lock[m].dead
      BY <1>1, <1>2, HeldFacts, Zenon DEF Exiting
<1>4. /\ pc' \in [Threads -> Labels] /\ op' \in [Threads -> {"lock", "try"}] /\ pc'[t] = "idle"
      /\ \A u \in Threads \ {t} : pc'[u] = pc[u] /\ op'[u] = op[u]
      BY <1>1, LeaveFacts DEF IInv, Labels
<1>5. /\ depth' \in [Threads -> [Mutexes -> Nat]] /\ depth'[t][m] = 1
      /\ \A n \in Mutexes \ {m} : depth'[t][n] = depth[t][n]
      /\ \A u \in Threads \ {t} : depth'[u] = depth[u]
  <2>1. depth \in [Threads -> [Mutexes -> Nat]]
        BY Zenon DEF IInv, TypeOK
  <2> QED BY <1>1, <2>1, Zenon
<1>6. /\ count' \in [Mutexes -> Nat] /\ told' \in [Mutexes -> BOOLEAN]
      /\ count'[m] = (IF old[t] # Free THEN 0 ELSE count[m]) /\ told'[m] = (old[t] # Free)
      /\ \A n \in Mutexes \ {m} : count'[n] = count[n] /\ told'[n] = told[n]
  <2>1. count \in [Mutexes -> Nat] /\ told \in [Mutexes -> BOOLEAN]
        BY Zenon DEF IInv, TypeOK
  <2>2. CountAfter(t) \in Nat /\ CountAfter(t) = (IF old[t] # Free THEN 0 ELSE count[m])
        BY <1>1, <2>1, Zenon DEF CountAfter
  <2>3. count' \in [Mutexes -> Nat] /\ count'[m] = CountAfter(t)
        /\ \A n \in Mutexes \ {m} : count'[n] = count[n]
        BY <1>1, <2>1, <2>2, Zenon
  <2>4. /\ told' \in [Mutexes -> BOOLEAN] /\ told'[m] = (old[t] # Free)
        /\ \A n \in Mutexes \ {m} : told'[n] = told[n]
        BY <1>1, <2>1, Zenon
  <2> QED BY <2>2, <2>3, <2>4, Zenon
<1>7. /\ robust' \in [Threads -> SUBSET Mutexes] /\ robust'[t] = robust[t] \cup {m}
      /\ pending' \in [Threads -> SUBSET Mutexes]
      /\ old' \in [Threads -> Words] /\ old'[t] = Free /\ wk' \in [Threads -> BOOLEAN]
      /\ \A u \in Threads \ {t} : /\ robust'[u] = robust[u] /\ pending'[u] = pending[u]
                                  /\ old'[u] = old[u] /\ wk'[u] = wk[u]
  <2>1. /\ robust \in [Threads -> SUBSET Mutexes] /\ pending \in [Threads -> SUBSET Mutexes]
        /\ old \in [Threads -> Words] /\ wk \in [Threads -> BOOLEAN] /\ Free \in Words
        BY WordFacts DEF IInv, TypeOK
  <2> QED BY <1>1, <2>1
<1>8. TypeOK'
      BY <1>1, <1>4, <1>5, <1>6, <1>7, Zenon DEF IInv, TypeOK
<1>9. OnlyOn(t, m)
  <2>1. \A u \in Threads \ {t} : Same(u)
        BY <1>1, <1>4, <1>5, <1>7, Zenon DEF Same
  <2>2. \A n \in Mutexes \ {m} : ~MindsStill(t, n)
        BY DEF MindsStill
  <2> QED BY <1>1, <1>4, <1>5, <1>6, <1>7, <2>1, <2>2, Zenon DEF OnlyOn, Counting, Owning, Exiting
<1>10. OnlyHas(t, m)
       BY <1>1, <1>2, <1>3, <1>5, ZeroFacts, Zenon DEF OnlyHas, Holding
<1>11. Local(t)'
  <2>1. /\ robust[t] \in SUBSET Mutexes
        /\ \A n \in Mutexes : n \in robust[t] <=> Tracks(n) /\ depth[t][n] > 0
        BY <1>1, ListExact DEF Exiting
  <2>2. /\ robust'[t] \in SUBSET Mutexes
        /\ \A n \in Mutexes : n \in robust'[t] <=> Tracks(n) /\ depth'[t][n] > 0
    <3>1. /\ Tracks(m) /\ m \in Mutexes /\ depth'[t][m] = 1 /\ robust'[t] = robust[t] \cup {m}
          /\ \A n \in Mutexes \ {m} : depth'[t][n] = depth[t][n]
          BY <1>1, <1>2, <1>5, <1>7, Zenon
    <3> HIDE DEF m
    <3> QED BY <2>1, <3>1, ZeroFacts, Zenon
  <2> QED BY <1>1, <1>2, <1>4, <1>7, <2>2, IdleLocal, Zenon
<1>12. Knows(t, m)'
  <2>1. type[m].kind = "recursive" => count'[m] = 0
        BY <1>1, <1>3, <1>6, Zenon DEF Knows
  <2>2. lock[m].dead => told'[m]
        BY <1>1, <1>3, <1>6, WordFacts, Zenon DEF Knows
  <2>3. 0 = 1 - 1 /\ 0 <= MaxCount
        BY MutexAssumption
  <2>4. pc'[t] = "idle" /\ depth'[t][m] = 1 /\ type' = type /\ lock' = lock /\ mx' = mx
        BY <1>1, <1>4, <1>5, Zenon
  <2> QED BY <2>1, <2>2, <2>3, <2>4, Zenon DEF Knows
<1>13. Says(m)' /\ ~Releases(t, m)' /\ ~Takeable(m)'
  <2>1. Says(m)'
        BY <1>1, <1>3, Zenon DEF Says, Free
  <2>2. ~Takeable(m)'
        BY <1>1, <1>3, NoTid DEF Takeable
  <2> QED BY <1>4, <2>1, <2>2, Zenon DEF Releases
<1> QED BY <1>1, <1>8, <1>9, <1>10, <1>11, <1>12, <1>13, Touch, Zenon

-----------------------------------------------------------------------------
(* A mutex is released *)

\* unlock reads the count of waiters; a mutex without an owner is given up.
LEMMA UnlockBeginInv ==
  ASSUME IInv, NEW t \in Threads, NEW m \in Mutexes, UnlockBegin(t, m)
  PROVE  IInv'
<1>1. /\ pc[t] = "idle" /\ (Tracks(m) \/ depth[t][m] > 0)
      /\ mx' = [mx EXCEPT ![t] = m] /\ wk' = [wk EXCEPT ![t] = waiters[m] # 0]
      /\ depth' = [depth EXCEPT ![t][m] = IF Tracks(m) THEN @ ELSE 0]
      /\ pc' = [pc EXCEPT ![t] = IF Tracks(m) THEN "check" ELSE "swap"]
      /\ UNCHANGED <<type, lock, waiters, count, robust, pending, op, old, gave, told, broken,
                     swallowed, deaths>>
      BY Zenon DEF UnlockBegin, Goto, memory
<1>2. old[t] = Free /\ ~gave[t]
      BY <1>1 DEF IInv, Local, Remembers
<1>3. /\ pc' \in [Threads -> Labels] /\ pc'[t] = (IF Tracks(m) THEN "check" ELSE "swap")
      /\ \A u \in Threads \ {t} : pc'[u] = pc[u]
      BY <1>1, GotoFacts, Zenon DEF IInv, Labels
<1>4. /\ mx' \in [Threads -> Mutexes] /\ mx'[t] = m
      /\ wk' \in [Threads -> BOOLEAN] /\ wk'[t] = (waiters[m] # 0)
      /\ \A u \in Threads \ {t} : mx'[u] = mx[u] /\ wk'[u] = wk[u]
      BY <1>1, Zenon DEF IInv, TypeOK
<1>5. /\ depth' \in [Threads -> [Mutexes -> Nat]]
      /\ depth'[t][m] = (IF Tracks(m) THEN depth[t][m] ELSE 0)
      /\ \A n \in Mutexes \ {m} : depth'[t][n] = depth[t][n]
      /\ \A u \in Threads \ {t} : depth'[u] = depth[u]
  <2>1. depth \in [Threads -> [Mutexes -> Nat]]
        BY DEF IInv, TypeOK
  <2> QED BY <1>1, <2>1, Zenon
<1>6. TypeOK'
      BY <1>1, <1>3, <1>4, <1>5, Zenon DEF IInv, TypeOK
<1>7. \A u \in Threads \ {t} : Same(u)
      BY <1>1, <1>3, <1>4, <1>5, Zenon DEF Same
<1>8. \A n : Tracks(n)' <=> Tracks(n)
      BY <1>1, Zenon DEF Tracks
<1>9. /\ robust[t] \in SUBSET Mutexes
      /\ \A n \in Mutexes : n \in robust[t] <=> Tracks(n) /\ depth[t][n] > 0
      BY <1>1, ListExact DEF Exiting
<1>10. Local(t)'
  <2>1. Remembers(t)'
        BY <1>1, <1>2, <1>3, <1>4, <1>8, Zenon DEF Remembers, Counting, Free
  <2>2. Lists(t)'
    <3>1. /\ pc'[t] = (IF Tracks(m) THEN "check" ELSE "swap") /\ mx'[t] = m
          /\ depth'[t][m] = (IF Tracks(m) THEN depth[t][m] ELSE 0)
          /\ robust' = robust /\ pending' = pending
          BY <1>1, <1>3, <1>4, <1>5, Zenon
    <3>2. \A n \in Mutexes : Tracks(n)' <=> Tracks(n)
          BY <1>8, Zenon
    <3>3. \A n \in Mutexes : n \in robust'[t] <=> Tracks(n) /\ depth'[t][n] > 0
          BY <1>5, <1>9, <3>1, ZeroFacts, Zenon
    <3>4. pc'[t] = "swap" => ~Tracks(m)' /\ depth'[t][m] = 0 /\ m \notin robust'[t]
          BY <1>8, <1>9, <3>1, Zenon
    <3>5. pc'[t] \in {"check", "swap"}
          BY <3>1, Zenon
    <3>6. robust'[t] \in SUBSET Mutexes
          BY <1>9, <3>1, Zenon
    <3> QED BY <3>1, <3>2, <3>3, <3>4, <3>5, <3>6, Zenon DEF Lists, Exiting
  <2> QED BY <2>1, <2>2 DEF Local
<1>11. ~wk'[t] => Sleepers(m) = {}
       BY <1>4, SleepersCounted, Zenon
<1>12. CASE ~Tracks(m)
  <2>1. depth[t][m] > 0 /\ pc'[t] = "swap" /\ depth'[t][m] = 0
        BY <1>1, <1>3, <1>5, <1>12
  <2>2. lock[m].own = Busy /\ \A u \in Threads \ {t} : ~Has(u, m)
        BY <1>12, <2>1, Zenon DEF IInv, Plain, Has
  <2>3. OnlyOn(t, m)
    <3>1. \A n \in Mutexes \ {m} : ~MindsStill(t, n)
          BY <1>1, Zenon DEF MindsStill
    <3> QED BY <1>1, <1>4, <1>5, <1>7, <2>1, <3>1, Zenon DEF OnlyOn, Counting, Owning, Exiting
  <2>4. OnlyHas(t, m)
        BY <1>1, <1>12, <2>2, Zenon DEF OnlyHas
  <2>5. Says(m)'
    <3>1. ~type[m].robust /\ type[m].kind # "recursive"
          BY <1>12, TypeFacts, Zenon DEF IInv
    <3> QED BY <1>1, <3>1, Zenon DEF Says
  <2>6. lock'[m].own # t /\ ~Takeable(m)'
        BY <1>1, <2>2, NoTid, Zenon DEF Takeable
  <2> QED BY <1>6, <1>10, <1>11, <2>3, <2>4, <2>5, <2>6, Touch, Zenon
<1>13. CASE Tracks(m)
  <2>1. pc'[t] = "check" /\ UNCHANGED depth
    <3>1. depth \in [Threads -> [Mutexes -> Nat]]
          BY DEF IInv, TypeOK
    <3> QED BY <1>1, <1>3, <1>13, <3>1, Zenon
  <2>2. \A u \in Threads : Local(u)'
        BY <1>1, <1>7, <1>10, LocalKept DEF IInv
  <2>3. Owner' /\ Plain' /\ Account' /\ Words0'
    <3>1. ASSUME NEW u \in Threads, NEW n \in Mutexes
          PROVE  /\ Holding(u, n)' <=> Holding(u, n)
                 /\ Has(u, n)' <=> Has(u, n)
                 /\ pc[u] \in Exiting => pc'[u] \in Exiting
          BY <1>1, <1>3, <1>4, <2>1, Zenon DEF Holding, Here, Has, Exiting
    <3>2. ASSUME NEW u \in Threads, pc'[u] \in {"link", "unlink", "swap"}
          PROVE  pc'[u] = pc[u] /\ mx'[u] = mx[u] /\ old'[u] = old[u]
          BY <1>1, <1>3, <1>4, <2>1, <3>2, Zenon
    <3> QED BY <1>1, <2>1, <3>1, <3>2, Quiet, Zenon DEF IInv
  <2>4. WaitersCounted'
        BY <1>1, <1>3, <1>4, <2>1, CountedKept DEF IInv, Counting
  <2>5. \A n \in Mutexes : Sleepers(n)' \subseteq Sleepers(n)
        BY <1>3, <1>4, <2>1, Zenon DEF Sleepers
  <2>6. ReleaserSees'
    <3> SUFFICES ASSUME NEW u \in Threads, NEW n \in Mutexes,
                        Releases(u, n)', ~wk'[u], Sleepers(n) # {}
                 PROVE  lock'[n].wait
        BY <2>5 DEF ReleaserSees
    <3>1. CASE u = t
          BY <1>4, <1>11, <3>1, Zenon DEF Releases
    <3>2. CASE u # t
      <4>1. Releases(u, n) /\ ~wk[u]
            BY <1>1, <1>3, <1>4, <1>8, <3>2, Zenon DEF Releases
      <4> QED BY <1>1, <4>1, Zenon DEF IInv, ReleaserSees
    <3> QED BY <3>1, <3>2, Zenon
  <2>7. WakeKept'
    <3>1. \A n \in Mutexes : Takeable(n)' <=> Takeable(n)
          BY <1>1 DEF Takeable, Free
    <3>2. ASSUME NEW u \in Threads, NEW n \in Mutexes, MindsStill(u, n) PROVE MindsStill(u, n)'
          BY <1>1, <1>3, <1>4, <3>2, Zenon DEF MindsStill
    <3> QED BY <1>1, <2>5, <3>1, <3>2, MindKept, Zenon DEF IInv
  <2> QED BY <1>6, <2>2, <2>3, <2>4, <2>6, <2>7, Zenon DEF IInv
<1> QED BY <1>12, <1>13, Zenon

\* unlock finds that the caller is not the owner.
LEMMA NotOwnerInv ==
  ASSUME IInv, NEW t \in Threads, UnlockCheck(t), lock[mx[t]].own # t
  PROVE  IInv'
<1>1. /\ pc[t] = "check" /\ pc' = [pc EXCEPT ![t] = "idle"]
      /\ old' = [old EXCEPT ![t] = Free] /\ wk' = [wk EXCEPT ![t] = FALSE]
      /\ UNCHANGED <<type, lock, waiters, count, robust, pending, mx, op, gave, depth, told,
                     broken, swallowed, deaths>>
      BY DEF UnlockCheck, Goto, Forget
<1>2. /\ pc' \in [Threads -> Labels] /\ pc'[t] = "idle"
      /\ \A u \in Threads \ {t} : pc'[u] = pc[u]
      BY <1>1, GotoFacts, Zenon DEF IInv, Labels
<1>3. /\ old' \in [Threads -> Words] /\ old'[t] = Free /\ wk' \in [Threads -> BOOLEAN]
      /\ \A u \in Threads \ {t} : old'[u] = old[u] /\ wk'[u] = wk[u]
      BY <1>1, WordFacts DEF IInv, TypeOK
<1>4. TypeOK' /\ \A u \in Threads \ {t} : Same(u)
      BY <1>1, <1>2, <1>3, Zenon DEF IInv, TypeOK, Same
<1>5. WaitersCounted'
      BY <1>1, <1>2, CountedKept, Zenon DEF IInv, Counting
<1>6. ~gave[t] /\ ~MindsStill(t, mx[t])
      BY <1>1, Zenon DEF IInv, Local, Remembers, MindsStill
<1> QED BY <1>1, <1>2, <1>3, <1>4, <1>5, <1>6, Retreat, Zenon

\* The owner of a recursive mutex counts down, or begins to release it.
LEMMA UnlockCheckInv ==
  ASSUME IInv, NEW t \in Threads, UnlockCheck(t), lock[mx[t]].own = t
  PROVE  IInv'
<1> DEFINE m == mx[t]
<1>1. /\ pc[t] = "check" /\ m \in Mutexes
      /\ UNCHANGED <<type, lock, waiters, robust, pending, mx, op, gave, told, broken,
                     swallowed, deaths>>
      BY Zenon DEF UnlockCheck, IInv, TypeOK
<1>2. Tracks(m) /\ ~gave[t] /\ old[t] = Free
      BY <1>1, Zenon DEF IInv, Local, Remembers
<1>3. Holding(t, m)
      BY <1>1, <1>2, Zenon DEF IInv, Owner
<1>4. /\ Knows(t, m) /\ ~Takeable(m) /\ lock[m] # Free /\ depth[t][m] \in Nat /\ depth[t][m] > 0
      /\ type[m].robust /\ broken[m] => lock[m].dead
  <2>1. depth[t][m] > 0
        BY <1>1, <1>3, Zenon DEF Holding, Here, Exiting
  <2>2. depth[t][m] \in Nat
        BY <1>1 DEF IInv, TypeOK
  <2>3. pc[t] \notin Exiting
        BY <1>1, Zenon DEF Exiting
  <2> QED BY <1>1, <1>2, <1>3, <2>1, <2>2, <2>3, HeldFacts, Zenon
<1>5. /\ robust[t] \in SUBSET Mutexes
      /\ \A n \in Mutexes : n \in robust[t] <=> Tracks(n) /\ depth[t][n] > 0
      BY <1>1, ListExact, Zenon DEF Exiting
<1>6. \A n \in Mutexes \ {m} : ~MindsStill(t, n)
      BY Zenon DEF MindsStill
<1>7. ~Takeable(m)'
      BY <1>1, NoTid, Zenon DEF Takeable
<1>8. CASE type[m].kind = "recursive" /\ count[m] # 0
  <2>1. /\ count' = [count EXCEPT ![m] = @ - 1] /\ depth' = [depth EXCEPT ![t][m] = @ - 1]
        /\ old' = [old EXCEPT ![t] = Free] /\ wk' = [wk EXCEPT ![t] = FALSE]
        /\ pc' = [pc EXCEPT ![t] = "idle"]
        BY <1>8, Zenon DEF UnlockCheck, Forget, Goto
  <2>2. /\ pc' \in [Threads -> Labels] /\ pc'[t] = "idle"
        /\ \A u \in Threads \ {t} : pc'[u] = pc[u]
        BY <2>1, GotoFacts, Zenon DEF IInv, Labels
  <2>3. /\ old' \in [Threads -> Words] /\ old'[t] = Free /\ wk' \in [Threads -> BOOLEAN]
        /\ \A u \in Threads \ {t} : old'[u] = old[u] /\ wk'[u] = wk[u]
        BY <2>1, WordFacts DEF IInv, TypeOK
  <2>4. count[m] = depth[t][m] - 1 /\ count[m] <= MaxCount
        BY <1>4, <1>8, Zenon DEF Knows
  <2>5. /\ count \in [Mutexes -> Nat] /\ count[m] \in Nat
        /\ depth \in [Threads -> [Mutexes -> Nat]]
        BY <1>1 DEF IInv, TypeOK
  <2>6. /\ count' \in [Mutexes -> Nat] /\ count'[m] = count[m] - 1
        /\ \A n \in Mutexes \ {m} : count'[n] = count[n]
    <3>1. count[m] - 1 \in Nat
          BY <1>8, <2>5
    <3> QED BY <1>1, <2>1, <2>5, <3>1, Zenon
  <2>7. /\ depth' \in [Threads -> [Mutexes -> Nat]] /\ depth'[t][m] = depth[t][m] - 1
        /\ \A n \in Mutexes \ {m} : depth'[t][n] = depth[t][n]
        /\ \A u \in Threads \ {t} : depth'[u] = depth[u]
    <3>1. depth' = [depth EXCEPT ![t][m] = @ - 1] /\ m \in Mutexes
          /\ depth[t][m] \in Nat /\ depth[t][m] > 0
          BY <1>1, <1>4, <2>1, Zenon
    <3>2. depth[t][m] - 1 \in Nat
          BY <3>1
    <3> QED BY <2>5, <3>1, <3>2, Zenon
  <2>8. depth'[t][m] > 0
    <3>1. count[m] # 0 /\ depth'[t][m] = count[m] /\ count[m] \in Nat
          BY <1>8, <2>4, <2>5, <2>7, Zenon
    <3> QED BY <3>1
  <2>9. TypeOK' /\ \A u \in Threads \ {t} : Same(u)
        BY <1>1, <2>2, <2>3, <2>6, <2>7, Zenon DEF IInv, TypeOK, Same
  <2>10. OnlyOn(t, m)
         BY <1>1, <1>6, <2>2, <2>6, <2>7, <2>9, Zenon DEF OnlyOn, Counting, Owning, Exiting
  <2>11. OnlyHas(t, m)
         BY <1>1, <1>2, <2>8, Zenon DEF OnlyHas, Holding
  <2>12. Local(t)'
    <3>1. \A n \in Mutexes : n \in robust'[t] <=> Tracks(n) /\ depth'[t][n] > 0
          BY <1>1, <1>4, <1>5, <2>7, <2>8, Zenon
    <3> QED BY <1>1, <1>2, <1>5, <2>2, <2>3, <3>1, IdleLocal, Zenon
  <2>13. Knows(t, m)'
    <3>1. count'[m] = depth'[t][m] - 1 /\ count'[m] <= MaxCount
      <4>1. /\ count[m] = depth[t][m] - 1 /\ count'[m] = count[m] - 1
            /\ depth'[t][m] = depth[t][m] - 1
            BY <2>4, <2>6, <2>7, Zenon
      <4>2. count[m] - 1 <= MaxCount
            BY <2>4, <2>5, MutexAssumption
      <4> QED BY <4>1, <4>2, Zenon
    <3> QED BY <1>1, <1>4, <2>2, <3>1, Zenon DEF Knows
  <2>14. Says(m)' /\ ~Releases(t, m)'
         BY <1>1, <1>4, <2>2, Zenon DEF Says, Free, Releases
  <2> QED BY <1>1, <1>7, <2>9, <2>10, <2>11, <2>12, <2>13, <2>14, Touch, Zenon
<1>9. CASE ~(type[m].kind = "recursive" /\ count[m] # 0)
  <2> DEFINE w == IF type[m].robust /\ lock[m].dead THEN Unrecoverable ELSE Free
  <2>1. /\ old' = [old EXCEPT ![t] = w] /\ depth' = [depth EXCEPT ![t][m] = 0]
        /\ pc' = [pc EXCEPT ![t] = "unlink"] /\ UNCHANGED <<count, wk>>
        BY <1>9, Zenon DEF UnlockCheck, Goto
  <2>2. w \in Words
        BY WordFacts
  <2> HIDE DEF w
  <2>3. /\ pc' \in [Threads -> Labels] /\ pc'[t] = "unlink"
        /\ \A u \in Threads \ {t} : pc'[u] = pc[u]
        BY <2>1, GotoFacts, Zenon DEF IInv, Labels
  <2>4. /\ old' \in [Threads -> Words] /\ old'[t] = w
        /\ \A u \in Threads \ {t} : old'[u] = old[u]
    <3>1. old \in [Threads -> Words]
          BY DEF IInv, TypeOK
    <3> QED BY <2>1, <2>2, <3>1, Zenon
  <2>5. /\ depth' \in [Threads -> [Mutexes -> Nat]] /\ depth'[t][m] = 0
        /\ \A n \in Mutexes \ {m} : depth'[t][n] = depth[t][n]
        /\ \A u \in Threads \ {t} : depth'[u] = depth[u]
    <3>1. depth \in [Threads -> [Mutexes -> Nat]]
          BY DEF IInv, TypeOK
    <3> QED BY <1>1, <2>1, <3>1, Zenon
  <2>6. TypeOK' /\ \A u \in Threads \ {t} : Same(u)
        BY <1>1, <2>1, <2>3, <2>4, <2>5, Zenon DEF IInv, TypeOK, Same
  <2>7. OnlyOn(t, m)
        BY <1>1, <1>6, <2>1, <2>3, <2>5, <2>6, Zenon DEF OnlyOn, Counting, Owning, Exiting
  <2>8. OnlyHas(t, m)
        BY <1>1, <1>2, <2>3, Zenon DEF OnlyHas, Holding, Here
  <2>9. \A n : Tracks(n)' <=> Tracks(n)
        BY <1>1, Zenon DEF Tracks
  <2>10. Local(t)'
    <3>1. Remembers(t)'
          BY <1>1, <1>2, <2>3, <2>9, Zenon DEF Remembers, Counting
    <3>2. Lists(t)'
          BY <1>1, <1>2, <1>4, <1>5, <2>3, <2>5, <2>9, Zenon DEF Lists, Exiting
    <3> QED BY <3>1, <3>2, Zenon DEF Local
  <2>11. Knows(t, m)'
    <3>1. type[m].kind = "recursive" => count[m] = 0
          BY <1>9
    <3>2. /\ pc'[t] = "unlink" /\ depth'[t][m] = 0 /\ type' = type /\ lock' = lock
          /\ count' = count /\ old'[t] = w /\ mx' = mx
          BY <1>1, <2>1, <2>3, <2>4, <2>5, Zenon
    <3> QED BY <3>1, <3>2, ZeroFacts, Zenon DEF Knows, w
  <2>12. Says(m)'
         BY <1>1, <1>4, <2>1, Zenon DEF Says, Free
  <2>13. ~wk'[t] /\ Sleepers(m) # {} => lock'[m].wait
         BY <1>1, <2>1 DEF IInv, ReleaserSees, Releases
  <2> QED BY <1>1, <1>7, <2>6, <2>7, <2>8, <2>10, <2>11, <2>12, <2>13, Touch, Zenon
<1> QED BY <1>8, <1>9

\* The mutex leaves the list, and is pending when processes share it.
LEMMA UnlinkInv ==
  ASSUME Linux, IInv, NEW t \in Threads, Unlink(t)
  PROVE  IInv'
<1> DEFINE m == mx[t]
<1>1. /\ pc[t] = "unlink" /\ m \in Mutexes
      /\ pending' = [pending EXCEPT ![t] = IF type[m].shared THEN {m} ELSE @]
      /\ robust' = [robust EXCEPT ![t] = @ \ {m}] /\ pc' = [pc EXCEPT ![t] = "swap"]
      /\ UNCHANGED <<type, lock, waiters, count, mx, op, old, wk, gave, depth, told, broken,
                     swallowed, deaths>>
      BY Zenon DEF Unlink, Goto, memory, locals, callers, IInv, TypeOK
<1>2. /\ Tracks(m) /\ ~gave[t] /\ Holding(t, m) /\ depth[t][m] = 0
      /\ \A n \in Mutexes \ {m} : n \in robust[t] <=> Tracks(n) /\ depth[t][n] > 0
  <2>1. Tracks(m) /\ ~gave[t]
        BY <1>1, Zenon DEF IInv, Local, Remembers
  <2>2. \A n \in Mutexes \ {m} : n \in robust[t] <=> Tracks(n) /\ depth[t][n] > 0
        BY <1>1, Zenon DEF IInv, Local, Lists, Exiting
  <2> QED BY <1>1, <2>1, <2>2, Zenon DEF Holding, Here, IInv, Local, Lists
<1>3. /\ lock[m].own = t /\ Knows(t, m) /\ ~Takeable(m) /\ lock[m] # Free
      /\ type[m].robust /\ broken[m] => lock[m].dead
      BY <1>1, <1>2, HeldFacts, Zenon DEF Exiting
<1>4. /\ pc' \in [Threads -> Labels] /\ pc'[t] = "swap"
      /\ \A u \in Threads \ {t} : pc'[u] = pc[u]
      BY <1>1, GotoFacts, Zenon DEF IInv, Labels
<1>5. /\ robust' \in [Threads -> SUBSET Mutexes] /\ robust'[t] = robust[t] \ {m}
      /\ pending' \in [Threads -> SUBSET Mutexes] /\ (type[m].shared => m \in pending'[t])
      /\ \A u \in Threads \ {t} : robust'[u] = robust[u] /\ pending'[u] = pending[u]
  <2>1. robust \in [Threads -> SUBSET Mutexes] /\ pending \in [Threads -> SUBSET Mutexes]
        BY DEF IInv, TypeOK
  <2> QED BY <1>1, <2>1, Zenon
<1>6. TypeOK' /\ \A u \in Threads \ {t} : Same(u)
      BY <1>1, <1>4, <1>5, Zenon DEF IInv, TypeOK, Same
<1>7. OnlyOn(t, m)
  <2>1. \A n \in Mutexes \ {m} : ~MindsStill(t, n)
        BY DEF MindsStill
  <2> QED BY <1>1, <1>4, <1>5, <1>6, <2>1, Zenon DEF OnlyOn, Counting, Owning, Exiting
<1>8. OnlyHas(t, m)
      BY <1>1, <1>2, <1>3, <1>4, Zenon DEF OnlyHas, Holding, Here
<1>9. Local(t)'
  <2>1. \A n : Tracks(n)' <=> Tracks(n)
        BY <1>1, Zenon DEF Tracks
  <2>2. Remembers(t)'
        BY <1>1, <1>2, <1>4, <2>1, Zenon DEF Remembers, Counting
  <2>3. robust'[t] \in SUBSET Mutexes
        BY <1>5
  <2>4. Lists(t)'
        BY <1>1, <1>2, <1>4, <1>5, <2>1, <2>3, ZeroFacts, Zenon DEF Lists, Exiting
  <2> QED BY <2>2, <2>4 DEF Local
<1>10. Knows(t, m)'
       BY <1>1, <1>3, <1>4, Zenon DEF Knows, Free, Unrecoverable
<1>11. Says(m)' /\ ~Takeable(m)'
       BY <1>1, <1>3, NoTid, Zenon DEF Says, Takeable, Free
<1>12. ~wk'[t] /\ Sleepers(m) # {} => lock'[m].wait
       BY <1>1, <1>3, Zenon DEF IInv, ReleaserSees, Releases
<1> QED BY <1>1, <1>3, <1>6, <1>7, <1>8, <1>9, <1>10, <1>11, <1>12, Touch, Zenon

\* What a thread about to swap knows
LEMMA SwapFacts ==
  ASSUME IInv, NEW t \in Threads, pc[t] = "swap"
  PROVE  /\ depth[t][mx[t]] = 0 /\ ~gave[t]
         /\ Tracks(mx[t]) => /\ lock[mx[t]].own = t /\ old[t] \in {Free, Unrecoverable}
                             /\ type[mx[t]].kind = "recursive" => count[mx[t]] = 0
                             /\ type[mx[t]].robust /\ broken[mx[t]] => old[t].dead
         /\ ~Tracks(mx[t]) => /\ old[t] = Free
                              /\ \A u \in Threads \ {t} : ~Has(u, mx[t])
         /\ Sleepers(mx[t]) # {} => MustWake(t)
<1> DEFINE m == mx[t]
<1>1. m \in Mutexes /\ depth[t][m] = 0 /\ ~gave[t]
      BY Zenon DEF IInv, TypeOK, Local, Lists, Remembers
<1>2. ASSUME Tracks(m)
      PROVE  /\ lock[m].own = t /\ old[t] \in {Free, Unrecoverable}
             /\ type[m].kind = "recursive" => count[m] = 0
             /\ type[m].robust /\ broken[m] => old[t].dead
  <2>1. Holding(t, m)
        BY DEF Holding, Here
  <2>2. lock[m].own = t /\ Knows(t, m) /\ (type[m].robust /\ broken[m] => lock[m].dead)
        BY <1>1, <1>2, <2>1, HeldFacts, Zenon DEF Exiting
  <2>3. old[t] = IF type[m].robust /\ lock[m].dead THEN Unrecoverable ELSE Free
        BY <2>2, Zenon DEF Knows
  <2> QED BY <2>2, <2>3, WordFacts, Zenon DEF Knows
<1>3. ASSUME ~Tracks(m) PROVE old[t] = Free /\ \A u \in Threads \ {t} : ~Has(u, m)
  <2>1. Has(t, m)
        BY DEF Has
  <2> QED BY <1>1, <1>3, <2>1, Zenon DEF IInv, Local, Remembers, Plain
<1>4. Sleepers(m) # {} => MustWake(t)
      BY <1>1, <1>2, Zenon DEF IInv, ReleaserSees, Releases, MustWake
<1> QED BY <1>1, <1>2, <1>3, <1>4, Zenon

\* The word is given up.  If somebody sleeps, the thread goes on to wake.
LEMMA UnlockSwapInv ==
  ASSUME IInv, NEW t \in Threads, UnlockSwap(t)
  PROVE  IInv'
<1> DEFINE m == mx[t]
<1>1. /\ pc[t] = "swap" /\ m \in Mutexes
      /\ lock' = [lock EXCEPT ![m] = old[t]] /\ told' = [told EXCEPT ![m] = FALSE]
      /\ old' = [old EXCEPT ![t] = Free]
      /\ UNCHANGED <<type, waiters, count, robust, pending, mx, op, gave, depth, broken,
                     swallowed, deaths>>
      BY Zenon DEF UnlockSwap, IInv, TypeOK
<1>2. PICK l \in {"unpend", "wake", "idle"}, b \in BOOLEAN :
         /\ pc' = [pc EXCEPT ![t] = l] /\ wk' = [wk EXCEPT ![t] = b]
         /\ l = "unpend" => Tracks(m) /\ type[m].shared
         /\ MustWake(t) => l = "wake" \/ (l = "unpend" /\ b)
  <2>1. MustWake(t) \in BOOLEAN
        BY <1>1 DEF MustWake, IInv, TypeOK, Words
  <2>2. CASE Tracks(m) /\ type[m].shared
        BY <2>1, <2>2, Zenon DEF UnlockSwap, Goto
  <2>3. CASE ~(Tracks(m) /\ type[m].shared) /\ MustWake(t)
        BY <2>3, Zenon DEF UnlockSwap, Goto
  <2>4. CASE ~(Tracks(m) /\ type[m].shared) /\ ~MustWake(t)
        BY <2>4, Zenon DEF UnlockSwap, Goto
  <2> QED BY <2>2, <2>3, <2>4, Zenon
<1>3. /\ depth[t][m] = 0 /\ ~gave[t] /\ m \notin robust[t]
      /\ Tracks(m) => /\ lock[m].own = t /\ old[t] \in {Free, Unrecoverable}
                      /\ type[m].kind = "recursive" => count[m] = 0
                      /\ type[m].robust /\ broken[m] => old[t].dead
      /\ ~Tracks(m) => old[t] = Free /\ \A u \in Threads \ {t} : ~Has(u, m)
      /\ Sleepers(m) # {} => MustWake(t)
      BY <1>1, SwapFacts, Zenon DEF IInv, Local, Lists
<1>4. /\ pc' \in [Threads -> Labels] /\ pc'[t] = l
      /\ \A u \in Threads \ {t} : pc'[u] = pc[u]
  <2>1. l \in Labels
        BY DEF Labels
  <2> QED BY <1>2, <2>1, GotoFacts, Zenon DEF IInv
<1>5. /\ lock' \in [Mutexes -> Words] /\ lock'[m] = old[t]
      /\ \A n \in Mutexes \ {m} : lock'[n] = lock[n]
  <2>1. lock \in [Mutexes -> Words] /\ old[t] \in Words
        BY Zenon DEF IInv, TypeOK
  <2> QED BY <1>1, <2>1, Zenon
<1>6. /\ told' \in [Mutexes -> BOOLEAN] /\ \A n \in Mutexes \ {m} : told'[n] = told[n]
      BY <1>1 DEF IInv, TypeOK
<1>7. /\ old' \in [Threads -> Words] /\ old'[t] = Free
      /\ wk' \in [Threads -> BOOLEAN] /\ wk'[t] = b
      /\ \A u \in Threads \ {t} : old'[u] = old[u] /\ wk'[u] = wk[u]
      BY <1>1, <1>2, WordFacts DEF IInv, TypeOK
<1>8. TypeOK' /\ \A u \in Threads \ {t} : Same(u)
      BY <1>1, <1>4, <1>5, <1>6, <1>7, Zenon DEF IInv, TypeOK, Same
<1>9. OnlyOn(t, m)
  <2>1. \A n \in Mutexes \ {m} : ~MindsStill(t, n)
        BY DEF MindsStill
  <2> QED BY <1>1, <1>4, <1>5, <1>6, <1>8, <2>1, Zenon DEF OnlyOn, Counting, Owning, Exiting
<1>10. lock'[m].own \in {NoThread, NotRec} /\ lock'[m].own # t
       BY <1>3, <1>5, WordFacts, NoTid
<1>11. OnlyHas(t, m)
  <2>1. ~Holding(t, m)' /\ ~Has(t, m)'
        BY <1>1, <1>3, <1>4, ZeroFacts, Zenon DEF Holding, Here, Has, Exiting
  <2>2. Tracks(m) => \A u \in Threads \ {t} : lock[m].own # u /\ lock'[m].own # u
        BY <1>3, <1>10, NoTid, Zenon
  <2>3. ~Tracks(m) => lock'[m].own = NoThread
        BY <1>3, <1>5, WordFacts
  <2> QED BY <1>3, <1>10, <2>1, <2>2, <2>3, Zenon DEF OnlyHas
<1>12. Local(t)'
  <2>1. \A n : Tracks(n)' <=> Tracks(n)
        BY <1>1 DEF Tracks
  <2>2. Remembers(t)'
        BY <1>1, <1>2, <1>3, <1>4, <1>7, <2>1, Zenon DEF Remembers, Counting, Free
  <2>3. /\ robust[t] \in SUBSET Mutexes
        /\ \A n \in Mutexes : n \in robust[t] <=> Tracks(n) /\ depth[t][n] > 0
        BY <1>1, ListExact, Zenon DEF Exiting
  <2>4. Tracks(m) /\ type[m].shared => m \in pending[t]
        BY <1>1, Zenon DEF IInv, Local, Lists
  <2>5. Lists(t)'
        BY <1>1, <1>4, <2>1, <2>3, <2>4, Zenon DEF Lists, Exiting
  <2> QED BY <2>2, <2>5, Zenon DEF Local
<1>13. Says(m)'
  <2>1. CASE Tracks(m)
        BY <1>1, <1>3, <1>5, <2>1, Zenon DEF Says
  <2>2. CASE ~Tracks(m)
    <3>1. ~type[m].robust /\ type[m].kind # "recursive"
          BY <1>1, <2>2, TypeFacts, Zenon DEF IInv
    <3> QED BY <1>1, <3>1, Zenon DEF Says
  <2> QED BY <2>1, <2>2
<1>14. Sleepers(m) # {} => MindsStill(t, m)'
       BY <1>1, <1>2, <1>3, <1>4, <1>7, Zenon DEF MindsStill
<1>15. ~Releases(t, m)'
       BY <1>4 DEF Releases
<1> QED BY <1>1, <1>8, <1>9, <1>10, <1>11, <1>12, <1>13, <1>14, <1>15, Touch, Zenon

\* Nothing is pending any more.
LEMMA UnpendInv ==
  ASSUME IInv, NEW t \in Threads, Unpend(t)
  PROVE  IInv'
<1>1. /\ pc[t] = "unpend" /\ pc' = [pc EXCEPT ![t] = IF wk[t] THEN "wake" ELSE "idle"]
      /\ pending' = [pending EXCEPT ![t] = {}] /\ wk' = [wk EXCEPT ![t] = FALSE]
      /\ UNCHANGED <<type, lock, waiters, count, robust, mx, op, old, gave, depth, told, broken,
                     swallowed, deaths>>
      BY DEF Unpend, Goto, memory, callers
<1>2. /\ pc' \in [Threads -> Labels] /\ pc'[t] \in {"wake", "idle"} /\ (wk[t] => pc'[t] = "wake")
      /\ \A u \in Threads \ {t} : pc'[u] = pc[u]
      BY <1>1, GotoFacts, Zenon DEF IInv, Labels
<1>3. /\ pending' \in [Threads -> SUBSET Mutexes] /\ wk' \in [Threads -> BOOLEAN]
      /\ \A u \in Threads \ {t} : pending'[u] = pending[u] /\ wk'[u] = wk[u]
      BY <1>1 DEF IInv, TypeOK
<1>4. TypeOK' /\ \A u \in Threads \ {t} : Same(u)
      BY <1>1, <1>2, <1>3, Zenon DEF IInv, TypeOK, Same
<1>5. WaitersCounted'
      BY <1>1, <1>2, CountedKept DEF IInv, Counting
<1>6. ~gave[t] /\ old[t] = Free
      BY <1>1, Zenon DEF IInv, Local, Remembers
<1>7. MindsStill(t, mx[t]) => MindsStill(t, mx[t])'
      BY <1>1, <1>2, Zenon DEF MindsStill
<1> QED BY <1>1, <1>2, <1>4, <1>5, <1>6, <1>7, Retreat, Zenon DEF Aside

\* The owner makes the state consistent.
LEMMA ConsistentInv ==
  ASSUME IInv, NEW t \in Threads, NEW m \in Mutexes, Consistent(t, m)
  PROVE  IInv'
<1>1. /\ pc[t] = "idle" /\ type[m].robust /\ lock[m].own = t
      /\ lock' = [lock EXCEPT ![m].dead = FALSE] /\ broken' = [broken EXCEPT ![m] = FALSE]
      /\ UNCHANGED <<type, waiters, count, robust, pending, pc, mx, op, old, wk, gave, depth, told,
                     swallowed, deaths>>
      BY DEF Consistent, locals
<1>2. Tracks(m) /\ Holding(t, m) /\ ~gave[t] /\ old[t] = Free
  <2>1. Tracks(m) /\ ~gave[t] /\ old[t] = Free
        BY <1>1 DEF Tracks, IInv, Local, Remembers
  <2> QED BY <1>1, <2>1 DEF IInv, Owner
<1>3. Knows(t, m) /\ depth[t][m] > 0
      BY <1>1, <1>2, HeldFacts DEF Holding, Here, Exiting
<1>4. /\ lock' \in [Mutexes -> Words] /\ lock'[m].own = t /\ ~lock'[m].dead
      /\ \A n \in Mutexes \ {m} : lock'[n] = lock[n]
  <2>1. lock \in [Mutexes -> Words]
        BY DEF IInv, TypeOK
  <2>2. lock'[m] = [lock[m] EXCEPT !.dead = FALSE]
        BY <1>1, <2>1
  <2>3. lock'[m] \in Words /\ lock'[m].own = t /\ ~lock'[m].dead
        BY <1>1, <2>1, <2>2, Cleared
  <2> QED BY <1>1, <2>1, <2>3, Zenon
<1>5. /\ broken' \in [Mutexes -> BOOLEAN] /\ ~broken'[m]
      /\ \A n \in Mutexes \ {m} : broken'[n] = broken[n]
      BY <1>1 DEF IInv, TypeOK
<1>6. TypeOK' /\ \A u \in Threads \ {t} : Same(u)
      BY <1>1, <1>4, <1>5 DEF IInv, TypeOK, Same
<1>7. OnlyOn(t, m)
  <2>1. \A n \in Mutexes \ {m} : ~MindsStill(t, n)
        BY <1>1 DEF MindsStill
  <2> QED BY <1>1, <1>4, <1>5, <1>6, <2>1 DEF OnlyOn, Counting, Owning, Exiting
<1>8. OnlyHas(t, m)
      BY <1>1, <1>2, <1>3, <1>4 DEF OnlyHas, Holding
<1>9. Local(t)'
      BY <1>1, <1>2, ListExact, IdleLocal DEF Exiting
<1>10. Knows(t, m)'
       BY <1>1, <1>3, <1>4 DEF Knows
<1>11. Says(m)' /\ ~Takeable(m)' /\ ~Releases(t, m)'
  <2>1. lock'[m] # Free /\ lock'[m].own # NoThread
        BY <1>4, WordFacts, NoTid
  <2> QED BY <1>1, <1>5, <2>1 DEF Says, Takeable, Free, Releases
<1> QED BY <1>6, <1>7, <1>8, <1>9, <1>10, <1>11, Touch, Zenon
=============================================================================
