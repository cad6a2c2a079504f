------------------------- MODULE InternalLockProofs -------------------------
(***************************************************************************)
(* Proofs about the internal lock, for any finite set of threads and any   *)
(* number of spins.                                                        *)
(*                                                                         *)
(* The inductive invariant IInv has three layers.  Alone says when the     *)
(* hint libc.need_locks may be trusted; it does not depend on the lock     *)
(* word.  CongestionCount ties the word to the threads inside.             *)
(* CountIncludesUs bounds the stale copies of the word that threads carry  *)
(* from one compare-and-swap to the next.  Together they give mutual       *)
(* exclusion, and with it the absence of lost wake-ups and the refinement  *)
(* of the abstract lock.                                                   *)
(***************************************************************************)
EXTENDS InternalLock, FiniteSetTheorems, TLAPS

\* Only t can be alive.
OnlyAlive(t) == \A u \in Threads : pc[u] # "dead" => u = t

\* When the hint need_locks, and a decision taken on it, may be trusted
Alone ==
    /\ \E t \in Threads : pc[t] # "dead"
    /\ threads_minus_1 = Cardinality(Alive) - 1
    /\ need_locks # 1 => \A t \in Threads : pc[t] # "dead" => OnlyAlive(t)
    /\ \A t \in Threads : pc[t] = "skipped" => OnlyAlive(t)
    /\ \A t \in Threads :
          pc[t] \in {"cas", "clear"} /\ nl[t] < 0 => OnlyAlive(t)

\* The inductive invariant
IInv == /\ TypeOK
        /\ Alone
        /\ CongestionCount
        /\ CountIncludesUs
        /\ MutualExclusion
        /\ NoLostWake

-----------------------------------------------------------------------------
(* Typing *)

\* The initial state of InternalLock has the types of TypeOK.
LEMMA TypeInit == Init => TypeOK
  BY SpinsAssumption DEF Init, TypeOK, Labels

\* Every step of __lock, __unlock, creation and exit keeps the types.
LEMMA TypeNext == TypeOK /\ [Next]_vars => TypeOK'
<1> SUFFICES ASSUME TypeOK, [Next]_vars PROVE TypeOK'
    OBVIOUS
<1> USE IntMinAssumption, SpinsAssumption DEF TypeOK, Labels, Goto
<1>1. ASSUME NEW t \in Threads, ReadNeedLocks(t) PROVE TypeOK'
      BY <1>1 DEF ReadNeedLocks
<1>2. ASSUME NEW t \in Threads, FastCas(t) PROVE TypeOK'
      BY <1>2 DEF FastCas
<1>3. ASSUME NEW t \in Threads, ClearNeedLocks(t) PROVE TypeOK'
      BY <1>3 DEF ClearNeedLocks
<1>4. ASSUME NEW t \in Threads, Spin(t) PROVE TypeOK'
      BY <1>4 DEF Spin, SpinExpect, Released
<1>5. ASSUME NEW t \in Threads, Enter(t) PROVE TypeOK'
      BY <1>5 DEF Enter, NextRound
<1>6. ASSUME NEW t \in Threads, FutexWait(t) PROVE TypeOK'
      BY <1>6 DEF FutexWait, Released
<1>7. ASSUME NEW t \in Threads, MainCas(t) PROVE TypeOK'
      BY <1>7 DEF MainCas, NextRound
<1>8. ASSUME NEW t \in Threads, UnlockCheck(t) PROVE TypeOK'
      BY <1>8 DEF UnlockCheck
<1>9. ASSUME NEW t \in Threads, UnlockAdd(t) PROVE TypeOK'
      BY <1>9 DEF UnlockAdd, Released
<1>10. ASSUME NEW t \in Threads, UnlockWake(t) PROVE TypeOK'
      BY <1>10 DEF UnlockWake, Wakes, Released
<1>11. ASSUME NEW t \in Threads, SpuriousWake(t) PROVE TypeOK'
      BY <1>11 DEF SpuriousWake, Wakes, Released
<1>12. ASSUME NEW t \in Threads, NEW u \in Threads, Create(t, u) PROVE TypeOK'
      BY <1>12 DEF Create
<1>13. ASSUME NEW t \in Threads, CreateFails(t) PROVE TypeOK'
      BY <1>13 DEF CreateFails
<1>14. ASSUME NEW t \in Threads, Exit(t) PROVE TypeOK'
      BY <1>14 DEF Exit
<1>15. CASE UNCHANGED vars
      BY <1>15 DEF vars
<1> QED
  BY <1>1, <1>2, <1>3, <1>4, <1>5, <1>6, <1>7, <1>8, <1>9, <1>10, <1>11,
     <1>12, <1>13, <1>14, <1>15 DEF Next, Step

-----------------------------------------------------------------------------
(* The hint libc.need_locks *)

\* The threads that live are finitely many, so they can be counted.
LEMMA AliveFinite == IsFiniteSet(Alive) /\ Cardinality(Alive) \in Nat
<1>1. Alive \in SUBSET Threads
      BY DEF Alive
<1>2. IsFiniteSet(Alive)
      BY <1>1, FS_Subset, ThreadsAssumption
<1> QED
  BY <1>2, FS_CardinalityType

\* A process with one thread has threads_minus_1 = 0, and conversely.
LEMMA CountOne ==
  ASSUME NEW t \in Alive
  PROVE  Cardinality(Alive) = 1 <=> Alive = {t}
BY AliveFinite, FS_Singleton

\* At first one thread lives and nobody has skipped a lock.
LEMMA AloneInit == Init => Alone
<1> SUFFICES ASSUME Init PROVE Alone
    OBVIOUS
<1>1. PICK t \in Threads : pc = [u \in Threads |-> IF u = t THEN "out" ELSE "dead"]
      BY DEF Init
<1>2. Alive = {t}
      BY <1>1 DEF Alive
<1>3. Cardinality(Alive) = 1
      BY <1>2, FS_Singleton
<1> QED
  BY <1>1, <1>3 DEF Init, Alone, OnlyAlive

\* A step that creates and ends no thread only has to respect the hint.
LEMMA AloneNext == TypeOK /\ Alone /\ [Next]_vars => Alone'
<1> SUFFICES ASSUME TypeOK, Alone, [Next]_vars PROVE Alone'
    OBVIOUS
<1> DEFINE SameAlive == \A u \in Threads : (pc[u] # "dead") <=> (pc'[u] # "dead")
<1>1. ASSUME SameAlive, threads_minus_1' = threads_minus_1
      PROVE  /\ \E t \in Threads : pc'[t] # "dead"
             /\ threads_minus_1' = Cardinality(Alive') - 1
             /\ \A t \in Threads : OnlyAlive(t) <=> OnlyAlive(t)'
      <2>1. Alive' = Alive
            BY <1>1 DEF Alive
      <2> QED
        BY <1>1, <2>1 DEF Alone, OnlyAlive
<1>2. ASSUME NEW t \in Threads, ReadNeedLocks(t) PROVE Alone'
      <2>1. SameAlive /\ threads_minus_1' = threads_minus_1
            BY <1>2 DEF ReadNeedLocks, Goto, TypeOK
      <2> HIDE DEF SameAlive
      <2> QED
        BY <1>1, <1>2, <2>1 DEF Alone, ReadNeedLocks, Goto, TypeOK
<1>3. ASSUME NEW t \in Threads,
             \/ FastCas(t) \/ ClearNeedLocks(t) \/ Spin(t) \/ Enter(t)
             \/ FutexWait(t) \/ MainCas(t) \/ SpuriousWake(t)
             \/ UnlockCheck(t) \/ UnlockAdd(t) \/ UnlockWake(t)
             \/ CreateFails(t)
      PROVE  Alone'
      <2> USE <1>3 DEF FastCas, ClearNeedLocks, Spin, Enter, FutexWait, MainCas,
             SpuriousWake, UnlockCheck, UnlockAdd, UnlockWake, CreateFails,
             Goto, NextRound
      <2>1. SameAlive /\ threads_minus_1' = threads_minus_1
            BY DEF TypeOK
      <2>2. need_locks' # need_locks => OnlyAlive(t) /\ pc[t] # "dead"
            <3>1. CASE ClearNeedLocks(t)
                  BY <3>1 DEF Alone
            <3>2. CASE CreateFails(t)
                  <4>1. need_locks' # need_locks => Cardinality(Alive) = 1 /\ t \in Alive
                        BY <3>2, AliveFinite DEF Alone, Alive
                  <4> QED
                    BY <4>1, CountOne DEF Alive, OnlyAlive
            <3> QED
              BY <3>1, <3>2
      <2>3. \A u \in Threads : /\ pc'[u] # "skipped" \/ pc[u] = "skipped"
                               /\ pc'[u] \in {"cas", "clear"} /\ nl'[u] < 0
                                  => pc[u] \in {"cas", "clear"} /\ nl[u] < 0
            BY DEF TypeOK
      <2> HIDE <1>3 DEF FastCas, ClearNeedLocks, Spin, Enter, FutexWait, MainCas,
             SpuriousWake, UnlockCheck, UnlockAdd, UnlockWake, CreateFails,
             Goto, NextRound, SameAlive
      <2>4. \A u, v \in Threads : OnlyAlive(u) /\ pc[u] # "dead" /\ pc[v] # "dead" => OnlyAlive(v)
            BY DEF OnlyAlive
      <2>5. \A u \in Threads : (pc[u] # "dead") <=> (pc'[u] # "dead")
            BY <2>1 DEF SameAlive
      <2> QED
        BY <1>1, <2>1, <2>2, <2>3, <2>4, <2>5 DEF Alone
<1>4. ASSUME NEW t \in Threads, NEW v \in Threads, Create(t, v) PROVE Alone'
      <2>1. /\ Alive' = Alive \cup {v} /\ v \notin Alive /\ t \in Alive
            /\ t # v
            BY <1>4 DEF Create, Goto, Alive, TypeOK
      <2>2. Cardinality(Alive') = Cardinality(Alive) + 1
            BY <2>1, AliveFinite, FS_AddElement
      <2>3. need_locks' = 1
            <3>1. threads_minus_1 # 0 => ~OnlyAlive(t)
                  BY <2>1, CountOne, AliveFinite DEF Alone, OnlyAlive, Alive
            <3> QED
              BY <1>4, <3>1, <2>1 DEF Create, Alone, Alive
      <2>4. \A u \in Threads : OnlyAlive(u) => u = t
            BY <2>1 DEF OnlyAlive, Alive
      <2>5. \A u \in Threads : u # v => pc'[u] = pc[u]
            BY <1>4 DEF Create, Goto, TypeOK
      <2>6. pc[t] = "out" /\ pc'[t] = "out" /\ pc'[v] = "out" /\ nl' = nl
            /\ threads_minus_1' = threads_minus_1 + 1
            BY <1>4, <2>1, <2>5 DEF Create, Goto, TypeOK
      <2> QED
        BY <2>2, <2>3, <2>4, <2>5, <2>6, AliveFinite DEF Alone, TypeOK
<1>5. ASSUME NEW t \in Threads, Exit(t) PROVE Alone'
      <2>1. /\ Alive' = Alive \ {t} /\ t \in Alive /\ pc[t] = "out" /\ nl' = nl
            /\ \A u \in Threads : u # t => pc'[u] = pc[u]
            /\ pc'[t] = "dead"
            BY <1>5 DEF Exit, Goto, Alive, TypeOK
      <2>2. PICK w \in Alive : w # t
            BY <1>5, <2>1 DEF Exit
      <2>3. \A u \in Threads : ~OnlyAlive(u)
            BY <2>1, <2>2 DEF OnlyAlive, Alive
      <2>4. Cardinality(Alive') = Cardinality(Alive) - 1
            BY <2>1, AliveFinite, FS_RemoveElement
      <2>5. need_locks = 1
            BY <2>1, <2>3 DEF Alone, Alive
      <2>6. need_locks' # 1 => Cardinality(Alive') = 1
            BY <1>5, <2>4, <2>5, AliveFinite DEF Exit, Alone
      <2>7. w \in Alive'
            BY <2>1, <2>2
      <2>8. IsFiniteSet(Alive')
            BY <2>1, AliveFinite, FS_RemoveElement
      <2>9. need_locks' # 1 => Alive' = {w}
            BY <2>6, <2>7, <2>8, FS_Singleton
      <2>10. need_locks' # 1 => \A u \in Threads : pc'[u] # "dead" => u = w
            BY <2>9 DEF Alive
      <2>11. threads_minus_1' = Cardinality(Alive') - 1
            BY <1>5, <2>4, AliveFinite DEF Exit, Alone
      <2>12. \E u \in Threads : pc'[u] # "dead"
            BY <2>7 DEF Alive
      <2> QED
        BY <2>1, <2>3, <2>10, <2>11, <2>12 DEF Alone, OnlyAlive
<1>6. CASE UNCHANGED vars
      <2>1. SameAlive /\ threads_minus_1' = threads_minus_1
            BY <1>6 DEF vars
      <2> HIDE DEF SameAlive
      <2> QED
        BY <1>1, <1>6, <2>1 DEF Alone, vars
<1> QED
  BY <1>2, <1>3, <1>4, <1>5, <1>6 DEF Next, Step

-----------------------------------------------------------------------------
(* The lock word *)

\* The threads counted in the lock word are finitely many.
LEMMA CountedFinite ==
  /\ IsFiniteSet(Counted)
  /\ Cardinality(Counted) \in Nat
  /\ Cardinality(Counted) <= Cardinality(Threads)
<1>1. Counted \in SUBSET Threads
      BY DEF Counted
<1>2. IsFiniteSet(Counted) /\ Cardinality(Counted) <= Cardinality(Threads)
      BY <1>1, FS_Subset, ThreadsAssumption
<1> QED
  BY <1>2, FS_CardinalityType

\* A thread inside makes the count at least one, and another at least two.
LEMMA CountedMembers ==
  ASSUME NEW t \in Threads, Taken(t) \/ Queued(t)
  PROVE  /\ Cardinality(Counted) >= 1
         /\ \A u \in Threads :
               u # t /\ (Taken(u) \/ Queued(u)) => Cardinality(Counted) >= 2
<1>1. t \in Counted
      BY DEF Counted
<1>2. IsFiniteSet(Counted \ {t}) /\ Cardinality(Counted \ {t}) = Cardinality(Counted) - 1
      BY <1>1, CountedFinite, FS_RemoveElement
<1>3. Cardinality(Counted \ {t}) \in Nat
      BY <1>2, FS_CardinalityType
<1>4. ASSUME NEW u \in Threads, u # t, Taken(u) \/ Queued(u)
      PROVE  Cardinality(Counted \ {t}) # 0
      <2>1. u \in Counted \ {t}
            BY <1>4 DEF Counted
      <2> QED
        BY <1>2, <2>1, FS_EmptySet
<1> QED
  BY <1>2, <1>3, <1>4, CountedFinite

\* A thread that has not counted itself leaves room for one more.
LEMMA CountedRoom ==
  ASSUME NEW t \in Threads, ~Taken(t), ~Queued(t)
  PROVE  Cardinality(Counted) + 1 <= Cardinality(Threads)
<1>1. t \notin Counted /\ Counted \cup {t} \in SUBSET Threads
      BY DEF Counted
<1>2. Cardinality(Counted \cup {t}) = Cardinality(Counted) + 1
      BY <1>1, CountedFinite, FS_AddElement
<1>3. Cardinality(Counted \cup {t}) <= Cardinality(Threads)
      BY <1>1, FS_Subset, ThreadsAssumption
<1> QED
  BY <1>2, <1>3

\* What a thread learns from the word it reads.
LEMMA WordFacts ==
  ASSUME TypeOK, CongestionCount
  PROVE  /\ word < 0 <=> \E t \in Threads : Taken(t)
         /\ word >= 0 => word = Cardinality(Counted)
         /\ word < 0 => /\ word = IntMin + Cardinality(Counted)
                        /\ Released(word) >= 0
         /\ \A t \in Threads : Queued(t) =>
               /\ word >= 0 => word > 0
               /\ word < 0 => Released(word) > 0
<1> DEFINE N == Cardinality(Counted)
<1>1. N \in Nat /\ IntMin \in Int /\ IntMin + N < 0
      BY CountedFinite, IntMinAssumption, FS_CardinalityType, ThreadsAssumption
<1>2. word = N + (IF \E t \in Threads : Taken(t) THEN IntMin ELSE 0)
      BY DEF CongestionCount
<1>3. \A t \in Threads : Taken(t) \/ Queued(t) => N >= 1
      BY CountedMembers
<1>4. \A t, u \in Threads : Queued(t) /\ Taken(u) => t # u
      BY DEF Queued, Taken
<1>5. \A t, u \in Threads : Queued(t) /\ Taken(u) => N >= 2
      BY <1>4, CountedMembers
<1> HIDE DEF N
<1>6. /\ word < 0 <=> \E t \in Threads : Taken(t)
      /\ word >= 0 => word = N
      /\ word < 0 => word = IntMin + N /\ word - (IntMin + 1) >= 0
      BY <1>1, <1>2, <1>3
<1>7. ASSUME NEW t \in Threads, Queued(t)
      PROVE  (word >= 0 => word > 0) /\ (word < 0 => word - (IntMin + 1) > 0)
      BY <1>1, <1>3, <1>5, <1>6, <1>7
<1> QED
  BY <1>6, <1>7 DEF Released, N

\* How the congestion changes when only one thread moves.
LEMMA CountedStep ==
  ASSUME NEW t \in Threads,
         \A u \in Threads : u # t =>
            (Taken(u) \/ Queued(u) <=> Taken(u)' \/ Queued(u)')
  PROVE  /\ (Taken(t) \/ Queued(t) <=> Taken(t)' \/ Queued(t)')
               => Cardinality(Counted') = Cardinality(Counted)
         /\ ~(Taken(t) \/ Queued(t)) /\ (Taken(t)' \/ Queued(t)')
               => Cardinality(Counted') = Cardinality(Counted) + 1
         /\ (Taken(t) \/ Queued(t)) /\ ~(Taken(t)' \/ Queued(t)')
               => Cardinality(Counted') = Cardinality(Counted) - 1
<1>1. CASE Taken(t) \/ Queued(t) <=> Taken(t)' \/ Queued(t)'
      <2>1. Counted' = Counted
            BY <1>1 DEF Counted
      <2> QED
        BY <1>1, <2>1
<1>2. CASE ~(Taken(t) \/ Queued(t)) /\ (Taken(t)' \/ Queued(t)')
      <2>1. Counted' = Counted \cup {t} /\ t \notin Counted
            BY <1>2 DEF Counted
      <2> QED
        BY <1>2, <2>1, CountedFinite, FS_AddElement
<1>3. CASE (Taken(t) \/ Queued(t)) /\ ~(Taken(t)' \/ Queued(t)')
      <2>1. Counted' = Counted \ {t} /\ t \in Counted
            BY <1>3 DEF Counted
      <2> QED
        BY <1>3, <2>1, CountedFinite, FS_RemoveElement
<1> QED
  BY <1>1, <1>2, <1>3

\* Nobody else holds a lock that a thread finds free.
LEMMA FreeMeansFree ==
  ASSUME TypeOK, Alone, CongestionCount, word >= 0,
         NEW t \in Threads, pc[t] \notin {"dead", "skipped"}
  PROVE  \A u \in Threads : ~Holds(u)
<1>1. \A u \in Threads : ~Taken(u)
      BY WordFacts DEF TypeOK
<1>2. \A u \in Threads : pc[u] # "skipped"
      BY DEF Alone, OnlyAlive
<1> QED
  BY <1>1, <1>2 DEF Holds

\* A step that leaves the word and everybody's part in it alone.
LEMMA WordKept ==
  ASSUME CongestionCount, word' = word,
         \A u \in Threads : (Taken(u)' <=> Taken(u)) /\ (Queued(u)' <=> Queued(u))
  PROVE  CongestionCount'
<1>1. Counted' = Counted
      BY DEF Counted
<1> QED
  BY <1>1 DEF CongestionCount

\* A successful compare-and-swap.
LEMMA WordTaken ==
  ASSUME TypeOK, CongestionCount, word >= 0, NEW t \in Threads, Taken(t)',
         \A u \in Threads : u # t =>
            (Taken(u)' <=> Taken(u)) /\ (Queued(u)' <=> Queued(u)),
         word' = IntMin + word + (IF Queued(t) THEN 0 ELSE 1)
  PROVE  CongestionCount'
<1>1. ~Taken(t) /\ word = Cardinality(Counted)
      BY WordFacts DEF TypeOK
<1>2. Cardinality(Counted') = Cardinality(Counted) + (IF Queued(t) THEN 0 ELSE 1)
      BY <1>1, CountedStep, CountedFinite
<1>3. \E u \in Threads : Taken(u)'
      OBVIOUS
<1>4. word' = Cardinality(Counted') + IntMin
      BY <1>1, <1>2, CountedFinite, IntMinAssumption DEF TypeOK
<1> QED
  BY <1>3, <1>4 DEF CongestionCount

\* The lock word stays flag plus congestion count under every step (__lock.c).
LEMMA WordNext ==
  ASSUME TypeOK, TypeOK', Alone, CongestionCount, CountIncludesUs,
         MutualExclusion, [Next]_vars
  PROVE  CongestionCount'
<1> USE DEF Goto, TypeOK
<1>1. ASSUME NEW t \in Threads, ReadNeedLocks(t) PROVE CongestionCount'
      BY <1>1, WordKept DEF ReadNeedLocks, Taken, Queued
<1>2. ASSUME NEW t \in Threads, FastCas(t) PROVE CongestionCount'
      <2>1. CASE word = 0
            <3>1. ~Queued(t) /\ Taken(t)' /\ word' = IntMin + word + 1
                  BY <1>2, <2>1, IntMinAssumption DEF FastCas, Taken, Queued
            <3>2. \A u \in Threads : u # t =>
                     (Taken(u)' <=> Taken(u)) /\ (Queued(u)' <=> Queued(u))
                  BY <1>2 DEF FastCas, Taken, Queued
            <3> QED
              BY <2>1, <3>1, <3>2, WordTaken
      <2>2. CASE word # 0
            BY <1>2, <2>2, WordKept DEF FastCas, Taken, Queued
      <2> QED
        BY <2>1, <2>2
<1>3. ASSUME NEW t \in Threads, ClearNeedLocks(t) PROVE CongestionCount'
      BY <1>3, WordKept DEF ClearNeedLocks, Taken, Queued
<1>4. ASSUME NEW t \in Threads, Spin(t) PROVE CongestionCount'
      <2>1. CASE word = SpinExpect(t)
            <3>1. word >= 0
                  BY <1>4, <2>1 DEF Spin, CountIncludesUs
            <3>2. ~Queued(t) /\ Taken(t)' /\ word' = IntMin + word + 1
                  BY <1>4, <2>1, IntMinAssumption DEF Spin, Taken, Queued
            <3>3. \A u \in Threads : u # t =>
                     (Taken(u)' <=> Taken(u)) /\ (Queued(u)' <=> Queued(u))
                  BY <1>4, <2>1 DEF Spin, Taken, Queued
            <3> QED
              BY <3>1, <3>2, <3>3, WordTaken
      <2>2. CASE word # SpinExpect(t)
            BY <1>4, <2>2, WordKept DEF Spin, Taken, Queued
      <2> QED
        BY <2>1, <2>2
<1>5. ASSUME NEW t \in Threads, Enter(t) PROVE CongestionCount'
      <2>1. /\ ~Taken(t) /\ ~Queued(t) /\ Queued(t)' /\ ~Taken(t)'
            /\ word' = word + 1
            BY <1>5 DEF Enter, NextRound, Taken, Queued
      <2>2. \A u \in Threads : u # t =>
                     (Taken(u)' <=> Taken(u)) /\ (Queued(u)' <=> Queued(u))
            BY <1>5 DEF Enter, NextRound, Taken, Queued
      <2>3. Cardinality(Counted') = Cardinality(Counted) + 1
            BY <2>1, <2>2, CountedStep
      <2> QED
        BY <2>1, <2>2, <2>3, CountedFinite, IntMinAssumption DEF CongestionCount
<1>6. ASSUME NEW t \in Threads, FutexWait(t) PROVE CongestionCount'
      BY <1>6, WordKept DEF FutexWait, Taken, Queued
<1>7. ASSUME NEW t \in Threads, MainCas(t) PROVE CongestionCount'
      <2>1. CASE word = current[t]
            <3>1. word >= 0
                  BY <1>7, <2>1 DEF MainCas, CountIncludesUs
            <3>2. Queued(t) /\ Taken(t)' /\ word' = IntMin + word + 0
                  BY <1>7, <2>1, IntMinAssumption DEF MainCas, Taken, Queued
            <3>3. \A u \in Threads : u # t =>
                     (Taken(u)' <=> Taken(u)) /\ (Queued(u)' <=> Queued(u))
                  BY <1>7, <2>1 DEF MainCas, Taken, Queued
            <3> QED
              BY <3>1, <3>2, <3>3, WordTaken
      <2>2. CASE word # current[t]
            BY <1>7, <2>2, WordKept DEF MainCas, NextRound, Taken, Queued
      <2> QED
        BY <2>1, <2>2
<1>8. ASSUME NEW t \in Threads, UnlockCheck(t) PROVE CongestionCount'
      <2>1. pc[t] = "cs" => word < 0
            BY WordFacts DEF Taken
      <2>2. pc[t] = "skipped" => \A u \in Threads : ~Taken(u)
            BY DEF Alone, OnlyAlive, Taken
      <2>3. pc[t] = "skipped" => ~(word < 0)
            BY <2>2, WordFacts
      <2> QED
        BY <1>8, <2>1, <2>3, WordKept DEF UnlockCheck, Taken, Queued
<1>9. ASSUME NEW t \in Threads, UnlockAdd(t) PROVE CongestionCount'
      <2>1. /\ Taken(t) /\ ~Queued(t)' /\ ~Taken(t)'
            /\ word' = word - (IntMin + 1)
            BY <1>9 DEF UnlockAdd, Released, Taken, Queued
      <2>2. \A u \in Threads : u # t =>
                     (Taken(u)' <=> Taken(u)) /\ (Queued(u)' <=> Queued(u))
            BY <1>9 DEF UnlockAdd, Taken, Queued
      <2>3. Cardinality(Counted') = Cardinality(Counted) - 1
            BY <2>1, <2>2, CountedStep
      <2>4. \A u \in Threads : ~Taken(u)'
            BY <2>1, <2>2 DEF MutualExclusion, Holds
      <2> QED
        BY <2>1, <2>3, <2>4, CountedFinite, IntMinAssumption DEF CongestionCount
<1>10. ASSUME NEW t \in Threads, UnlockWake(t) PROVE CongestionCount'
      BY <1>10, WordKept DEF UnlockWake, Wakes, Taken, Queued
<1>11. ASSUME NEW t \in Threads, SpuriousWake(t) PROVE CongestionCount'
      BY <1>11, WordKept DEF SpuriousWake, Wakes, Taken, Queued
<1>12. ASSUME NEW t \in Threads, NEW u \in Threads, Create(t, u) PROVE CongestionCount'
      BY <1>12, WordKept DEF Create, Taken, Queued
<1>13. ASSUME NEW t \in Threads, CreateFails(t) PROVE CongestionCount'
      BY <1>13, WordKept DEF CreateFails, Taken, Queued
<1>14. ASSUME NEW t \in Threads, Exit(t) PROVE CongestionCount'
      BY <1>14, WordKept DEF Exit, Taken, Queued
<1>15. CASE UNCHANGED vars
      BY <1>15, WordKept DEF vars, Taken, Queued
<1> QED
  BY <1>1, <1>2, <1>3, <1>4, <1>5, <1>6, <1>7, <1>8, <1>9, <1>10, <1>11,
     <1>12, <1>13, <1>14, <1>15 DEF Next, Step

-----------------------------------------------------------------------------
(* The copies of the word that threads carry *)

\* The assertions about the copies of the word survive every step.
LEMMA CopiesNext ==
  ASSUME TypeOK, TypeOK', CongestionCount, CountIncludesUs, [Next]_vars
  PROVE  CountIncludesUs'
<1> DEFINE Ok(t) ==
      /\ pc[t] \in {"clear", "spin"} => SpinExpect(t) >= 0
      /\ pc[t] = "acas" => current[t] > 0
      /\ pc[t] \in {"wait", "asleep"} => current[t] < 0 /\ Released(current[t]) > 0
<1>1. \A t \in Threads : Ok(t)
      BY DEF CountIncludesUs
<1>2. SUFFICES \A t \in Threads : Ok(t)'
      BY DEF CountIncludesUs
<1>3. /\ word < 0 => Released(word) >= 0
      /\ \A t \in Threads : Queued(t) =>
            /\ word >= 0 => word > 0
            /\ word < 0 => Released(word) > 0
      BY WordFacts
<1> USE IntMinAssumption DEF TypeOK, Goto, SpinExpect, Released, NextRound
<1>4. ASSUME NEW u \in Threads, pc'[u] = pc[u], current'[u] = current[u] PROVE Ok(u)'
      BY <1>1, <1>4
<1>5. ASSUME NEW t \in Threads,
             ReadNeedLocks(t) \/ UnlockCheck(t) \/ UnlockAdd(t)
             \/ CreateFails(t) \/ Exit(t)
      PROVE  \A u \in Threads : Ok(u)'
      <2>1. \A u \in Threads :
               \/ pc'[u] = pc[u] /\ current'[u] = current[u]
               \/ pc'[u] \in {"skipped", "cas", "unl", "out", "wake", "dead"}
            BY <1>5 DEF ReadNeedLocks, UnlockCheck, UnlockAdd, CreateFails, Exit
      <2> QED
        BY <1>4, <2>1
<1>6. ASSUME NEW t \in Threads, NEW v \in Threads, Create(t, v)
      PROVE  \A u \in Threads : Ok(u)'
      <2>1. \A u \in Threads :
               \/ pc'[u] = pc[u] /\ current'[u] = current[u]
               \/ pc'[u] = "out"
            BY <1>6 DEF Create
      <2> QED
        BY <1>4, <2>1
<1>7. ASSUME NEW t \in Threads, FastCas(t) PROVE \A u \in Threads : Ok(u)'
      <2>1. Ok(t)'
            BY <1>3, <1>7 DEF FastCas
      <2>2. \A u \in Threads : u # t => pc'[u] = pc[u] /\ current'[u] = current[u]
            BY <1>7 DEF FastCas
      <2> QED
        BY <1>4, <2>1, <2>2
<1>8. ASSUME NEW t \in Threads, ClearNeedLocks(t) PROVE \A u \in Threads : Ok(u)'
      <2>1. Ok(t)'
            BY <1>1, <1>8 DEF ClearNeedLocks
      <2>2. \A u \in Threads : u # t => pc'[u] = pc[u] /\ current'[u] = current[u]
            BY <1>8 DEF ClearNeedLocks
      <2> QED
        BY <1>4, <2>1, <2>2
<1>9. ASSUME NEW t \in Threads, Spin(t) PROVE \A u \in Threads : Ok(u)'
      <2>1. Ok(t)'
            BY <1>3, <1>9 DEF Spin
      <2>2. \A u \in Threads : u # t => pc'[u] = pc[u] /\ current'[u] = current[u]
            BY <1>9 DEF Spin
      <2> QED
        BY <1>4, <2>1, <2>2
<1>10. ASSUME NEW t \in Threads, Enter(t) PROVE \A u \in Threads : Ok(u)'
      <2>1. ~Taken(t) /\ ~Queued(t)
            BY <1>10 DEF Enter, Taken, Queued
      <2>2. /\ word >= 0 => word + 1 > 0
            /\ word < 0 => word + 1 < 0 /\ word + 1 - (IntMin + 1) > 0
            <3>1. Cardinality(Counted) + 1 <= Cardinality(Threads)
                  BY <2>1, CountedRoom
            <3>2. word < 0 => word = IntMin + Cardinality(Counted)
                  BY WordFacts
            <3> QED
              BY <1>3, <3>1, <3>2, CountedFinite, ThreadsAssumption, FS_CardinalityType
      <2>3. Ok(t)'
            BY <1>10, <2>2 DEF Enter
      <2>4. \A u \in Threads : u # t => pc'[u] = pc[u] /\ current'[u] = current[u]
            BY <1>10 DEF Enter
      <2> QED
        BY <1>4, <2>3, <2>4
<1>11. ASSUME NEW t \in Threads, FutexWait(t) PROVE \A u \in Threads : Ok(u)'
      <2>1. Ok(t)'
            BY <1>1, <1>11 DEF FutexWait
      <2>2. \A u \in Threads : u # t => pc'[u] = pc[u] /\ current'[u] = current[u]
            BY <1>11 DEF FutexWait
      <2> QED
        BY <1>4, <2>1, <2>2
<1>12. ASSUME NEW t \in Threads, MainCas(t) PROVE \A u \in Threads : Ok(u)'
      <2>1. Ok(t)'
            BY <1>3, <1>12 DEF MainCas, Queued
      <2>2. \A u \in Threads : u # t => pc'[u] = pc[u] /\ current'[u] = current[u]
            BY <1>12 DEF MainCas
      <2> QED
        BY <1>4, <2>1, <2>2
<1>13. ASSUME NEW t \in Threads, SpuriousWake(t) PROVE \A u \in Threads : Ok(u)'
      <2>1. Ok(t)'
            BY <1>1, <1>13 DEF SpuriousWake, Wakes
      <2>2. \A u \in Threads : u # t => pc'[u] = pc[u] /\ current'[u] = current[u]
            BY <1>13 DEF SpuriousWake, Wakes
      <2> QED
        BY <1>4, <2>1, <2>2
<1>14. ASSUME NEW t \in Threads, UnlockWake(t) PROVE \A u \in Threads : Ok(u)'
      <2>1. ASSUME NEW v \in Threads, pc[v] = "asleep", Wakes(v),
                   pc' = [pc EXCEPT ![t] = "out", ![v] = "acas"]
            PROVE  \A u \in Threads : Ok(u)'
            <3>1. pc[t] = "wake"
                  BY <1>14 DEF UnlockWake
            <3>2. Ok(v)' /\ Ok(t)'
                  BY <1>1, <2>1, <3>1 DEF Wakes
            <3>3. \A u \in Threads :
                     u # t /\ u # v => pc'[u] = pc[u] /\ current'[u] = current[u]
                  BY <2>1 DEF Wakes
            <3> QED
              BY <1>4, <3>2, <3>3
      <2>2. CASE Goto(t, "out") /\ UNCHANGED current
            BY <1>1, <2>2
      <2> QED
        BY <1>14, <2>1, <2>2 DEF UnlockWake
<1>15. CASE UNCHANGED vars
      BY <1>4, <1>15 DEF vars
<1> QED
  BY <1>5, <1>6, <1>7, <1>8, <1>9, <1>10, <1>11, <1>12, <1>13, <1>14, <1>15
     DEF Next, Step

-----------------------------------------------------------------------------
(* Mutual exclusion *)

\* A step after which the old holders are the only ones.
LEMMA HoldersShrink ==
  ASSUME MutualExclusion, \A u \in Threads : Holds(u)' => Holds(u)
  PROVE  MutualExclusion'
BY DEF MutualExclusion

\* A step by which t takes a lock that nobody else holds.
LEMMA HolderTakes ==
  ASSUME NEW t \in Threads,
         \A u \in Threads : u # t => (Holds(u)' => Holds(u)) /\ ~Holds(u)
  PROVE  MutualExclusion'
BY DEF MutualExclusion

\* No step lets a second thread between LOCK and UNLOCK.
LEMMA ExclusionNext ==
  ASSUME TypeOK, TypeOK', Alone, CongestionCount, CountIncludesUs,
         MutualExclusion, [Next]_vars
  PROVE  MutualExclusion'
<1> USE DEF Goto, TypeOK
<1>1. ASSUME NEW t \in Threads, ReadNeedLocks(t) PROVE MutualExclusion'
      <2>1. CASE need_locks = 0
            <3>1. OnlyAlive(t)
                  BY <1>1, <2>1 DEF ReadNeedLocks, Alone
            <3>2. \A u \in Threads : u # t => (Holds(u)' => Holds(u)) /\ ~Holds(u)
                  BY <1>1, <3>1 DEF ReadNeedLocks, OnlyAlive, Holds, Taken
            <3> QED
              BY <3>2, HolderTakes
      <2>2. CASE need_locks # 0
            BY <1>1, <2>2, HoldersShrink DEF ReadNeedLocks, Holds, Taken
      <2> QED
        BY <2>1, <2>2
<1>2. ASSUME NEW t \in Threads, FastCas(t) PROVE MutualExclusion'
      <2>1. CASE word = 0
            <3>1. \A u \in Threads : ~Holds(u)
                  BY <1>2, <2>1, FreeMeansFree DEF FastCas
            <3>2. \A u \in Threads : u # t => (Holds(u)' => Holds(u))
                  BY <1>2 DEF FastCas, Holds, Taken
            <3> QED
              BY <3>1, <3>2, HolderTakes
      <2>2. CASE word # 0
            BY <1>2, <2>2, HoldersShrink DEF FastCas, Holds, Taken
      <2> QED
        BY <2>1, <2>2
<1>3. ASSUME NEW t \in Threads, Spin(t) PROVE MutualExclusion'
      <2>1. CASE word = SpinExpect(t)
            <3>1. word >= 0
                  BY <1>3, <2>1 DEF Spin, CountIncludesUs
            <3>2. \A u \in Threads : ~Holds(u)
                  BY <1>3, <3>1, FreeMeansFree DEF Spin
            <3>3. \A u \in Threads : u # t => (Holds(u)' => Holds(u))
                  BY <1>3, <2>1 DEF Spin, Holds, Taken
            <3> QED
              BY <3>2, <3>3, HolderTakes
      <2>2. CASE word # SpinExpect(t)
            BY <1>3, <2>2, HoldersShrink DEF Spin, Holds, Taken
      <2> QED
        BY <2>1, <2>2
<1>4. ASSUME NEW t \in Threads, MainCas(t) PROVE MutualExclusion'
      <2>1. CASE word = current[t]
            <3>1. word >= 0
                  BY <1>4, <2>1 DEF MainCas, CountIncludesUs
            <3>2. \A u \in Threads : ~Holds(u)
                  BY <1>4, <3>1, FreeMeansFree DEF MainCas
            <3>3. \A u \in Threads : u # t => (Holds(u)' => Holds(u))
                  BY <1>4, <2>1 DEF MainCas, Holds, Taken
            <3> QED
              BY <3>2, <3>3, HolderTakes
      <2>2. CASE word # current[t]
            BY <1>4, <2>2, HoldersShrink DEF MainCas, NextRound, Holds, Taken
      <2> QED
        BY <2>1, <2>2
<1>5. ASSUME NEW t \in Threads,
             \/ ClearNeedLocks(t) \/ Enter(t) \/ FutexWait(t) \/ SpuriousWake(t)
             \/ UnlockCheck(t) \/ UnlockAdd(t) \/ UnlockWake(t)
             \/ CreateFails(t) \/ Exit(t)
      PROVE  MutualExclusion'
      <2>1. CASE ClearNeedLocks(t) \/ Enter(t)
            BY <2>1, HoldersShrink DEF ClearNeedLocks, Enter, NextRound, Holds, Taken
      <2>2. CASE UnlockCheck(t) \/ UnlockAdd(t) \/ UnlockWake(t)
            BY <2>2, HoldersShrink
               DEF UnlockCheck, UnlockAdd, UnlockWake, Wakes, NextRound, Holds, Taken
      <2>3. CASE CreateFails(t) \/ Exit(t)
            BY <2>3, HoldersShrink DEF CreateFails, Exit, Holds, Taken
      <2>4. CASE FutexWait(t) \/ SpuriousWake(t)
            BY <2>4, HoldersShrink DEF FutexWait, SpuriousWake, Wakes, Holds, Taken
      <2> QED
        BY <1>5, <2>1, <2>2, <2>3, <2>4
<1>6. ASSUME NEW t \in Threads, NEW v \in Threads, Create(t, v)
      PROVE  MutualExclusion'
      BY <1>6, HoldersShrink DEF Create, Holds, Taken
<1>7. CASE UNCHANGED vars
      BY <1>7, HoldersShrink DEF vars, Holds, Taken
<1> QED
  BY <1>1, <1>2, <1>3, <1>4, <1>5, <1>6, <1>7 DEF Next, Step

-----------------------------------------------------------------------------
(* Wake-ups *)

\* No step leaves threads asleep on a free lock with nobody on the way to it.
LEMMA WakeNext ==
  ASSUME TypeOK, TypeOK', CongestionCount, CongestionCount', CountIncludesUs,
         NoLostWake, [Next]_vars
  PROVE  NoLostWake'
<1> DEFINE Awake(t) == pc[t] \in {"wake", "wait", "acas"}
<1> USE DEF Goto, TypeOK
<1>1. SUFFICES ASSUME word' >= 0, NEW z \in Threads, pc'[z] = "asleep"
               PROVE  \E t \in Threads : Awake(t)'
      BY DEF NoLostWake
\* Who was asleep before the step, or went to sleep in it.
<1>2. ASSUME NEW t \in Threads, FutexWait(t) PROVE \E u \in Threads : Awake(u)'
      <2>1. CASE word = current[t]
            BY <1>1, <1>2, <2>1 DEF FutexWait, CountIncludesUs
      <2>2. CASE word # current[t]
            BY <1>2, <2>2 DEF FutexWait
      <2> QED
        BY <2>1, <2>2
\* The releasing thread sees a congestion of at least two.
<1>3. ASSUME NEW t \in Threads, UnlockAdd(t) PROVE \E u \in Threads : Awake(u)'
      <2>1. pc[z] = "asleep" /\ z # t
            BY <1>1, <1>3 DEF UnlockAdd
      <2>2. Taken(t) /\ Queued(z)
            BY <1>3, <2>1 DEF UnlockAdd, Taken, Queued
      <2>3. word < 0 /\ Released(word) > 0
            BY <2>2, WordFacts
      <2>4. word # IntMin + 1
            BY <2>3, IntMinAssumption DEF Released
      <2> QED
        BY <1>3, <2>4 DEF UnlockAdd
<1>4. ASSUME NEW t \in Threads, UnlockWake(t) PROVE \E u \in Threads : Awake(u)'
      BY <1>1, <1>4 DEF UnlockWake, Wakes
<1>5. ASSUME NEW t \in Threads, MainCas(t) PROVE \E u \in Threads : Awake(u)'
      <2>1. CASE word = current[t]
            <3>1. Taken(t)'
                  BY <1>5, <2>1 DEF MainCas, Taken
            <3>2. word' < 0
                  <4>1. /\ Cardinality(Counted) \in Nat
                        /\ Cardinality(Counted) <= Cardinality(Threads)
                        BY CountedFinite
                  <4>2. word >= 0 /\ word' = IntMin + word
                        BY <1>5, <2>1 DEF MainCas, CountIncludesUs
                  <4>3. word = Cardinality(Counted)
                        BY <4>2, WordFacts
                  <4> QED
                    BY <4>1, <4>2, <4>3, IntMinAssumption, ThreadsAssumption,
                       FS_CardinalityType, SMTT(60)
            <3> QED
              BY <1>1, <3>2
      <2>2. CASE word # current[t]
            BY <1>5, <2>2 DEF MainCas, NextRound
      <2> QED
        BY <2>1, <2>2
<1>6. ASSUME NEW t \in Threads, SpuriousWake(t) \/ Enter(t)
      PROVE  \E u \in Threads : Awake(u)'
      BY <1>6 DEF SpuriousWake, Enter, NextRound
\* The other steps put nobody to sleep, keep whoever is awake awake, and
\* free no lock.
<1>7. ASSUME pc[z] = "asleep", word >= 0,
             \A u \in Threads : Awake(u) => Awake(u)'
      PROVE  \E u \in Threads : Awake(u)'
      BY <1>7 DEF NoLostWake
<1>8. ASSUME NEW t \in Threads,
             ReadNeedLocks(t) \/ ClearNeedLocks(t) \/ UnlockCheck(t)
             \/ CreateFails(t) \/ Exit(t)
      PROVE  \E u \in Threads : Awake(u)'
      BY <1>1, <1>7, <1>8 DEF ReadNeedLocks, ClearNeedLocks, UnlockCheck,
                              CreateFails, Exit
<1>9. ASSUME NEW t \in Threads, NEW v \in Threads, Create(t, v)
      PROVE  \E u \in Threads : Awake(u)'
      BY <1>1, <1>7, <1>9 DEF Create
<1>10. ASSUME NEW t \in Threads, FastCas(t) PROVE \E u \in Threads : Awake(u)'
      <2>1. word >= 0
            BY <1>1, <1>10 DEF FastCas
      <2> QED
        BY <1>1, <1>7, <1>10, <2>1 DEF FastCas
<1>11. ASSUME NEW t \in Threads, Spin(t) PROVE \E u \in Threads : Awake(u)'
      <2>1. word >= 0
            BY <1>1, <1>11 DEF Spin, CountIncludesUs
      <2> QED
        BY <1>1, <1>7, <1>11, <2>1 DEF Spin
<1>12. CASE UNCHANGED vars
      BY <1>1, <1>7, <1>12 DEF vars
<1> QED
  BY <1>2, <1>3, <1>4, <1>5, <1>6, <1>8, <1>9, <1>10, <1>11, <1>12 DEF Next, Step

-----------------------------------------------------------------------------
\* The initial state satisfies the inductive invariant.
LEMMA InvInit == Init => IInv
<1> SUFFICES ASSUME Init PROVE IInv
    OBVIOUS
<1>1. TypeOK /\ Alone
      BY TypeInit, AloneInit
<1>2. \A t \in Threads : pc[t] \in {"out", "dead"}
      BY DEF Init
<1>3. Counted = {} /\ \A t \in Threads : ~Taken(t) /\ ~Holds(t)
      BY <1>2 DEF Counted, Taken, Queued, Holds
<1>4. CongestionCount
      BY <1>3, FS_EmptySet DEF CongestionCount, Init
<1>5. CountIncludesUs /\ MutualExclusion /\ NoLostWake
      BY <1>2, <1>3 DEF CountIncludesUs, MutualExclusion, NoLostWake
<1> QED
  BY <1>1, <1>4, <1>5 DEF IInv

\* Every step preserves the inductive invariant.
LEMMA InvNext == IInv /\ [Next]_vars => IInv'
<1> SUFFICES ASSUME IInv, [Next]_vars PROVE IInv'
    OBVIOUS
<1>1. TypeOK' /\ Alone'
      BY TypeNext, AloneNext DEF IInv
<1>2. CongestionCount'
      BY <1>1, WordNext DEF IInv
<1>3. CountIncludesUs' /\ MutualExclusion' /\ NoLostWake'
      BY <1>1, <1>2, CopiesNext, ExclusionNext, WakeNext DEF IInv
<1> QED
  BY <1>1, <1>2, <1>3 DEF IInv

\* The invariant holds in every reachable state, for every set of threads.
THEOREM Invariance == Spec => []IInv
BY InvInit, InvNext, PTL DEF Spec

\* The variables of __lock and libc keep their types, whoever comes and goes.
THEOREM TypeCorrect == Spec => []TypeOK
<1>1. IInv => TypeOK
      BY DEF IInv
<1> QED
  BY <1>1, Invariance, PTL

\* At most one thread is between LOCK and UNLOCK (__lock.c), however many
\* threads come and go and whatever libc.need_locks told them.
THEOREM LockExcludes == Spec => []MutualExclusion
<1>1. IInv => MutualExclusion
      BY DEF IInv
<1> QED
  BY <1>1, Invariance, PTL

\* The lock word of __lock.c is, at every moment, what the comment at the top
\* of the file says: flag and congestion count.
THEOREM WordIsFlagAndCount == Spec => []CongestionCount
<1>1. IInv => CongestionCount
      BY DEF IInv
<1> QED
  BY <1>1, Invariance, PTL

\* The assertions stated in the comments of __lock hold, for any number of
\* threads and spins.
THEOREM AssertionsHold == Spec => []CountIncludesUs
<1>1. IInv => CountIncludesUs
      BY DEF IInv
<1> QED
  BY <1>1, Invariance, PTL

\* While threads sleep on a free lock, somebody is on the way to it.
THEOREM WakeUpsAreKept == Spec => []NoLostWake
<1>1. IInv => NoLostWake
      BY DEF IInv
<1> QED
  BY <1>1, Invariance, PTL

-----------------------------------------------------------------------------
(* Refinement of the abstract lock *)

\* The holder of the abstract lock is the thread between LOCK and UNLOCK.
LEMMA HolderNow ==
  ASSUME MutualExclusion
  PROVE  /\ \A t \in Threads : Holds(t) => Holder = t
         /\ (\A t \in Threads : ~Holds(t)) => Holder = NoThread
BY DEF MutualExclusion, Holder

\* The same after a step.
LEMMA HolderNext ==
  ASSUME MutualExclusion'
  PROVE  /\ \A t \in Threads : Holds(t)' => Holder' = t
         /\ (\A t \in Threads : ~Holds(t)') => Holder' = NoThread
BY DEF MutualExclusion, Holder

\* A step that moves nobody in or out changes nothing in the abstract lock.
LEMMA HolderSame ==
  ASSUME MutualExclusion, MutualExclusion',
         \A u \in Threads : Holds(u)' <=> Holds(u)
  PROVE  Holder' = Holder
<1>1. CASE \E t \in Threads : Holds(t)
      BY <1>1, HolderNow, HolderNext
<1>2. CASE \A t \in Threads : ~Holds(t)
      BY <1>2, HolderNow, HolderNext
<1> QED
  BY <1>1, <1>2

\* A step that changes neither who holds nor who asks is invisible.
LEMMA StutterStep ==
  ASSUME MutualExclusion, MutualExclusion',
         \A u \in Threads : (Holds(u)' <=> Holds(u)) /\ (u \in Asking' <=> u \in Asking)
  PROVE  UNCHANGED Abs!vars
<1>1. Asking' = Asking
      BY DEF Asking
<1> QED
  BY <1>1, HolderSame DEF Abs!vars

\* A compare-and-swap that succeeds is a grant.
LEMMA GrantStep ==
  ASSUME MutualExclusion, MutualExclusion', NEW t \in Threads,
         t \in Asking, t \notin Asking', Holds(t)',
         \A u \in Threads : ~Holds(u),
         \A u \in Threads : u # t => (u \in Asking' <=> u \in Asking)
  PROVE  Abs!Grant(t)
<1>1. Asking' = Asking \ {t}
      BY DEF Asking
<1>2. Holder = NoThread /\ Holder' = t
      BY HolderNow, HolderNext
<1> QED
  BY <1>1, <1>2 DEF Abs!Grant

\* The unlock of the holder is a release.
LEMMA ReleaseStep ==
  ASSUME MutualExclusion, MutualExclusion', NEW t \in Threads,
         Holds(t), \A u \in Threads : ~Holds(u)',
         \A u \in Threads : u \in Asking' <=> u \in Asking
  PROVE  Abs!Release(t)
<1>1. Asking' = Asking
      BY DEF Asking
<1>2. Holder = t /\ Holder' = NoThread
      BY HolderNow, HolderNext
<1> QED
  BY <1>1, <1>2 DEF Abs!Release

\* Every step of __lock and __unlock is a step of the abstract lock or invisible.
LEMMA RefinesNext ==
  ASSUME IInv, IInv', [Next]_vars
  PROVE  [Abs!Next]_(Abs!vars)
<1> USE DEF Goto, TypeOK
<1>0. /\ TypeOK /\ Alone /\ CongestionCount /\ CountIncludesUs
      /\ MutualExclusion /\ MutualExclusion' /\ TypeOK'
      BY DEF IInv
<1>1. ASSUME NEW t \in Threads, ReadNeedLocks(t) PROVE [Abs!Next]_(Abs!vars)
      <2>1. CASE need_locks = 0
            <3>1. OnlyAlive(t) /\ pc[t] = "out"
                  BY <1>0, <1>1, <2>1 DEF ReadNeedLocks, Alone
            <3>2. \A u \in Threads : ~Holds(u)
                  BY <3>1 DEF OnlyAlive, Holds, Taken
            <3>3. Holds(t)' /\ t \notin Asking
                  BY <1>0, <1>1, <2>1 DEF ReadNeedLocks, Holds, Asking
            <3>4. Asking' = Asking
                  BY <1>0, <1>1, <2>1 DEF ReadNeedLocks, Asking, Taken
            <3>5. Holder = NoThread /\ Holder' = t
                  BY <1>0, <3>2, <3>3, HolderNow, HolderNext
            <3> QED
              BY <3>3, <3>4, <3>5 DEF Abs!Next, Abs!AskAndGrant
      <2>2. CASE need_locks # 0
            <3>1. \A u \in Threads : Holds(u)' <=> Holds(u)
                  BY <1>0, <1>1, <2>2 DEF ReadNeedLocks, Holds, Taken
            <3>2. Holder' = Holder
                  BY <1>0, <3>1, HolderSame
            <3>3. Asking' = Asking \cup {t} /\ t \notin Asking
                  BY <1>0, <1>1, <2>2 DEF ReadNeedLocks, Asking, Taken
            <3>4. ~Holds(t)
                  BY <1>1 DEF ReadNeedLocks, Holds, Taken
            <3>5. Holder # t
                  <4>1. CASE \E u \in Threads : Holds(u)
                        BY <1>0, <3>4, <4>1, HolderNow
                  <4>2. CASE \A u \in Threads : ~Holds(u)
                        BY <1>0, <4>2, HolderNow, ThreadsAssumption
                  <4> QED
                    BY <4>1, <4>2
            <3> QED
              BY <3>2, <3>3, <3>5 DEF Abs!Next, Abs!Ask
      <2> QED
        BY <2>1, <2>2
<1>2. ASSUME NEW t \in Threads, FastCas(t) PROVE [Abs!Next]_(Abs!vars)
      <2>1. CASE word = 0
            <3>1. \A u \in Threads : ~Holds(u)
                  BY <1>0, <1>2, <2>1, FreeMeansFree DEF FastCas
            <3>2. t \in Asking /\ t \notin Asking' /\ Holds(t)'
                  BY <1>0, <1>2, <2>1 DEF FastCas, Asking, Holds, Taken
            <3>3. \A u \in Threads : u # t => (u \in Asking' <=> u \in Asking)
                  BY <1>0, <1>2 DEF FastCas, Asking, Taken
            <3> QED
              BY <1>0, <3>1, <3>2, <3>3, GrantStep DEF Abs!Next
      <2>2. CASE word # 0
            BY <1>0, <1>2, <2>2, StutterStep DEF FastCas, Holds, Taken, Asking
      <2> QED
        BY <2>1, <2>2
<1>3. ASSUME NEW t \in Threads, Spin(t) PROVE [Abs!Next]_(Abs!vars)
      <2>1. CASE word = SpinExpect(t)
            <3>1. word >= 0
                  BY <1>0, <1>3, <2>1 DEF Spin, CountIncludesUs
            <3>2. \A u \in Threads : ~Holds(u)
                  BY <1>0, <1>3, <3>1, FreeMeansFree DEF Spin
            <3>3. t \in Asking /\ t \notin Asking' /\ Holds(t)'
                  BY <1>0, <1>3, <2>1 DEF Spin, Asking, Holds, Taken
            <3>4. \A u \in Threads : u # t => (u \in Asking' <=> u \in Asking)
                  BY <1>0, <1>3, <2>1 DEF Spin, Asking, Taken
            <3> QED
              BY <1>0, <3>2, <3>3, <3>4, GrantStep DEF Abs!Next
      <2>2. CASE word # SpinExpect(t)
            <3>1. \A u \in Threads : /\ Holds(u)' <=> Holds(u)
                                     /\ u \in Asking' <=> u \in Asking
                  BY <1>0, <1>3, <2>2 DEF Spin, Holds, Taken, Asking
            <3> QED
              BY <1>0, <3>1, StutterStep
      <2> QED
        BY <2>1, <2>2
<1>4. ASSUME NEW t \in Threads, MainCas(t) PROVE [Abs!Next]_(Abs!vars)
      <2>1. CASE word = current[t]
            <3>1. word >= 0
                  BY <1>0, <1>4, <2>1 DEF MainCas, CountIncludesUs
            <3>2. \A u \in Threads : ~Holds(u)
                  BY <1>0, <1>4, <3>1, FreeMeansFree DEF MainCas
            <3>3. t \in Asking /\ t \notin Asking' /\ Holds(t)'
                  BY <1>0, <1>4, <2>1 DEF MainCas, Asking, Holds, Taken
            <3>4. \A u \in Threads : u # t => (u \in Asking' <=> u \in Asking)
                  BY <1>0, <1>4, <2>1 DEF MainCas, Asking, Taken
            <3> QED
              BY <1>0, <3>2, <3>3, <3>4, GrantStep DEF Abs!Next
      <2>2. CASE word # current[t]
            <3>1. \A u \in Threads : /\ Holds(u)' <=> Holds(u)
                                     /\ u \in Asking' <=> u \in Asking
                  BY <1>0, <1>4, <2>2 DEF MainCas, NextRound, Holds, Taken, Asking
            <3> QED
              BY <1>0, <3>1, StutterStep
      <2> QED
        BY <2>1, <2>2
<1>5. ASSUME NEW t \in Threads, UnlockCheck(t) PROVE [Abs!Next]_(Abs!vars)
      <2>1. \A u \in Threads : u \in Asking' <=> u \in Asking
            BY <1>0, <1>5 DEF UnlockCheck, Asking, Taken
      <2>2. CASE word < 0
            BY <1>0, <1>5, <2>1, <2>2, StutterStep DEF UnlockCheck, Holds, Taken
      <2>3. CASE ~(word < 0)
            <3>1. Holds(t) /\ ~Holds(t)'
                  BY <1>0, <1>5, <2>3 DEF UnlockCheck, Holds, Taken
            <3>2. \A u \in Threads : u # t => (Holds(u)' => Holds(u))
                  BY <1>0, <1>5 DEF UnlockCheck, Holds, Taken
            <3>3. \A u \in Threads : ~Holds(u)'
                  BY <1>0, <3>1, <3>2 DEF MutualExclusion
            <3> QED
              BY <1>0, <2>1, <3>1, <3>3, ReleaseStep DEF Abs!Next
      <2> QED
        BY <2>2, <2>3
<1>6. ASSUME NEW t \in Threads, UnlockAdd(t) PROVE [Abs!Next]_(Abs!vars)
      <2>1. \A u \in Threads : u \in Asking' <=> u \in Asking
            BY <1>0, <1>6 DEF UnlockAdd, Asking, Taken
      <2>2. Holds(t) /\ ~Holds(t)'
            BY <1>0, <1>6 DEF UnlockAdd, Holds, Taken
      <2>3. \A u \in Threads : u # t => (Holds(u)' => Holds(u))
            BY <1>0, <1>6 DEF UnlockAdd, Holds, Taken
      <2>4. \A u \in Threads : ~Holds(u)'
            BY <1>0, <2>2, <2>3 DEF MutualExclusion
      <2> QED
        BY <1>0, <2>1, <2>2, <2>4, ReleaseStep DEF Abs!Next
<1>7. ASSUME NEW t \in Threads,
             \/ ClearNeedLocks(t) \/ Enter(t) \/ FutexWait(t) \/ SpuriousWake(t)
             \/ UnlockWake(t) \/ CreateFails(t) \/ Exit(t)
      PROVE  [Abs!Next]_(Abs!vars)
      <2>1. \A u \in Threads : /\ Holds(u)' <=> Holds(u)
                               /\ u \in Asking' <=> u \in Asking
            <3>1. CASE ClearNeedLocks(t) \/ Enter(t)
                  BY <1>0, <3>1 DEF ClearNeedLocks, Enter, NextRound, Holds, Taken, Asking
            <3>2. CASE FutexWait(t) \/ SpuriousWake(t)
                  BY <1>0, <3>2
                     DEF FutexWait, SpuriousWake, Wakes, Holds, Taken, Asking
            <3>3. CASE UnlockWake(t)
                  BY <1>0, <3>3 DEF UnlockWake, Wakes, NextRound, Holds, Taken, Asking
            <3>4. CASE CreateFails(t) \/ Exit(t)
                  BY <1>0, <3>4 DEF CreateFails, Exit, Holds, Taken, Asking
            <3> QED
              BY <1>7, <3>1, <3>2, <3>3, <3>4
      <2> QED
        BY <1>0, <2>1, StutterStep
<1>8. ASSUME NEW t \in Threads, NEW v \in Threads, Create(t, v)
      PROVE  [Abs!Next]_(Abs!vars)
      BY <1>0, <1>8, StutterStep DEF Create, Holds, Taken, Asking
<1>9. CASE UNCHANGED vars
      BY <1>0, <1>9, StutterStep DEF vars, Holds, Taken, Asking
<1> QED
  BY <1>1, <1>2, <1>3, <1>4, <1>5, <1>6, <1>7, <1>8, <1>9 DEF Next, Step

\* The initial state maps to the initial state of the abstract lock.
LEMMA RefinesInit == Init => Abs!Init
<1> SUFFICES ASSUME Init PROVE Abs!Init
    OBVIOUS
<1>1. \A t \in Threads : pc[t] \in {"out", "dead"}
      BY DEF Init
<1>2. Asking = {} /\ Holder = NoThread
      BY <1>1 DEF Asking, Holder, Holds, Taken
<1> QED
  BY <1>2 DEF Abs!Init

\* __lock and __unlock implement the abstract lock, for any set of threads:
\* every step is a step of AbstractLock or invisible to it.
THEOREM LockRefines == Spec => ImplementsLock
<1>1. IInv /\ IInv' /\ [Next]_vars => [Abs!Next]_(Abs!vars)
      BY RefinesNext
<1> QED
  BY <1>1, RefinesInit, Invariance, PTL DEF Spec, ImplementsLock, Abs!Spec

=============================================================================
