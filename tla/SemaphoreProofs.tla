-------------------------- MODULE SemaphoreProofs --------------------------
(***************************************************************************)
(* Proofs about semaphores, for any finite set of threads and any          *)
(* SEM_VALUE_MAX.                                                          *)
(*                                                                         *)
(* The inductive invariant IInv adds Locals to the invariants that TLC     *)
(* checks: what a thread that is about to compare and swap remembers of    *)
(* the word, and which threads are inside sem_timedwait.  SleepersAnnounced*)
(* and WakesCoverValue hold each other up: a post that wakes nobody has    *)
(* seen no flag, and without the flag a sleeper is already being woken.    *)
(***************************************************************************)
EXTENDS Semaphore, FiniteSetTheorems, TLAPS

\* Threads inside sem_timedwait beyond its attempts, and threads inside none
\* of the waiting functions
Committed == {"inc", "setflag", "fwait", "asleep", "dec"}
Elsewhere == {"idle", "pread", "pwaiters", "pcas", "pwake"}

\* What the locals of the functions say of the word that was read
Locals ==
    \A t \in Threads :
        /\ pc[t] = "tcas" => val[t].n > 0
        /\ pc[t] = "pcas" => val[t].n # Max
        /\ pc[t] \in Committed => kind[t] = "wait"
        /\ pc[t] \in Elsewhere => kind[t] = "try"

\* The inductive invariant
IInv == /\ TypeOK
        /\ Locals
        /\ WaitersCounted
        /\ SleepersAnnounced
        /\ WakesCoverValue

-----------------------------------------------------------------------------
(* Counting threads *)

\* A set of threads is finite, and has no more members than a larger one.
LEMMA Finite ==
  ASSUME NEW S \in SUBSET Threads
  PROVE  /\ IsFiniteSet(S) /\ Cardinality(S) \in Nat
         /\ \A R \in SUBSET S : Cardinality(R) \in Nat /\ Cardinality(R) <= Cardinality(S)
<1>1. IsFiniteSet(S)
      BY FS_Subset, ThreadsAssumption
<1>2. ASSUME NEW R \in SUBSET S
      PROVE  IsFiniteSet(R) /\ Cardinality(R) <= Cardinality(S)
      BY <1>1, FS_Subset
<1> QED
  BY <1>1, <1>2, FS_CardinalityType

\* One thread more, one thread less.
LEMMA OneMore ==
  ASSUME NEW S \in SUBSET Threads, NEW t \in Threads
  PROVE  /\ t \notin S => Cardinality(S \cup {t}) = Cardinality(S) + 1
         /\ t \in S => Cardinality(S \ {t}) = Cardinality(S) - 1
BY Finite, FS_AddElement, FS_RemoveElement

-----------------------------------------------------------------------------
(* Types and locals *)

\* sem_init establishes the types and what is known of the locals.
LEMMA TypeInit == Init => TypeOK /\ Locals
<1> SUFFICES ASSUME Init PROVE TypeOK /\ Locals
    OBVIOUS
<1>1. NoWord \in Words
      BY MaxAssumption DEF NoWord, Words
<1>2. TypeOK
      <2>1. value \in 0..Max /\ waiters \in Int
            BY DEF Init
      <2>6. flag \in BOOLEAN
            BY Zenon DEF Init
      <2>2. pc \in [Threads -> Labels] /\ kind \in [Threads -> {"wait", "try"}]
            BY DEF Init, Labels
      <2>3. val \in [Threads -> Words]
            BY <1>1 DEF Init
      <2>4. lw \in [Threads -> Nat]
            BY DEF Init
      <2>5. ok \in [Threads -> BOOLEAN]
            BY Zenon DEF Init
      <2> QED
        BY <2>1, <2>2, <2>3, <2>4, <2>5, <2>6, Zenon DEF TypeOK
<1>3. Locals
      BY DEF Init, Locals, Committed, Elsewhere
<1> QED
  BY <1>2, <1>3

\* Every step of the semaphore functions keeps them; the count stays within
\* 0..Max because a thread that swaps knows on which side it has room.
LEMMA TypeNext ==
  ASSUME TypeOK, Locals, WaitersCounted, [Next]_vars
  PROVE  TypeOK' /\ Locals'
<1> USE MaxAssumption DEF Goto, TypeOK, Locals, Labels, Words, NoWord, Committed, Elsewhere
<1>0. waiters \in Nat
      BY Finite DEF WaitersCounted, Counted
<1>1. ASSUME NEW t \in Threads, NEW k \in {"wait", "try"}, Begin(t, k)
      PROVE  TypeOK' /\ Locals'
      BY <1>1 DEF Begin
<1>2. ASSUME NEW t \in Threads, TryRead(t) PROVE TypeOK' /\ Locals'
      BY <1>2 DEF TryRead
<1>3. ASSUME NEW t \in Threads, TryCas(t) PROVE TypeOK' /\ Locals'
      <2>1. value' \in 0..Max
            BY <1>3 DEF TryCas, Unchanged
      <2>2. flag' \in BOOLEAN /\ ok' \in [Threads -> BOOLEAN]
            BY <1>3, Zenon DEF TryCas
      <2>3. val' \in [Threads -> Words]
            BY <1>3 DEF TryCas
      <2>4. waiters' \in Int /\ lw' \in [Threads -> Nat]
            BY <1>3 DEF TryCas
      <2>5. pc' \in [Threads -> Labels] /\ kind' \in [Threads -> {"wait", "try"}]
            BY <1>3 DEF TryCas
      <2>6. Locals'
            BY <1>3 DEF TryCas
      <2> QED
        BY <2>1, <2>2, <2>3, <2>4, <2>5, <2>6
<1>4. ASSUME NEW t \in Threads, CountIn(t) PROVE TypeOK' /\ Locals'
      BY <1>4 DEF CountIn
<1>5. ASSUME NEW t \in Threads, SetFlag(t) PROVE TypeOK' /\ Locals'
      BY <1>5 DEF SetFlag
<1>6. ASSUME NEW t \in Threads, FutexWait(t) PROVE TypeOK' /\ Locals'
      BY <1>6 DEF FutexWait
<1>7. ASSUME NEW t \in Threads, Interrupted(t) PROVE TypeOK' /\ Locals'
      BY <1>7 DEF Interrupted
<1>8. ASSUME NEW t \in Threads, SpuriousWake(t) PROVE TypeOK' /\ Locals'
      BY <1>8 DEF SpuriousWake
<1>9. ASSUME NEW t \in Threads, CountOut(t) PROVE TypeOK' /\ Locals'
      BY <1>9 DEF CountOut
<1>10. ASSUME NEW t \in Threads, PostRead(t) PROVE TypeOK' /\ Locals'
       BY <1>10 DEF PostRead
<1>11. ASSUME NEW t \in Threads, PostReadWaiters(t) PROVE TypeOK' /\ Locals'
       <2>1. flag' \in BOOLEAN /\ ok' \in [Threads -> BOOLEAN]
             BY <1>11, Zenon DEF PostReadWaiters
       <2>2. val' \in [Threads -> Words] /\ lw' \in [Threads -> Nat]
             <3>1. NoWord \in Words
                   OBVIOUS
             <3>2. val' = val \/ val' = [val EXCEPT ![t] = NoWord]
                   BY <1>11 DEF PostReadWaiters
             <3>3. lw' = lw \/ lw' = [lw EXCEPT ![t] = waiters]
                   BY <1>11 DEF PostReadWaiters
             <3> HIDE DEF NoWord, Words
             <3> QED
               BY <1>0, <3>1, <3>2, <3>3
       <2>3. TypeOK'
             BY <1>11, <2>1, <2>2 DEF PostReadWaiters
       <2>4. Locals'
             BY <1>11 DEF PostReadWaiters
       <2> QED
         BY <2>3, <2>4
<1>12. ASSUME NEW t \in Threads, PostCas(t) PROVE TypeOK' /\ Locals'
       <2>1. value' \in 0..Max
             <3>1. value' = value \/ (value' = value + 1 /\ value # Max)
                   BY <1>12 DEF PostCas, Unchanged
             <3> QED
               BY <3>1
       <2>2. flag' \in BOOLEAN /\ ok' \in [Threads -> BOOLEAN]
             BY <1>12, Zenon DEF PostCas
       <2>3. val' \in [Threads -> Words]
             BY <1>12 DEF PostCas
       <2>4. waiters' \in Int /\ lw' \in [Threads -> Nat]
             BY <1>12 DEF PostCas
       <2>5. pc' \in [Threads -> Labels] /\ kind' \in [Threads -> {"wait", "try"}]
             BY <1>12 DEF PostCas
       <2>6. Locals'
             BY <1>12 DEF PostCas
       <2> QED
         BY <2>1, <2>2, <2>3, <2>4, <2>5, <2>6
<1>13. ASSUME NEW t \in Threads, PostWake(t) PROVE TypeOK' /\ Locals'
       <2>1. PICK W \in SUBSET Sleepers :
                /\ pc' = [u \in Threads |-> IF u = t THEN "idle"
                                            ELSE IF u \in W THEN "dec" ELSE pc[u]]
                /\ ok' = [u \in Threads |-> ok[u] \/ u \in W]
             BY <1>13 DEF PostWake
       <2>4. ok' \in [Threads -> BOOLEAN]
             BY <2>1, Zenon
       <2>5. lw' \in [Threads -> Nat]
             BY <1>13 DEF PostWake
       <2>6. pc' \in [Threads -> Labels]
             BY <2>1
       <2>2. TypeOK'
             BY <1>13, <2>4, <2>5, <2>6 DEF PostWake
       <2>3. Locals'
             BY <1>13, <2>1 DEF PostWake, Sleepers
       <2> QED
         BY <2>2, <2>3
<1>14. CASE UNCHANGED vars
       BY <1>14 DEF vars
<1> QED
  BY <1>1, <1>2, <1>3, <1>4, <1>5, <1>6, <1>7, <1>8, <1>9, <1>10, <1>11, <1>12,
     <1>13, <1>14 DEF Next, Step

-----------------------------------------------------------------------------
(* The count of waiters *)

\* Nobody is around the futex call at first.
LEMMA CountedInit == Init => WaitersCounted
<1> SUFFICES ASSUME Init PROVE WaitersCounted
    OBVIOUS
<1>1. Counted = {}
      BY DEF Init, Counted
<1> QED
  BY <1>1, FS_EmptySet DEF Init, WaitersCounted

\* A step that moves nobody to or from the futex call, and does not touch
\* __val[1].
LEMMA CountedKept ==
  ASSUME WaitersCounted, waiters' = waiters,
         \A u \in Threads : u \in Counted' <=> u \in Counted
  PROVE  WaitersCounted'
<1>1. Counted' = Counted
      BY DEF Counted
<1> QED
  BY <1>1 DEF WaitersCounted

\* Every step keeps __val[1] the number of threads around the futex call.
LEMMA CountedNext ==
  ASSUME TypeOK, WaitersCounted, [Next]_vars
  PROVE  WaitersCounted'
<1> USE DEF Goto, TypeOK
<1>1. ASSUME NEW t \in Threads, CountIn(t) PROVE WaitersCounted'
      <2>1. Counted' = Counted \cup {t} /\ t \notin Counted
            BY <1>1 DEF CountIn, Counted
      <2> QED
        BY <1>1, <2>1, OneMore DEF CountIn, Counted, WaitersCounted
<1>2. ASSUME NEW t \in Threads, CountOut(t) PROVE WaitersCounted'
      <2>1. Counted' = Counted \ {t} /\ t \in Counted
            BY <1>2 DEF CountOut, Counted
      <2> QED
        BY <1>2, <2>1, OneMore DEF CountOut, Counted, WaitersCounted
<1>3. ASSUME NEW t \in Threads,
             \/ \E k \in {"wait", "try"} : Begin(t, k)
             \/ TryRead(t) \/ TryCas(t)
      PROVE  WaitersCounted'
      BY <1>3, CountedKept DEF Begin, TryRead, TryCas, Counted
<1>4. ASSUME NEW t \in Threads,
             SetFlag(t) \/ FutexWait(t) \/ Interrupted(t) \/ SpuriousWake(t)
      PROVE  WaitersCounted'
      BY <1>4, CountedKept DEF SetFlag, FutexWait, Interrupted, SpuriousWake, Counted
<1>5. ASSUME NEW t \in Threads, PostRead(t) \/ PostReadWaiters(t) \/ PostCas(t)
      PROVE  WaitersCounted'
      BY <1>5, CountedKept DEF PostRead, PostReadWaiters, PostCas, Counted
<1>6. ASSUME NEW t \in Threads, PostWake(t) PROVE WaitersCounted'
      <2>1. PICK W \in SUBSET Sleepers :
               pc' = [u \in Threads |-> IF u = t THEN "idle"
                                        ELSE IF u \in W THEN "dec" ELSE pc[u]]
            BY <1>6 DEF PostWake
      <2> QED
        BY <1>6, <2>1, CountedKept DEF PostWake, Sleepers, Counted
<1>7. CASE UNCHANGED vars
      BY <1>7, CountedKept DEF vars, Counted
<1> QED
  BY <1>1, <1>2, <1>3, <1>4, <1>5, <1>6, <1>7 DEF Next, Step

-----------------------------------------------------------------------------
(* Wake-ups *)

\* Nobody sleeps at first.
LEMMA WakesInit == Init => SleepersAnnounced /\ WakesCoverValue
BY DEF Init, SleepersAnnounced, WakesCoverValue, Sleepers

\* Every step keeps sleepers announced: the post that drops the flag is the one
\* that wakes everybody (sem_post.c:16-19).
LEMMA AnnouncedNext ==
  ASSUME TypeOK, SleepersAnnounced, [Next]_vars
  PROVE  SleepersAnnounced'
<1> USE DEF Goto, TypeOK
<1> SUFFICES ASSUME NEW z \in Threads, pc'[z] = "asleep"
             PROVE  flag' \/ \E u \in Threads : pc'[u] = "pwake" /\ lw'[u] <= 1
    BY DEF SleepersAnnounced, Sleepers, WakingAll, WakesAll
<1> DEFINE Cover == flag \/ \E u \in Threads : pc[u] = "pwake" /\ lw[u] <= 1
<1>1. pc[z] = "asleep" => Cover
      BY DEF SleepersAnnounced, Sleepers, WakingAll, WakesAll
<1>2. ASSUME NEW t \in Threads,
             \/ \E k \in {"wait", "try"} : Begin(t, k)
             \/ TryRead(t) \/ TryCas(t) \/ CountIn(t) \/ SetFlag(t)
             \/ FutexWait(t) \/ Interrupted(t) \/ SpuriousWake(t) \/ CountOut(t)
             \/ PostRead(t) \/ PostReadWaiters(t)
      PROVE  flag' \/ \E u \in Threads : pc'[u] = "pwake" /\ lw'[u] <= 1
      BY <1>1, <1>2 DEF Begin, TryRead, TryCas, CountIn, SetFlag, FutexWait, Interrupted,
                        SpuriousWake, CountOut, PostRead, PostReadWaiters
<1>3. ASSUME NEW t \in Threads, PostCas(t)
      PROVE  flag' \/ \E u \in Threads : pc'[u] = "pwake" /\ lw'[u] <= 1
      BY <1>1, <1>3 DEF PostCas, Unchanged
<1>4. ASSUME NEW t \in Threads, PostWake(t)
      PROVE  flag' \/ \E u \in Threads : pc'[u] = "pwake" /\ lw'[u] <= 1
      BY <1>1, <1>4 DEF PostWake, WakesAll, Sleepers
<1>5. CASE UNCHANGED vars
      BY <1>1, <1>5 DEF vars
<1> QED
  BY <1>2, <1>3, <1>4, <1>5 DEF Next, Step

\* A step that wakes nobody, takes nobody's attempt away and adds no unit.
LEMMA CoverKept ==
  ASSUME TypeOK, TypeOK', WakesCoverValue, value' <= value,
         \A u \in Threads :
            /\ u \in Sleepers' => u \in Sleepers
            /\ u \in Retrying => u \in Retrying'
            /\ u \in WakingAll => u \in WakingAll'
            /\ u \in WakingOne => u \in WakingOne'
  PROVE  WakesCoverValue'
<1>1. /\ Retrying \in SUBSET Retrying' /\ Retrying' \in SUBSET Threads
      /\ WakingOne \in SUBSET WakingOne' /\ WakingOne' \in SUBSET Threads
      BY DEF Retrying, WakingOne
<1>2. /\ Cardinality(Retrying) <= Cardinality(Retrying')
      /\ Cardinality(WakingOne) <= Cardinality(WakingOne')
      /\ Cardinality(Retrying) \in Nat /\ Cardinality(Retrying') \in Nat
      /\ Cardinality(WakingOne) \in Nat /\ Cardinality(WakingOne') \in Nat
      BY <1>1, Finite
<1>3. Sleepers' # {} => Sleepers # {}
      BY DEF Sleepers
<1>4. WakingAll # {} => WakingAll' # {}
      BY DEF WakingAll
<1>5. value \in Int /\ value' \in Int
      BY MaxAssumption DEF TypeOK
<1> QED
  BY <1>2, <1>3, <1>4, <1>5 DEF WakesCoverValue

\* A step that takes a unit, and with it perhaps one thread's attempt.
LEMMA CoverTaken ==
  ASSUME TypeOK, TypeOK', WakesCoverValue, value' = value - 1, NEW t \in Threads,
         \A u \in Threads :
            /\ u \in Sleepers' => u \in Sleepers
            /\ u # t /\ u \in Retrying => u \in Retrying'
            /\ u \in WakingAll => u \in WakingAll'
            /\ u \in WakingOne => u \in WakingOne'
  PROVE  WakesCoverValue'
<1>1. /\ Retrying \ {t} \in SUBSET Retrying' /\ Retrying' \in SUBSET Threads
      /\ Retrying \in SUBSET Threads
      /\ WakingOne \in SUBSET WakingOne' /\ WakingOne' \in SUBSET Threads
      BY DEF Retrying, WakingOne
<1>2. /\ Cardinality(Retrying \ {t}) <= Cardinality(Retrying')
      /\ Cardinality(WakingOne) <= Cardinality(WakingOne')
      /\ Cardinality(Retrying) \in Nat /\ Cardinality(Retrying') \in Nat
      /\ Cardinality(Retrying \ {t}) \in Nat
      /\ Cardinality(WakingOne) \in Nat /\ Cardinality(WakingOne') \in Nat
      BY <1>1, Finite
<1>3. Cardinality(Retrying) - 1 <= Cardinality(Retrying \ {t})
      <2>1. CASE t \in Retrying
            BY <1>1, <1>2, <2>1, OneMore
      <2>2. CASE t \notin Retrying
            <3>1. Retrying \ {t} = Retrying
                  BY <2>2
            <3> QED
              BY <1>2, <3>1
      <2> QED
        BY <2>1, <2>2
<1>4. Sleepers' # {} => Sleepers # {}
      BY DEF Sleepers
<1>5. WakingAll # {} => WakingAll' # {}
      BY DEF WakingAll
<1>6. value \in Int
      BY MaxAssumption DEF TypeOK
<1> QED
  BY <1>2, <1>3, <1>4, <1>5, <1>6 DEF WakesCoverValue

\* Every step keeps a wake-up or a waking thread for every unit somebody sleeps
\* for.
LEMMA CoverNext ==
  ASSUME TypeOK, TypeOK', Locals, SleepersAnnounced, WakesCoverValue, [Next]_vars
  PROVE  WakesCoverValue'
<1> USE MaxAssumption DEF Goto, TypeOK
<1>1. ASSUME NEW t \in Threads, NEW k \in {"wait", "try"}, Begin(t, k)
      PROVE  WakesCoverValue'
      BY <1>1, CoverKept DEF Begin, Sleepers, Retrying, WakingAll, WakingOne, WakesAll
<1>2. ASSUME NEW t \in Threads, TryRead(t) PROVE WakesCoverValue'
      <2>1. CASE value > 0
            BY <1>2, <2>1, CoverKept
               DEF TryRead, Sleepers, Retrying, WakingAll, WakingOne, WakesAll
      <2>2. CASE ~(value > 0)
            <3>1. value' = 0
                  BY <1>2, <2>2 DEF TryRead
            <3>2. Cardinality(Retrying') \in Nat /\ Cardinality(WakingOne') \in Nat
                  BY Finite DEF Retrying, WakingOne
            <3> QED
              BY <3>1, <3>2 DEF WakesCoverValue
      <2> QED
        BY <2>1, <2>2
<1>3. ASSUME NEW t \in Threads, TryCas(t) PROVE WakesCoverValue'
      <2>1. CASE Unchanged(t)
            BY <1>3, <2>1, CoverTaken DEF TryCas, Unchanged, Sleepers, Retrying, WakingAll,
                                          WakingOne, WakesAll
      <2>2. CASE ~Unchanged(t)
            BY <1>3, <2>2, CoverKept DEF TryCas, Sleepers, Retrying, WakingAll, WakingOne,
                                         WakesAll
      <2> QED
        BY <2>1, <2>2
<1>4. ASSUME NEW t \in Threads, CountIn(t) \/ SetFlag(t) PROVE WakesCoverValue'
      BY <1>4, CoverKept DEF CountIn, SetFlag, Sleepers, Retrying, WakingAll, WakingOne,
                             WakesAll
<1>5. ASSUME NEW t \in Threads, FutexWait(t) PROVE WakesCoverValue'
      <2>1. CASE value = 0 /\ flag
            <3>1. value' = 0
                  BY <1>5, <2>1 DEF FutexWait
            <3>2. Cardinality(Retrying') \in Nat /\ Cardinality(WakingOne') \in Nat
                  BY Finite DEF Retrying, WakingOne
            <3> QED
              BY <3>1, <3>2 DEF WakesCoverValue
      <2>2. CASE ~(value = 0 /\ flag)
            BY <1>5, <2>2, CoverKept DEF FutexWait, Sleepers, Retrying, WakingAll, WakingOne,
                                         WakesAll
      <2> QED
        BY <2>1, <2>2
<1>6. ASSUME NEW t \in Threads, Interrupted(t) \/ SpuriousWake(t) PROVE WakesCoverValue'
      BY <1>6, CoverKept DEF Interrupted, SpuriousWake, Sleepers, Retrying, WakingAll,
                             WakingOne, WakesAll
<1>7. ASSUME NEW t \in Threads, CountOut(t) PROVE WakesCoverValue'
      BY <1>7, CoverKept DEF CountOut, Locals, Committed, Sleepers, Retrying, WakingAll,
                             WakingOne, WakesAll
<1>8. ASSUME NEW t \in Threads, PostRead(t) \/ PostReadWaiters(t) PROVE WakesCoverValue'
      BY <1>8, CoverKept DEF PostRead, PostReadWaiters, Sleepers, Retrying, WakingAll,
                             WakingOne, WakesAll
<1>9. ASSUME NEW t \in Threads, PostCas(t) PROVE WakesCoverValue'
      <2>1. CASE ~Unchanged(t)
            BY <1>9, <2>1, CoverKept DEF PostCas, Sleepers, Retrying, WakingAll, WakingOne,
                                         WakesAll
      <2>2. CASE Unchanged(t) /\ pc'[t] = "pwake" /\ lw[t] <= 1
            <3>1. t \in WakingAll'
                  BY <1>9, <2>2 DEF PostCas, WakingAll, WakesAll
            <3> QED
              BY <3>1 DEF WakesCoverValue
      <2>3. CASE Unchanged(t) /\ pc'[t] = "pwake" /\ ~(lw[t] <= 1)
            <3>1. /\ WakingOne' = WakingOne \cup {t} /\ t \notin WakingOne
                  /\ WakingOne \in SUBSET Threads
                  BY <1>9, <2>3 DEF PostCas, WakingOne, WakesAll
            <3>2. Cardinality(WakingOne') = Cardinality(WakingOne) + 1
                  BY <3>1, OneMore
            <3>3. Retrying' = Retrying /\ Sleepers' = Sleepers /\ WakingAll' = WakingAll
                  BY <1>9, <2>3 DEF PostCas, Retrying, Sleepers, WakingAll, WakesAll
            <3>4. Cardinality(Retrying) \in Nat /\ Cardinality(WakingOne) \in Nat
                  BY Finite DEF Retrying, WakingOne
            <3>5. value' = value + 1
                  BY <1>9, <2>3 DEF PostCas, Unchanged
            <3> QED
              BY <3>2, <3>3, <3>4, <3>5 DEF WakesCoverValue
      <2>4. CASE Unchanged(t) /\ pc'[t] = "idle"
            <3>1. ~flag
                  BY <1>9, <2>4 DEF PostCas, Unchanged
            <3>2. Sleepers' = Sleepers /\ WakingAll' = WakingAll
                  BY <1>9, <2>4 DEF PostCas, Sleepers, WakingAll, WakesAll
            <3> QED
              BY <3>1, <3>2 DEF SleepersAnnounced, WakesCoverValue
      <2> QED
        BY <1>9, <2>1, <2>2, <2>3, <2>4 DEF PostCas
<1>10. ASSUME NEW t \in Threads, PostWake(t) PROVE WakesCoverValue'
       <2>1. PICK W \in SUBSET Sleepers :
                /\ IF WakesAll(t) THEN W = Sleepers
                   ELSE IF Sleepers = {} THEN W = {}
                   ELSE \E u \in Sleepers : W = {u}
                /\ pc' = [u \in Threads |-> IF u = t THEN "idle"
                                            ELSE IF u \in W THEN "dec" ELSE pc[u]]
                /\ ok' = [u \in Threads |-> ok[u] \/ u \in W]
             BY <1>10 DEF PostWake
       <2>2. CASE W = Sleepers
             <3>1. Sleepers' = {}
                   BY <2>1, <2>2 DEF Sleepers
             <3> QED
               BY <3>1 DEF WakesCoverValue
       <2>3. CASE ~WakesAll(t) /\ W # Sleepers
             <3>1. PICK u \in Sleepers : W = {u}
                   BY <2>1, <2>3
             <3>2. u \in Threads /\ u # t /\ pc[u] = "asleep" /\ pc[t] = "pwake"
                   BY <1>10, <3>1 DEF Sleepers, PostWake
             <3>3. /\ WakingOne' = WakingOne \ {t} /\ t \in WakingOne
                   /\ WakingOne \in SUBSET Threads
                   BY <1>10, <2>1, <2>3, <3>1, <3>2, SMTT(60) DEF PostWake, WakingOne, WakesAll
             <3>4. /\ Retrying' = Retrying \cup {u} /\ u \notin Retrying
                   /\ Retrying \in SUBSET Threads
                   <4>1. \A x \in Threads : ok'[x] <=> ok[x] \/ x = u
                         BY <2>1, <3>1, Zenon
                   <4>2. \A x \in Threads :
                            /\ pc'[x] = "dec" <=> pc[x] = "dec" \/ x = u
                            /\ pc'[x] \in {"tread", "tcas"} <=> pc[x] \in {"tread", "tcas"}
                         BY <2>1, <3>1, <3>2
                   <4>3. kind' = kind
                         BY <1>10 DEF PostWake
                   <4>4. u \notin Retrying
                         BY <3>2 DEF Retrying
                   <4>5. \A x \in Threads : x \in Retrying' <=> x \in Retrying \/ x = u
                         BY <4>1, <4>2, <4>3, <3>2, Zenon DEF Retrying
                   <4> QED
                     BY <3>2, <4>4, <4>5 DEF Retrying
             <3>5. /\ Cardinality(WakingOne') = Cardinality(WakingOne) - 1
                   /\ Cardinality(Retrying') = Cardinality(Retrying) + 1
                   /\ Cardinality(WakingOne) \in Nat /\ Cardinality(Retrying) \in Nat
                   BY <3>2, <3>3, <3>4, OneMore, Finite
             <3>6. WakingAll' = WakingAll
                   BY <1>10, <2>1, <2>3, <3>1, <3>2 DEF PostWake, WakingAll, WakesAll
             <3>7. Sleepers # {} /\ value' = value
                   BY <1>10, <3>1 DEF PostWake
             <3> QED
               BY <3>5, <3>6, <3>7 DEF WakesCoverValue
       <2> QED
         BY <2>1, <2>2, <2>3
<1>11. CASE UNCHANGED vars
       BY <1>11, CoverKept DEF vars, Sleepers, Retrying, WakingAll, WakingOne, WakesAll
<1> QED
  BY <1>1, <1>2, <1>3, <1>4, <1>5, <1>6, <1>7, <1>8, <1>9, <1>10, <1>11 DEF Next, Step

-----------------------------------------------------------------------------
\* The invariant holds in every reachable state, for every set of threads.
THEOREM Invariance == Spec => []IInv
<1>1. Init => IInv
      BY TypeInit, CountedInit, WakesInit DEF IInv
<1>2. IInv /\ [Next]_vars => IInv'
      <2> SUFFICES ASSUME IInv, [Next]_vars PROVE IInv'
          OBVIOUS
      <2>1. TypeOK' /\ Locals'
            BY TypeNext DEF IInv
      <2>2. WaitersCounted' /\ SleepersAnnounced' /\ WakesCoverValue'
            BY <2>1, CountedNext, AnnouncedNext, CoverNext DEF IInv
      <2> QED
        BY <2>1, <2>2 DEF IInv
<1> QED
  BY <1>1, <1>2, PTL DEF Spec

\* Types are kept; in particular no sequence of posts and waits drives the
\* count of a semaphore out of 0..SEM_VALUE_MAX.
THEOREM TypeCorrect == Spec => []TypeOK
<1>1. IInv => TypeOK
      BY DEF IInv
<1> QED
  BY <1>1, Invariance, PTL

\* __val[1] is the number of threads around the futex call of sem_timedwait,
\* however their waits end.
THEOREM WaitersAreCounted == Spec => []WaitersCounted
<1>1. IInv => WaitersCounted
      BY DEF IInv
<1> QED
  BY <1>1, Invariance, PTL

\* While threads sleep, sem_post finds out: by the flag, or because a post that
\* took the flag away is about to wake them all.
THEOREM SleepersAreAnnounced == Spec => []SleepersAnnounced
<1>1. IInv => SleepersAnnounced
      BY DEF IInv
<1> QED
  BY <1>1, Invariance, PTL

\* While threads sleep, no unit of the count is without a thread that will try
\* to take it or a wake-up on its way (sem_post.c:16-19, sem_timedwait.c:20-31).
THEOREM UnitsAreCovered == Spec => []WakesCoverValue
<1>1. IInv => WakesCoverValue
      BY DEF IInv
<1> QED
  BY <1>1, Invariance, PTL

-----------------------------------------------------------------------------
(* Refinement of the abstract semaphore *)

\* A step that changes neither the count nor who waits is invisible.
LEMMA StutterStep ==
  ASSUME value' = value, \A u \in Threads : kind'[u] = kind[u]
  PROVE  UNCHANGED Abs!vars
<1>1. {t \in Threads : kind'[t] = "wait"} = {t \in Threads : kind[t] = "wait"}
      OBVIOUS
<1> QED
  BY <1>1 DEF Abs!vars, sem_getvalue

\* Every step of the semaphore functions is a step of the abstract semaphore or
\* invisible to it.
LEMMA RefinesNext ==
  ASSUME IInv, [Next]_vars
  PROVE  [Abs!Next]_(Abs!vars)
<1> USE MaxAssumption DEF Goto, TypeOK, IInv, Locals, Committed, Elsewhere
<1>1. ASSUME NEW t \in Threads, NEW k \in {"wait", "try"}, Begin(t, k)
      PROVE  [Abs!Next]_(Abs!vars)
      <2>1. kind[t] = "try"
            BY <1>1 DEF Begin
      <2>2. CASE k = "wait"
            <3>1. Abs!Begin(t)
                  BY <1>1, <2>1, <2>2 DEF Begin, Abs!Begin, sem_getvalue
            <3> QED
              BY <3>1 DEF Abs!Next
      <2>3. CASE k = "try"
            BY <1>1, <2>1, <2>3, StutterStep DEF Begin
      <2> QED
        BY <2>2, <2>3
<1>2. ASSUME NEW t \in Threads, TryCas(t) PROVE [Abs!Next]_(Abs!vars)
      <2>1. CASE ~Unchanged(t)
            BY <1>2, <2>1, StutterStep DEF TryCas
      <2>2. ASSUME Unchanged(t) PROVE value > 0 /\ value' = value - 1
            BY <1>2, <2>2 DEF TryCas, Unchanged
      <2>3. CASE Unchanged(t) /\ kind[t] = "wait"
            <3>1. Abs!Take(t)
                  BY <1>2, <2>2, <2>3 DEF TryCas, Abs!Take, sem_getvalue
            <3> QED
              BY <3>1 DEF Abs!Next
      <2>4. CASE Unchanged(t) /\ kind[t] = "try"
            <3>1. Abs!TryTake
                  BY <1>2, <2>2, <2>4 DEF TryCas, Abs!TryTake, sem_getvalue
            <3> QED
              BY <3>1 DEF Abs!Next
      <2> QED
        BY <2>1, <2>3, <2>4
<1>3. ASSUME NEW t \in Threads, CountOut(t) PROVE [Abs!Next]_(Abs!vars)
      <2>1. kind[t] = "wait"
            BY <1>3 DEF CountOut
      <2>2. CASE ok[t]
            BY <1>3, <2>2, StutterStep DEF CountOut
      <2>3. CASE ~ok[t]
            <3>1. Abs!GiveUp(t)
                  BY <1>3, <2>1, <2>3 DEF CountOut, Abs!GiveUp, sem_getvalue
            <3> QED
              BY <3>1 DEF Abs!Next
      <2> QED
        BY <2>2, <2>3
<1>4. ASSUME NEW t \in Threads, PostCas(t) PROVE [Abs!Next]_(Abs!vars)
      <2>1. CASE ~Unchanged(t)
            BY <1>4, <2>1, StutterStep DEF PostCas
      <2>2. CASE Unchanged(t)
            <3>1. value # Max /\ value' = value + 1 /\ kind' = kind
                  BY <1>4, <2>2 DEF PostCas, Unchanged
            <3>2. Abs!Post
                  BY <3>1 DEF Abs!Post, sem_getvalue
            <3> QED
              BY <3>2 DEF Abs!Next
      <2> QED
        BY <2>1, <2>2
<1>5. ASSUME NEW t \in Threads,
             \/ TryRead(t) \/ CountIn(t) \/ SetFlag(t) \/ FutexWait(t)
             \/ Interrupted(t) \/ SpuriousWake(t)
             \/ PostRead(t) \/ PostReadWaiters(t) \/ PostWake(t)
      PROVE  [Abs!Next]_(Abs!vars)
      <2>1. value' = value /\ kind' = kind
            BY <1>5 DEF TryRead, CountIn, SetFlag, FutexWait, Interrupted, SpuriousWake,
                        PostRead, PostReadWaiters, PostWake
      <2> QED
        BY <2>1, StutterStep
<1>6. CASE UNCHANGED vars
      BY <1>6, StutterStep DEF vars
<1> QED
  BY <1>1, <1>2, <1>3, <1>4, <1>5, <1>6 DEF Next, Step

\* A semaphore fresh from sem_init is an abstract one nobody waits for.
LEMMA RefinesInit == Init => Abs!Init
BY DEF Init, Abs!Init, sem_getvalue

\* The semaphore functions implement a counting semaphore, for any set of
\* threads and any limit.
THEOREM SemaphoreRefines == Spec => ImplementsSemaphore
<1>1. IInv /\ [Next]_vars => [Abs!Next]_(Abs!vars)
      BY RefinesNext
<1> QED
  BY <1>1, RefinesInit, Invariance, PTL DEF Spec, ImplementsSemaphore, Abs!Spec
=============================================================================
