---------------------------- MODULE RWLockProofs ----------------------------
(***************************************************************************)
(* Proofs about read-write locks, for any finite set of threads and any    *)
(* limit on the readers.                                                   *)
(*                                                                         *)
(* The inductive invariant IInv adds to the invariants that TLC checks:    *)
(* Locals, what a thread remembers of the word; WaitersCounted; and        *)
(* UnlockSees, which says why reading the word and the count of waiters in *)
(* two steps is enough: whoever goes to sleep after the count was read has *)
(* marked the word, the mark stays while the lock is held, and so the      *)
(* compare-and-swap of the unlock fails.                                   *)
(***************************************************************************)
EXTENDS RWLock, FiniteSetTheorems, TLAPS

Waiting == {"look", "inc", "mark", "fwait", "asleep", "dec"}
Counted == {t \in Threads : pc[t] \in {"mark", "fwait", "asleep", "dec"}}

\* _rw_waiters counts exactly the threads around the futex call.
WaitersCounted == waiters = Cardinality(Counted)

\* What the locals of the functions say
Locals ==
    \A t \in Threads :
        /\ mode[t] = "none" <=> pc[t] \in {"idle", "uwake"}
        /\ pc[t] \in {"rread", "rcas"} => mode[t] = "r"
        /\ pc[t] = "wcas" => mode[t] = "w"
        /\ pc[t] \in Waiting => blocking[t]
        /\ pc[t] = "rcas" => val[t].n < Writer - 1
        /\ pc[t] \in {"inc", "mark", "fwait"} =>
              val[t].n # 0 /\ (mode[t] = "r" => val[t].n = Writer)
        /\ pc[t] = "fwait" => val[t].f

\* A free lock carries no mark.
FreeUnmarked == cnt = 0 => ~wait

\* An unlock that has seen neither a waiter nor a mark finds the word changed
\* if somebody sleeps.
UnlockSees ==
    \A t \in Threads :
        pc[t] = "ucas" /\ ~seen[t] /\ ~val[t].f => Sleepers = {} \/ wait

\* The inductive invariant
IInv == /\ TypeOK /\ Locals /\ FreeUnmarked
        /\ WordCountsHolders
        /\ WaitersCounted
        /\ UnlockSees
        /\ NoLostWake
        /\ ReadersSleepForWriters

-----------------------------------------------------------------------------
(* Counting threads *)

\* A set of threads is finite, and has no more members than a larger one.
LEMMA Finite ==
  ASSUME NEW S \in SUBSET Threads
  PROVE  /\ IsFiniteSet(S) /\ Cardinality(S) \in Nat
         /\ Cardinality(S) = 0 <=> S = {}
<1>1. IsFiniteSet(S)
      BY FS_Subset, ThreadsAssumption
<1> QED
  BY <1>1, FS_CardinalityType, FS_EmptySet

\* One thread more, one thread less.
LEMMA OneMore ==
  ASSUME NEW S \in SUBSET Threads, NEW t \in Threads
  PROVE  /\ t \notin S => Cardinality(S \cup {t}) = Cardinality(S) + 1
         /\ t \in S => Cardinality(S \ {t}) = Cardinality(S) - 1
BY Finite, FS_AddElement, FS_RemoveElement

\* A set of one is its only member.
LEMMA OnlyOne ==
  ASSUME NEW S \in SUBSET Threads, NEW t \in S, Cardinality(S) = 1
  PROVE  S = {t}
<1>1. S \ {t} \in SUBSET Threads
      OBVIOUS
<1>2. Cardinality(S \ {t}) = 0
      BY OneMore
<1>3. S \ {t} = {}
      BY <1>1, <1>2, Finite
<1> QED
  BY <1>3

-----------------------------------------------------------------------------
(* Types and locals *)

\* pthread_rwlock_init establishes the types and what is known of the locals.
LEMMA TypeInit == Init => TypeOK /\ Locals /\ FreeUnmarked
<1> SUFFICES ASSUME Init PROVE TypeOK /\ Locals /\ FreeUnmarked
    OBVIOUS
<1>1. NoWord \in Words
      BY WriterAssumption DEF NoWord, Words
<1>2. TypeOK
      <2>1. cnt \in 0..Writer /\ waiters \in Int
            BY WriterAssumption DEF Init
      <2>2. pc \in [Threads -> Labels] /\ mode \in [Threads -> {"r", "w", "none"}]
            BY DEF Init, Labels
      <2>3. val \in [Threads -> Words]
            BY <1>1 DEF Init
      <2>4. wait \in BOOLEAN
            BY Zenon DEF Init
      <2>5. /\ blocking \in [Threads -> BOOLEAN] /\ seen \in [Threads -> BOOLEAN]
            /\ ok \in [Threads -> BOOLEAN]
            BY Zenon DEF Init
      <2> QED
        BY <2>1, <2>2, <2>3, <2>4, <2>5, Zenon DEF TypeOK
<1>3. Locals /\ FreeUnmarked
      BY DEF Init, Locals, Waiting, FreeUnmarked
<1> QED
  BY <1>2, <1>3

\* A thread that holds the lock is counted in the word; alone if it is a writer
\* or the last reader.
LEMMA Owner ==
  ASSUME TypeOK, Locals, WordCountsHolders, NEW t \in Threads, pc[t] \in Owning
  PROVE  /\ cnt >= 1
         /\ mode[t] = "r" => cnt # Writer
         /\ mode[t] = "w" => cnt = Writer
         /\ cnt \in {1, Writer} => \A u \in Threads : pc[u] \in Owning => u = t
<1> USE WriterAssumption
<1>1. \A u \in Threads : pc[u] \in Owning => u \in Readers \/ u \in Writers
      BY DEF TypeOK, Locals, Owning, Readers, Writers
<1>2. Readers \in SUBSET Threads /\ Writers \in SUBSET Threads
      BY DEF Readers, Writers
<1>3. CASE Writers = {} /\ cnt = Cardinality(Readers) /\ cnt # Writer
      <2>1. t \in Readers /\ cnt \in Nat /\ cnt # 0
            BY <1>1, <1>2, <1>3, Finite
      <2>2. cnt = 1 => Readers = {t}
            BY <1>2, <1>3, <2>1, OnlyOne
      <2>3. mode[t] = "r"
            BY <2>1 DEF Readers
      <2> QED
        BY <1>1, <1>3, <2>1, <2>2, <2>3
<1>4. CASE Readers = {} /\ cnt = Writer /\ \E u \in Threads : Writers = {u}
      <2>1. t \in Writers /\ mode[t] = "w"
            BY <1>1, <1>4 DEF Writers
      <2> QED
        BY <1>1, <1>4, <2>1
<1> QED
  BY <1>3, <1>4 DEF WordCountsHolders

\* Every step of the functions keeps them.
LEMMA TypeNext ==
  ASSUME TypeOK, Locals, FreeUnmarked, WordCountsHolders, [Next]_vars
  PROVE  TypeOK' /\ Locals' /\ FreeUnmarked'
<1> USE WriterAssumption DEF Goto, TypeOK, Locals, FreeUnmarked, Labels, Words, NoWord, Word,
                             Waiting, Fail, Succeed, Busy
<1> DEFINE Good == TypeOK' /\ Locals' /\ FreeUnmarked'
<1>1. ASSUME NEW t \in Threads, NEW m \in {"r", "w"}, NEW b \in BOOLEAN, Begin(t, m, b)
      PROVE  Good
      BY <1>1 DEF Begin
<1>2. ASSUME NEW t \in Threads, TryRead(t) PROVE Good
      <2>1. cnt' \in 0..Writer /\ waiters' \in Int
            BY <1>2 DEF TryRead
      <2>2. pc' \in [Threads -> Labels] /\ mode' \in [Threads -> {"r", "w", "none"}]
            BY <1>2, SMTT(60) DEF TryRead
      <2>3. wait' \in BOOLEAN
            BY <1>2, Zenon DEF TryRead
      <2>4. /\ blocking' \in [Threads -> BOOLEAN] /\ seen' \in [Threads -> BOOLEAN]
            /\ ok' \in [Threads -> BOOLEAN]
            BY <1>2, Zenon DEF TryRead
      <2>5. val' \in [Threads -> Words]
            BY <1>2 DEF TryRead
      <2>6. Locals'
            BY <1>2 DEF TryRead
      <2>7. FreeUnmarked'
            BY <1>2 DEF TryRead
      <2> QED
        BY <2>1, <2>2, <2>3, <2>4, <2>5, <2>6, <2>7, Zenon
<1>3. ASSUME NEW t \in Threads, TryReadCas(t) PROVE Good
      <2>1. cnt' \in 0..Writer /\ waiters' \in Int
            BY <1>3 DEF TryReadCas
      <2>2. pc' \in [Threads -> Labels] /\ mode' \in [Threads -> {"r", "w", "none"}]
            BY <1>3 DEF TryReadCas
      <2>3. wait' \in BOOLEAN
            BY <1>3, Zenon DEF TryReadCas
      <2>4. /\ blocking' \in [Threads -> BOOLEAN] /\ seen' \in [Threads -> BOOLEAN]
            /\ ok' \in [Threads -> BOOLEAN]
            BY <1>3, Zenon DEF TryReadCas
      <2>5. val' \in [Threads -> Words]
            BY <1>3 DEF TryReadCas
      <2>6. Locals'
            BY <1>3 DEF TryReadCas
      <2>7. FreeUnmarked'
            BY <1>3 DEF TryReadCas
      <2> QED
        BY <2>1, <2>2, <2>3, <2>4, <2>5, <2>6, <2>7, Zenon
<1>4. ASSUME NEW t \in Threads, TryWriteCas(t) PROVE Good
      <2>1. cnt' \in 0..Writer /\ waiters' \in Int
            BY <1>4 DEF TryWriteCas
      <2>2. pc' \in [Threads -> Labels] /\ mode' \in [Threads -> {"r", "w", "none"}]
            BY <1>4, ZenonT(60) DEF TryWriteCas
      <2>3. wait' \in BOOLEAN
            BY <1>4, Zenon DEF TryWriteCas
      <2>4. /\ blocking' \in [Threads -> BOOLEAN] /\ seen' \in [Threads -> BOOLEAN]
            /\ ok' \in [Threads -> BOOLEAN]
            BY <1>4, Zenon DEF TryWriteCas
      <2>5. val' \in [Threads -> Words]
            BY <1>4 DEF TryWriteCas
      <2>6. Locals'
            BY <1>4 DEF TryWriteCas
      <2>7. FreeUnmarked'
            BY <1>4 DEF TryWriteCas
      <2> QED
        BY <2>1, <2>2, <2>3, <2>4, <2>5, <2>6, <2>7, Zenon
<1>5. ASSUME NEW t \in Threads, Look(t) PROVE Good
      <2>1. cnt' \in 0..Writer /\ waiters' \in Int
            BY <1>5 DEF Look, Blocks, Attempt
      <2>2. pc' \in [Threads -> Labels] /\ mode' \in [Threads -> {"r", "w", "none"}]
            BY <1>5 DEF Look, Blocks, Attempt
      <2>3. wait' \in BOOLEAN
            BY <1>5, Zenon DEF Look
      <2>4. /\ blocking' \in [Threads -> BOOLEAN] /\ seen' \in [Threads -> BOOLEAN]
            /\ ok' \in [Threads -> BOOLEAN]
            BY <1>5, Zenon DEF Look
      <2>5. val' \in [Threads -> Words]
            BY <1>5 DEF Look, Blocks, Attempt
      <2>6. Locals'
            <3>1. CASE Blocks(mode[t])
                  <4>1. cnt # 0 /\ (mode[t] = "r" => cnt = Writer)
                        <5>1. cnt = 0 => Word = NoWord
                              BY Zenon
                        <5> QED
                          BY <3>1, <5>1 DEF Blocks
                  <4>2. /\ pc' = [pc EXCEPT ![t] = "inc"]
                        /\ val' = [val EXCEPT ![t] = Word]
                        /\ mode' = mode /\ blocking' = blocking
                        BY <1>5, <3>1 DEF Look
                  <4> QED
                    BY <1>5, <4>1, <4>2 DEF Look
            <3>2. CASE ~Blocks(mode[t])
                  BY <1>5, <3>2 DEF Look, Attempt
            <3> QED
              BY <3>1, <3>2
      <2>7. FreeUnmarked'
            BY <1>5 DEF Look, Blocks, Attempt
      <2> QED
        BY <2>1, <2>2, <2>3, <2>4, <2>5, <2>6, <2>7, Zenon
<1>6. ASSUME NEW t \in Threads, CountIn(t) PROVE Good
      BY <1>6 DEF CountIn
<1>7. ASSUME NEW t \in Threads, Mark(t) PROVE Good
      <2>1. cnt' \in 0..Writer /\ waiters' \in Int
            BY <1>7 DEF Mark
      <2>2. pc' \in [Threads -> Labels] /\ mode' \in [Threads -> {"r", "w", "none"}]
            BY <1>7 DEF Mark
      <2>3. wait' \in BOOLEAN
            BY <1>7, Zenon DEF Mark
      <2>4. /\ blocking' \in [Threads -> BOOLEAN] /\ seen' \in [Threads -> BOOLEAN]
            /\ ok' \in [Threads -> BOOLEAN]
            BY <1>7, Zenon DEF Mark
      <2>5. val' \in [Threads -> Words]
            <3>1. val[t] \in Words
                  OBVIOUS
            <3>2. [val[t] EXCEPT !.f = TRUE] \in Words
                  BY <3>1
            <3>3. val' = [val EXCEPT ![t] = [val[t] EXCEPT !.f = TRUE]]
                  BY <1>7 DEF Mark
            <3> HIDE DEF Words
            <3> QED
              BY <3>2, <3>3
      <2>6. Locals'
            BY <1>7 DEF Mark
      <2>7. FreeUnmarked'
            BY <1>7 DEF Mark
      <2> QED
        BY <2>1, <2>2, <2>3, <2>4, <2>5, <2>6, <2>7, Zenon
<1>8. ASSUME NEW t \in Threads, FutexWait(t) PROVE Good
      <2>1. cnt' \in 0..Writer /\ waiters' \in Int
            BY <1>8 DEF FutexWait
      <2>2. pc' \in [Threads -> Labels] /\ mode' \in [Threads -> {"r", "w", "none"}]
            BY <1>8 DEF FutexWait
      <2>3. wait' \in BOOLEAN
            BY <1>8, Zenon DEF FutexWait
      <2>4. /\ blocking' \in [Threads -> BOOLEAN] /\ seen' \in [Threads -> BOOLEAN]
            /\ ok' \in [Threads -> BOOLEAN]
            BY <1>8, Zenon DEF FutexWait
      <2>5. val' \in [Threads -> Words]
            BY <1>8 DEF FutexWait
      <2>6. Locals'
            BY <1>8 DEF FutexWait
      <2>7. FreeUnmarked'
            BY <1>8 DEF FutexWait
      <2> QED
        BY <2>1, <2>2, <2>3, <2>4, <2>5, <2>6, <2>7, Zenon
<1>9. ASSUME NEW t \in Threads, TimeOut(t) PROVE Good
      BY <1>9 DEF TimeOut
<1>10. ASSUME NEW t \in Threads, SpuriousWake(t) PROVE Good
       BY <1>10 DEF SpuriousWake
<1>11. ASSUME NEW t \in Threads, CountOut(t) PROVE Good
       <2>1. cnt' \in 0..Writer /\ waiters' \in Int
             BY <1>11 DEF CountOut, Attempt
       <2>2. pc' \in [Threads -> Labels] /\ mode' \in [Threads -> {"r", "w", "none"}]
             BY <1>11, SMTT(60) DEF CountOut, Attempt
       <2>3. wait' \in BOOLEAN
             BY <1>11, Zenon DEF CountOut
       <2>4. /\ blocking' \in [Threads -> BOOLEAN] /\ seen' \in [Threads -> BOOLEAN]
             /\ ok' \in [Threads -> BOOLEAN]
             BY <1>11, Zenon DEF CountOut
       <2>5. val' \in [Threads -> Words]
             BY <1>11 DEF CountOut, Attempt
       <2>6. Locals'
             BY <1>11 DEF CountOut, Attempt
       <2>7. FreeUnmarked'
             BY <1>11 DEF CountOut, Attempt
       <2> QED
         BY <2>1, <2>2, <2>3, <2>4, <2>5, <2>6, <2>7, Zenon
<1>12. ASSUME NEW t \in Threads, UnlockRead(t) PROVE Good
       BY <1>12 DEF UnlockRead
<1>13. ASSUME NEW t \in Threads, UnlockReadWaiters(t) PROVE Good
       BY <1>13 DEF UnlockReadWaiters
<1>14. ASSUME NEW t \in Threads, UnlockCas(t) PROVE Good
       <2>1. cnt' \in 0..Writer /\ waiters' \in Int
             BY <1>14, Owner DEF UnlockCas, Frees, OwesWake, Owning
       <2>2. pc' \in [Threads -> Labels] /\ mode' \in [Threads -> {"r", "w", "none"}]
             BY <1>14 DEF UnlockCas, Frees, OwesWake, Owning
       <2>3. wait' \in BOOLEAN
             BY <1>14, Zenon DEF UnlockCas
       <2>4. /\ blocking' \in [Threads -> BOOLEAN] /\ seen' \in [Threads -> BOOLEAN]
             /\ ok' \in [Threads -> BOOLEAN]
             BY <1>14, Zenon DEF UnlockCas
       <2>5. val' \in [Threads -> Words]
             <3>1. val[t] \in Words /\ NoWord \in Words
                   OBVIOUS
             <3>2. [val[t] EXCEPT !.f = FALSE] \in Words
                   BY <3>1
             <3>3. \/ val' = [val EXCEPT ![t] = [val[t] EXCEPT !.f = FALSE]]
                   \/ val' = [val EXCEPT ![t] = NoWord]
                   BY <1>14 DEF UnlockCas
             <3> HIDE DEF Words, NoWord
             <3> QED
               BY <3>1, <3>2, <3>3
       <2>6. Locals'
             BY <1>14, Owner DEF UnlockCas, Frees, OwesWake, Owning
       <2>7. FreeUnmarked'
             <3>1. CASE Word = val[t] /\ Frees(t)
                   BY <1>14, <3>1, Zenon DEF UnlockCas
             <3>2. CASE Word = val[t] /\ ~Frees(t)
                   <4>1. cnt # 1 /\ cnt >= 1 /\ cnt' = cnt - 1
                         BY <1>14, <3>2, Owner DEF UnlockCas, Frees, Owning
                   <4> QED
                     BY <4>1
             <3>3. CASE Word # val[t]
                   BY <1>14, <3>3 DEF UnlockCas
             <3> QED
               BY <3>1, <3>2, <3>3
       <2> QED
         BY <2>1, <2>2, <2>3, <2>4, <2>5, <2>6, <2>7, Zenon
<1>15. ASSUME NEW t \in Threads, UnlockWake(t) PROVE Good
       BY <1>15 DEF UnlockWake, Sleepers
<1>16. CASE UNCHANGED vars
       BY <1>16 DEF vars
<1> QED
  BY <1>1, <1>2, <1>3, <1>4, <1>5, <1>6, <1>7, <1>8, <1>9, <1>10, <1>11, <1>12, <1>13,
     <1>14, <1>15, <1>16 DEF Next, Step

-----------------------------------------------------------------------------
(* The word counts the holders *)

\* Nobody holds a fresh lock and nobody waits for it.
LEMMA CountsInit == Init => WordCountsHolders /\ WaitersCounted
<1> SUFFICES ASSUME Init PROVE WordCountsHolders /\ WaitersCounted
    OBVIOUS
<1>1. Counted = {} /\ Readers = {} /\ Writers = {}
      BY DEF Init, Counted, Readers, Writers, Owning
<1>2. Cardinality({}) = 0
      BY FS_EmptySet
<1>3. WordCountsHolders
      BY <1>1, <1>2, WriterAssumption DEF Init, WordCountsHolders
<1> QED
  BY <1>1, <1>2, <1>3 DEF Init, WaitersCounted

\* A step that leaves the word and its holders alone.
LEMMA HoldersKept ==
  ASSUME WordCountsHolders, cnt' = cnt,
         \A u \in Threads : /\ u \in Readers' <=> u \in Readers
                            /\ u \in Writers' <=> u \in Writers
  PROVE  WordCountsHolders'
<1>1. Readers' = Readers /\ Writers' = Writers
      BY DEF Readers, Writers
<1> QED
  BY <1>1 DEF WordCountsHolders

\* Every step keeps the word the number of readers, or the writer's value.
LEMMA HoldersNext ==
  ASSUME TypeOK, Locals, WordCountsHolders, [Next]_vars
  PROVE  WordCountsHolders'
<1> USE WriterAssumption DEF Goto, TypeOK, Locals, Word, NoWord, Fail, Succeed, Busy, Owning
<1>0. Readers \in SUBSET Threads /\ Writers \in SUBSET Threads
      BY DEF Readers, Writers
<1>1. ASSUME NEW t \in Threads,
             \/ \E m \in {"r", "w"}, b \in BOOLEAN : Begin(t, m, b)
             \/ TryRead(t) \/ Look(t) \/ CountIn(t)
      PROVE  WordCountsHolders'
      BY <1>1, HoldersKept DEF Begin, TryRead, Look, CountIn, Attempt, Readers, Writers
<1>2. ASSUME NEW t \in Threads,
             Mark(t) \/ FutexWait(t) \/ TimeOut(t) \/ SpuriousWake(t) \/ CountOut(t)
      PROVE  WordCountsHolders'
      BY <1>2, HoldersKept DEF Mark, FutexWait, TimeOut, SpuriousWake, CountOut, Attempt,
                               Readers, Writers
<1>3. ASSUME NEW t \in Threads, TryReadCas(t) PROVE WordCountsHolders'
      <2>1. CASE Word = val[t]
            <3>1. cnt < Writer - 1 /\ cnt' = cnt + 1 /\ cnt' # Writer
                  BY <1>3, <2>1 DEF TryReadCas
            <3>2. Readers' = Readers \cup {t} /\ t \notin Readers /\ Writers' = Writers
                  BY <1>3, <2>1 DEF TryReadCas, Readers, Writers
            <3>3. Writers = {} /\ cnt = Cardinality(Readers)
                  BY <3>1 DEF WordCountsHolders
            <3>4. Cardinality(Readers') = Cardinality(Readers) + 1
                  BY <1>0, <3>2, OneMore
            <3> QED
              BY <3>1, <3>2, <3>3, <3>4 DEF WordCountsHolders
      <2>2. CASE Word # val[t]
            BY <1>3, <2>2, HoldersKept DEF TryReadCas, Readers, Writers
      <2> QED
        BY <2>1, <2>2
<1>4. ASSUME NEW t \in Threads, TryWriteCas(t) PROVE WordCountsHolders'
      <2>1. CASE Word = NoWord
            <3>1. cnt = 0 /\ cnt' = Writer
                  BY <1>4, <2>1 DEF TryWriteCas
            <3>2. Readers = {} /\ Writers = {}
                  BY <1>0, <3>1, Finite DEF WordCountsHolders
            <3>3. \A u \in Threads : pc[u] \notin Owning
                  BY <3>2 DEF Readers, Writers
            <3>4. Writers' = {t} /\ Readers' = {}
                  BY <1>4, <2>1, <3>3 DEF TryWriteCas, Readers, Writers
            <3> QED
              BY <3>1, <3>4 DEF WordCountsHolders
      <2>2. CASE Word # NoWord
            BY <1>4, <2>2, HoldersKept DEF TryWriteCas, Readers, Writers
      <2> QED
        BY <2>1, <2>2
<1>5. ASSUME NEW t \in Threads, UnlockRead(t) \/ UnlockReadWaiters(t)
      PROVE  WordCountsHolders'
      BY <1>5, HoldersKept DEF UnlockRead, UnlockReadWaiters, Readers, Writers
<1>6. ASSUME NEW t \in Threads, UnlockCas(t) PROVE WordCountsHolders'
      <2>1. CASE Word # val[t]
            BY <1>6, <2>1, HoldersKept DEF UnlockCas, Readers, Writers
      <2>2. CASE Word = val[t]
            <3>1. /\ Readers' = Readers \ {t} /\ Writers' = Writers \ {t}
                  /\ pc[t] \in Owning /\ (mode[t] = "r" \/ mode[t] = "w")
                  BY <1>6, <2>2 DEF UnlockCas, Readers, Writers
            <3>2. CASE mode[t] = "w"
                  <4>1. cnt = Writer /\ \A u \in Threads : pc[u] \in Owning => u = t
                        BY <3>1, <3>2, Owner
                  <4>2. Readers' = {} /\ Writers' = {}
                        BY <3>1, <4>1 DEF Readers, Writers
                  <4>3. cnt' = 0
                        BY <1>6, <2>2, <4>1 DEF UnlockCas, Frees
                  <4> QED
                    BY <4>2, <4>3, FS_EmptySet DEF WordCountsHolders
            <3>3. CASE mode[t] = "r"
                  <4>1. cnt >= 1 /\ cnt # Writer
                        BY <3>1, <3>3, Owner
                  <4>2. cnt' = cnt - 1
                        BY <1>6, <2>2, <4>1 DEF UnlockCas, Frees
                  <4>3. t \in Readers /\ Writers = {} /\ cnt = Cardinality(Readers)
                        BY <3>1, <3>3, <4>1 DEF Readers, WordCountsHolders
                  <4>4. Cardinality(Readers') = Cardinality(Readers) - 1
                        BY <1>0, <3>1, <4>3, OneMore
                  <4> QED
                    BY <3>1, <4>1, <4>2, <4>3, <4>4 DEF WordCountsHolders
            <3> QED
              BY <3>1, <3>2, <3>3
      <2> QED
        BY <2>1, <2>2
<1>7. ASSUME NEW t \in Threads, UnlockWake(t) PROVE WordCountsHolders'
      BY <1>7, HoldersKept DEF UnlockWake, Sleepers, Readers, Writers
<1>8. CASE UNCHANGED vars
      BY <1>8, HoldersKept DEF vars, Readers, Writers
<1> QED
  BY <1>1, <1>2, <1>3, <1>4, <1>5, <1>6, <1>7, <1>8 DEF Next, Step

\* A step that moves nobody to or from the futex call.
LEMMA CountedKept ==
  ASSUME WaitersCounted, waiters' = waiters,
         \A u \in Threads : u \in Counted' <=> u \in Counted
  PROVE  WaitersCounted'
<1>1. Counted' = Counted
      BY DEF Counted
<1> QED
  BY <1>1 DEF WaitersCounted

\* Every step keeps _rw_waiters the number of threads around the futex call.
LEMMA CountedNext ==
  ASSUME TypeOK, WaitersCounted, [Next]_vars
  PROVE  WaitersCounted'
<1> USE DEF Goto, TypeOK, Fail, Succeed, Busy
<1>1. ASSUME NEW t \in Threads, CountIn(t) PROVE WaitersCounted'
      <2>1. Counted' = Counted \cup {t} /\ t \notin Counted
            BY <1>1 DEF CountIn, Counted
      <2> QED
        BY <1>1, <2>1, OneMore DEF CountIn, Counted, WaitersCounted
<1>2. ASSUME NEW t \in Threads, CountOut(t) PROVE WaitersCounted'
      <2>1. Counted' = Counted \ {t} /\ t \in Counted
            BY <1>2 DEF CountOut, Attempt, Counted
      <2> QED
        BY <1>2, <2>1, OneMore DEF CountOut, Counted, WaitersCounted
<1>3. ASSUME NEW t \in Threads,
             \/ \E m \in {"r", "w"}, b \in BOOLEAN : Begin(t, m, b)
             \/ TryRead(t) \/ TryReadCas(t) \/ TryWriteCas(t) \/ Look(t)
      PROVE  WaitersCounted'
      <2>1. CASE \E m \in {"r", "w"}, b \in BOOLEAN : Begin(t, m, b)
            BY <2>1, CountedKept DEF Begin, Counted
      <2>2. CASE TryRead(t) \/ TryReadCas(t) \/ TryWriteCas(t)
            BY <2>2, CountedKept DEF TryRead, TryReadCas, TryWriteCas, Counted
      <2>3. CASE Look(t)
            BY <2>3, CountedKept DEF Look, Attempt, Counted
      <2> QED
        BY <1>3, <2>1, <2>2, <2>3
<1>4. ASSUME NEW t \in Threads, Mark(t) \/ FutexWait(t) \/ TimeOut(t) \/ SpuriousWake(t)
      PROVE  WaitersCounted'
      BY <1>4, CountedKept DEF Mark, FutexWait, TimeOut, SpuriousWake, Counted
<1>5. ASSUME NEW t \in Threads, UnlockRead(t) \/ UnlockReadWaiters(t) \/ UnlockCas(t)
      PROVE  WaitersCounted'
      BY <1>5, CountedKept DEF UnlockRead, UnlockReadWaiters, UnlockCas, Counted
<1>6. ASSUME NEW t \in Threads, UnlockWake(t) PROVE WaitersCounted'
      BY <1>6, CountedKept DEF UnlockWake, Sleepers, Counted
<1>7. CASE UNCHANGED vars
      BY <1>7, CountedKept DEF vars, Counted
<1> QED
  BY <1>1, <1>2, <1>3, <1>4, <1>5, <1>6, <1>7 DEF Next, Step

-----------------------------------------------------------------------------
(* Wake-ups *)

\* Nobody sleeps at first.
LEMMA WakesInit == Init => UnlockSees /\ NoLostWake /\ ReadersSleepForWriters
BY DEF Init, UnlockSees, NoLostWake, ReadersSleepForWriters, Sleepers

\* Every step keeps what an unlock between lines 10 and 12 may rely on.
LEMMA UnlockSeesNext ==
  ASSUME TypeOK, Locals, WordCountsHolders, WaitersCounted, UnlockSees, [Next]_vars
  PROVE  UnlockSees'
<1> USE DEF Goto, TypeOK, Word, NoWord, Fail, Succeed, Busy
<1> SUFFICES ASSUME NEW u \in Threads, pc'[u] = "ucas", ~seen'[u], ~val'[u].f,
                    NEW z \in Threads, pc'[z] = "asleep"
             PROVE  wait'
    BY DEF UnlockSees, Sleepers
<1>0. pc[u] = "ucas" /\ ~seen[u] /\ ~val[u].f /\ pc[z] = "asleep" => wait
      BY DEF UnlockSees, Sleepers
<1>1. ASSUME NEW t \in Threads,
             \/ \E m \in {"r", "w"}, b \in BOOLEAN : Begin(t, m, b)
             \/ TryRead(t) \/ TryReadCas(t) \/ TryWriteCas(t) \/ Look(t)
      PROVE  wait'
      <2>1. CASE \E m \in {"r", "w"}, b \in BOOLEAN : Begin(t, m, b)
            BY <1>0, <2>1 DEF Begin
      <2>2. CASE TryRead(t)
            BY <1>0, <2>2 DEF TryRead
      <2>3. CASE TryReadCas(t)
            BY <1>0, <2>3 DEF TryReadCas
      <2>4. CASE TryWriteCas(t)
            BY <1>0, <2>4 DEF TryWriteCas
      <2>5. CASE Look(t)
            BY <1>0, <2>5 DEF Look, Attempt
      <2> QED
        BY <1>1, <2>1, <2>2, <2>3, <2>4, <2>5
<1>2. ASSUME NEW t \in Threads, CountIn(t) \/ Mark(t) \/ TimeOut(t) \/ SpuriousWake(t)
      PROVE  wait'
      BY <1>0, <1>2 DEF CountIn, Mark, TimeOut, SpuriousWake
<1>3. ASSUME NEW t \in Threads, CountOut(t) PROVE wait'
      BY <1>0, <1>3 DEF CountOut, Attempt
<1>4. ASSUME NEW t \in Threads, FutexWait(t) PROVE wait'
      <2>1. CASE Word = val[t]
            BY <1>4, <2>1 DEF FutexWait, Locals
      <2>2. CASE Word # val[t]
            BY <1>0, <1>4, <2>2 DEF FutexWait
      <2> QED
        BY <2>1, <2>2
<1>5. ASSUME NEW t \in Threads, UnlockRead(t) PROVE wait'
      BY <1>0, <1>5 DEF UnlockRead
<1>6. ASSUME NEW t \in Threads, UnlockReadWaiters(t) PROVE wait'
      <2>1. CASE t = u
            <3>1. waiters = 0 /\ pc[z] = "asleep"
                  BY <1>6, <2>1 DEF UnlockReadWaiters
            <3>2. Counted = {}
                  BY <3>1, Finite DEF Counted, WaitersCounted
            <3> QED
              BY <3>1, <3>2 DEF Counted
      <2>2. CASE t # u
            BY <1>0, <1>6, <2>2 DEF UnlockReadWaiters
      <2> QED
        BY <2>1, <2>2
<1>7. ASSUME NEW t \in Threads, UnlockCas(t) PROVE wait'
      <2>1. t # u /\ pc[u] = "ucas" /\ pc[t] = "ucas" /\ wait
            BY <1>0, <1>7 DEF UnlockCas
      <2>2. CASE Word = val[t]
            <3>1. ~Frees(t)
                  <4>1. cnt \notin {1, Writer}
                        BY <2>1, Owner DEF Owning
                  <4>2. cnt = val[t].n
                        BY <2>2
                  <4> QED
                    BY <4>1, <4>2 DEF Frees
            <3>2. val[t].f
                  BY <2>1, <2>2
            <3>3. wait' = (val[t].f /\ ~Frees(t))
                  BY <1>7, <2>2, Zenon DEF UnlockCas
            <3> QED
              BY <3>1, <3>2, <3>3, Zenon
      <2>3. CASE Word # val[t]
            BY <1>7, <2>1, <2>3 DEF UnlockCas
      <2> QED
        BY <2>2, <2>3
<1>8. ASSUME NEW t \in Threads, UnlockWake(t) PROVE wait'
      BY <1>0, <1>8 DEF UnlockWake, Sleepers
<1>9. CASE UNCHANGED vars
      BY <1>0, <1>9 DEF vars
<1> QED
  BY <1>1, <1>2, <1>3, <1>4, <1>5, <1>6, <1>7, <1>8, <1>9 DEF Next, Step

\* An unlock that frees the lock and owes no wake-up leaves nobody asleep.
LEMMA NoWakeNoSleeper ==
  ASSUME TypeOK, UnlockSees, NEW t \in Threads, pc[t] = "ucas", Word = val[t],
         Frees(t), ~OwesWake(t)
  PROVE  Sleepers = {}
<1>1. ~seen[t] /\ ~val[t].f
      BY DEF OwesWake
<1>2. ~wait
      BY <1>1 DEF Word
<1> QED
  BY <1>1, <1>2 DEF UnlockSees

\* A thread that retries or is about to wake a sleeper remains one, or the lock
\* is not free.
LEMMA WakeKept ==
  ASSUME NoLostWake,
         cnt' = 0 => /\ cnt = 0
                     /\ \A u \in Threads :
                           /\ u \in Sleepers' => u \in Sleepers
                           /\ u \in Waking => u \in Waking'
                           /\ u \in Retrying => u \in Retrying'
  PROVE  NoLostWake'
BY DEF NoLostWake, Sleepers, Waking, Retrying

\* Every step keeps somebody minding a free lock that threads sleep on.
LEMMA WakeNext ==
  ASSUME TypeOK, TypeOK', Locals, FreeUnmarked, WordCountsHolders, UnlockSees, NoLostWake,
         [Next]_vars
  PROVE  NoLostWake'
<1> USE WriterAssumption DEF Goto, TypeOK, Word, NoWord, Fail, Succeed, Busy
<1>1. ASSUME NEW t \in Threads, NEW m \in {"r", "w"}, NEW b \in BOOLEAN, Begin(t, m, b)
      PROVE  NoLostWake'
      BY <1>1, WakeKept DEF Begin, Sleepers, Waking, Retrying
<1>2. ASSUME NEW t \in Threads, TryRead(t) PROVE NoLostWake'
      BY <1>2, WakeKept DEF TryRead, Sleepers, Waking, Retrying
<1>3. ASSUME NEW t \in Threads, TryReadCas(t) PROVE NoLostWake'
      BY <1>3, WakeKept, SMTT(60) DEF TryReadCas, Sleepers, Waking, Retrying
<1>4. ASSUME NEW t \in Threads, TryWriteCas(t) PROVE NoLostWake'
      BY <1>4, WakeKept, SMTT(60) DEF TryWriteCas, Sleepers, Waking, Retrying
<1>5. ASSUME NEW t \in Threads, Look(t) PROVE NoLostWake'
      <2>1. cnt = 0 => ~Blocks(mode[t])
            <3>1. cnt = 0 => Word = NoWord
                  BY Zenon DEF FreeUnmarked
            <3> QED
              BY <3>1 DEF Blocks
      <2> QED
        BY <1>5, <2>1, WakeKept DEF Look, Attempt, Sleepers, Waking, Retrying
<1>6. ASSUME NEW t \in Threads, CountIn(t) \/ Mark(t) \/ TimeOut(t) PROVE NoLostWake'
      BY <1>6, WakeKept DEF CountIn, Mark, TimeOut, Sleepers, Waking, Retrying
<1>7. ASSUME NEW t \in Threads, FutexWait(t) PROVE NoLostWake'
      <2>1. CASE Word = val[t]
            <3>1. val[t].n # 0
                  BY <1>7 DEF FutexWait, Locals
            <3>2. cnt' # 0
                  BY <1>7, <2>1, <3>1 DEF FutexWait
            <3> QED
              BY <3>2 DEF NoLostWake
      <2>2. CASE Word # val[t]
            BY <1>7, <2>2, WakeKept DEF FutexWait, Sleepers, Waking, Retrying
      <2> QED
        BY <2>1, <2>2
<1>8. ASSUME NEW t \in Threads, SpuriousWake(t) PROVE NoLostWake'
      BY <1>8, WakeKept DEF SpuriousWake, Sleepers, Waking, Retrying
<1>9. ASSUME NEW t \in Threads, CountOut(t) PROVE NoLostWake'
      BY <1>9, WakeKept, SMTT(60) DEF CountOut, Attempt, Locals, Waiting, Sleepers, Waking, Retrying
<1>10. ASSUME NEW t \in Threads, UnlockRead(t) \/ UnlockReadWaiters(t) PROVE NoLostWake'
       BY <1>10, WakeKept DEF UnlockRead, UnlockReadWaiters, Sleepers, Waking, Retrying
<1>11. ASSUME NEW t \in Threads, UnlockCas(t) PROVE NoLostWake'
       <2>1. CASE Word = val[t] /\ OwesWake(t)
             <3>1. t \in Waking'
                   BY <1>11, <2>1 DEF UnlockCas, Waking
             <3> QED
               BY <3>1 DEF NoLostWake
       <2>2. CASE Word = val[t] /\ ~OwesWake(t) /\ Frees(t)
             <3>1. Sleepers = {}
                   BY <1>11, <2>2, NoWakeNoSleeper DEF UnlockCas
             <3>2. Sleepers' = {}
                   BY <1>11, <2>2, <3>1 DEF UnlockCas, Sleepers
             <3> QED
               BY <3>2 DEF NoLostWake
       <2>3. CASE Word = val[t] /\ ~Frees(t)
             <3>1. cnt >= 1 /\ cnt # 1 /\ cnt' = cnt - 1
                   BY <1>11, <2>3, Owner DEF UnlockCas, Frees, Owning
             <3> QED
               BY <3>1 DEF NoLostWake
       <2>4. CASE Word # val[t]
             BY <1>11, <2>4, WakeKept DEF UnlockCas, Sleepers, Waking, Retrying
       <2> QED
         BY <2>1, <2>2, <2>3, <2>4
<1>12. ASSUME NEW t \in Threads, UnlockWake(t) PROVE NoLostWake'
       <2>1. PICK W \in SUBSET Sleepers :
                /\ IF WakesAll(t) THEN W = Sleepers
                   ELSE IF Sleepers = {} THEN W = {}
                   ELSE \E u \in Sleepers : W = {u}
                /\ pc' = [u \in Threads |-> IF u = t THEN "idle"
                                            ELSE IF u \in W THEN "dec" ELSE pc[u]]
                /\ ok' = [u \in Threads |-> ok[u] \/ u \in W]
             BY <1>12 DEF UnlockWake
       <2>2. CASE W = {}
             <3>1. Sleepers' = {}
                   BY <2>1, <2>2 DEF Sleepers
             <3> QED
               BY <3>1 DEF NoLostWake
       <2>3. CASE W # {}
             <3>1. PICK u \in W : TRUE
                   BY <2>3
             <3>2. u \in Threads /\ u # t
                   BY <1>12, <3>1 DEF UnlockWake, Sleepers
             <3>3. ok'[u]
                   BY <2>1, <3>1, <3>2, Zenon
             <3>4. pc'[u] = "dec"
                   BY <2>1, <3>1, <3>2
             <3>5. u \in Retrying'
                   BY <3>2, <3>3, <3>4 DEF Retrying
             <3> QED
               BY <3>5 DEF NoLostWake
       <2> QED
         BY <2>2, <2>3
<1>13. CASE UNCHANGED vars
       BY <1>13, WakeKept DEF vars, Sleepers, Waking, Retrying
<1> QED
  BY <1>1, <1>2, <1>3, <1>4, <1>5, <1>6, <1>7, <1>8, <1>9, <1>10, <1>11, <1>12, <1>13
     DEF Next, Step

\* A step that puts no reader to sleep, and leaves the writer or the wake-up of
\* everybody in place.
LEMMA ReadersKept ==
  ASSUME ReadersSleepForWriters,
         cnt = Writer => cnt' = Writer,
         \A u \in Threads :
            /\ pc'[u] = "asleep" /\ mode'[u] = "r" => pc[u] = "asleep" /\ mode[u] = "r"
            /\ u \in WakingAll => u \in WakingAll'
  PROVE  ReadersSleepForWriters'
<1>1. (\E u \in Sleepers' : mode'[u] = "r") => \E u \in Sleepers : mode[u] = "r"
      BY DEF Sleepers
<1>2. WakingAll # {} => WakingAll' # {}
      BY DEF WakingAll, Waking
<1> QED
  BY <1>1, <1>2 DEF ReadersSleepForWriters

\* Every step keeps a writer, or the wake-up of everybody by one, for the
\* readers that sleep.
LEMMA ReadersNext ==
  ASSUME TypeOK, Locals, WordCountsHolders, UnlockSees, ReadersSleepForWriters, [Next]_vars
  PROVE  ReadersSleepForWriters'
<1> USE WriterAssumption DEF Goto, TypeOK, Word, NoWord, Fail, Succeed, Busy
<1>1. ASSUME NEW t \in Threads,
             \/ \E m \in {"r", "w"}, b \in BOOLEAN : Begin(t, m, b)
             \/ TryRead(t) \/ Look(t) \/ CountIn(t)
      PROVE  ReadersSleepForWriters'
      <2>1. ASSUME NEW m \in {"r", "w"}, NEW b \in BOOLEAN, Begin(t, m, b)
            PROVE  ReadersSleepForWriters'
            BY <2>1, ReadersKept DEF Begin, WakingAll, Waking
      <2>2. CASE TryRead(t)
            BY <2>2, ReadersKept DEF TryRead, WakingAll, Waking
      <2>3. CASE Look(t) \/ CountIn(t)
            BY <2>3, ReadersKept DEF Look, CountIn, Attempt, WakingAll, Waking
      <2> QED
        BY <1>1, <2>1, <2>2, <2>3
<1>2. ASSUME NEW t \in Threads, TryReadCas(t) PROVE ReadersSleepForWriters'
      <2>1. cnt = Writer => cnt' = Writer
            BY <1>2 DEF TryReadCas, Locals
      <2>2. \A u \in Threads : /\ pc'[u] = "asleep" => pc[u] = "asleep" /\ mode'[u] = mode[u]
                               /\ pc[u] = "uwake" => pc'[u] = "uwake" /\ val'[u] = val[u]
            BY <1>2 DEF TryReadCas
      <2> QED
        BY <2>1, <2>2, ReadersKept DEF WakingAll, Waking
<1>3. ASSUME NEW t \in Threads, TryWriteCas(t) PROVE ReadersSleepForWriters'
      <2>1. cnt = Writer => cnt' = Writer
            BY <1>3 DEF TryWriteCas
      <2>2. \A u \in Threads : /\ pc'[u] = "asleep" => pc[u] = "asleep" /\ mode'[u] = mode[u]
                               /\ pc[u] = "uwake" => pc'[u] = "uwake" /\ val'[u] = val[u]
            BY <1>3 DEF TryWriteCas
      <2> QED
        BY <2>1, <2>2, ReadersKept DEF WakingAll, Waking
<1>4. ASSUME NEW t \in Threads, Mark(t) \/ TimeOut(t) \/ SpuriousWake(t) \/ CountOut(t)
      PROVE  ReadersSleepForWriters'
      BY <1>4, ReadersKept DEF Mark, TimeOut, SpuriousWake, CountOut, Attempt, WakingAll, Waking
<1>5. ASSUME NEW t \in Threads, FutexWait(t) PROVE ReadersSleepForWriters'
      <2>1. CASE Word = val[t] /\ mode[t] = "r"
            <3>1. cnt' = Writer
                  <4>1. val[t].n = Writer
                        BY <1>5, <2>1 DEF FutexWait, Locals
                  <4> QED
                    BY <1>5, <2>1, <4>1 DEF FutexWait
            <3> QED
              BY <3>1 DEF ReadersSleepForWriters
      <2>2. CASE ~(Word = val[t] /\ mode[t] = "r")
            BY <1>5, <2>2, ReadersKept DEF FutexWait, WakingAll, Waking
      <2> QED
        BY <2>1, <2>2
<1>6. ASSUME NEW t \in Threads, UnlockRead(t) \/ UnlockReadWaiters(t)
      PROVE  ReadersSleepForWriters'
      BY <1>6, ReadersKept DEF UnlockRead, UnlockReadWaiters, WakingAll, Waking
<1>7. ASSUME NEW t \in Threads, UnlockCas(t) PROVE ReadersSleepForWriters'
      <2>1. CASE Word # val[t]
            BY <1>7, <2>1, ReadersKept DEF UnlockCas, WakingAll, Waking
      <2>2. CASE Word = val[t] /\ cnt # Writer
            BY <1>7, <2>2, ReadersKept DEF UnlockCas, WakingAll, Waking
      <2>3. CASE Word = val[t] /\ cnt = Writer /\ OwesWake(t)
            <3>1. t \in WakingAll'
                  BY <1>7, <2>3 DEF UnlockCas, WakingAll, Waking
            <3> QED
              BY <3>1 DEF ReadersSleepForWriters
      <2>4. CASE Word = val[t] /\ cnt = Writer /\ ~OwesWake(t)
            <3>1. Frees(t)
                  BY <2>4 DEF Frees
            <3>2. Sleepers = {}
                  BY <1>7, <2>4, <3>1, NoWakeNoSleeper DEF UnlockCas
            <3>3. Sleepers' = {}
                  BY <1>7, <2>4, <3>2 DEF UnlockCas, Sleepers
            <3> QED
              BY <3>3 DEF ReadersSleepForWriters
      <2> QED
        BY <2>1, <2>2, <2>3, <2>4
<1>8. ASSUME NEW t \in Threads, UnlockWake(t) PROVE ReadersSleepForWriters'
      <2>1. CASE WakesAll(t)
            <3>1. pc' = [u \in Threads |-> IF u = t THEN "idle"
                                           ELSE IF u \in Sleepers THEN "dec" ELSE pc[u]]
                  BY <1>8, <2>1 DEF UnlockWake
            <3>2. Sleepers' = {}
                  BY <3>1 DEF Sleepers
            <3> QED
              BY <3>2 DEF ReadersSleepForWriters
      <2>2. CASE ~WakesAll(t)
            BY <1>8, <2>2, ReadersKept, SMTT(60) DEF UnlockWake, WakesAll, Sleepers, WakingAll, Waking
      <2> QED
        BY <2>1, <2>2
<1>9. CASE UNCHANGED vars
      BY <1>9, ReadersKept DEF vars, WakingAll, Waking
<1> QED
  BY <1>1, <1>2, <1>3, <1>4, <1>5, <1>6, <1>7, <1>8, <1>9 DEF Next, Step

-----------------------------------------------------------------------------
\* The invariant holds in every reachable state, for every set of threads.
THEOREM Invariance == Spec => []IInv
<1>1. Init => IInv
      BY TypeInit, CountsInit, WakesInit DEF IInv
<1>2. IInv /\ [Next]_vars => IInv'
      <2> SUFFICES ASSUME IInv, [Next]_vars PROVE IInv'
          OBVIOUS
      <2>1. TypeOK' /\ Locals' /\ FreeUnmarked'
            BY TypeNext DEF IInv
      <2>2. WordCountsHolders' /\ WaitersCounted'
            BY HoldersNext, CountedNext DEF IInv
      <2>3. UnlockSees' /\ NoLostWake' /\ ReadersSleepForWriters'
            BY <2>1, UnlockSeesNext, WakeNext, ReadersNext DEF IInv
      <2> QED
        BY <2>1, <2>2, <2>3 DEF IInv
<1> QED
  BY <1>1, <1>2, PTL DEF Spec

\* _rw_lock counts the readers or stands for the only writer: in particular the
\* limit of pthread_rwlock_tryrdlock.c:10 keeps readers from adding up to the
\* writer's value.
THEOREM WordIsHolders == Spec => [](TypeOK /\ WordCountsHolders)
<1>1. IInv => TypeOK /\ WordCountsHolders
      BY DEF IInv
<1> QED
  BY <1>1, Invariance, PTL

\* pthread_rwlock_unlock.c:14-15 loses no wake-up, although the word and the
\* count of waiters are read at different times.
THEOREM WakeUpsAreKept == Spec => [](NoLostWake /\ ReadersSleepForWriters)
<1>1. IInv => NoLostWake /\ ReadersSleepForWriters
      BY DEF IInv
<1> QED
  BY <1>1, Invariance, PTL

-----------------------------------------------------------------------------
(* Refinement of the abstract read-write lock *)

\* A step that moves no thread between asking, holding and neither is invisible.
LEMMA StutterStep ==
  ASSUME \A u \in Threads : /\ mode'[u] = mode[u]
                            /\ pc'[u] \in Owning <=> pc[u] \in Owning
  PROVE  UNCHANGED Abs!vars
BY DEF Abs!vars, Readers, Writers

\* A lock function that returns an error gives up.
LEMMA FailRefines ==
  ASSUME TypeOK, Locals, NEW t \in Threads, Fail(t), pc[t] \notin Owning, pc[t] # "idle",
         pc[t] # "uwake"
  PROVE  Abs!GiveUp(t)
BY DEF TypeOK, Locals, Fail, Goto, Owning, Readers, Writers, Abs!GiveUp

\* Every step of the functions is a step of the abstract lock or invisible to it.
LEMMA RefinesNext ==
  ASSUME IInv, [Next]_vars
  PROVE  [Abs!Next]_(Abs!vars)
<1> USE WriterAssumption DEF Goto, TypeOK, IInv, Locals, Owning, Word, NoWord
<1>0. Readers \in SUBSET Threads /\ Writers \in SUBSET Threads
      BY DEF Readers, Writers
<1>1. ASSUME NEW t \in Threads, NEW m \in {"r", "w"}, NEW b \in BOOLEAN, Begin(t, m, b)
      PROVE  [Abs!Next]_(Abs!vars)
      <2>1. CASE m = "r"
            <3>1. Abs!AskRead(t)
                  BY <1>1, <2>1 DEF Begin, Abs!AskRead, Abs!Busy, Readers, Writers
            <3> QED
              BY <3>1 DEF Abs!Next
      <2>2. CASE m = "w"
            <3>1. Abs!AskWrite(t)
                  BY <1>1, <2>2 DEF Begin, Abs!AskWrite, Abs!Busy, Readers, Writers
            <3> QED
              BY <3>1 DEF Abs!Next
      <2> QED
        BY <2>1, <2>2
<1>2. ASSUME NEW t \in Threads, TryRead(t) PROVE [Abs!Next]_(Abs!vars)
      <2>1. CASE Fail(t)
            BY <1>2, <2>1, FailRefines DEF TryRead, Abs!Next
      <2>2. CASE ~Fail(t)
            BY <1>2, <2>2, StutterStep DEF TryRead, Busy
      <2> QED
        BY <2>1, <2>2
<1>3. ASSUME NEW t \in Threads, TryReadCas(t) PROVE [Abs!Next]_(Abs!vars)
      <2>1. CASE Word = val[t]
            <3>1. Writers = {}
                  BY <1>3, <2>1, SMTT(60) DEF TryReadCas, WordCountsHolders
            <3>2. /\ mode' = mode /\ pc[t] \notin Owning /\ pc'[t] \in Owning
                  /\ \A u \in Threads \ {t} : pc'[u] = pc[u]
                  BY <1>3, <2>1 DEF TryReadCas, Succeed, Owning
            <3>3. mode[t] = "r"
                  BY <1>3 DEF TryReadCas
            <3>4. Abs!GrantRead(t)
                  BY <3>1, <3>2, <3>3 DEF Abs!GrantRead, Readers, Writers
            <3> QED
              BY <3>4 DEF Abs!Next
      <2>2. CASE Word # val[t]
            BY <1>3, <2>2, StutterStep DEF TryReadCas
      <2> QED
        BY <2>1, <2>2
<1>4. ASSUME NEW t \in Threads, TryWriteCas(t) PROVE [Abs!Next]_(Abs!vars)
      <2>1. CASE Word = NoWord
            <3>1. Writers = {} /\ Readers = {}
                  BY <1>0, <2>1, Finite, SMTT(60) DEF WordCountsHolders
            <3>2. \A u \in Threads : pc[u] \notin Owning
                  BY <3>1 DEF Readers, Writers
            <3>3. /\ mode' = mode /\ pc'[t] \in Owning
                  /\ \A u \in Threads \ {t} : pc'[u] = pc[u]
                  BY <1>4, <2>1 DEF TryWriteCas, Succeed, Owning
            <3>4. mode[t] = "w"
                  BY <1>4 DEF TryWriteCas
            <3>5. Abs!GrantWrite(t)
                  BY <3>1, <3>2, <3>3, <3>4 DEF Abs!GrantWrite, Readers, Writers
            <3> QED
              BY <3>5 DEF Abs!Next
      <2>2. CASE Word # NoWord /\ Fail(t)
            BY <1>4, <2>2, FailRefines DEF TryWriteCas, Abs!Next
      <2>3. CASE Word # NoWord /\ ~Fail(t)
            BY <1>4, <2>3, StutterStep DEF TryWriteCas, Busy
      <2> QED
        BY <2>1, <2>2, <2>3
<1>5. ASSUME NEW t \in Threads,
             \/ Look(t) \/ CountIn(t) \/ Mark(t) \/ FutexWait(t) \/ TimeOut(t)
             \/ SpuriousWake(t) \/ UnlockRead(t) \/ UnlockReadWaiters(t)
      PROVE  [Abs!Next]_(Abs!vars)
      BY <1>5, StutterStep DEF Look, Attempt, CountIn, Mark, FutexWait, TimeOut, SpuriousWake,
                               UnlockRead, UnlockReadWaiters
<1>6. ASSUME NEW t \in Threads, CountOut(t) PROVE [Abs!Next]_(Abs!vars)
      <2>1. CASE ok[t]
            BY <1>6, <2>1, StutterStep, SMTT(60) DEF CountOut, Attempt
      <2>2. CASE ~ok[t]
            BY <1>6, <2>2, FailRefines DEF CountOut, Abs!Next
      <2> QED
        BY <2>1, <2>2
<1>7. ASSUME NEW t \in Threads, UnlockCas(t) PROVE [Abs!Next]_(Abs!vars)
      <2>1. CASE Word = val[t]
            <3>1. Abs!Release(t)
                  BY <1>7, <2>1 DEF UnlockCas, Abs!Release, Readers, Writers
            <3> QED
              BY <3>1 DEF Abs!Next
      <2>2. CASE Word # val[t]
            BY <1>7, <2>2, StutterStep DEF UnlockCas
      <2> QED
        BY <2>1, <2>2
<1>8. ASSUME NEW t \in Threads, UnlockWake(t) PROVE [Abs!Next]_(Abs!vars)
      BY <1>8, StutterStep, SMTT(60) DEF UnlockWake, Sleepers
<1>9. CASE UNCHANGED vars
      BY <1>9, StutterStep DEF vars
<1> QED
  BY <1>1, <1>2, <1>3, <1>4, <1>5, <1>6, <1>7, <1>8, <1>9 DEF Next, Step

\* A lock fresh from pthread_rwlock_init is an abstract one nobody asks for.
LEMMA RefinesInit == Init => Abs!Init
BY DEF Init, Abs!Init, Readers, Writers, Owning

\* The functions implement a read-write lock, for any set of threads and any
\* limit on the readers.
THEOREM RWLockRefines == Spec => ImplementsRWLock
<1>1. IInv /\ [Next]_vars => [Abs!Next]_(Abs!vars)
      BY RefinesNext
<1> QED
  BY <1>1, RefinesInit, Invariance, PTL DEF Spec, ImplementsRWLock, Abs!Spec
=============================================================================
