---------------------------- MODULE MutexProofs ----------------------------
(***************************************************************************)
(* Proofs about Mutex, for the build that keeps robust lists (Linux): a    *)
(* mutex is a lock, its recorded owner holds it, the death of an owner is  *)
(* reported, an unrecoverable mutex stays so, and no wake-up is lost.      *)
(***************************************************************************)
EXTENDS MutexStepProofs

-----------------------------------------------------------------------------
(* Death and rebirth *)

\* A new thread is born.
LEMMA SpawnInv ==
  ASSUME IInv, NEW t \in Threads, Spawn(t)
  PROVE  IInv'
<1>1. /\ pc[t] = "dead" /\ pc' = [pc EXCEPT ![t] = "idle"]
      /\ UNCHANGED <<type, lock, waiters, count, robust, pending, mx, op, old, wk, gave, depth, told,
                     broken, swallowed, deaths>>
      BY DEF Spawn, Goto, memory, locals, callers
<1>2. /\ pc' \in [Threads -> Labels] /\ pc'[t] = "idle"
      /\ \A u \in Threads \ {t} : pc'[u] = pc[u]
      BY <1>1, GotoFacts, Zenon DEF IInv, Labels
<1>3. TypeOK' /\ \A u \in Threads \ {t} : Same(u)
      BY <1>1, <1>2, Zenon DEF IInv, TypeOK, Same
<1>4. WaitersCounted'
      BY <1>1, <1>2, CountedKept DEF IInv, Counting
<1>5. ~gave[t] /\ old[t] = Free /\ ~MindsStill(t, mx[t])
      BY <1>1 DEF IInv, Local, Remembers, MindsStill
<1> QED BY <1>1, <1>2, <1>3, <1>4, <1>5, Retreat, Zenon DEF Aside

\* The callers' view of a dead thread's mutexes
LEMMA OrphanFacts ==
  ASSUME TypeOK, NEW t \in Threads, Orphan(t)
  PROVE  /\ broken' \in [Mutexes -> BOOLEAN] /\ depth' \in [Threads -> [Mutexes -> Nat]]
         /\ deaths' \in Nat
         /\ \A m \in Mutexes : depth'[t][m] = 0 /\ broken'[m] = (broken[m] \/ depth[t][m] > 0)
         /\ \A u \in Threads \ {t} : depth'[u] = depth[u]
<1>1. depth \in [Threads -> [Mutexes -> Nat]] /\ broken \in [Mutexes -> BOOLEAN] /\ deaths \in Nat
      BY DEF TypeOK
<1>2. depth' = [depth EXCEPT ![t] = [m \in Mutexes |-> 0]]
      BY DEF Orphan
<1>3. /\ depth' \in [Threads -> [Mutexes -> Nat]] /\ depth'[t] = [m \in Mutexes |-> 0]
      /\ \A u \in Threads \ {t} : depth'[u] = depth[u]
      BY <1>1, <1>2
<1>4. /\ broken' \in [Mutexes -> BOOLEAN]
      /\ \A m \in Mutexes : broken'[m] = (broken[m] \/ depth[t][m] > 0)
      BY <1>1 DEF Orphan
<1> QED BY <1>1, <1>3, <1>4 DEF Orphan

\* A thread exits, and still owns what is on its list.
LEMMA ExitInv ==
  ASSUME IInv, NEW t \in Threads, Exit(t)
  PROVE  IInv'
<1>1. /\ pc[t] = "idle" /\ \A m \in Mutexes : depth[t][m] > 0 => Tracks(m)
      /\ pc' = [pc EXCEPT ![t] = "exit"]
      /\ UNCHANGED <<type, lock, waiters, count, robust, pending, mx, op, old, wk, gave, told,
                     swallowed>>
      BY DEF Exit, Goto, memory, locals
<1>2. /\ broken' \in [Mutexes -> BOOLEAN] /\ depth' \in [Threads -> [Mutexes -> Nat]]
      /\ deaths' \in Nat
      /\ \A m \in Mutexes : depth'[t][m] = 0 /\ broken'[m] = (broken[m] \/ depth[t][m] > 0)
      /\ \A u \in Threads \ {t} : depth'[u] = depth[u]
      BY OrphanFacts DEF IInv, Exit
<1>3. /\ pc' \in [Threads -> Labels] /\ pc'[t] = "exit"
      /\ \A u \in Threads \ {t} : pc'[u] = pc[u]
      BY <1>1, GotoFacts, Zenon DEF IInv, Labels, Exiting
<1>4. TypeOK' /\ \A u \in Threads \ {t} : Same(u)
      BY <1>1, <1>2, <1>3 DEF IInv, TypeOK, Same
<1>5. \A n : Tracks(n)' <=> Tracks(n)
      BY <1>1 DEF Tracks
<1>6. /\ robust[t] \in SUBSET Mutexes
      /\ \A n \in Mutexes : n \in robust[t] <=> Tracks(n) /\ depth[t][n] > 0
      BY <1>1, ListExact DEF Exiting
<1>7. \A u \in Threads : Local(u)'
  <2>1. ~gave[t] /\ old[t] = Free
        BY <1>1 DEF IInv, Local, Remembers
  <2>2. Remembers(t)'
        BY <1>1, <1>3, <2>1 DEF Remembers, Counting, Free
  <2>3. Lists(t)'
        BY <1>1, <1>2, <1>3, <1>5, <1>6 DEF Lists, Exiting
  <2>4. ASSUME NEW u \in Threads, u # t PROVE Local(u)'
        BY <1>1, <1>4, <2>4, LocalKept DEF IInv
  <2> QED BY <2>2, <2>3, <2>4 DEF Local
<1>8. ASSUME NEW u \in Threads, NEW n \in Mutexes
      PROVE  /\ Tracks(n) => (Holding(u, n)' <=> Holding(u, n))
             /\ ~Tracks(n) => (Has(u, n)' <=> Has(u, n))
  <2>1. CASE u = t
        BY <1>1, <1>2, <1>3, <1>6, <2>1 DEF Holding, Here, Has, Exiting
  <2>2. CASE u # t
        BY <1>4, <2>2 DEF Holding, Here, Has, Same
  <2> QED BY <2>1, <2>2
<1>9. Owner' /\ Plain'
  <2>1. Owner'
        BY <1>1, <1>5, <1>8 DEF IInv, Owner
  <2>2. Plain'
        BY <1>1, <1>5, <1>8 DEF IInv, Plain
  <2> QED BY <2>1, <2>2
<1>10. Account'
  <2> SUFFICES ASSUME NEW u \in Threads, NEW n \in Mutexes, lock[n].own = u
               PROVE  Knows(u, n)'
      BY <1>1 DEF Account
  <2>1. CASE u = t
        BY <1>2, <1>3, <2>1 DEF Knows
  <2>2. CASE u # t
    <3>1. Knows(u, n) /\ Same(u)
          BY <1>4, <2>2 DEF IInv, Account
    <3> QED BY <1>1, <3>1 DEF Knows, Same, Free, Unrecoverable
  <2> QED BY <2>1, <2>2
<1>11. Words0'
  <2> SUFFICES ASSUME NEW n \in Mutexes PROVE Says(n)'
      BY DEF Words0
  <2>1. Says(n)
        BY DEF IInv, Words0
  <2>2. depth[t][n] > 0 => lock[n].own = t /\ pc'[t] \in Exiting
        BY <1>1, <1>3 DEF IInv, Owner, Holding, Exiting
  <2>3. \A u \in Threads : pc[u] \in Exiting => pc'[u] \in Exiting
        BY <1>3 DEF Exiting
  <2> QED BY <1>1, <1>2, <2>1, <2>2, <2>3 DEF Says, Free
<1>12. WaitersCounted'
       BY <1>1, <1>3, CountedKept DEF IInv, Counting
<1>13. \A n \in Mutexes : Sleepers(n)' \subseteq Sleepers(n)
       BY <1>1, <1>3, Zenon DEF Sleepers
<1>14. ReleaserSees'
  <2>1. ASSUME NEW u \in Threads, NEW n \in Mutexes, Releases(u, n)' PROVE Releases(u, n)
        BY <1>1, <1>3, <1>5, <2>1, Zenon DEF Releases
  <2> QED BY <1>1, <1>13, <2>1, SeesKept DEF IInv
<1>15. WakeKept'
  <2>1. \A n \in Mutexes : Takeable(n)' <=> Takeable(n)
        BY <1>1 DEF Takeable, Free
  <2>2. ASSUME NEW u \in Threads, NEW n \in Mutexes, MindsStill(u, n) PROVE MindsStill(u, n)'
        BY <1>1, <1>3, <2>2 DEF MindsStill
  <2> QED BY <1>1, <1>13, <2>1, <2>2, MindKept, Zenon DEF IInv
<1> QED BY <1>4, <1>7, <1>9, <1>10, <1>11, <1>12, <1>14, <1>15 DEF IInv

\* The list is empty and the thread is gone.
LEMMA GoneInv ==
  ASSUME IInv, NEW t \in Threads, ExitNext(t), robust[t] = {}
  PROVE  IInv'
<1>1. /\ pc[t] = "exit" /\ pc' = [pc EXCEPT ![t] = "dead"]
      /\ UNCHANGED <<type, lock, waiters, count, robust, pending, mx, op, old, wk, gave, depth, told,
                     broken, swallowed, deaths>>
      BY DEF ExitNext, Goto, memory, callers
<1>2. /\ pc' \in [Threads -> Labels] /\ pc'[t] = "dead"
      /\ \A u \in Threads \ {t} : pc'[u] = pc[u]
      BY <1>1, GotoFacts, Zenon DEF IInv, Labels
<1>3. TypeOK' /\ \A u \in Threads \ {t} : Same(u)
      BY <1>1, <1>2, Zenon DEF IInv, TypeOK, Same
<1>4. /\ \A n : Tracks(n)' <=> Tracks(n)
      /\ \A n \in Mutexes : depth[t][n] = 0 /\ ~Holding(t, n)
  <2>1. \A n \in Mutexes : depth[t][n] = 0
        BY <1>1 DEF IInv, Local, Lists, Exiting
  <2> QED BY <1>1, <2>1 DEF Tracks, Holding, Here
<1>5. \A u \in Threads : Local(u)'
  <2>1. ~gave[t] /\ old[t] = Free
        BY <1>1 DEF IInv, Local, Remembers
  <2>2. Remembers(t)'
        BY <1>1, <1>2, <2>1 DEF Remembers, Counting, Free
  <2>3. Lists(t)'
        BY <1>1, <1>2, <1>4 DEF Lists, Exiting
  <2>4. ASSUME NEW u \in Threads, u # t PROVE Local(u)'
        BY <1>1, <1>3, <2>4, LocalKept, Zenon DEF IInv
  <2> QED BY <2>2, <2>3, <2>4 DEF Local
<1>6. Owner' /\ Plain' /\ Account' /\ Words0'
  <2>1. ASSUME NEW u \in Threads, NEW n \in Mutexes
        PROVE  /\ Holding(u, n)' <=> Holding(u, n)
               /\ Has(u, n)' <=> Has(u, n)
        BY <1>1, <1>2, <1>4 DEF Holding, Here, Has, Exiting
  <2>2. ASSUME NEW u \in Threads, NEW n \in Mutexes, lock[n].own = u, pc[u] \in Exiting
        PROVE  pc'[u] \in Exiting
    <3>1. Tracks(n)
          BY <2>2, NoTid DEF IInv, Plain
    <3>2. u # t
          BY <1>4, <2>2, <3>1 DEF IInv, Owner
    <3> QED BY <1>2, <2>2, <3>2
  <2>3. ASSUME NEW u \in Threads, pc'[u] \in {"link", "unlink", "swap"}
        PROVE  pc'[u] = pc[u]
        BY <1>2, <2>3, Zenon
  <2> QED BY <1>1, <2>1, <2>2, <2>3, Quiet DEF IInv
<1>7. WaitersCounted'
      BY <1>1, <1>2, CountedKept DEF IInv, Counting
<1>8. \A n \in Mutexes : Sleepers(n)' \subseteq Sleepers(n)
      BY <1>1, <1>2, Zenon DEF Sleepers
<1>9. ReleaserSees'
  <2>1. ASSUME NEW u \in Threads, NEW n \in Mutexes, Releases(u, n)' PROVE Releases(u, n)
        BY <1>1, <1>2, <1>4, <2>1, Zenon DEF Releases
  <2> QED BY <1>1, <1>8, <2>1, SeesKept, Zenon DEF IInv
<1>10. WakeKept'
  <2>1. \A n \in Mutexes : Takeable(n)' <=> Takeable(n)
        BY <1>1 DEF Takeable, Free
  <2>2. ASSUME NEW u \in Threads, NEW n \in Mutexes, MindsStill(u, n) PROVE MindsStill(u, n)'
        BY <1>1, <1>2, <2>2, Zenon DEF MindsStill
  <2> QED BY <1>1, <1>8, <2>1, <2>2, MindKept, Zenon DEF IInv
<1> QED BY <1>3, <1>5, <1>6, <1>7, <1>9, <1>10, Zenon DEF IInv

\* The next mutex of the list becomes pending.
LEMMA ExitNextInv ==
  ASSUME IInv, NEW t \in Threads, ExitNext(t), robust[t] # {}
  PROVE  IInv'
<1>1. PICK m \in robust[t] :
         /\ pc[t] = "exit" /\ pc' = [pc EXCEPT ![t] = "exit_swap"]
         /\ mx' = [mx EXCEPT ![t] = m] /\ wk' = [wk EXCEPT ![t] = waiters[m] # 0]
         /\ pending' = [pending EXCEPT ![t] = {m}] /\ robust' = [robust EXCEPT ![t] = @ \ {m}]
         /\ UNCHANGED <<type, lock, waiters, count, op, old, gave, depth, told, broken,
                        swallowed, deaths>>
      BY Zenon DEF ExitNext, Goto, memory, callers
<1>2. /\ m \in Mutexes /\ Tracks(m) /\ Holding(t, m) /\ ~gave[t] /\ old[t] = Free
      /\ \A n \in Mutexes : depth[t][n] = 0
      /\ \A n \in robust[t] : Tracks(n)
  <2>1. m \in Mutexes
        BY <1>1, Zenon DEF IInv, TypeOK
  <2>2. ~gave[t] /\ old[t] = Free
        BY <1>1, Zenon DEF IInv, Local, Remembers
  <2>3. /\ \A n \in Mutexes : depth[t][n] = 0
        /\ \A n \in robust[t] : Tracks(n)
        BY <1>1, Zenon DEF IInv, Local, Lists, Exiting
  <2> QED BY <1>1, <2>1, <2>2, <2>3 DEF Holding, Exiting
<1>3. lock[m].own = t /\ ~Takeable(m) /\ lock[m] # Free
      BY <1>2, HeldFacts
<1>4. /\ pc' \in [Threads -> Labels] /\ pc'[t] = "exit_swap"
      /\ \A u \in Threads \ {t} : pc'[u] = pc[u]
      BY <1>1, GotoFacts, Zenon DEF IInv, Labels, Exiting
<1>5. /\ mx' \in [Threads -> Mutexes] /\ mx'[t] = m
      /\ wk' \in [Threads -> BOOLEAN] /\ wk'[t] = (waiters[m] # 0)
      /\ \A u \in Threads \ {t} : mx'[u] = mx[u] /\ wk'[u] = wk[u]
      BY <1>1, <1>2, Zenon DEF IInv, TypeOK
<1>6. /\ robust' \in [Threads -> SUBSET Mutexes] /\ robust'[t] = robust[t] \ {m}
      /\ pending' \in [Threads -> SUBSET Mutexes] /\ m \in pending'[t]
      /\ \A u \in Threads \ {t} : robust'[u] = robust[u] /\ pending'[u] = pending[u]
  <2>1. robust \in [Threads -> SUBSET Mutexes] /\ pending \in [Threads -> SUBSET Mutexes]
        BY DEF IInv, TypeOK
  <2> QED BY <1>1, <1>2, <2>1
<1>7. TypeOK' /\ \A u \in Threads \ {t} : Same(u)
      BY <1>1, <1>4, <1>5, <1>6, Zenon DEF IInv, TypeOK, Same
<1>8. OnlyOn(t, m)
  <2>1. \A n \in Mutexes \ {m} : ~MindsStill(t, n)
        BY <1>1, Zenon DEF MindsStill
  <2> QED BY <1>1, <1>4, <1>5, <1>6, <1>7, <2>1, Zenon DEF OnlyOn, Counting, Owning, Exiting
<1>9. OnlyHas(t, m)
      BY <1>1, <1>2, <1>3, <1>4, <1>5 DEF OnlyHas, Holding, Here
<1>10. Local(t)'
  <2>1. \A n : Tracks(n)' <=> Tracks(n)
        BY <1>1, Zenon DEF Tracks
  <2>2. Remembers(t)'
        BY <1>1, <1>2, <1>4, <1>5, <2>1, Zenon DEF Remembers, Counting, Free
  <2>3. robust'[t] \in SUBSET robust[t] /\ m \notin robust'[t]
        BY <1>6, Zenon
  <2>4. Lists(t)'
        BY <1>1, <1>2, <1>4, <1>5, <1>6, <2>1, <2>3, ZeroFacts, Zenon DEF Lists, Exiting
  <2> QED BY <2>2, <2>4 DEF Local
<1>11. Knows(t, m)'
       BY <1>1, <1>2, <1>4, ZeroFacts, Zenon DEF Knows
<1>12. Says(m)' /\ ~Takeable(m)'
  <2>1. Says(m)'
        BY <1>1, <1>3, <1>4 DEF Says, Free, Exiting
  <2> QED BY <1>1, <1>3, <2>1, NoTid, Zenon DEF Takeable
<1>13. ~wk'[t] => Sleepers(m) = {}
       BY <1>2, <1>5, SleepersCounted, Zenon
<1> QED BY <1>2, <1>7, <1>8, <1>9, <1>10, <1>11, <1>12, <1>13, Touch, Zenon

\* The exiting thread gives the word up to whoever finds that its owner died.
LEMMA ExitSwapInv ==
  ASSUME IInv, NEW t \in Threads, ExitSwap(t)
  PROVE  IInv'
<1> DEFINE m == mx[t]
           l == IF MustWake(t) THEN "exit_wake" ELSE "exit"
<1>1. /\ pc[t] = "exit_swap" /\ m \in Mutexes
      /\ lock' = [lock EXCEPT ![m] = Died] /\ told' = [told EXCEPT ![m] = FALSE]
      /\ pending' = [pending EXCEPT ![t] = {}] /\ wk' = [wk EXCEPT ![t] = FALSE]
      /\ pc' = [pc EXCEPT ![t] = l]
      /\ UNCHANGED <<type, waiters, count, robust, mx, op, old, gave, depth, broken,
                     swallowed, deaths>>
      BY DEF ExitSwap, Goto, IInv, TypeOK
<1>2. l \in {"exit", "exit_wake"} /\ (MustWake(t) => l = "exit_wake")
      OBVIOUS
<1> HIDE DEF l
<1>3. /\ Tracks(m) /\ Holding(t, m) /\ ~gave[t] /\ old[t] = Free /\ m \notin robust[t]
      /\ \A n \in Mutexes : depth[t][n] = 0
      /\ \A n \in robust[t] : Tracks(n)
  <2>1. Tracks(m) /\ ~gave[t] /\ old[t] = Free
        BY <1>1, Zenon DEF IInv, Local, Remembers
  <2>2. /\ \A n \in Mutexes : depth[t][n] = 0
        /\ \A n \in robust[t] : Tracks(n)
        /\ m \notin robust[t]
        BY <1>1, Zenon DEF IInv, Local, Lists, Exiting
  <2> QED BY <1>1, <2>1, <2>2, Zenon DEF Holding, Here
<1>4. lock[m].own = t /\ (Sleepers(m) # {} => MustWake(t))
  <2>1. lock[m].own = t
        BY <1>1, <1>3, HeldFacts, Zenon
  <2> QED BY <1>1, <2>1, Zenon DEF IInv, ReleaserSees, Releases, MustWake
<1>5. /\ pc' \in [Threads -> Labels] /\ pc'[t] = l
      /\ \A u \in Threads \ {t} : pc'[u] = pc[u]
  <2>1. l \in Labels
        BY <1>2 DEF Labels, Exiting
  <2> QED BY <1>1, <2>1, GotoFacts, Zenon DEF IInv
<1>6. /\ lock' \in [Mutexes -> Words] /\ lock'[m] = Died
      /\ \A n \in Mutexes \ {m} : lock'[n] = lock[n]
  <2>1. lock \in [Mutexes -> Words] /\ Died \in Words
        BY WordFacts DEF IInv, TypeOK
  <2> QED BY <1>1, <2>1
<1>7. /\ told' \in [Mutexes -> BOOLEAN] /\ \A n \in Mutexes \ {m} : told'[n] = told[n]
      BY <1>1 DEF IInv, TypeOK
<1>8. /\ pending' \in [Threads -> SUBSET Mutexes] /\ wk' \in [Threads -> BOOLEAN]
      /\ \A u \in Threads \ {t} : pending'[u] = pending[u] /\ wk'[u] = wk[u]
      BY <1>1 DEF IInv, TypeOK
<1>9. TypeOK' /\ \A u \in Threads \ {t} : Same(u)
      BY <1>1, <1>5, <1>6, <1>7, <1>8, Zenon DEF IInv, TypeOK, Same
<1>10. OnlyOn(t, m)
  <2>1. \A n \in Mutexes \ {m} : ~MindsStill(t, n)
        BY DEF MindsStill
  <2> QED BY <1>1, <1>2, <1>5, <1>6, <1>7, <1>9, <2>1, Zenon DEF OnlyOn, Counting, Owning, Exiting
<1>11. lock'[m].own = NoThread /\ lock'[m].dead /\ lock'[m] # Free
       BY <1>6, WordFacts
<1>12. OnlyHas(t, m)
  <2>1. ~Holding(t, m)'
        BY <1>1, <1>2, <1>3, <1>5, ZeroFacts, Zenon DEF Holding, Here
  <2> QED BY <1>3, <1>4, <1>11, <2>1, NoTid, Zenon DEF OnlyHas
<1>13. Local(t)'
  <2>1. \A n : Tracks(n)' <=> Tracks(n)
        BY <1>1, Zenon DEF Tracks
  <2>2. Remembers(t)'
        BY <1>1, <1>2, <1>3, <1>5, <2>1, Zenon DEF Remembers, Counting, Free
  <2>3. pc'[t] \in Exiting /\ pc'[t] \in {"exit", "exit_wake"}
        BY <1>2, <1>5 DEF Exiting
  <2>4. Lists(t)'
        BY <1>1, <1>3, <2>1, <2>3, ZeroFacts, Zenon DEF Lists
  <2> QED BY <2>2, <2>4 DEF Local
<1>14. Says(m)'
       BY <1>1, <1>11, Zenon DEF Says, Free
<1>15. Sleepers(m) # {} => MindsStill(t, m)'
       BY <1>1, <1>2, <1>4, <1>5, Zenon DEF MindsStill
<1>16. ~Releases(t, m)' /\ lock'[m].own # t
       BY <1>2, <1>5, <1>11, NoTid DEF Releases
<1> QED BY <1>1, <1>9, <1>10, <1>12, <1>13, <1>14, <1>15, <1>16, Touch, Zenon

\* A wake-up that the kernel gives reaches a thread that sleeps.
LEMMA KernelWakesOne ==
  ASSUME NEW t \in Threads, NEW W \in KernelWoken(t), NEW m \in Mutexes, KernelWakes(t, m),
         Sleepers(m) \ {t} # {}
  PROVE  \E s \in W : mx[s] = m
BY DEF KernelWoken

\* When every mutex is shared, whatever a thread owns is on its list or pending.
LEMMA KernelFindsAll ==
  ASSUME IInv, NEW t \in Threads, NEW m \in Mutexes, type[m].shared
  PROVE  /\ Tracks(m) => (KernelOwns(t, m) <=> lock[m].own = t)
         /\ ~Tracks(m) => ~KernelOwns(t, m)
         /\ depth[t][m] > 0 /\ type[m].robust => KernelOwns(t, m)
<1>1. ASSUME Tracks(m), lock[m].own = t PROVE m \in robust[t] \cup pending[t]
  <2>1. Holding(t, m)
        BY <1>1 DEF IInv, Owner
  <2>2. CASE depth[t][m] > 0
        BY <1>1, <2>2 DEF IInv, Local, Lists
  <2>3. CASE Here(t, m)
        BY <1>1, <2>3 DEF Here, IInv, Local, Lists
  <2> QED BY <2>1, <2>2, <2>3 DEF Holding
<1>2. ~Tracks(m) => lock[m].own # t
      BY NoTid DEF IInv, Plain
<1>3. depth[t][m] > 0 /\ type[m].robust => Tracks(m) /\ lock[m].own = t
      BY DEF IInv, Owner, Holding, Tracks
<1> QED BY <1>1, <1>2, <1>3 DEF KernelOwns

\* What the death of a process changes: the words it owned, itself, and the
\* sleepers whom the kernel wakes
LEMMA CrashFacts ==
  ASSUME IInv, NEW t \in Threads, Crash(t)
  PROVE  /\ TypeOK' /\ \A m \in Mutexes : type[m].shared
         /\ UNCHANGED <<type, waiters, count, mx, op>>
         /\ pc'[t] = "dead" /\ old'[t] = Free /\ ~gave'[t] /\ robust'[t] = {}
         /\ \A m \in Mutexes : depth'[t][m] = 0 /\ broken'[m] = (broken[m] \/ depth[t][m] > 0)
         /\ \E W \in KernelWoken(t) :
               /\ \A s \in W : s \in Threads \ {t} /\ pc[s] = "asleep" /\ pc'[s] = "count_out"
               /\ \A u \in Threads \ {t} : u \notin W => pc'[u] = pc[u]
         /\ \A u \in Threads \ {t} :
               /\ mx'[u] = mx[u] /\ op'[u] = op[u] /\ old'[u] = old[u] /\ wk'[u] = wk[u]
               /\ gave'[u] = gave[u] /\ depth'[u] = depth[u] /\ robust'[u] = robust[u]
               /\ pending'[u] = pending[u]
         /\ \A m \in Mutexes :
               /\ KernelOwns(t, m) => /\ lock'[m].own = NoThread /\ lock'[m].dead
                                      /\ lock[m].own = t
               /\ ~KernelOwns(t, m) => lock'[m] = lock[m] /\ told'[m] = told[m]
               /\ m \notin swallowed' => /\ m \notin swallowed /\ ~(m = mx[t] /\ OwesWake(t))
                                         /\ ~(KernelOwns(t, m) /\ Unmarked(m))
<1>1. /\ \A m \in Mutexes : type[m].shared
      /\ lock' = [m \in Mutexes |->
                    IF KernelOwns(t, m) THEN [Died EXCEPT !.wait = lock[m].wait] ELSE lock[m]]
      /\ told' = [m \in Mutexes |-> told[m] /\ ~KernelOwns(t, m)]
      /\ swallowed' = swallowed \cup {m \in Mutexes : \/ m = mx[t] /\ OwesWake(t)
                                                      \/ KernelOwns(t, m) /\ Unmarked(m)}
      /\ robust' = [robust EXCEPT ![t] = {}] /\ pending' = [pending EXCEPT ![t] = {}]
      /\ gave' = [gave EXCEPT ![t] = FALSE] /\ old' = [old EXCEPT ![t] = Free]
      /\ wk' = [wk EXCEPT ![t] = FALSE]
      /\ UNCHANGED <<type, waiters, count, mx, op>>
      BY DEF Crash, Forget
<1>2. PICK W \in KernelWoken(t) :
         pc' = [s \in Threads |-> IF s = t THEN "dead"
                                  ELSE IF s \in W THEN "count_out" ELSE pc[s]]
      BY DEF Crash
<1>3. \A s \in W : s \in Threads \ {t} /\ pc[s] = "asleep"
      BY DEF KernelWoken
<1>4. /\ pc' \in [Threads -> Labels] /\ pc'[t] = "dead"
      /\ \A s \in W : pc'[s] = "count_out"
      /\ \A u \in Threads \ {t} : u \notin W => pc'[u] = pc[u]
  <2>1. pc \in [Threads -> Labels] /\ "dead" \in Labels /\ "count_out" \in Labels
        BY DEF IInv, TypeOK, Labels, Counting
  <2> QED BY <1>2, <1>3, <2>1
<1>5. /\ lock' \in [Mutexes -> Words]
      /\ \A m \in Mutexes :
            /\ KernelOwns(t, m) => lock'[m].own = NoThread /\ lock'[m].dead
            /\ ~KernelOwns(t, m) => lock'[m] = lock[m]
  <2>1. \A m \in Mutexes : lock[m] \in Words /\ lock[m].wait \in BOOLEAN
        BY DEF IInv, TypeOK, Words
  <2>2. \A m \in Mutexes :
            lock'[m] = IF KernelOwns(t, m) THEN [Died EXCEPT !.wait = lock[m].wait] ELSE lock[m]
        BY <1>1
  <2>3. \A m \in Mutexes : lock'[m] \in Words
        BY <2>1, <2>2, WordFacts, Zenon
  <2>4. lock' \in [Mutexes -> Words]
        BY <1>1, <2>2, <2>3
  <2> QED BY <2>1, <2>2, <2>4, WordFacts, Zenon
<1>6. /\ told' \in [Mutexes -> BOOLEAN] /\ swallowed' \in SUBSET Mutexes
      /\ \A m \in Mutexes : ~KernelOwns(t, m) => told'[m] = told[m]
  <2>1. told \in [Mutexes -> BOOLEAN] /\ swallowed \in SUBSET Mutexes
        BY DEF IInv, TypeOK
  <2>2. told' \in [Mutexes -> BOOLEAN]
        BY <1>1, <2>1
  <2>3. swallowed' \in SUBSET Mutexes
        BY <1>1, <2>1
  <2> QED BY <1>1, <2>1, <2>2, <2>3
<1>7. /\ robust' \in [Threads -> SUBSET Mutexes] /\ pending' \in [Threads -> SUBSET Mutexes]
      /\ gave' \in [Threads -> BOOLEAN] /\ old' \in [Threads -> Words]
      /\ wk' \in [Threads -> BOOLEAN]
      /\ robust'[t] = {} /\ ~gave'[t] /\ old'[t] = Free
      /\ \A u \in Threads \ {t} :
            /\ robust'[u] = robust[u] /\ pending'[u] = pending[u] /\ gave'[u] = gave[u]
            /\ old'[u] = old[u] /\ wk'[u] = wk[u]
  <2>1. /\ robust \in [Threads -> SUBSET Mutexes] /\ pending \in [Threads -> SUBSET Mutexes]
        /\ gave \in [Threads -> BOOLEAN] /\ old \in [Threads -> Words]
        /\ wk \in [Threads -> BOOLEAN] /\ Free \in Words
        BY WordFacts DEF IInv, TypeOK
  <2> QED BY <1>1, <2>1
<1>8. /\ broken' \in [Mutexes -> BOOLEAN] /\ depth' \in [Threads -> [Mutexes -> Nat]]
      /\ deaths' \in Nat
      /\ \A m \in Mutexes : depth'[t][m] = 0 /\ broken'[m] = (broken[m] \/ depth[t][m] > 0)
      /\ \A u \in Threads \ {t} : depth'[u] = depth[u]
      BY OrphanFacts DEF IInv, Crash
<1>9. TypeOK'
      BY <1>1, <1>4, <1>5, <1>6, <1>7, <1>8, Zenon DEF IInv, TypeOK
<1>10. \A m \in Mutexes :
          /\ KernelOwns(t, m) => lock[m].own = t
          /\ m \notin swallowed' => /\ m \notin swallowed /\ ~(m = mx[t] /\ OwesWake(t))
                                    /\ ~(KernelOwns(t, m) /\ Unmarked(m))
       BY <1>1 DEF KernelOwns
<1>11. \E V \in KernelWoken(t) :
          /\ \A s \in V : s \in Threads \ {t} /\ pc[s] = "asleep" /\ pc'[s] = "count_out"
          /\ \A u \in Threads \ {t} : u \notin V => pc'[u] = pc[u]
       BY <1>3, <1>4, Zenon
<1> QED BY <1>1, <1>4, <1>5, <1>6, <1>7, <1>8, <1>9, <1>10, <1>11

\* A process is killed.
LEMMA CrashInv ==
  ASSUME IInv, NEW t \in Threads, Crash(t)
  PROVE  IInv'
<1>1. /\ TypeOK' /\ \A m \in Mutexes : type[m].shared
      /\ UNCHANGED <<type, waiters, count, mx, op>>
      /\ pc'[t] = "dead" /\ old'[t] = Free /\ ~gave'[t] /\ robust'[t] = {}
      /\ \A m \in Mutexes : depth'[t][m] = 0 /\ broken'[m] = (broken[m] \/ depth[t][m] > 0)
      BY CrashFacts, Zenon
<1>2. PICK W \in KernelWoken(t) :
         /\ \A s \in W : s \in Threads \ {t} /\ pc[s] = "asleep" /\ pc'[s] = "count_out"
         /\ \A u \in Threads \ {t} : u \notin W => pc'[u] = pc[u]
      BY CrashFacts, Zenon
<1>3. \A u \in Threads \ {t} :
         /\ mx'[u] = mx[u] /\ op'[u] = op[u] /\ old'[u] = old[u] /\ wk'[u] = wk[u]
         /\ gave'[u] = gave[u] /\ depth'[u] = depth[u] /\ robust'[u] = robust[u]
         /\ pending'[u] = pending[u]
      BY CrashFacts
<1>4. \A m \in Mutexes :
         /\ KernelOwns(t, m) => lock'[m].own = NoThread /\ lock'[m].dead /\ lock[m].own = t
         /\ ~KernelOwns(t, m) => lock'[m] = lock[m] /\ told'[m] = told[m]
         /\ m \notin swallowed' => /\ m \notin swallowed /\ ~(m = mx[t] /\ OwesWake(t))
                                   /\ ~(KernelOwns(t, m) /\ Unmarked(m))
      BY CrashFacts, Zenon
<1>5. \A n : Tracks(n)' <=> Tracks(n)
      BY <1>1 DEF Tracks
<1>6. \A m \in Mutexes :
         /\ Tracks(m) => (KernelOwns(t, m) <=> lock[m].own = t)
         /\ ~Tracks(m) => ~KernelOwns(t, m)
         /\ depth[t][m] > 0 /\ type[m].robust => KernelOwns(t, m)
      BY <1>1, KernelFindsAll, Zenon
<1>7. ASSUME NEW u \in Threads \ {t}, pc[u] # "asleep" PROVE Same(u)
      BY <1>2, <1>3, <1>7, Zenon DEF Same
<1>8. ASSUME NEW u \in Threads \ {t}, pc[u] = "asleep"
      PROVE  pc'[u] \in {"asleep", "count_out"} /\ (pc'[u] = "asleep" => Same(u))
  <2>1. CASE u \in W
        BY <1>2, <2>1, Zenon
  <2>2. CASE u \notin W
        BY <1>2, <1>3, <1>8, <2>2, Zenon DEF Same
  <2> QED BY <2>1, <2>2
<1>9. \A u \in Threads : Local(u)'
  <2>1. Local(t)'
    <3>1. Remembers(t)'
          BY <1>1 DEF Remembers, Counting, Free
    <3>2. Lists(t)'
          BY <1>1, ZeroFacts, Zenon DEF Lists, Exiting
    <3> QED BY <3>1, <3>2, Zenon DEF Local
  <2>2. ASSUME NEW u \in Threads \ {t}, Same(u) PROVE Local(u)'
        BY <1>1, <2>2, LocalKept, Zenon DEF IInv
  <2>3. ASSUME NEW u \in Threads \ {t}, pc[u] = "asleep", pc'[u] = "count_out" PROVE Local(u)'
    <3>1. ~gave[u] /\ old[u] = Free /\ op[u] = "lock"
          BY <2>3 DEF IInv, Local, Remembers, Counting
    <3>2. Remembers(u)'
          BY <1>1, <1>3, <2>3, <3>1, Zenon DEF Remembers, Counting, Free
    <3>3. Lists(u)'
          BY <1>1, <1>3, <2>3, ListsStay, Zenon DEF IInv, Local, Exiting
    <3> QED BY <3>2, <3>3, Zenon DEF Local
  <2> QED BY <1>7, <1>8, <2>1, <2>2, <2>3
<1>10. ASSUME NEW u \in Threads \ {t}, NEW m \in Mutexes
       PROVE  (Holding(u, m)' <=> Holding(u, m)) /\ (Has(u, m)' <=> Has(u, m))
  <2>1. CASE Same(u)
        BY <2>1, Zenon DEF Holding, Here, Has, Same
  <2>2. CASE pc[u] = "asleep" /\ pc'[u] = "count_out"
        BY <1>3, <2>2, Zenon DEF Holding, Here, Has, Exiting
  <2> QED BY <1>7, <1>8, <2>1, <2>2
<1>11. \A m \in Mutexes : ~Holding(t, m)' /\ ~Has(t, m)'
       BY <1>1, ZeroFacts, Zenon DEF Holding, Here, Has, Exiting
<1>12. Owner'
  <2> SUFFICES ASSUME NEW u \in Threads, NEW m \in Mutexes, Tracks(m)
               PROVE  lock'[m].own = u <=> Holding(u, m)'
      BY <1>5 DEF Owner
  <2>1. lock[m].own = u <=> Holding(u, m)
        BY DEF IInv, Owner
  <2>2. CASE u = t
        BY <1>4, <1>6, <1>11, <2>1, <2>2, NoTid, Zenon
  <2>3. CASE u # t
        BY <1>4, <1>6, <1>10, <2>1, <2>3, NoTid, Zenon
  <2> QED BY <2>2, <2>3, Zenon
<1>13. Plain'
  <2> SUFFICES ASSUME NEW m \in Mutexes, ~Tracks(m)
               PROVE  /\ lock'[m].own \in {NoThread, Busy}
                      /\ \A u \in Threads : Has(u, m)' =>
                            /\ lock'[m].own = Busy
                            /\ \A s \in Threads : Has(s, m)' => s = u
      BY <1>5, Zenon DEF Plain
  <2>1. lock'[m] = lock[m]
        BY <1>4, <1>6, Zenon
  <2> QED BY <1>10, <1>11, <2>1, Zenon DEF IInv, Plain
<1>14. Account'
  <2> SUFFICES ASSUME NEW u \in Threads, NEW m \in Mutexes, lock'[m].own = u
               PROVE  Knows(u, m)'
      BY Zenon DEF Account
  <2>1. ~KernelOwns(t, m) /\ lock'[m] = lock[m] /\ told'[m] = told[m] /\ u # t
    <3>1. ~KernelOwns(t, m)
          BY <1>4, NoTid
    <3>2. Tracks(m)
          BY <1>4, <3>1, NoTid, Zenon DEF IInv, Plain
    <3> QED BY <1>4, <1>6, <3>1, <3>2, Zenon
  <2>2. Knows(u, m)
        BY <2>1 DEF IInv, Account
  <2>3. CASE Same(u)
        BY <1>1, <2>1, <2>2, <2>3, Zenon DEF Knows, Same, Free, Unrecoverable
  <2>4. CASE pc[u] = "asleep" /\ pc'[u] = "count_out"
        BY <1>1, <1>3, <2>1, <2>2, <2>4, Zenon DEF Knows
  <2> QED BY <1>7, <1>8, <2>1, <2>3, <2>4
<1>15. Words0'
  <2> SUFFICES ASSUME NEW m \in Mutexes PROVE Says(m)'
      BY DEF Words0
  <2>1. Says(m)
        BY DEF IInv, Words0
  <2>2. CASE KernelOwns(t, m)
    <3>1. lock'[m].dead /\ lock'[m] # Free
          BY <1>4, <2>2, WordFacts, Zenon
    <3> QED BY <1>1, <3>1, Zenon DEF Says, Free
  <2>3. CASE ~KernelOwns(t, m)
    <3>1. lock'[m] = lock[m]
          BY <1>4, <2>3, Zenon
    <3>2. ASSUME type[m].robust, broken'[m], ~lock[m].dead
          PROVE  \E u \in Threads : lock[m].own = u /\ pc'[u] \in Exiting
      <4>1. broken[m]
            BY <1>1, <1>6, <2>3, <3>2, Zenon
      <4>2. PICK u \in Threads : lock[m].own = u /\ pc[u] \in Exiting
            BY <2>1, <3>2, <4>1, Zenon DEF Says
      <4>3. u # t
            BY <1>6, <2>3, <3>2, <4>2 DEF Tracks
      <4>4. Same(u)
            BY <1>7, <4>2, <4>3, Zenon DEF Exiting
      <4> QED BY <4>2, <4>4, Zenon DEF Same
    <3> QED BY <1>1, <2>1, <3>1, <3>2, Zenon DEF Says, Free
  <2> QED BY <2>2, <2>3
<1>16. /\ \A u \in Threads : pc'[u] \in Counting => pc[u] \in Counting
       /\ \A m \in Mutexes : Sleepers(m)' \subseteq Sleepers(m) \ {t}
  <2>1. \A u \in Threads : pc'[u] \in Counting => pc[u] \in Counting
        BY <1>1, <1>7, <1>8, Zenon DEF Counting, Same
  <2>2. \A u \in Threads : pc'[u] = "asleep" => pc[u] = "asleep" /\ u # t
        BY <1>1, <1>7, <1>8 DEF Same
  <2> QED BY <1>1, <2>1, <2>2, Zenon DEF Sleepers
<1>17. WaitersCounted'
       BY <1>1, <1>16, CountedKept, Zenon DEF IInv
<1>18. ReleaserSees'
  <2> SUFFICES ASSUME NEW u \in Threads, NEW m \in Mutexes,
                      Releases(u, m)', ~wk'[u], Sleepers(m)' # {}
               PROVE  lock'[m].wait
      BY DEF ReleaserSees
  <2>1. u # t /\ pc[u] # "asleep"
    <3>1. u # t
          BY <1>1, Zenon DEF Releases
    <3> QED BY <1>8, <3>1, Zenon DEF Releases
  <2>2. Same(u)
        BY <1>7, <2>1, Zenon
  <2>3. lock'[m] = lock[m]
        BY <1>4, <1>5, <1>6, NoTid, Zenon DEF Releases
  <2>4. Releases(u, m) /\ ~wk[u] /\ Sleepers(m) # {}
        BY <1>5, <1>16, <2>2, <2>3, Zenon DEF Releases, Same
  <2> QED BY <2>3, <2>4, Zenon DEF IInv, ReleaserSees
<1>19. WakeKept'
  <2> SUFFICES ASSUME NEW m \in Mutexes, Sleepers(m)' # {}, Takeable(m)', m \notin swallowed'
               PROVE  \E u \in Threads : MindsStill(u, m)'
      BY DEF WakeKept
  <2>1. Sleepers(m) \ {t} # {} /\ Sleepers(m) # {}
        BY <1>16
  <2>2. ASSUME KernelWakes(t, m) PROVE \E u \in Threads : MindsStill(u, m)'
    <3>1. PICK s \in W : mx[s] = m
          BY <2>1, <2>2, KernelWakesOne, Zenon
    <3>2. s \in Threads \ {t} /\ pc[s] = "asleep" /\ pc'[s] = "count_out"
          BY <1>2, <3>1, Zenon
    <3>3. ~gave[s]
          BY <3>2 DEF IInv, Local, Remembers
    <3> QED BY <1>3, <3>1, <3>2, <3>3 DEF MindsStill
  <2>3. CASE KernelOwns(t, m)
        BY <1>4, <2>1, <2>2, <2>3, Zenon DEF Unmarked, KernelWakes
  <2>4. CASE ~KernelOwns(t, m)
    <3>1. lock'[m] = lock[m] /\ m \notin swallowed /\ ~(m = mx[t] /\ OwesWake(t))
          BY <1>4, <2>4, Zenon
    <3>2. Takeable(m)
          BY <1>1, <3>1, Zenon DEF Takeable, Free
    <3>3. PICK u \in Threads : MindsStill(u, m)
          BY <2>1, <3>1, <3>2, Zenon DEF IInv, WakeKept
    <3>4. CASE u # t
      <4>1. Same(u)
            BY <1>7, <3>3, <3>4, Zenon DEF MindsStill
      <4> QED BY <3>1, <3>3, <4>1, Zenon DEF MindsStill, Same
    <3>5. CASE u = t
      <4>1. mx[t] = m /\ pc[t] \in {"unpend", "cas"} /\ lock[m] = Free
            BY <3>1, <3>3, <3>5, Zenon DEF MindsStill, OwesWake
      <4>2. Tracks(m)
            BY <4>1, Zenon DEF IInv, Local, Remembers
      <4>3. m \in pending[t]
            BY <1>1, <4>1, <4>2, Zenon DEF IInv, Local, Lists
      <4> QED BY <2>2, <4>1, <4>3, Zenon DEF KernelWakes
    <3> QED BY <3>4, <3>5
  <2> QED BY <2>3, <2>4
<1> QED BY <1>1, <1>9, <1>12, <1>13, <1>14, <1>15, <1>17, <1>18, <1>19, Zenon DEF IInv

-----------------------------------------------------------------------------
(* Every step *)

\* A step that changes nothing
LEMMA StutterInv ==
  ASSUME IInv, UNCHANGED vars
  PROVE  IInv'
<1>1. UNCHANGED <<type, lock, waiters, count, robust, pending, pc, mx, op, old, wk, gave, depth,
                  told, broken, swallowed, deaths>>
      BY Zenon DEF vars, memory, locals, callers
<1>2. TypeOK'
      BY <1>1 DEF IInv, TypeOK
<1>3. \A u \in Threads : Same(u)
      BY <1>1, Zenon DEF Same
<1>4. \A u \in Threads : Local(u)'
      BY <1>1, <1>3, LocalKept, Zenon DEF IInv
<1>5. \A u \in Threads, m \in Mutexes : (Holding(u, m)' <=> Holding(u, m)) /\ (Has(u, m)' <=> Has(u, m))
      BY <1>1 DEF Holding, Here, Has
<1>6. Owner' /\ Plain' /\ Account' /\ Words0'
      BY <1>1, <1>5, Quiet, Zenon DEF IInv
<1>7. WaitersCounted'
      BY <1>1, CountedKept, Zenon DEF IInv
<1>8. \A m \in Mutexes : Sleepers(m)' = Sleepers(m)
      BY <1>1, Zenon DEF Sleepers
<1>9. ReleaserSees'
  <2>1. \A u \in Threads, m \in Mutexes : Releases(u, m)' => Releases(u, m)
        BY <1>1 DEF Releases, Tracks
  <2> QED BY <1>1, <1>8, <2>1, SeesKept, Zenon DEF IInv
<1>10. WakeKept'
  <2>1. \A m \in Mutexes : Takeable(m)' <=> Takeable(m)
        BY <1>1, Zenon DEF Takeable, Free
  <2>2. \A u \in Threads, m \in Mutexes : MindsStill(u, m) => MindsStill(u, m)'
        BY <1>1 DEF MindsStill
  <2> QED BY <1>1, <1>8, <2>1, <2>2, MindKept, Zenon DEF IInv
<1> QED BY <1>2, <1>4, <1>6, <1>7, <1>9, <1>10, Zenon DEF IInv

\* Every step keeps the invariant.
LEMMA NextInv ==
  ASSUME Linux, IInv, [Next]_vars
  PROVE  IInv'
<1>1. CASE UNCHANGED vars
      BY <1>1, StutterInv
<1>2. CASE Next
  <2>1. PICK t \in Threads :
           \/ \E m \in Mutexes, o \in {"lock", "try"} : Begin(t, m, o)
           \/ \E m \in Mutexes : UnlockBegin(t, m) \/ Consistent(t, m)
           \/ Step(t) \/ Timeout(t) \/ SpuriousWake(t)
           \/ Exit(t) \/ Crash(t) \/ Spawn(t)
        BY <1>2 DEF Next
  <2>2. CASE \E m \in Mutexes, o \in {"lock", "try"} : Begin(t, m, o)
        BY <2>2, BeginInv
  <2>3. CASE \E m \in Mutexes : UnlockBegin(t, m) \/ Consistent(t, m)
        BY <2>3, UnlockBeginInv, ConsistentInv
  <2>4. CASE Timeout(t) \/ SpuriousWake(t)
        BY <2>4, WaitEndsInv
  <2>5. CASE Exit(t) \/ Crash(t) \/ Spawn(t)
        BY <2>5, ExitInv, CrashInv, SpawnInv, Zenon
  <2>6. CASE Step(t)
    <3>1. CASE AttemptNormal(t) \/ AttemptOwner(t) \/ Announce(t)
          BY <3>1, AttemptNormalInv, AttemptOwnerInv, CountMoreInv, AnnounceInv
    <3>2. CASE TryCas(t) \/ TryLink(t)
          BY <3>2, TryCasInv, TryCasFailsInv, TryLinkInv
    <3>3. CASE ReadWord(t) \/ CountIn(t) \/ Mark(t) \/ CountOut(t)
          BY <3>3, ReadWordInv, CountInInv, MarkInv, CountOutInv, Zenon
    <3>4. CASE FutexWait(t)
          BY <3>4, SleepInv, WaitEndsInv, Zenon
    <3>5. CASE UnlockCheck(t)
          BY <3>5, UnlockCheckInv, NotOwnerInv
    <3>6. CASE Unlink(t) \/ UnlockSwap(t) \/ Unpend(t)
          BY <3>6, UnlinkInv, UnlockSwapInv, UnpendInv, Zenon
    <3>7. CASE UnlockWake(t)
      <4>1. /\ pc[t] = "wake" /\ WakeOne(t, mx[t], "idle")
            /\ UNCHANGED <<type, lock, waiters, count, robust, pending, mx, op, old, wk, gave,
                           depth, told, broken, swallowed, deaths>>
            BY <3>7 DEF UnlockWake, memory, locals, callers
      <4> QED BY <4>1, WakeOneInv
    <3>8. CASE ExitWake(t)
      <4>1. /\ pc[t] = "exit_wake" /\ WakeOne(t, mx[t], "exit")
            /\ UNCHANGED <<type, lock, waiters, count, robust, pending, mx, op, old, wk, gave,
                           depth, told, broken, swallowed, deaths>>
            BY <3>8 DEF ExitWake, memory, locals, callers
      <4> QED BY <4>1, WakeOneInv, Zenon
    <3>9. CASE ExitNext(t) \/ ExitSwap(t)
          BY <3>9, GoneInv, ExitNextInv, ExitSwapInv
    <3> QED BY <2>6, <3>1, <3>2, <3>3, <3>4, <3>5, <3>6, <3>7, <3>8, <3>9, Zenon DEF Step
  <2> QED BY <2>1, <2>2, <2>3, <2>4, <2>5, <2>6, Zenon
<1> QED BY <1>1, <1>2

\* Nobody has anything at first.
LEMMA InitInv == Init => IInv
<1> SUFFICES ASSUME Init PROVE IInv
    OBVIOUS
<1>1. TypeOK
      BY TypeInit
<1>2. /\ \A t \in Threads : /\ pc[t] = "idle" /\ old[t] = Free /\ ~gave[t] /\ robust[t] = {}
                            /\ \A m \in Mutexes : depth[t][m] = 0
      /\ \A m \in Mutexes : lock[m] = Free /\ waiters[m] = 0 /\ count[m] = 0 /\ ~broken[m]
      BY DEF Init
<1>3. ASSUME NEW t \in Threads PROVE Local(t)
  <2>1. Remembers(t)
        BY <1>2, Zenon DEF Remembers, Counting
  <2>2. Lists(t)
        BY <1>2, ZeroFacts, Zenon DEF Lists, Exiting
  <2> QED BY <2>1, <2>2, Zenon DEF Local
<1>4. \A m \in Mutexes : lock[m].own = NoThread
      BY <1>2, WordFacts
<1>5. Owner /\ Plain
      BY <1>2, <1>4, NoTid, ZeroFacts, Zenon DEF Owner, Plain, Holding, Has, Here, Exiting
<1>6. Account /\ Words0
      BY <1>2, <1>4, NoTid, Zenon DEF Account, Words0, Says
<1>7. WaitersCounted
  <2> DEFINE f == [t \in Threads |-> 0]
  <2>1. f \in [Threads -> Nat] /\ \A m \in Mutexes : Counted(m) = {}
        BY <1>2, Zenon DEF Counted, Counting
  <2> HIDE DEF f
  <2>2. \A m \in Mutexes : Numbers(f, Counted(m), waiters[m])
        BY <2>1, Zenon DEF Numbers
  <2>3. 0 >= 0
        OBVIOUS
  <2> QED BY <1>2, <2>1, <2>2, <2>3, Zenon DEF WaitersCounted, Numbered
<1>8. ReleaserSees
      BY <1>2, Zenon DEF ReleaserSees, Releases
<1>9. WakeKept
      BY <1>2 DEF WakeKept, Sleepers
<1> QED BY <1>1, <1>3, <1>5, <1>6, <1>7, <1>8, <1>9 DEF IInv

\* The invariant holds in every state.
THEOREM Invariance == ASSUME Linux PROVE Spec => []IInv
BY InitInv, NextInv, PTL DEF Spec

-----------------------------------------------------------------------------
(* Safety *)

\* The word names the thread that holds the mutex, a tid that is used again
\* never holds what its former thread held, and the recursion count is right:
\* pthread_mutex_lock, _unlock and the exit of threads, for any number of
\* threads and mutexes of every type.
THEOREM OwnerIsHolder == ASSUME Linux PROVE Spec => []OwnerHolds
<1>1. IInv => OwnerHolds
  <2> SUFFICES ASSUME IInv, NEW t \in Threads, NEW m \in Mutexes
               PROVE  /\ depth[t][m] > 0 => \A s \in Threads \ {t} : depth[s][m] = 0
                      /\ Tracks(m) /\ depth[t][m] > 0 =>
                            /\ lock[m].own = t
                            /\ type[m].kind = "recursive" =>
                                  count[m] = depth[t][m] - 1 /\ count[m] <= MaxCount
                      /\ lock[m].own = t /\ depth[t][m] = 0 =>
                            \/ pc[t] \in {"link", "unlink", "swap", "exit_swap"} /\ mx[t] = m
                            \/ pc[t] \in {"exit", "exit_swap", "exit_wake"} /\ m \in robust[t]
      BY Zenon DEF OwnerHolds
  <2>1. ASSUME depth[t][m] > 0, NEW s \in Threads \ {t} PROVE depth[s][m] = 0
    <3>1. ~(depth[s][m] > 0)
      <4>1. CASE Tracks(m)
            BY <2>1, <4>1 DEF IInv, Owner, Holding
      <4>2. CASE ~Tracks(m)
            BY <2>1, <4>2 DEF IInv, Plain, Has
      <4> QED BY <4>1, <4>2, Zenon
    <3> QED BY <2>1, <3>1 DEF IInv, TypeOK
  <2>2. ASSUME Tracks(m), depth[t][m] > 0
        PROVE  lock[m].own = t /\ (type[m].kind = "recursive" =>
                                      count[m] = depth[t][m] - 1 /\ count[m] <= MaxCount)
    <3>1. lock[m].own = t
          BY <2>2, Zenon DEF IInv, Owner, Holding
    <3> QED BY <2>2, <3>1, Zenon DEF IInv, Account, Knows
  <2>3. ASSUME lock[m].own = t, depth[t][m] = 0
        PROVE  \/ pc[t] \in {"link", "unlink", "swap", "exit_swap"} /\ mx[t] = m
               \/ pc[t] \in {"exit", "exit_swap", "exit_wake"} /\ m \in robust[t]
    <3>1. Tracks(m)
          BY <2>3, NoTid, Zenon DEF IInv, Plain
    <3>2. Holding(t, m)
          BY <2>3, <3>1, Zenon DEF IInv, Owner
    <3> QED BY <2>3, <3>2 DEF Holding, Here, Exiting
  <2> QED BY <2>1, <2>2, <2>3, Zenon
<1> QED BY <1>1, Invariance, PTL

\* Whoever holds a robust mutex with a broken state was told EOWNERDEAD,
\* whether its last holder exited (pthread_create.c) or was killed.
THEOREM DeathIsReported == ASSUME Linux PROVE Spec => []OwnerDeathReported
<1>1. IInv => OwnerDeathReported
  <2> SUFFICES ASSUME IInv, NEW m \in Mutexes, type[m].robust, broken[m], Held(m)
               PROVE  told[m]
      BY Zenon DEF OwnerDeathReported
  <2>1. PICK t \in Threads : depth[t][m] > 0
        BY Zenon DEF Held
  <2>2. Tracks(m) /\ Holding(t, m)
        BY <2>1, Zenon DEF Tracks, Holding
  <2>3. pc[t] \notin Exiting
        BY <2>1 DEF IInv, Local, Lists
  <2>4. lock[m].own = t /\ Knows(t, m) /\ lock[m].dead
        BY <2>2, <2>3, HeldFacts, Zenon
  <2> QED BY <2>1, <2>4, Zenon DEF Knows
<1> QED BY <1>1, Invariance, PTL

\* Between them, the count of waiters and the bit in the word never lose a
\* wake-up (timedlock.c, unlock.c, trylock.c), but for a killed process.
THEOREM WakeIsKept == ASSUME Linux PROVE Spec => []NoLostWake
<1>1. IInv => NoLostWake
  <2>1. \A t, m : MindsStill(t, m) => Minds(t, m)
        BY Zenon DEF MindsStill, Minds
  <2> QED BY <2>1, Zenon DEF IInv, WakeKept, NoLostWake
<1> QED BY <1>1, Invariance, PTL

\* unlock.c:31 takes off the robust list what trylock put on it, as long as
\* trylock keeps the list.
THEOREM UnlinkIsSound == ASSUME Linux PROVE Spec => []UnlinksWhatWasLinked
<1>1. IInv => UnlinksWhatWasLinked
      BY DEF IInv, Local, Lists, UnlinksWhatWasLinked
<1> QED BY <1>1, Invariance, PTL

-----------------------------------------------------------------------------
(* Unrecoverable mutexes *)

\* No store of the library or of the kernel replaces the word of an
\* unrecoverable mutex: lock.c, trylock.c and timedlock.c compare with a word
\* that has no owner, unlock.c and the exit of a thread store over their own.
LEMMA UnrecoverableStep ==
  ASSUME IInv, [Next]_vars, NEW m \in Mutexes, lock[m].own = NotRec
  PROVE  lock'[m].own = NotRec
<1>1. CASE UNCHANGED lock
      BY <1>1
<1>2. CASE ~UNCHANGED lock
  <2>1. lock \in [Mutexes -> Words]
        BY DEF IInv, TypeOK
  <2>2. PICK t \in Threads :
           \/ AttemptNormal(t) \/ TryCas(t) \/ Mark(t) \/ UnlockSwap(t) \/ ExitSwap(t) \/ Crash(t)
           \/ \E n \in Mutexes : Consistent(t, n)
    <3>1. Next
          BY <1>2, Zenon DEF vars, memory
    <3>2. PICK t \in Threads :
             \/ \E n \in Mutexes, o \in {"lock", "try"} : Begin(t, n, o)
             \/ \E n \in Mutexes : UnlockBegin(t, n) \/ Consistent(t, n)
             \/ Step(t) \/ Timeout(t) \/ SpuriousWake(t)
             \/ Exit(t) \/ Crash(t) \/ Spawn(t)
          BY <3>1, Zenon DEF Next
    <3>3. /\ \A n \in Mutexes, o \in {"lock", "try"} : ~Begin(t, n, o)
          /\ \A n \in Mutexes : ~UnlockBegin(t, n)
          /\ ~Timeout(t) /\ ~SpuriousWake(t) /\ ~Exit(t) /\ ~Spawn(t)
          BY <1>2, Zenon DEF Begin, UnlockBegin, Timeout, SpuriousWake, Exit, Spawn, memory
    <3>4. /\ ~AttemptOwner(t) /\ ~Announce(t) /\ ~TryLink(t) /\ ~ReadWord(t)
          /\ ~CountIn(t) /\ ~FutexWait(t) /\ ~CountOut(t)
          BY <1>2, Zenon DEF AttemptOwner, Announce, TryLink, ReadWord, CountIn, FutexWait,
                CountOut, memory
    <3>5. /\ ~UnlockCheck(t) /\ ~Unlink(t) /\ ~Unpend(t) /\ ~UnlockWake(t)
          /\ ~ExitNext(t) /\ ~ExitWake(t)
          BY <1>2, Zenon DEF UnlockCheck, Unlink, Unpend, UnlockWake, ExitNext, ExitWake, memory
    <3> QED BY <3>2, <3>3, <3>4, <3>5, Zenon DEF Step
  <2>3. CASE AttemptNormal(t)
    <3>1. lock[mx[t]] = Free /\ lock' = [lock EXCEPT ![mx[t]] = [Free EXCEPT !.own = Busy]]
          BY <1>2, <2>3 DEF AttemptNormal
    <3>2. m # mx[t]
          BY <3>1, WordFacts, NoTid, Zenon
    <3> QED BY <2>1, <3>1, <3>2
  <2>4. CASE TryCas(t)
    <3>1. pc[t] = "cas" /\ lock[mx[t]] = old[t] /\ lock' = [lock EXCEPT ![mx[t]] = Taken(t)]
          BY <1>2, <2>4, Zenon DEF TryCas, Unchanged
    <3>2. old[t].own = NoThread
          BY <3>1, Zenon DEF IInv, Local, Remembers
    <3>3. m # mx[t]
          BY <3>1, <3>2, NoTid, Zenon
    <3> QED BY <2>1, <3>1, <3>3
  <2>5. CASE Mark(t)
    <3>1. lock' = [lock EXCEPT ![mx[t]] = IF @ = old[t] THEN [@ EXCEPT !.wait = TRUE] ELSE @]
          BY <2>5 DEF Mark
    <3>2. CASE m = mx[t] /\ lock[m] = old[t]
      <4>1. lock'[m] = [lock[m] EXCEPT !.wait = TRUE]
            BY <2>1, <3>1, <3>2
      <4> QED BY <2>1, <4>1, Marked
    <3>3. CASE ~(m = mx[t] /\ lock[m] = old[t])
          BY <2>1, <3>1, <3>3, Zenon
    <3> QED BY <3>2, <3>3, Zenon
  <2>6. CASE UnlockSwap(t)
    <3>1. pc[t] = "swap" /\ lock' = [lock EXCEPT ![mx[t]] = old[t]] /\ mx[t] \in Mutexes
          BY <2>6 DEF UnlockSwap, IInv, TypeOK
    <3>2. m # mx[t]
      <4>1. CASE Tracks(mx[t])
            BY <3>1, <4>1, SwapFacts, NoTid, Zenon
      <4>2. CASE ~Tracks(mx[t])
            BY <3>1, <4>2, NoTid, Zenon DEF IInv, Plain
      <4> QED BY <4>1, <4>2
    <3> QED BY <2>1, <3>1, <3>2, Zenon
  <2>7. CASE ExitSwap(t)
    <3>1. pc[t] = "exit_swap" /\ lock' = [lock EXCEPT ![mx[t]] = Died] /\ mx[t] \in Mutexes
          BY <2>7 DEF ExitSwap, IInv, TypeOK
    <3>2. Tracks(mx[t]) /\ Holding(t, mx[t])
          BY <3>1, Zenon DEF IInv, Local, Remembers, Holding, Here
    <3>3. m # mx[t]
          BY <3>1, <3>2, HeldFacts, NoTid, Zenon
    <3> QED BY <2>1, <3>1, <3>3, Zenon
  <2>8. CASE Crash(t)
    <3>1. ~KernelOwns(t, m)
          BY NoTid, Zenon DEF KernelOwns
    <3>2. lock' = [n \in Mutexes |-> IF KernelOwns(t, n)
                                      THEN [Died EXCEPT !.wait = lock[n].wait] ELSE lock[n]]
          BY <2>8, Zenon DEF Crash
    <3> QED BY <3>1, <3>2, Zenon
  <2>9. CASE \E n \in Mutexes : Consistent(t, n)
    <3>1. PICK n \in Mutexes : lock[n].own = t /\ lock' = [lock EXCEPT ![n].dead = FALSE]
          BY <2>9, Zenon DEF Consistent
    <3>2. m # n
          BY <3>1, NoTid
    <3> QED BY <2>1, <3>1, <3>2
  <2> QED BY <2>2, <2>3, <2>4, <2>5, <2>6, <2>7, <2>8, <2>9, Zenon
<1> QED BY <1>1, <1>2

\* A mutex that was unlocked in the inconsistent state stays unrecoverable.
THEOREM UnrecoverableStays == ASSUME Linux PROVE Spec => UnrecoverableForEver
<1>1. IInv /\ [Next]_vars =>
         [\A m \in Mutexes : lock[m].own = NotRec => lock'[m].own = NotRec]_vars
      BY UnrecoverableStep, Zenon
<1> QED BY <1>1, Invariance, PTL DEF Spec, UnrecoverableForEver

-----------------------------------------------------------------------------
(* A mutex is a lock *)

\* The places inside lock and trylock
AskLabels == {"attempt", "announce", "cas", "link", "read", "count_in"} \cup Counting

\* A step of t leaves the others where they are, but for waking them, and does
\* not make t ask for what it gives up.
Steady(t) ==
    /\ \A u \in Threads \ {t} : /\ depth'[u] = depth[u] /\ mx'[u] = mx[u]
                                /\ pc'[u] = pc[u] \/ (pc[u] = "asleep" /\ pc'[u] = "count_out")
    /\ depth' = depth \/ pc'[t] \notin AskLabels

\* Every step is one of a single caller.
LEMMA NextSteady ==
  ASSUME IInv, Next
  PROVE  \E t \in Threads : Steady(t)
<1>1. /\ pc \in [Threads -> Labels] /\ mx \in [Threads -> Mutexes]
      /\ depth \in [Threads -> [Mutexes -> Nat]]
      BY DEF IInv, TypeOK
<1>2. PICK t \in Threads :
         \/ \E m \in Mutexes, o \in {"lock", "try"} : Begin(t, m, o)
         \/ \E m \in Mutexes : UnlockBegin(t, m) \/ Consistent(t, m)
         \/ Step(t) \/ Timeout(t) \/ SpuriousWake(t)
         \/ Exit(t) \/ Crash(t) \/ Spawn(t)
      BY DEF Next
<1>3. ASSUME NEW l, pc' = [pc EXCEPT ![t] = l], UNCHANGED <<depth, mx>> PROVE Steady(t)
      BY <1>1, <1>3 DEF Steady
<1>4. ASSUME NEW l, NEW f, l \notin AskLabels, pc' = [pc EXCEPT ![t] = l],
             depth' = [depth EXCEPT ![t] = f], UNCHANGED mx
      PROVE  Steady(t)
      BY <1>1, <1>4 DEF Steady
<1>5. ASSUME NEW l, NEW f, NEW m, l \notin AskLabels, pc' = [pc EXCEPT ![t] = l],
             depth' = [depth EXCEPT ![t] = f], mx' = [mx EXCEPT ![t] = m]
      PROVE  Steady(t)
      BY <1>1, <1>5 DEF Steady
<1>6. \A l \in {"idle", "check", "unlink", "swap", "exit", "dead"} : l \notin AskLabels
      BY Zenon DEF AskLabels, Counting
<1>7. CASE \E m \in Mutexes, o \in {"lock", "try"} : Begin(t, m, o)
      BY <1>1, <1>7 DEF Begin, Goto, callers, Steady
<1>8. CASE \E m \in Mutexes : UnlockBegin(t, m) \/ Consistent(t, m)
  <2>1. PICK m \in Mutexes : UnlockBegin(t, m) \/ Consistent(t, m)
        BY <1>8
  <2>2. CASE UnlockBegin(t, m)
    <3> DEFINE l == IF Tracks(m) THEN "check" ELSE "swap"
               f == [depth[t] EXCEPT ![m] = IF Tracks(m) THEN @ ELSE 0]
    <3>1. l \in {"check", "swap"}
          OBVIOUS
    <3>2. pc' = [pc EXCEPT ![t] = l] /\ mx' = [mx EXCEPT ![t] = m]
          BY <2>2, Zenon DEF UnlockBegin, Goto
    <3>3. depth' = [depth EXCEPT ![t] = f]
          BY <2>2 DEF UnlockBegin
    <3> HIDE DEF l, f
    <3> QED BY <1>5, <1>6, <3>1, <3>2, <3>3, Zenon
  <2>3. CASE Consistent(t, m)
        BY <2>3, Zenon DEF Consistent, Steady, locals
  <2> QED BY <2>1, <2>2, <2>3
<1>9. CASE Timeout(t) \/ SpuriousWake(t) \/ Spawn(t)
      BY <1>3, <1>9 DEF Timeout, SpuriousWake, Spawn, Goto, locals, callers
<1>10. CASE Exit(t)
       BY <1>4, <1>6, <1>10, Zenon DEF Exit, Orphan, Goto, locals
<1>11. CASE Crash(t)
  <2>1. pc'[t] = "dead" /\ \A u \in Threads \ {t} : mx'[u] = mx[u] /\ depth'[u] = depth[u]
    <3>1. pc'[t] = "dead"
          BY <1>11, CrashFacts, Zenon
    <3>2. Orphan(t) /\ mx' = mx
          BY <1>11, Zenon DEF Crash
    <3>3. \A u \in Threads \ {t} : depth'[u] = depth[u]
          BY <3>2, OrphanFacts, Zenon DEF IInv
    <3> QED BY <3>1, <3>2, <3>3, Zenon
  <2>2. \A u \in Threads \ {t} : pc'[u] = pc[u] \/ (pc[u] = "asleep" /\ pc'[u] = "count_out")
    <3>1. PICK W \in KernelWoken(t) :
             /\ \A s \in W : s \in Threads \ {t} /\ pc[s] = "asleep" /\ pc'[s] = "count_out"
             /\ \A u \in Threads \ {t} : u \notin W => pc'[u] = pc[u]
          BY <1>11, CrashFacts, Zenon
    <3> QED BY <3>1, Zenon
  <2> QED BY <1>6, <2>1, <2>2 DEF Steady
<1>12. CASE Step(t)
  <2>1. CASE AttemptNormal(t)
    <3>1. CASE lock[mx[t]] = Free
          BY <1>4, <1>6, <2>1, <3>1 DEF AttemptNormal, Leave, Goto
    <3>2. CASE lock[mx[t]] # Free
          BY <1>3, <2>1, <3>2, Zenon DEF AttemptNormal, Leave, Goto
    <3> QED BY <3>1, <3>2
  <2>2. CASE AttemptOwner(t)
    <3>1. \/ UNCHANGED <<depth, mx>> /\ \E l : pc' = [pc EXCEPT ![t] = l]
          \/ /\ UNCHANGED mx /\ pc' = [pc EXCEPT ![t] = "idle"]
             /\ depth' = [depth EXCEPT ![t][mx[t]] = @ + 1]
          BY <2>2, Zenon DEF AttemptOwner, Leave, Goto
    <3> QED BY <1>3, <1>4, <1>6, <3>1
  <2>3. CASE Announce(t) \/ TryCas(t) \/ ReadWord(t) \/ CountIn(t) \/ Mark(t) \/ FutexWait(t)
             \/ CountOut(t)
    <3>1. CASE Announce(t) \/ CountIn(t) \/ Mark(t) \/ FutexWait(t)
          BY <1>3, <3>1 DEF Announce, CountIn, Mark, FutexWait, Goto, locals, callers
    <3>2. CASE TryCas(t)
          BY <1>3, <3>2, Zenon DEF TryCas, Leave, Goto, callers
    <3>3. CASE ReadWord(t)
          BY <1>3, <3>3, Zenon DEF ReadWord, Leave, Goto, callers
    <3>4. CASE CountOut(t)
          BY <1>3, <3>4, Zenon DEF CountOut, Leave, Goto, callers
    <3> QED BY <2>3, <3>1, <3>2, <3>3, <3>4, Zenon
  <2>4. CASE TryLink(t)
        BY <1>4, <1>6, <2>4, Zenon DEF TryLink, Leave, Goto
  <2>5. CASE UnlockCheck(t)
    <3>1. CASE lock[mx[t]].own # t
          BY <1>3, <2>5, <3>1 DEF UnlockCheck, Goto
    <3>2. CASE lock[mx[t]].own = t
      <4>1. PICK l, f :
               /\ l \in {"idle", "unlink"}
               /\ pc' = [pc EXCEPT ![t] = l] /\ UNCHANGED mx
               /\ depth' = [depth EXCEPT ![t] = f]
            BY <2>5, <3>2 DEF UnlockCheck, Goto
      <4> QED BY <1>4, <1>6, <4>1, Zenon
    <3> QED BY <3>1, <3>2, Zenon
  <2>6. CASE Unlink(t) \/ UnlockSwap(t) \/ Unpend(t) \/ ExitSwap(t)
        BY <1>3, <2>6, Zenon DEF Unlink, UnlockSwap, Unpend, ExitSwap, Goto, locals, callers
  <2>7. CASE UnlockWake(t) \/ ExitWake(t)
    <3>1. PICK l : WakeOne(t, mx[t], l) /\ UNCHANGED <<depth, mx>>
          BY <2>7, Zenon DEF UnlockWake, ExitWake, locals, callers
    <3>2. CASE pc' = [pc EXCEPT ![t] = l]
          BY <1>3, <3>1, <3>2, Zenon
    <3>3. CASE \E s \in Sleepers(mx[t]) : pc' = [pc EXCEPT ![s] = "count_out", ![t] = l]
          BY <1>1, <3>1, <3>3 DEF Steady, Sleepers
    <3> QED BY <3>1, <3>2, <3>3 DEF WakeOne, Goto
  <2>8. CASE ExitNext(t)
        BY <1>1, <2>8, Zenon DEF ExitNext, Goto, callers, Steady
  <2> QED BY <1>12, <2>1, <2>2, <2>3, <2>4, <2>5, <2>6, <2>7, <2>8, Zenon DEF Step
<1> QED BY <1>2, <1>7, <1>8, <1>9, <1>10, <1>11, <1>12, Zenon

\* The holder of the abstract lock is the one caller who holds the mutex.
HolderHolds ==
    \A m \in Mutexes : /\ \A t \in Threads : depth[t][m] > 0 => Holder(m) = t
                       /\ (\A t \in Threads : depth[t][m] = 0) => Holder(m) = NoThread

\* Nobody else holds it.
LEMMA HolderIs == IInv => HolderHolds
<1> SUFFICES ASSUME IInv, NEW m \in Mutexes
             PROVE  /\ \A t \in Threads : depth[t][m] > 0 => Holder(m) = t
                    /\ (\A t \in Threads : depth[t][m] = 0) => Holder(m) = NoThread
    BY DEF HolderHolds
<1>1. \A t \in Threads : depth[t][m] \in Nat
      BY Zenon DEF IInv, TypeOK
<1>2. ASSUME NEW t \in Threads, NEW s \in Threads, depth[t][m] > 0, depth[s][m] > 0
      PROVE  s = t
  <2>1. CASE Tracks(m)
        BY <1>2, <2>1, Zenon DEF IInv, Owner, Holding
  <2>2. CASE ~Tracks(m)
        BY <1>2, <2>2, Zenon DEF IInv, Plain, Has
  <2> QED BY <2>1, <2>2, Zenon
<1>3. ASSUME NEW t \in Threads, depth[t][m] > 0 PROVE Holder(m) = t
  <2>1. Held(m) /\ \E s \in Threads : depth[s][m] > 0
        BY <1>3 DEF Held
  <2>2. LET c == CHOOSE s \in Threads : depth[s][m] > 0 IN c \in Threads /\ depth[c][m] > 0
        BY <2>1
  <2> QED BY <1>2, <1>3, <2>1, <2>2, Zenon DEF Holder
<1>4. (\A t \in Threads : depth[t][m] = 0) => Holder(m) = NoThread
      BY <1>1 DEF Holder, Held
<1> QED BY <1>3, <1>4, Zenon

\* The same, after a step
LEMMA HolderIsNext == IInv' => HolderHolds'
BY HolderIs, PTL

\* What one caller does to one mutex is a step of the abstract lock, or nothing.
LEMMA AbsStep ==
  ASSUME IInv, IInv', NEW t \in Threads, Steady(t), NEW m \in Mutexes
  PROVE  [Abs(m)!Next]_(Abs(m)!vars)
<1>1. /\ \A u \in Threads : depth[u][m] \in Nat /\ depth'[u][m] \in Nat
      /\ t # NoThread
      BY NoTid DEF IInv, TypeOK
<1>2. \A u \in Threads : /\ u \in Asking(m) <=> mx[u] = m /\ depth[u][m] = 0 /\ pc[u] \in AskLabels
                         /\ u \in Asking(m)' <=> mx'[u] = m /\ depth'[u][m] = 0 /\ pc'[u] \in AskLabels
      BY Zenon DEF Asking, AskLabels, Counting
<1>3. Asking(m) \subseteq Threads /\ Asking(m)' \subseteq Threads
      BY DEF Asking
<1>4. \A u \in Threads \ {t} : /\ depth'[u][m] = depth[u][m]
                               /\ u \in Asking(m)' <=> u \in Asking(m)
  <2>1. "asleep" \in AskLabels /\ "count_out" \in AskLabels
        BY DEF AskLabels, Counting
  <2> QED BY <1>2, <2>1, Zenon DEF Steady
<1>5. /\ \A u \in Threads : depth[u][m] > 0 => Holder(m) = u
      /\ \A u \in Threads : depth'[u][m] > 0 => Holder(m)' = u
      /\ (\A u \in Threads : depth[u][m] = 0) => Holder(m) = NoThread
      /\ (\A u \in Threads : depth'[u][m] = 0) => Holder(m)' = NoThread
  <2>1. HolderHolds /\ HolderHolds'
        BY HolderIs, HolderIsNext
  <2> QED BY <2>1, Zenon DEF HolderHolds
<1>6. CASE depth[t][m] = 0 /\ depth'[t][m] = 0
  <2>1. Holder(m)' = Holder(m) /\ Holder(m) # t
    <3>1. CASE \E u \in Threads : depth[u][m] > 0
      <4>1. PICK u \in Threads : depth[u][m] > 0
            BY <3>1, Zenon
      <4>2. u # t /\ depth'[u][m] > 0
            BY <1>4, <1>6, <4>1, ZeroFacts, Zenon
      <4> QED BY <1>5, <4>1, <4>2, Zenon
    <3>2. CASE ~\E u \in Threads : depth[u][m] > 0
      <4>1. \A u \in Threads : depth[u][m] = 0 /\ depth'[u][m] = 0
            BY <1>1, <1>4, <1>6, <3>2, ZeroFacts, Zenon
      <4> QED BY <1>1, <1>5, <4>1, Zenon
    <3> QED BY <3>1, <3>2, Zenon
  <2>2. CASE t \in Asking(m) <=> t \in Asking(m)'
    <3>1. Asking(m)' = Asking(m)
      <4>1. \A u \in Threads : u \in Asking(m)' <=> u \in Asking(m)
            BY <1>4, <2>2, Zenon
      <4> QED BY <1>3, <4>1, Zenon
    <3> QED BY <2>1, <3>1, Zenon DEF Abs!vars
  <2>3. CASE t \notin Asking(m) /\ t \in Asking(m)'
    <3>1. Asking(m)' = Asking(m) \cup {t}
          BY <1>3, <1>4, <2>3, Zenon
    <3> QED BY <2>1, <2>3, <3>1, Zenon DEF Abs!Next, Abs!Ask
  <2>4. CASE t \in Asking(m) /\ t \notin Asking(m)'
    <3>1. Asking(m)' = Asking(m) \ {t}
          BY <1>3, <1>4, <2>4, Zenon
    <3> QED BY <2>1, <2>4, <3>1, Zenon DEF Abs!Next, Abs!GiveUp
  <2> QED BY <2>2, <2>3, <2>4, Zenon
<1>7. CASE depth[t][m] = 0 /\ depth'[t][m] > 0
  <2>1. \A u \in Threads : depth[u][m] = 0
    <3>1. ASSUME NEW u \in Threads, depth[u][m] # 0 PROVE FALSE
      <4>1. u # t /\ depth'[u][m] > 0
            BY <1>1, <1>4, <1>7, <3>1, ZeroFacts, Zenon
      <4> QED BY <1>5, <1>7, <4>1, Zenon
    <3> QED BY <3>1, Zenon
  <2>2. Holder(m) = NoThread /\ Holder(m)' = t
        BY <1>5, <1>7, <2>1, Zenon
  <2>3. t \notin Asking(m)' /\ Asking(m)' = Asking(m) \ {t}
    <3>1. t \notin Asking(m)'
          BY <1>2, <1>7, ZeroFacts, Zenon
    <3> QED BY <1>3, <1>4, <3>1, Zenon
  <2>4. CASE t \in Asking(m)
        BY <2>2, <2>3, <2>4, Zenon DEF Abs!Next, Abs!Grant
  <2>5. CASE t \notin Asking(m)
    <3>1. Asking(m)' = Asking(m)
          BY <2>3, <2>5, Zenon
    <3> QED BY <2>2, <2>5, <3>1, Zenon DEF Abs!Next, Abs!AskAndGrant
  <2> QED BY <2>4, <2>5
<1>8. CASE depth[t][m] > 0
  <2>1. Holder(m) = t /\ t \notin Asking(m)
        BY <1>2, <1>5, <1>8, ZeroFacts, Zenon
  <2>2. t \notin Asking(m)'
    <3>1. CASE depth' = depth
          BY <1>2, <1>8, <3>1, ZeroFacts, Zenon
    <3>2. CASE pc'[t] \notin AskLabels
          BY <1>2, <3>2, Zenon
    <3> QED BY <3>1, <3>2, Zenon DEF Steady
  <2>3. Asking(m)' = Asking(m)
    <3>1. \A u \in Threads : u \in Asking(m)' <=> u \in Asking(m)
          BY <1>4, <2>1, <2>2, Zenon
    <3> QED BY <1>3, <3>1, Zenon
  <2>4. CASE depth'[t][m] > 0
    <3>1. Holder(m)' = t
          BY <1>5, <2>4, Zenon
    <3> QED BY <2>1, <2>3, <3>1, Zenon DEF Abs!vars
  <2>5. CASE depth'[t][m] = 0
    <3>1. \A u \in Threads : depth'[u][m] = 0
      <4>1. ASSUME NEW u \in Threads, u # t PROVE depth[u][m] = 0
            BY <1>1, <1>5, <1>8, <4>1, ZeroFacts, Zenon
      <4> QED BY <1>4, <2>5, <4>1, Zenon
    <3>2. Holder(m)' = NoThread
          BY <1>5, <3>1, Zenon
    <3> QED BY <2>1, <2>3, <3>2, Zenon DEF Abs!Next, Abs!Release
  <2> QED BY <1>1, <2>4, <2>5, ZeroFacts, Zenon
<1> QED BY <1>1, <1>6, <1>7, <1>8, ZeroFacts, Zenon

\* A step of the mutexes is one of each abstract lock, or invisible to it.
LEMMA RefinesNext ==
  ASSUME Linux, IInv, [Next]_vars
  PROVE  \A m \in Mutexes : [Abs(m)!Next]_(Abs(m)!vars)
<1> SUFFICES ASSUME NEW m \in Mutexes PROVE [Abs(m)!Next]_(Abs(m)!vars)
    OBVIOUS
<1>1. CASE UNCHANGED vars
      BY <1>1, Zenon DEF vars, locals, callers, Abs!vars, Asking, Holder, Held
<1>2. CASE Next
  <2>1. PICK t \in Threads : Steady(t)
        BY <1>2, NextSteady
  <2>2. IInv'
        BY NextInv
  <2> QED BY <2>1, <2>2, AbsStep
<1> QED BY <1>1, <1>2

\* No mutex is asked for or held at first.
LEMMA RefinesInit == Init => \A m \in Mutexes : Abs(m)!Init
<1> SUFFICES ASSUME Init, NEW m \in Mutexes PROVE Abs(m)!Init
    OBVIOUS
<1>1. Asking(m) = {}
      BY Zenon DEF Init, Asking
<1>2. Holder(m) = NoThread
      BY DEF Init, Holder, Held
<1> QED BY <1>1, <1>2 DEF Abs!Init

\* pthread_mutex_lock, _trylock, _timedlock and _unlock implement the abstract
\* lock on every mutex, for any number of threads, of mutexes and of deaths.
THEOREM MutexRefines == ASSUME Linux PROVE Spec => ImplementsLock
<1>1. IInv /\ [Next]_vars => [\A m \in Mutexes : [Abs(m)!Next]_(Abs(m)!vars)]_vars
      BY RefinesNext
<1> QED BY <1>1, RefinesInit, Invariance, PTL DEF Spec, ImplementsLock
=============================================================================
