------------------------- MODULE HierarchyMutexProofs -------------------------
(* What hierarchy_mutex guarantees for every number of threads, mutexes and   *)
(* levels.                                                                    *)
EXTENDS HierarchyMutex, WellFoundedInduction, TLAPS

\* The invariant holds before any thread has locked a mutex.
LEMMA InitInvariant == Init => IInv
  BY LevelAssumption, NamesAssumption
  DEF Init, IInv, TypeOK, LevelStack, BelowHeld, Holds

\* Steps that change neither a level nor who holds what keep the stack of levels.
LEMMA StackUntouched ==
  ASSUME LevelStack, UNCHANGED <<here, prev>>,
         \A u \in Threads, n \in Mutexes : Holds(u, n)' <=> Holds(u, n)
  PROVE  LevelStack'
  BY DEF LevelStack

\* check() keeps a thread from locking what is not below all it holds.
LEMMA CallKeeps ==
  ASSUME IInv, NEW t \in Threads, NEW m \in Mutexes,
         NEW place \in {"lock", "try"}, Call(t, m, place)
  PROVE  IInv'
<1> USE LevelAssumption, NamesAssumption DEF IInv, Call, Check
<1>1. TypeOK'
  BY DEF TypeOK
<1>2. \A u \in Threads, n \in Mutexes : Holds(u, n)' <=> Holds(u, n)
  BY DEF TypeOK, Holds
<1>3. LevelStack'
  BY <1>2, StackUntouched
<1>4. BelowHeld'
  BY DEF BelowHeld, TypeOK
<1> QED BY <1>1, <1>3, <1>4

\* A mutex just acquired is not on the stack yet.
LEMMA AcquireKeeps ==
  ASSUME IInv, NEW t \in Threads, Acquire(t)
  PROVE  IInv'
<1> USE LevelAssumption, NamesAssumption DEF IInv, Acquire
<1>0. target[t] \in Mutexes
  BY DEF TypeOK
<1>1. TypeOK'
  BY <1>0 DEF TypeOK
<1>2. \A u \in Threads, n \in Mutexes : Holds(u, n)' <=> Holds(u, n)
  BY <1>0 DEF TypeOK, Holds
<1>3. LevelStack'
  BY <1>2, StackUntouched
<1>4. BelowHeld'
  BY <1>0 DEF BelowHeld, TypeOK
<1> QED BY <1>1, <1>3, <1>4

\* A try_lock() that fails leaves everything as it was.
LEMMA TryFailsKeeps ==
  ASSUME IInv, NEW t \in Threads, TryFails(t)
  PROVE  IInv'
<1> USE LevelAssumption, NamesAssumption DEF IInv, TryFails
<1>1. TypeOK'
  BY DEF TypeOK
<1>2. \A u \in Threads, n \in Mutexes : Holds(u, n)' <=> Holds(u, n)
  BY DEF TypeOK, Holds
<1>3. LevelStack'
  BY <1>2, StackUntouched
<1>4. BelowHeld'
  BY DEF BelowHeld, TypeOK
<1> QED BY <1>1, <1>3, <1>4

\* update_hierarchy() pushes the new level on the stack.
LEMMA UpdateKeeps ==
  ASSUME IInv, NEW t \in Threads, UpdateHierarchy(t)
  PROVE  IInv'
<1> USE LevelAssumption, NamesAssumption DEF IInv, UpdateHierarchy
<1> DEFINE m == target[t]
<1>0. m \in Mutexes /\ owner[m] = t /\ Level[m] < here[t]
  BY DEF TypeOK, BelowHeld
<1>1. TypeOK'
  BY <1>0 DEF TypeOK
<1>2. \A u \in Threads, n \in Mutexes :
        Holds(u, n)' <=> Holds(u, n) \/ (u = t /\ n = m)
  BY <1>0 DEF TypeOK, Holds
<1>3. ~Holds(t, m) /\ \A u \in Threads : Holds(u, m) => u = t
  BY <1>0 DEF Holds
<1>4. here'[t] = Level[m] /\ prev'[m] = here[t]
  BY <1>0 DEF TypeOK
<1>5. \A u \in Threads \ {t} : here'[u] = here[u]
  BY DEF TypeOK
<1>6. \A n \in Mutexes \ {m} : prev'[n] = prev[n]
  BY DEF TypeOK
<1>7. LevelStack'
  <2>1. \A n \in Mutexes : Level[n] \in Nat /\ prev[n] \in Nat
    <3>1. \A k \in 0..Top : k \in Nat
      OBVIOUS
    <3> QED BY <3>1 DEF TypeOK
  <2>2. \A u \in Threads : here[u] \in Nat
    BY DEF TypeOK
  <2> SUFFICES ASSUME NEW u \in Threads
               PROVE  /\ here'[u] = Top \/ \E n \in Mutexes : Holds(u, n)' /\ Level[n] = here'[u]
                      /\ \A n \in Mutexes : Holds(u, n)' =>
                           /\ here'[u] <= Level[n]
                           /\ Level[n] < prev'[n]
                           /\ prev'[n] = Top \/ \E k \in Mutexes : Holds(u, k)' /\ Level[k] = prev'[n]
                           /\ \A k \in Mutexes \ {n} :
                                Holds(u, k)' => Level[k] < Level[n] \/ prev'[n] <= Level[k]
    BY DEF LevelStack
  <2>3. CASE u # t
    <3>1. \A n \in Mutexes : Holds(u, n)' <=> Holds(u, n)
      BY <1>2, <2>3
    <3>2. \A n \in Mutexes : Holds(u, n) => n # m
      BY <1>3, <2>3
    <3> QED BY <3>1, <3>2, <1>5, <1>6, <2>3 DEF LevelStack
  <2>4. CASE u = t
    <3>1. \A n \in Mutexes : Holds(t, n)' <=> Holds(t, n) \/ n = m
      BY <1>2
    <3>2. here'[t] = Top \/ \E n \in Mutexes : Holds(t, n)' /\ Level[n] = here'[t]
      BY <1>0, <1>4, <3>1
    <3>3. ASSUME NEW n \in Mutexes, Holds(t, n)
          PROVE  /\ here'[t] <= Level[n]
                 /\ Level[n] < prev'[n]
                 /\ prev'[n] = Top \/ \E k \in Mutexes : Holds(t, k)' /\ Level[k] = prev'[n]
                 /\ \A k \in Mutexes \ {n} :
                      Holds(t, k)' => Level[k] < Level[n] \/ prev'[n] <= Level[k]
      <4>1. n # m /\ prev'[n] = prev[n]
        BY <3>3, <1>3, <1>6
      <4>2. /\ here[t] <= Level[n]
            /\ Level[n] < prev[n]
            /\ prev[n] = Top \/ \E k \in Mutexes : Holds(t, k) /\ Level[k] = prev[n]
            /\ \A k \in Mutexes \ {n} :
                 Holds(t, k) => Level[k] < Level[n] \/ prev[n] <= Level[k]
        BY <3>3 DEF LevelStack
      <4>3. Level[m] < Level[n]
        BY <1>0, <4>2, <2>1, <2>2
      <4> QED BY <4>1, <4>2, <4>3, <3>1, <1>4, <1>0, <2>1
    <3>4. /\ here'[t] <= Level[m]
          /\ Level[m] < prev'[m]
          /\ prev'[m] = Top \/ \E k \in Mutexes : Holds(t, k)' /\ Level[k] = prev'[m]
          /\ \A k \in Mutexes \ {m} :
               Holds(t, k)' => Level[k] < Level[m] \/ prev'[m] <= Level[k]
      <4>1. /\ here[t] = Top \/ \E k \in Mutexes : Holds(t, k) /\ Level[k] = here[t]
            /\ \A k \in Mutexes : Holds(t, k) => here[t] <= Level[k]
        BY DEF LevelStack
      <4> QED BY <4>1, <3>1, <1>0, <1>4, <2>1
    <3> QED BY <2>4, <3>1, <3>2, <3>3, <3>4
  <2> QED BY <2>3, <2>4
<1>8. BelowHeld'
  BY DEF BelowHeld, TypeOK
<1> QED BY <1>1, <1>7, <1>8

\* unlock() pops the top of the stack: nothing else that the thread holds has
\* recorded the level of the mutex given back.
LEMMA UnlockKeeps ==
  ASSUME IInv, NEW t \in Threads, NEW m \in Mutexes, Unlock(t, m)
  PROVE  IInv'
<1> USE LevelAssumption, NamesAssumption DEF IInv, Unlock
<1>1. TypeOK'
  BY DEF TypeOK
<1>2. \A u \in Threads, n \in Mutexes :
        Holds(u, n)' <=> Holds(u, n) /\ n # m
  BY DEF TypeOK, Holds
<1>3. Holds(t, m) /\ \A u \in Threads : Holds(u, m) => u = t
  BY DEF Holds
<1>4. here'[t] = prev[m] /\ prev' = prev /\ here[t] = Level[m]
  BY DEF TypeOK
<1>5. \A u \in Threads \ {t} : here'[u] = here[u]
  BY DEF TypeOK
<1>6. LevelStack'
  <2>1. \A n \in Mutexes : Level[n] \in Nat /\ prev[n] \in Nat
    <3>1. \A k \in 0..Top : k \in Nat
      OBVIOUS
    <3> QED BY <3>1 DEF TypeOK
  <2> SUFFICES ASSUME NEW u \in Threads
               PROVE  /\ here'[u] = Top \/ \E n \in Mutexes : Holds(u, n)' /\ Level[n] = here'[u]
                      /\ \A n \in Mutexes : Holds(u, n)' =>
                           /\ here'[u] <= Level[n]
                           /\ Level[n] < prev[n]
                           /\ prev[n] = Top \/ \E k \in Mutexes : Holds(u, k)' /\ Level[k] = prev[n]
                           /\ \A k \in Mutexes \ {n} :
                                Holds(u, k)' => Level[k] < Level[n] \/ prev[n] <= Level[k]
    BY <1>4 DEF LevelStack
  <2>2. CASE u # t
    <3>1. \A n \in Mutexes : Holds(u, n)' <=> Holds(u, n)
      BY <1>2, <1>3, <2>2
    <3> QED BY <3>1, <1>5, <2>2 DEF LevelStack
  <2>3. CASE u = t
    <3>1. \A n \in Mutexes : Holds(t, n)' <=> Holds(t, n) /\ n # m
      BY <1>2
    <3>2. /\ Level[m] < prev[m]
          /\ prev[m] = Top \/ \E k \in Mutexes : Holds(t, k) /\ Level[k] = prev[m]
          /\ \A k \in Mutexes \ {m} :
               Holds(t, k) => Level[k] < Level[m] \/ prev[m] <= Level[k]
      BY <1>3 DEF LevelStack
    <3>3. here'[t] = Top \/ \E n \in Mutexes : Holds(t, n)' /\ Level[n] = here'[t]
      BY <3>1, <3>2, <1>4, <2>1
    <3>4. ASSUME NEW n \in Mutexes, Holds(t, n), n # m
          PROVE  /\ here'[t] <= Level[n]
                 /\ Level[n] < prev[n]
                 /\ prev[n] = Top \/ \E k \in Mutexes : Holds(t, k)' /\ Level[k] = prev[n]
                 /\ \A k \in Mutexes \ {n} :
                      Holds(t, k)' => Level[k] < Level[n] \/ prev[n] <= Level[k]
      <4>1. /\ here[t] <= Level[n]
            /\ Level[n] < prev[n]
            /\ prev[n] = Top \/ \E k \in Mutexes : Holds(t, k) /\ Level[k] = prev[n]
            /\ \A k \in Mutexes \ {n} :
                 Holds(t, k) => Level[k] < Level[n] \/ prev[n] <= Level[k]
        BY <3>4 DEF LevelStack
      <4>2. prev[m] <= Level[n]
        BY <3>4, <3>2, <4>1, <1>4, <2>1
      <4> QED BY <4>1, <4>2, <3>1, <1>4, <2>1
    <3> QED BY <2>3, <3>1, <3>3, <3>4
  <2> QED BY <2>2, <2>3
<1>7. BelowHeld'
  <2>1. \A u \in Threads : here'[u] >= here[u]
    <3>1. Level[m] < prev[m]
      BY <1>3 DEF LevelStack
    <3> QED BY <3>1, <1>4, <1>5 DEF TypeOK
  <2> SUFFICES ASSUME NEW u \in Threads
               PROVE  /\ pc[u] # "idle" => Level[target[u]] < here'[u]
                      /\ pc[u] = "update" => owner'[target[u]] = u
    BY DEF BelowHeld
  <2>2. pc[u] # "idle" => /\ target[u] \in Mutexes
                          /\ Level[target[u]] < here[u]
    BY DEF BelowHeld, TypeOK
  <2>3. pc[u] # "idle" => Level[target[u]] < here'[u]
    BY <2>1, <2>2, <1>1 DEF TypeOK
  <2>4. pc[u] = "update" => owner'[target[u]] = u
    BY <2>2 DEF BelowHeld, TypeOK
  <2> QED BY <2>3, <2>4
<1> QED BY <1>1, <1>6, <1>7

\* Every step keeps the invariant.
LEMMA StepKeeps == IInv /\ [Next]_vars => IInv'
<1> SUFFICES ASSUME IInv, [Next]_vars PROVE IInv'
  OBVIOUS
<1>1. CASE UNCHANGED vars
  BY <1>1 DEF vars, IInv, TypeOK, LevelStack, BelowHeld, Holds
<1>2. CASE Next
  <2>1. PICK t \in Threads :
          \/ \E m \in Mutexes : Lock(t, m) \/ TryLock(t, m) \/ Unlock(t, m)
          \/ Acquire(t) \/ TryFails(t) \/ UpdateHierarchy(t)
    BY <1>2 DEF Next
  <2>2. CASE \E m \in Mutexes : Lock(t, m) \/ TryLock(t, m)
    BY <2>2, CallKeeps DEF Lock, TryLock
  <2>3. CASE \E m \in Mutexes : Unlock(t, m)
    BY <2>3, UnlockKeeps
  <2>4. CASE Acquire(t)
    BY <2>4, AcquireKeeps
  <2>5. CASE TryFails(t)
    BY <2>5, TryFailsKeeps
  <2>6. CASE UpdateHierarchy(t)
    BY <2>6, UpdateKeeps
  <2> QED BY <2>1, <2>2, <2>3, <2>4, <2>5, <2>6
<1> QED BY <1>1, <1>2

\* The stack of levels is whole in every reachable state.
THEOREM StackHolds == Spec => []IInv
  BY InitInvariant, StepKeeps, PTL DEF Spec

\* Type correctness.
THEOREM TypeCorrect == Spec => []TypeOK
<1>1. IInv => TypeOK
  BY DEF IInv
<1> QED BY <1>1, StackHolds, PTL

\* No thread ever calls lock() or try_lock() of the std::mutex on one it holds.
THEOREM NeverSelfLocks == Spec => []NoSelfLock
<1>1. IInv => NoSelfLock
  <2> SUFFICES ASSUME IInv, NEW t \in Threads, pc[t] \in {"lock", "try"},
                      owner[target[t]] = t
               PROVE  FALSE
    BY DEF NoSelfLock
  <2>1. target[t] \in Mutexes /\ Holds(t, target[t])
    BY DEF IInv, TypeOK, Holds
  <2>2. here[t] <= Level[target[t]] /\ Level[target[t]] < here[t]
    BY <2>1 DEF IInv, LevelStack, BelowHeld
  <2> QED BY <2>1, <2>2, LevelAssumption DEF IInv, TypeOK
<1> QED BY <1>1, StackHolds, PTL

\* A thread that holds nothing is back at the initial level.
THEOREM LevelComesBack == Spec => []LevelRestored
<1>1. IInv => LevelRestored
  BY DEF IInv, LevelStack, LevelRestored, Holds
<1> QED BY <1>1, StackHolds, PTL

\* Of the mutexes a thread holds exactly one, the last one locked, can be unlocked.
THEOREM OneCanBeUnlocked == Spec => []OneToUnlock
<1>1. IInv => OneToUnlock
  <2> SUFFICES ASSUME IInv, NEW t \in Threads, pc[t] = "idle",
                      NEW h \in Mutexes, owner[h] = t
               PROVE  \E m \in Mutexes : \A n \in Mutexes :
                        owner[n] = t /\ here[t] = Level[n] <=> n = m
    BY DEF OneToUnlock
  <2>1. \A n \in Mutexes : Holds(t, n) <=> owner[n] = t
    BY DEF Holds
  <2>2. \A n \in Mutexes : Level[n] \in 0..Top /\ prev[n] \in 0..Top
    BY LevelAssumption DEF IInv, TypeOK
  <2>3. here[t] <= Level[h] /\ Level[h] < prev[h]
    BY <2>1 DEF IInv, LevelStack
  <2>4. here[t] # Top
    BY <2>2, <2>3, LevelAssumption DEF IInv, TypeOK
  <2>5. PICK m \in Mutexes : Holds(t, m) /\ Level[m] = here[t]
    BY <2>4 DEF IInv, LevelStack
  <2>6. Level[m] < prev[m] /\ \A n \in Mutexes \ {m} :
          Holds(t, n) => Level[n] < Level[m] \/ prev[m] <= Level[n]
    BY <2>5 DEF IInv, LevelStack
  <2>7. \A n \in Mutexes \ {m} : Holds(t, n) => Level[n] # Level[m]
    BY <2>2, <2>6, LevelAssumption
  <2> QED BY <2>1, <2>5, <2>7
<1> QED BY <1>1, StackHolds, PTL

\* Threads never wait for each other in a circle: of the threads that wait, the one
\* that waits for the lowest level waits for a thread that does not wait.
THEOREM NeverInACircle == Spec => []NoCircularWait
<1>1. IInv => NoCircularWait
  <2> SUFFICES ASSUME IInv, NEW w \in Threads, Waits(w),
                      \A t, u \in Threads : Waits(t) /\ owner[target[t]] = u => Waits(u)
               PROVE  FALSE
    BY DEF NoCircularWait
  <2> DEFINE Awaited == {n \in Nat : \E t \in Threads : Waits(t) /\ Level[target[t]] = n}
  <2>1. \A t \in Threads : Waits(t) =>
          /\ target[t] \in Mutexes
          /\ Level[target[t]] \in Nat
          /\ owner[target[t]] \in Threads
    BY LevelAssumption DEF IInv, TypeOK, Waits
  <2>2. Awaited \subseteq Nat /\ Awaited # {}
    BY <2>1
  <2>3. PICK n \in Awaited : \A k \in Awaited : n <= k
    <3> DEFINE Below == {p \in Nat \X Nat : p[1] < p[2]}
    <3> HIDE DEF Awaited
    <3>1. IsWellFoundedOn(Below, Nat)
      BY NatLessThanWellFounded DEF OpToRel
    <3>2. PICK n \in Awaited : \A k \in Awaited : <<k, n>> \notin Below
      <4> HIDE DEF Below
      <4>1. \E n \in Awaited : \A k \in Awaited : ~ (<<k, n>> \in Below)
        BY <2>2, <3>1, WFMin
      <4> QED BY <4>1
    <3>3. ASSUME NEW k \in Awaited PROVE n <= k
      <4>1. k \in Nat /\ n \in Nat
        BY <2>2
      <4>2. <<k, n>> \notin Below
        BY <3>2
      <4>3. ~(k < n)
        BY <4>1, <4>2
      <4> QED BY <4>1, <4>3
    <3> QED BY <3>3
  <2>4. PICK t \in Threads : Waits(t) /\ Level[target[t]] = n
    BY <2>3
  <2> DEFINE u == owner[target[t]]
  <2>5. u \in Threads /\ Waits(u)
    BY <2>1, <2>4
  <2>6. Holds(u, target[t])
    BY <2>5 DEF Holds, Waits
  <2>7. here[u] <= Level[target[t]] /\ Level[target[u]] < here[u]
    BY <2>1, <2>4, <2>5, <2>6 DEF IInv, LevelStack, BelowHeld, Waits
  <2>8. Level[target[u]] < n
    BY <2>1, <2>4, <2>5, <2>7 DEF IInv, TypeOK
  <2>9. Level[target[u]] \in Awaited
    BY <2>1, <2>5
  <2> QED BY <2>1, <2>3, <2>8, <2>9
<1> QED BY <1>1, StackHolds, PTL
=============================================================================
