----------------------------- MODULE TsStackProofs -----------------------------
(* That the waiting pops of ts_stack are woken, for any number of threads.    *)
EXTENDS TsStack, FiniteSetTheorems, SequenceTheorems, TLAPS

\* Threads on the way can be counted.
LEMMA OnTheWayFinite ==
  /\ IsFiniteSet(OnTheWay) /\ Cardinality(OnTheWay) \in Nat
  /\ Cardinality(OnTheWay') \in Nat
<1>1. IsFiniteSet(OnTheWay) /\ IsFiniteSet(OnTheWay')
  BY StackAssumption, FS_Subset DEF OnTheWay
<1> QED BY <1>1, FS_CardinalityType

\* One thread more on the way.
LEMMA EntersWay ==
  ASSUME NEW t \in Threads, t \notin OnTheWay, OnTheWay' = OnTheWay \cup {t}
  PROVE  Cardinality(OnTheWay') = Cardinality(OnTheWay) + 1
  BY OnTheWayFinite, FS_AddElement

\* One thread less.
LEMMA LeavesWay ==
  ASSUME NEW t \in Threads, t \in OnTheWay, OnTheWay' = OnTheWay \ {t}
  PROVE  Cardinality(OnTheWay') = Cardinality(OnTheWay) - 1
  BY OnTheWayFinite, FS_RemoveElement

\* Nobody is there at first.
LEMMA StackInitInvariant == StackInit => StackIInv
<1> SUFFICES ASSUME StackInit PROVE StackIInv
  OBVIOUS
<1> USE StackAssumption DEF StackInit
<1>1. StackTypeOK
  <2>1. <<>> \in Seq(Values) /\ Len(<<>>) = 0
    BY EmptySeq
  <2>2. stack \in Seq(Values) /\ Len(stack) = 0 /\ MaxLen \in Nat
    BY <2>1
  <2>3. pc \in [Threads -> {"idle", "one", "all", "enter", "woken", "expired", "park", "asleep"}]
    OBVIOUS
  <2>4. interrupt \in BOOLEAN /\ quiet \in BOOLEAN /\ mutex \in Threads \cup {NoThread}
    OBVIOUS
  <2>5. Len(stack) <= MaxLen
    BY <2>2
  <2> HIDE DEF StackInit
  <2> QED BY <2>2, <2>3, <2>4, <2>5 DEF StackTypeOK
<1>2. HeldToSleep /\ InterruptedNobodySleeps
  BY DEF HeldToSleep, InterruptedNobodySleeps, At
<1>3. NoStrandedValue
  BY DEF NoStrandedValue, Sleepers
<1> QED BY <1>1, <1>2, <1>3 DEF StackIInv

\* What a push of k values of a batch leaves.
LEMMA Pushed ==
  ASSUME stack \in Seq(Values), NEW n \in Nat, NEW batch \in [1..n -> Values], NEW k \in 0..n
  PROVE  /\ Len(batch) = n
         /\ stack \o SubSeq(batch, 1, k) \in Seq(Values)
         /\ Len(stack \o SubSeq(batch, 1, k)) = Len(stack) + k
<1>1. batch \in Seq(Values) /\ Len(batch) = n
  OBVIOUS
<1>2. SubSeq(batch, 1, k) \in Seq(Values) /\ Len(SubSeq(batch, 1, k)) = k
  BY SubSeqProperties
<1> QED BY <1>1, <1>2, ConcatProperties

\* What is left without k values.
LEMMA Popped ==
  ASSUME stack \in Seq(Values), NEW k \in 0..Len(stack)
  PROVE  /\ Without(k) \in Seq(Values)
         /\ Len(Without(k)) = Len(stack) - k
<1>1. Len(stack) \in Nat /\ \A i \in 1..Len(stack) - k : stack[i] \in Values
  BY LenProperties
<1> QED BY <1>1, SubSeqProperties DEF Without

\* Pops take no more than there is.
LEMMA TakenBound ==
  ASSUME stack \in Seq(Values), NEW n \in 1..MaxBatch, NEW k \in Taken(n)
  PROVE  k \in 0..Len(stack)
  BY LenProperties, StackAssumption DEF Taken, AtMost

\* A stack without values is empty.
LEMMA EmptyHasNone ==
  ASSUME NEW s \in Seq(Values)
  PROVE  s = <<>> <=> Len(s) = 0
  BY EmptySeq

\* A push that stays within MaxLen.
PushWithin(t, n, batch, notify, k) ==
  /\ Len(stack) + n <= MaxLen
  /\ Push(t, batch, notify, k)

\* A push either announces its value with somebody on the way, or leaves quiet behind.
LEMMA PushKeeps ==
  ASSUME StackIInv, NEW t \in Threads, NEW n \in 1..MaxBatch, NEW batch \in [1..n -> Values],
         NEW notify \in Notifies, NEW k \in 0..n, PushWithin(t, n, batch, notify, k)
  PROVE  StackIInv'
<1> DEFINE silent == IF k = n THEN notify = "none" \/ (notify = "one" /\ k > 1) ELSE k > 0
           place == IF k < n \/ notify = "none" THEN "idle" ELSE notify
<1>0. /\ n \in Nat /\ k \in Nat /\ k <= n /\ notify \in {"none", "one", "all"}
      /\ MaxLen \in Nat
  BY StackAssumption
<1>1. /\ stack \in Seq(Values) /\ Len(stack) \in Nat
      /\ pc \in [Threads -> {"idle", "one", "all", "enter", "woken", "expired", "park", "asleep"}]
  BY LenProperties DEF StackIInv, StackTypeOK
<1>2. /\ Len(batch) = n
      /\ stack \o SubSeq(batch, 1, k) \in Seq(Values)
      /\ Len(stack \o SubSeq(batch, 1, k)) = Len(stack) + k
  BY <1>0, <1>1, Pushed
<1>3. /\ pc[t] = "idle" /\ mutex = NoThread /\ pc' = [pc EXCEPT ![t] = place]
      /\ stack' = stack \o SubSeq(batch, 1, k)
      /\ UNCHANGED <<interrupt, mutex>>
  BY <1>2 DEF PushWithin, Push, PushLocks, Put, At, GoTo
<1>4. /\ stack' \in Seq(Values) /\ Len(stack') = Len(stack) + k /\ Len(stack') <= MaxLen
  BY <1>0, <1>1, <1>2, <1>3 DEF PushWithin
<1>5. quiet' = (stack' # <<>> /\ (quiet \/ silent))
  BY <1>2, <1>3 DEF PushWithin, Push, Put
<1>6. StackTypeOK'
  <2>1. quiet' \in BOOLEAN
    BY <1>5
  <2>2. place \in {"idle", "one", "all"}
    BY <1>0
  <2>3. pc' \in [Threads -> {"idle", "one", "all", "enter", "woken", "expired", "park", "asleep"}]
    BY <1>1, <1>3, <2>2
  <2> QED BY <1>3, <1>4, <2>1, <2>3 DEF StackIInv, StackTypeOK
<1>7. HeldToSleep' /\ InterruptedNobodySleeps'
  <2>1. place \in {"idle", "one", "all"}
    BY <1>0
  <2> QED BY <1>1, <1>3, <2>1, StackAssumption
          DEF StackIInv, HeldToSleep, InterruptedNobodySleeps, At
<1>8. NoStrandedValue'
  <2> SUFFICES ASSUME Sleepers' # {}, ~quiet', stack' # <<>>
               PROVE  (\E u \in Threads : At(u, "all"))' \/ Len(stack') <= Cardinality(OnTheWay')
    <3>1. CASE stack' = <<>>
      BY <1>4, <3>1, EmptySeq, OnTheWayFinite DEF NoStrandedValue
    <3> QED BY <3>1 DEF NoStrandedValue
  <2>1. ~quiet /\ ~silent
    BY <1>5
  <2>2. Sleepers # {}
    BY <1>1, <1>3, <1>0 DEF Sleepers
  <2>3. (\E u \in Threads : At(u, "all")) \/ Len(stack) <= Cardinality(OnTheWay)
    BY <2>1, <2>2 DEF StackIInv, NoStrandedValue
  <2>4. CASE \E u \in Threads : At(u, "all")
    BY <1>1, <1>3, <2>4 DEF At
  <2>5. CASE Len(stack) <= Cardinality(OnTheWay)
    <3>1. CASE place = "idle"
      <4>1. k = 0
        BY <1>0, <2>1, <3>1
      <4>2. OnTheWay' = OnTheWay
        BY <1>1, <1>3, <3>1 DEF OnTheWay
      <4> QED BY <1>1, <1>4, <2>5, <4>1, <4>2
    <3>2. CASE place = "all"
      BY <1>1, <1>3, <3>2 DEF At
    <3>3. CASE place = "one"
      <4>1. k <= 1
        BY <1>0, <2>1, <3>3
      <4>2. t \notin OnTheWay /\ OnTheWay' = OnTheWay \cup {t}
        BY <1>1, <1>3, <3>3 DEF OnTheWay
      <4>3. Cardinality(OnTheWay') = Cardinality(OnTheWay) + 1
        BY <4>2, EntersWay
      <4> QED BY <1>0, <1>1, <1>4, <2>5, <4>1, <4>3, OnTheWayFinite
    <3> QED BY <1>0, <3>1, <3>2, <3>3
  <2> QED BY <2>3, <2>4, <2>5
<1> QED BY <1>6, <1>7, <1>8 DEF StackIInv

\* What every step leaves of the invariant.
LEMMA Known ==
  ASSUME StackIInv
  PROVE  /\ stack \in Seq(Values) /\ Len(stack) \in Nat
         /\ pc \in [Threads ->
                     {"idle", "one", "all", "enter", "woken", "expired", "park", "asleep"}]
         /\ \A t \in Threads : t # NoThread
  BY LenProperties, StackAssumption DEF StackIInv, StackTypeOK

\* Steps that take nothing but places on the way leave no value alone: with no value left,
\* or nobody asleep, there is nothing to say.
LEMMA NothingStranded ==
  ASSUME stack' \in Seq(Values), stack' = <<>> \/ Sleepers' = {} \/ quiet'
  PROVE  NoStrandedValue'
<1>1. CASE stack' = <<>>
  <2>1. Len(stack') = 0
    BY <1>1, EmptySeq
  <2> QED BY <2>1, OnTheWayFinite DEF NoStrandedValue
<1> QED BY <1>1 DEF NoStrandedValue

\* A step that does not touch the stack, and brings nobody to sleep.
LEMMA PlacesKeep ==
  ASSUME StackIInv, UNCHANGED <<stack, interrupt, mutex, quiet>>,
         pc' \in [Threads -> {"idle", "one", "all", "enter", "woken", "expired", "park", "asleep"}],
         \A u \in Threads : pc[u]' = pc[u] \/ (pc[u] # "park" /\ pc[u]' \notin {"park", "asleep"}),
         (\E u \in Threads : At(u, "all")) => Sleepers' = {} \/ (\E u \in Threads : At(u, "all"))',
         \/ Sleepers' = {} \/ (\E u \in Threads : At(u, "all"))'
         \/ Cardinality(OnTheWay) <= Cardinality(OnTheWay')
  PROVE  StackIInv'
<1>1. StackTypeOK'
  BY DEF StackIInv, StackTypeOK
<1>2. HeldToSleep' /\ InterruptedNobodySleeps'
  BY DEF StackIInv, HeldToSleep, InterruptedNobodySleeps, At
<1>3. NoStrandedValue'
  <2>1. Sleepers' # {} => Sleepers # {}
    BY DEF Sleepers
  <2> QED BY <2>1, Known, OnTheWayFinite DEF StackIInv, NoStrandedValue
<1> QED BY <1>1, <1>2, <1>3 DEF StackIInv

\* Calls that add nothing: a notification, the beginning of a waiting pop.
LEMMA CallKeeps ==
  ASSUME StackIInv, NEW t \in Threads, CallNotify(t) \/ BeginWait(t) \/ WakeAlone(t)
  PROVE  StackIInv'
<1>0. /\ pc \in [Threads -> {"idle", "one", "all", "enter", "woken", "expired", "park", "asleep"}]
      /\ UNCHANGED <<stack, interrupt, mutex, quiet>>
  BY Known DEF CallNotify, BeginWait, WakeAlone
<1>1. PICK place \in {"one", "all", "enter", "woken", "expired"} :
        /\ pc' = [pc EXCEPT ![t] = place]
        /\ pc[t] \in {"idle", "asleep"}
  BY StackAssumption DEF CallNotify, BeginWait, WakeAlone, At, GoTo
<1>2. \A u \in Threads : pc[u]' = pc[u] \/ (pc[u] # "park" /\ pc[u]' \notin {"park", "asleep"})
  BY <1>0, <1>1
<1>3. (\E u \in Threads : At(u, "all")) => (\E u \in Threads : At(u, "all"))'
  BY <1>0, <1>1 DEF At
<1>4. (\E u \in Threads : At(u, "all"))' \/ Cardinality(OnTheWay) <= Cardinality(OnTheWay')
  <2>1. CASE place \in {"one", "woken"}
    <3>1. t \notin OnTheWay /\ OnTheWay' = OnTheWay \cup {t}
      BY <1>0, <1>1, <2>1 DEF OnTheWay
    <3> QED BY <3>1, EntersWay, OnTheWayFinite
  <2>2. CASE place = "all"
    BY <1>0, <1>1, <2>2 DEF At
  <2>3. CASE place \in {"enter", "expired"}
    <3>1. OnTheWay' = OnTheWay
      BY <1>0, <1>1, <2>3 DEF OnTheWay
    <3> QED BY <3>1, OnTheWayFinite
  <2> QED BY <2>1, <2>2, <2>3
<1>5. pc' \in [Threads -> {"idle", "one", "all", "enter", "woken", "expired", "park", "asleep"}]
  BY <1>0, <1>1
<1> QED BY <1>0, <1>2, <1>3, <1>4, <1>5, PlacesKeep

\* notify_all leaves nobody asleep; notify_one puts another thread in the notifier's place.
LEMMA NotifyKeeps ==
  ASSUME StackIInv, NEW t \in Threads, Notify(t)
  PROVE  StackIInv'
<1>0. /\ pc \in [Threads -> {"idle", "one", "all", "enter", "woken", "expired", "park", "asleep"}]
      /\ UNCHANGED <<stack, interrupt, mutex, quiet>> /\ pc[t] \in {"one", "all"}
  BY Known DEF Notify
<1>1. PICK ts \in SUBSET Sleepers :
        /\ IF At(t, "all") THEN ts = Sleepers
            ELSE Cardinality(ts) = 1 \/ (ts = {} /\ Sleepers = {})
        /\ pc' = [PcAfterWaking(ts) EXCEPT ![t] = "idle"]
  BY DEF Notify
<1>2. pc' = [u \in Threads |-> IF u = t THEN "idle" ELSE IF u \in ts THEN "woken" ELSE pc[u]]
  BY <1>1 DEF PcAfterWaking
<1>3. \A u \in ts : u \in Threads /\ pc[u] = "asleep"
  BY <1>1 DEF Sleepers
<1>4. \A u \in Threads : pc[u]' = pc[u] \/ (pc[u] # "park" /\ pc[u]' \notin {"park", "asleep"})
  BY <1>0, <1>2, <1>3
<1>5. pc' \in [Threads -> {"idle", "one", "all", "enter", "woken", "expired", "park", "asleep"}]
  BY <1>0, <1>2
<1>6. CASE ts = Sleepers
  <2>1. Sleepers' = {}
    BY <1>0, <1>2, <1>6 DEF Sleepers
  <2> QED BY <1>0, <1>4, <1>5, <2>1, PlacesKeep
<1>7. CASE ts # Sleepers
  <2>1. At(t, "one") /\ Cardinality(ts) = 1
    BY <1>0, <1>1, <1>7 DEF At
  <2>2. IsFiniteSet(ts)
    BY <1>3, StackAssumption, FS_Subset
  <2>3. PICK s : ts = {s}
    BY <2>1, <2>2, FS_Singleton
  <2>4. s \in Threads /\ s # t /\ pc[s] = "asleep"
    BY <1>0, <1>3, <2>3
  <2>5. t \in OnTheWay /\ s \notin OnTheWay
    BY <2>1, <2>4 DEF OnTheWay, At
  <2>6. OnTheWay' = (OnTheWay \ {t}) \cup {s}
    BY <1>0, <1>2, <2>3, <2>4 DEF OnTheWay
  <2>7. IsFiniteSet(OnTheWay \ {t}) /\ Cardinality(OnTheWay \ {t}) = Cardinality(OnTheWay) - 1
    BY <2>5, OnTheWayFinite, FS_RemoveElement
  <2>8. Cardinality(OnTheWay') = Cardinality(OnTheWay \ {t}) + 1
    BY <2>5, <2>6, <2>7, FS_AddElement
  <2>9. Cardinality(OnTheWay) <= Cardinality(OnTheWay')
    BY <2>7, <2>8, OnTheWayFinite
  <2>10. (\E u \in Threads : At(u, "all")) => (\E u \in Threads : At(u, "all"))'
    BY <1>0, <1>2, <1>3, <2>1 DEF At
  <2> QED BY <1>0, <1>4, <1>5, <2>9, <2>10, PlacesKeep
<1> QED BY <1>6, <1>7

\* stop_waitings leaves nobody asleep, and nobody about to: it has the mutex.
LEMMA StopKeeps ==
  ASSUME StackIInv, NEW t \in Threads, StopWaitings(t)
  PROVE  StackIInv'
<1>0. /\ pc \in [Threads -> {"idle", "one", "all", "enter", "woken", "expired", "park", "asleep"}]
      /\ stack \in Seq(Values) /\ \A u \in Threads : u # NoThread
  BY Known
<1>1. /\ pc' = [u \in Threads |-> IF pc[u] = "asleep" THEN "woken" ELSE pc[u]]
      /\ mutex = NoThread /\ interrupt' = TRUE /\ UNCHANGED <<stack, mutex, quiet>>
  BY DEF StopWaitings, StopLocks, PcAfterWaking, Sleepers
<1>2. \A u \in Threads : pc[u] # "park"
  BY <1>0, <1>1 DEF StackIInv, HeldToSleep, At
<1>3. pc' \in [Threads -> {"idle", "one", "all", "enter", "woken", "expired", "park", "asleep"}]
  BY <1>0, <1>1
<1>4. StackTypeOK'
  BY <1>1, <1>3 DEF StackIInv, StackTypeOK
<1>5. HeldToSleep' /\ InterruptedNobodySleeps'
  BY <1>0, <1>1, <1>2, <1>3 DEF HeldToSleep, InterruptedNobodySleeps, At
<1>6. Sleepers' = {}
  BY <1>0, <1>1 DEF Sleepers
<1>7. NoStrandedValue'
  BY <1>0, <1>1, <1>6, NothingStranded
<1> QED BY <1>4, <1>5, <1>7 DEF StackIInv

\* Calls of an idle thread that leave another stack and go back.
LEMMA StackChanges ==
  ASSUME StackIInv, mutex = NoThread, UNCHANGED <<interrupt, mutex, pc>>,
         stack' \in Seq(Values), Len(stack') <= MaxLen, quiet' \in BOOLEAN,
         \/ stack' = <<>> \/ quiet'
         \/ Len(stack') <= Len(stack) /\ (quiet => quiet')
  PROVE  StackIInv'
<1>0. Len(stack) \in Nat /\ Len(stack') \in Nat /\ \A u \in Threads : u # NoThread
  BY Known, LenProperties
<1>1. StackTypeOK'
  BY DEF StackIInv, StackTypeOK
<1>2. HeldToSleep' /\ InterruptedNobodySleeps'
  BY <1>0 DEF StackIInv, HeldToSleep, InterruptedNobodySleeps, At
<1>3. NoStrandedValue'
  <2>1. CASE stack' = <<>> \/ quiet'
    BY <2>1, NothingStranded
  <2>2. CASE Len(stack') <= Len(stack) /\ (quiet => quiet')
    <3>1. OnTheWay' = OnTheWay /\ Sleepers' = Sleepers
      BY DEF OnTheWay, Sleepers
    <3>2. (\E u \in Threads : At(u, "all")) => (\E u \in Threads : At(u, "all"))'
      BY DEF At
    <3> QED BY <1>0, <2>2, <3>1, <3>2, OnTheWayFinite DEF StackIInv, NoStrandedValue
  <2> QED BY <2>1, <2>2
<1> QED BY <1>1, <1>2, <1>3 DEF StackIInv

\* pop and pop_n.
LEMMA PopKeeps ==
  ASSUME StackIInv, NEW t \in Threads, Pop(t)
  PROVE  StackIInv'
<1>a. PICK n \in 1..MaxBatch : \E k \in Taken(n) : Put(Without(k), FALSE)
  BY DEF Pop
<1>1. PICK k \in Taken(n) : Put(Without(k), FALSE)
  BY <1>a
<1>2. k \in 0..Len(stack)
  BY Known, TakenBound
<1>3. Without(k) \in Seq(Values) /\ Len(Without(k)) = Len(stack) - k
  BY <1>2, Known, Popped
<1>4. stack' = Without(k) /\ quiet' = (stack' # <<>> /\ quiet)
  BY <1>1 DEF Put
<1>5. Len(stack') <= Len(stack) /\ Len(stack') <= MaxLen
  BY <1>2, <1>3, <1>4, Known, StackAssumption DEF StackIInv, StackTypeOK
<1>6. mutex = NoThread /\ UNCHANGED <<interrupt, mutex, pc>>
  BY DEF Pop, Locks
<1>7. quiet' \in BOOLEAN /\ (stack' = <<>> \/ (quiet => quiet'))
  BY <1>4
<1> QED BY <1>3, <1>4, <1>5, <1>6, <1>7, StackChanges

\* clear and swap.
LEMMA WholeKeeps ==
  ASSUME StackIInv, NEW t \in Threads, Empty(t) \/ Swap(t)
  PROVE  StackIInv'
<1>0. mutex = NoThread /\ UNCHANGED <<interrupt, mutex, pc>>
  BY DEF Empty, Swap, Locks
<1>1. CASE Empty(t)
  <2>1. stack' = <<>> /\ quiet' = FALSE
    BY <1>1 DEF Empty, Put
  <2>2. stack' \in Seq(Values) /\ Len(stack') = 0 /\ MaxLen \in Nat
    BY <2>1, EmptySeq, StackAssumption
  <2>3. Len(stack') <= MaxLen
    BY <2>2
  <2>4. quiet' \in BOOLEAN
    BY <2>1
  <2> QED BY <1>0, <2>1, <2>2, <2>3, <2>4, StackChanges
<1>2. CASE Swap(t)
  <2>1. PICK n \in 0..MaxLen : \E other \in [1..n -> Values] : Put(other, TRUE)
    BY <1>2 DEF Swap
  <2>2. PICK other \in [1..n -> Values] : Put(other, TRUE)
    BY <2>1
  <2>3. n \in Nat /\ n <= MaxLen
    BY StackAssumption
  <2>4. other \in Seq(Values) /\ Len(other) = n
    BY <2>3
  <2>5. stack' = other /\ quiet' = (stack' # <<>>)
    BY <2>2 DEF Put
  <2>6. quiet' \in BOOLEAN /\ (stack' = <<>> \/ quiet')
    BY <2>5
  <2>7. stack' \in Seq(Values) /\ Len(stack') <= MaxLen
    BY <2>3, <2>4, <2>5
  <2> QED BY <1>0, <2>6, <2>7, StackChanges
<1> QED BY <1>1, <1>2

\* A waiting pop goes to sleep: its stack was empty, and is still.
LEMMA ParkKeeps ==
  ASSUME StackIInv, NEW t \in Threads, Park(t)
  PROVE  StackIInv'
<1>0. /\ pc \in [Threads -> {"idle", "one", "all", "enter", "woken", "expired", "park", "asleep"}]
      /\ stack \in Seq(Values) /\ \A u \in Threads : u # NoThread
  BY Known
<1>1. /\ pc[t] = "park" /\ mutex' = NoThread /\ pc' = [pc EXCEPT ![t] = "asleep"]
      /\ UNCHANGED <<stack, interrupt, quiet>>
  BY DEF Park, At, GoTo
<1>2. stack = <<>> /\ interrupt = FALSE /\ \A u \in Threads : pc[u] = "park" => u = t
  BY <1>0, <1>1 DEF StackIInv, StackTypeOK, HeldToSleep, InterruptedNobodySleeps, At
<1>3. StackTypeOK'
  BY <1>0, <1>1 DEF StackIInv, StackTypeOK
<1>4. HeldToSleep' /\ InterruptedNobodySleeps'
  BY <1>0, <1>1, <1>2 DEF HeldToSleep, InterruptedNobodySleeps, At
<1>5. NoStrandedValue'
  BY <1>0, <1>1, <1>2, NothingStranded
<1> QED BY <1>3, <1>4, <1>5 DEF StackIInv

\* The waiting thread is released: interrupted, with values, or at its deadline.
LEMMA ReleaseKeeps ==
  ASSUME StackIInv, NEW t \in Threads, pc[t] \in {"enter", "woken", "expired"}, mutex = NoThread,
         UNCHANGED <<interrupt, mutex>>, pc' = [pc EXCEPT ![t] = "idle"],
         stack' \in Seq(Values), Len(stack') <= MaxLen, quiet' \in BOOLEAN,
         \/ interrupt /\ UNCHANGED <<stack, quiet>>
         \/ stack' = <<>> \/ quiet'
         \/ (quiet => quiet') /\ Len(stack') < Len(stack)
         \/ (quiet => quiet') /\ Len(stack') <= Len(stack) /\ pc[t] # "woken"
  PROVE  StackIInv'
<1>0. /\ pc \in [Threads -> {"idle", "one", "all", "enter", "woken", "expired", "park", "asleep"}]
      /\ Len(stack) \in Nat /\ Len(stack') \in Nat /\ \A u \in Threads : u # NoThread
  BY Known, LenProperties
<1>1. StackTypeOK'
  BY <1>0 DEF StackIInv, StackTypeOK
<1>2. HeldToSleep' /\ InterruptedNobodySleeps'
  BY <1>0 DEF StackIInv, HeldToSleep, InterruptedNobodySleeps, At
<1>3. NoStrandedValue'
  <2>1. CASE interrupt
    <3>1. Sleepers' = {}
      BY <1>0, <2>1 DEF StackIInv, InterruptedNobodySleeps, Sleepers
    <3> QED BY <3>1, NothingStranded
  <2>2. CASE stack' = <<>> \/ quiet'
    BY <2>2, NothingStranded
  <2>3. ASSUME quiet => quiet', Len(stack') <= Len(stack),
               Len(stack') < Len(stack) \/ pc[t] # "woken"
        PROVE  NoStrandedValue'
    <3>1. Sleepers' = Sleepers
      BY <1>0 DEF Sleepers
    <3>2. (\E u \in Threads : At(u, "all")) => (\E u \in Threads : At(u, "all"))'
      BY <1>0 DEF At
    <3>3. CASE pc[t] = "woken"
      <4>1. t \in OnTheWay /\ OnTheWay' = OnTheWay \ {t}
        BY <1>0, <3>3 DEF OnTheWay
      <4>2. Cardinality(OnTheWay') = Cardinality(OnTheWay) - 1
        BY <4>1, LeavesWay
      <4> QED BY <1>0, <2>3, <3>1, <3>2, <3>3, <4>2, OnTheWayFinite DEF StackIInv, NoStrandedValue
    <3>4. CASE pc[t] # "woken"
      <4>1. OnTheWay' = OnTheWay
        BY <1>0, <3>4 DEF OnTheWay
      <4> QED BY <1>0, <2>3, <3>1, <3>2, <4>1, OnTheWayFinite DEF StackIInv, NoStrandedValue
    <3> QED BY <3>3, <3>4
  <2>4. (quiet => quiet') /\ Len(stack') < Len(stack) => NoStrandedValue'
    BY <1>0, <2>3
  <2>5. (quiet => quiet') /\ Len(stack') <= Len(stack) /\ pc[t] # "woken" => NoStrandedValue'
    BY <2>3
  <2> QED BY <2>1, <2>2, <2>4, <2>5
<1> QED BY <1>1, <1>2, <1>3 DEF StackIInv

\* A waiting pop tests: it is released, or goes to sleep with the mutex.
LEMMA LookKeeps ==
  ASSUME StackIInv, NEW t \in Threads, Look(t)
  PROVE  StackIInv'
<1>0. /\ pc \in [Threads -> {"idle", "one", "all", "enter", "woken", "expired", "park", "asleep"}]
      /\ stack \in Seq(Values) /\ Len(stack) \in Nat /\ \A u \in Threads : u # NoThread
      /\ Len(stack) <= MaxLen /\ MaxLen \in Nat /\ quiet \in BOOLEAN /\ interrupt \in BOOLEAN
  BY Known, StackAssumption DEF StackIInv, StackTypeOK
<1>1. pc[t] \in {"enter", "woken", "expired"} /\ mutex = NoThread /\ interrupt' = interrupt
  BY DEF Look, Locks
<1>2. CASE interrupt
  <2>1. pc' = [pc EXCEPT ![t] = "idle"] /\ UNCHANGED <<stack, quiet, mutex>>
    BY <1>2 DEF Look, GoTo
  <2>2. stack' \in Seq(Values) /\ Len(stack') <= MaxLen /\ quiet' \in BOOLEAN
    BY <1>0, <2>1
  <2> QED BY <1>1, <1>2, <2>1, <2>2, ReleaseKeeps
<1>3. CASE ~interrupt /\ stack # <<>>
  <2>1. PICK n \in 1..MaxBatch : \E k \in Taken(n) : Put(Without(k), k = 0 /\ At(t, "woken"))
    BY <1>3 DEF Look
  <2>2. PICK k \in Taken(n) : Put(Without(k), k = 0 /\ At(t, "woken"))
    BY <2>1
  <2>3. k \in 0..Len(stack)
    BY <1>0, TakenBound
  <2>4. Without(k) \in Seq(Values) /\ Len(Without(k)) = Len(stack) - k
    BY <1>0, <2>3, Popped
  <2>5. stack' = Without(k) /\ quiet' = (stack' # <<>> /\ (quiet \/ (k = 0 /\ pc[t] = "woken")))
    BY <2>2 DEF Put, At
  <2>6. pc' = [pc EXCEPT ![t] = "idle"] /\ mutex' = mutex
    BY <1>3 DEF Look, GoTo
  <2>7. stack' \in Seq(Values) /\ Len(stack') <= MaxLen
    BY <1>0, <2>3, <2>4, <2>5
  <2>8. quiet' \in BOOLEAN
    BY <2>5
  <2>9. CASE k = 0
    <3>1. Len(stack') <= Len(stack)
      BY <1>0, <2>4, <2>5, <2>9
    <3>2. stack' = <<>> \/ ((quiet => quiet') /\ (pc[t] = "woken" => quiet'))
      BY <2>5, <2>9
    <3> QED BY <1>1, <2>6, <2>7, <2>8, <3>1, <3>2, ReleaseKeeps
  <2>10. CASE k # 0
    <3>1. Len(stack') < Len(stack) /\ (stack' = <<>> \/ (quiet => quiet'))
      BY <1>0, <2>3, <2>4, <2>5, <2>10
    <3> QED BY <1>1, <2>6, <2>7, <2>8, <3>1, ReleaseKeeps
  <2> QED BY <2>9, <2>10
<1>4. CASE ~interrupt /\ stack = <<>> /\ pc[t] = "expired"
  <2>1. pc' = [pc EXCEPT ![t] = "idle"] /\ UNCHANGED <<stack, quiet, mutex>>
    BY <1>4 DEF Look, GoTo, At
  <2>2. stack' \in Seq(Values) /\ Len(stack') <= MaxLen /\ quiet' \in BOOLEAN /\ stack' = <<>>
    BY <1>0, <1>4, <2>1
  <2> QED BY <1>1, <2>1, <2>2, ReleaseKeeps
<1>5. CASE ~interrupt /\ stack = <<>> /\ pc[t] # "expired"
  <2>1. pc' = [pc EXCEPT ![t] = "park"] /\ mutex' = t /\ UNCHANGED <<stack, quiet>>
    BY <1>5 DEF Look, GoTo, At
  <2>2. StackTypeOK'
    BY <1>0, <1>1, <2>1 DEF StackIInv, StackTypeOK
  <2>3. HeldToSleep' /\ InterruptedNobodySleeps'
    BY <1>0, <1>1, <1>5, <2>1 DEF StackIInv, HeldToSleep, InterruptedNobodySleeps, At
  <2>4. NoStrandedValue'
    BY <1>0, <1>5, <2>1, NothingStranded
  <2> QED BY <2>2, <2>3, <2>4 DEF StackIInv
<1> QED BY <1>0, <1>2, <1>3, <1>4, <1>5

\* Every step keeps the invariant.
LEMMA StackNextInvariant ==
  ASSUME StackIInv, [StackNext]_stackVars
  PROVE  StackIInv'
<1>1. CASE UNCHANGED stackVars
  <2>1. UNCHANGED <<stack, interrupt, mutex, pc, quiet>>
    BY <1>1 DEF stackVars
  <2>2. StackTypeOK' /\ HeldToSleep' /\ InterruptedNobodySleeps'
    BY <2>1 DEF StackIInv, StackTypeOK, HeldToSleep, InterruptedNobodySleeps, At
  <2>3. NoStrandedValue'
    BY <2>1 DEF StackIInv, NoStrandedValue, Sleepers, OnTheWay, At
  <2> QED BY <2>2, <2>3 DEF StackIInv
<1>2. ASSUME NEW t \in Threads, PushSome(t)
      PROVE  StackIInv'
  <2>1. PICK n \in 1..MaxBatch :
          \E batch \in [1..n -> Values], notify \in Notifies, k \in 0..n :
            PushWithin(t, n, batch, notify, k)
    BY <1>2 DEF PushSome, PushWithin
  <2> QED BY <2>1, PushKeeps
<1>3. ASSUME NEW t \in Threads, GoOn(t)
      PROVE  StackIInv'
  BY <1>3, NotifyKeeps, LookKeeps, ParkKeeps DEF GoOn
<1>4. ASSUME NEW t \in Threads,
             \/ CallNotify(t) \/ BeginWait(t) \/ WakeAlone(t) \/ StopWaitings(t)
             \/ Pop(t) \/ Empty(t) \/ Swap(t)
      PROVE  StackIInv'
  BY <1>4, CallKeeps, StopKeeps, PopKeeps, WholeKeeps
<1> QED BY <1>1, <1>2, <1>3, <1>4 DEF StackNext

\* The invariant holds in every state of a ts_stack.
THEOREM StackInvariantHolds == StackSpec => []StackIInv
<1>1. StackIInv /\ [StackNext]_stackVars => StackIInv'
  BY StackNextInvariant
<1> QED BY StackInitInvariant, <1>1, PTL DEF StackSpec

\* A thread never sleeps beside a value that a push announced, unless another one is on
\* its way to it, whatever is popped, thrown, notified and timed out meanwhile.
THEOREM NoValueIsStranded == StackSpec => []NoStrandedValue
<1>1. StackIInv => NoStrandedValue
  BY DEF StackIInv
<1> QED BY StackInvariantHolds, <1>1, PTL

\* stop_waitings reaches every thread, also one that has tested the flag already.
THEOREM StopReachesAll == StackSpec => []InterruptedNobodySleeps
<1>1. StackIInv => InterruptedNobodySleeps
  BY DEF StackIInv
<1> QED BY StackInvariantHolds, <1>1, PTL
=============================================================================
