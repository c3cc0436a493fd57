---------------------------- MODULE TsQueueProofs ----------------------------
(* Proofs about TsQueue for every number of threads, nodes and values: the    *)
(* inductive invariant IInv, and what follows from it.                       *)
EXTENDS TsQueue, FiniteSetTheorems, SequenceTheorems, WellFoundedInduction, TLAPS

USE DEF At, GoTo, SeesValue, TakenEnough

-----------------------------------------------------------------------------
(* Helpers. *)

\* A member of UpTo(S, k) is a sequence over S of at most k elements.
LEMMA UpToFacts ==
  ASSUME NEW S, NEW k \in Nat, NEW s \in UpTo(S, k)
  PROVE  /\ s \in Seq(S)
         /\ Len(s) \in 0..k
         /\ DOMAIN s = 1..Len(s)
         /\ s \in [1..Len(s) -> S]
<1>1. PICK j \in 0..k : s \in [1..j -> S] BY DEF UpTo
<1>2. s \in Seq(S) BY <1>1, IsASeq
<1>3. Len(s) = j BY <1>1, <1>2, LenProperties
<1> QED BY <1>1, <1>2, <1>3

\* What is known of the arguments of a push: a batch of one to MaxBatch values.
LEMMA PushCallFacts ==
  ASSUME NEW c \in PushCalls
  PROVE  /\ c \in LegalCalls
         /\ c.op = "push"
         /\ c.batch \in Seq(Values)
         /\ Len(c.batch) \in 1..MaxBatch
         /\ c.batch \in [1..Len(c.batch) -> Values]
         /\ \A i \in 1..Len(c.batch) : c.batch[i] \in Values
<1>1. /\ c.batch \in UNION {[1..i -> Values] : i \in 1..MaxBatch}
      /\ c.op = "push"
  BY DEF PushCalls, CallsOf
<1>2. PICK k \in 1..MaxBatch : c.batch \in [1..k -> Values] BY <1>1
<1>3. c.batch \in Seq(Values) BY <1>2, MaxBatchAssumption
<1>4. Len(c.batch) = k BY <1>2, <1>3, LenProperties, MaxBatchAssumption
<1> QED BY <1>1, <1>2, <1>3, <1>4, MaxBatchAssumption DEF LegalCalls

\* What is known of the arguments of a pop: it asks for at least one value.
LEMMA PopCallFacts ==
  ASSUME NEW c \in PopCalls \cup WaitCalls
  PROVE  /\ c \in LegalCalls
         /\ c.op \in {"pop", "wait"}
         /\ c.count \in 1..MaxBatch
         /\ ~c.checked => c.count = 1
<1>1. CASE c \in PopCalls
  BY <1>1, MaxBatchAssumption DEF PopCalls, LegalCalls, CallsOf
<1>2. CASE c \in WaitCalls
  <2>1. c \in LegalCalls BY <1>2 DEF LegalCalls
  <2>2. CASE c \in CallsOf({"wait"}, {<<>>}, 1..MaxBatch, BOOLEAN, {TRUE}, {"none"})
    BY <2>1, <2>2, MaxBatchAssumption DEF CallsOf
  <2>3. CASE c \in CallsOf({"wait"}, {<<>>}, {1}, BOOLEAN, {FALSE}, {"none"})
    BY <2>1, <2>3, MaxBatchAssumption DEF CallsOf
  <2> QED BY <1>2, <2>2, <2>3 DEF WaitCalls
<1> QED BY <1>1, <1>2

\* The remaining operations are legal calls, and no push or pop.
LEMMA OtherCallFacts ==
  /\ \A op \in {"clear", "move"} : Plain(op, "none") \in LegalCalls
  /\ Plain("stop", "all") \in LegalCalls
  /\ \A n \in {"one", "all"} : Plain("notify", n) \in LegalCalls
BY DEF LegalCalls, OtherCalls

\* What is known of the arguments of an assignment: at most MaxBatch values.
LEMMA AssignCallFacts ==
  ASSUME NEW c \in AssignCalls
  PROVE  /\ c \in LegalCalls
         /\ c.op = "assign"
         /\ c.batch \in Seq(Values)
         /\ Len(c.batch) \in 0..MaxBatch
         /\ c.batch \in [1..Len(c.batch) -> Values]
<1>1. c.batch \in UpTo(Values, MaxBatch) /\ c.op = "assign"
  BY DEF AssignCalls, CallsOf
<1> QED BY <1>1, UpToFacts, MaxBatchAssumption DEF LegalCalls

\* The empty sequence is within every bound.
LEMMA EmptyUpTo == \A S : <<>> \in UpTo(S, MaxBatch) /\ <<>> \in UpTo(S, MaxBatch + 1)
BY MaxBatchAssumption DEF UpTo

\* A sequence of distinct nodes is no longer than there are nodes.
LEMMA DistinctFits ==
  ASSUME NEW k \in Nat, NEW s \in [1..k -> Nodes],
         \A i, j \in 1..k : s[i] = s[j] => i = j
  PROVE  k <= Cardinality(Nodes)
<1>1. s \in Injection(1..k, Nodes) BY DEF Injection, IsInjective
<1>2. Cardinality(1..k) <= Cardinality(Nodes) BY <1>1, FS_Injection, NodesAssumption
<1>3. Cardinality(1..k) = k BY FS_Interval
<1> QED BY <1>2, <1>3

\* There is at least one node address, and finitely many.
LEMMA NodesCounted == Cardinality(Nodes) \in Nat \ {0}
<1>1. PICK n \in Nodes : TRUE BY NodesAssumption
<1>2. 1 <= Cardinality(Nodes)
  <2> DEFINE s == [i \in 1..1 |-> n]
  <2>1. s \in [1..1 -> Nodes] BY <1>1
  <2>2. \A i, j \in 1..1 : s[i] = s[j] => i = j OBVIOUS
  <2> HIDE DEF s
  <2> QED BY <2>1, <2>2, DistinctFits
<1> QED BY <1>2, FS_CardinalityType, NodesAssumption

\* The nodes the queue owns are the allocated ones that no push still keeps.
OwnedIsTheRest ==
  \A n : n \in Owned <=>
    /\ n \in Nodes
    /\ n \notin free
    /\ \A t \in Threads : \A i \in 1..Len(mine[t]) : mine[t][i] # n

MineTyped == mine \in [Threads -> UpTo(Nodes, MaxBatch + 1)]

\* The queue owns what is neither free nor in a push's sublist.
LEMMA OwnedFacts == MineTyped => OwnedIsTheRest
<1> SUFFICES ASSUME MineTyped PROVE OwnedIsTheRest
  OBVIOUS
<1>1. \A t \in Threads : DOMAIN mine[t] = 1..Len(mine[t])
  BY UpToFacts, MaxBatchAssumption DEF MineTyped
<1> QED BY <1>1 DEF Owned, Range, OwnedIsTheRest

\* The same, from the type invariant.
LEMMA TypeOwned == TypeOK => OwnedIsTheRest
BY OwnedFacts DEF TypeOK, MineTyped

-----------------------------------------------------------------------------
(* Steps that leave the nodes alone: the list and the private nodes stay what *)
(* they are, and only control, mutexes and locals need an argument.          *)

HeapSame == UNCHANGED <<next, data, free, head, tail, mine>>

\* The nodes of a sublist under construction are nodes.
LEMMA MineFacts ==
  ASSUME TypeOK
  PROVE  \A u \in Threads : /\ Len(mine[u]) \in 0..MaxBatch + 1
                            /\ mine[u] \in Seq(Nodes)
                            /\ \A i \in 1..Len(mine[u]) : mine[u][i] \in Nodes
BY UpToFacts, MaxBatchAssumption DEF TypeOK

\* m_head and m_tail point to nodes the queue owns.
LEMMA EndsOwned ==
  ASSUME ListShape
  PROVE  head \in Owned /\ tail \in Owned
<1>1. PICK k \in 1..Cardinality(Nodes) : \E s \in [1..k -> Nodes] : IsList(s, k)
  BY DEF ListShape
<1>2. PICK s \in [1..k -> Nodes] : IsList(s, k) BY <1>1
<1>3. 1 \in 1..k /\ k \in 1..k BY NodesCounted
<1> QED BY <1>2, <1>3 DEF IsList

\* A step that changes no node and neither end keeps the list.
LEMMA HeapSameList ==
  ASSUME ListShape, PrivateNodes, HeapSame
  PROVE  /\ Owned' = Owned
         /\ (\E k \in 1..Cardinality(Nodes) : \E s \in [1..k -> Nodes] : IsList(s, k))'
         /\ PrivateNodes'
<1>1. Owned' = Owned BY DEF HeapSame, Owned
<1>2. PrivateNodes' BY DEF HeapSame, PrivateNodes
<1>3. PICK k \in 1..Cardinality(Nodes) : \E s \in [1..k -> Nodes] : IsList(s, k)
  BY DEF ListShape
<1>4. PICK s \in [1..k -> Nodes] : IsList(s, k) BY <1>3
<1>5. IsList(s, k)' BY <1>1, <1>4 DEF IsList, HeapSame
<1> QED BY <1>1, <1>2, <1>5

-----------------------------------------------------------------------------
(* The values of the queue, read along its list. *)

\* Items reads the values along any list of the queue's nodes: there is only one.
ItemsListed ==
  \A k \in 1..Cardinality(Nodes) : \A s \in [1..k -> Nodes] :
    IsList(s, k) => Items = [i \in 1..k-1 |-> data[s[i]]]
LEMMA ItemsAlongList == ItemsListed
<1> SUFFICES ASSUME NEW k \in 1..Cardinality(Nodes), NEW s \in [1..k -> Nodes], IsList(s, k)
             PROVE  Items = [i \in 1..k-1 |-> data[s[i]]]
  BY DEF ItemsListed
<1>1. k \in Nat \ {0}
  BY NodesCounted
<1>2. Owned = {s[i] : i \in 1..k} /\ s \in [1..k -> Owned]
  BY DEF IsList
<1>3. Cardinality(Owned) = k
  <2>1. s \in Bijection(1..k, Owned)
    BY <1>2 DEF IsList, Bijection, Injection, Surjection, IsInjective
  <2>2. IsFiniteSet(1..k) /\ Cardinality(1..k) = k
    BY <1>1, FS_Interval
  <2>3. ExistsBijection(1..k, Owned)
    BY <2>1 DEF ExistsBijection
  <2> QED BY <2>2, <2>3, FS_Bijection
<1> DEFINE node == CHOOSE r \in [1..k -> Owned] : IsList(r, k)
<1>4. node \in [1..k -> Owned] /\ IsList(node, k)
  BY <1>2
<1> HIDE DEF node
<1>5. \A i \in 1..k : node[i] = s[i]
  <2> SUFFICES ASSUME \E i \in 1..k : node[i] # s[i]
               PROVE  FALSE
    OBVIOUS
  <2> DEFINE bad == {i \in 1..k : node[i] # s[i]}
  <2>1. bad \in SUBSET Nat /\ bad # {}
    OBVIOUS
  <2>2. IsWellFoundedOn(OpToRel(<, Nat), Nat)
    BY NatLessThanWellFounded
  <2>3. PICK i \in bad : \A j \in Nat : <<j, i>> \in OpToRel(<, Nat) => j \notin bad
    <3> HIDE DEF bad
    <3> QED BY <2>1, <2>2, WFMin
  <2>4. \A j \in Nat : j < i => j \notin bad
    BY <2>1, <2>3 DEF OpToRel
  <2>5. i # 1
    BY <1>4 DEF IsList
  <2>6. i-1 \in 1..k-1 /\ i-1 \in Nat /\ i-1 < i /\ (i-1)+1 = i /\ i-1 \in 1..k
    BY <1>1, <2>5
  <2>7. node[i-1] = s[i-1]
    BY <2>4, <2>6
  <2>8. next[node[i-1]] = node[i] /\ next[s[i-1]] = s[i]
    BY <1>4, <2>6 DEF IsList
  <2> QED BY <2>7, <2>8
<1>6. Items = [i \in 1..k-1 |-> data[node[i]]]
  BY <1>3 DEF Items, node
<1>7. \A i \in 1..k-1 : i \in 1..k
  BY <1>1
<1> QED BY <1>5, <1>6, <1>7

\* A push's values, where it has written them: the first in the dummy, the others in the
\* sublist.  The values of an assignment are in the nodes it brings.
BatchInPlace ==
  \A t \in Threads :
    /\ pc[t] \in BothPlaces =>
         \A i \in 1..Len(mine[t])-1 : data[mine[t][i]] = call[t].batch[i]
    /\ pc[t] \in PushPlaces =>
         \A i \in 1..Len(mine[t])-1 : data[mine[t][i]] = call[t].batch[i+1]
    /\ pc[t] \in {"link", "advance"} => data[tail] = call[t].batch[1]

\* A step that leaves the owned nodes before the dummy alone leaves the values.
LEMMA ItemsKept ==
  ASSUME ListShape, Owned' = Owned, head' = head, tail' = tail,
         \A n \in Owned \ {tail} : next'[n] = next[n] /\ data'[n] = data[n]
  PROVE  Items' = Items
<1>1. PICK k \in 1..Cardinality(Nodes) : \E s \in [1..k -> Nodes] : IsList(s, k)
  BY DEF ListShape
<1>2. PICK s \in [1..k -> Nodes] : IsList(s, k) BY <1>1
<1>3. \A i \in 1..k-1 : s[i] \in Owned \ {tail}
  BY <1>2, NodesCounted DEF IsList
<1>4. IsList(s, k)' BY <1>2, <1>3 DEF IsList
<1>5. ItemsListed /\ ItemsListed'
  BY ItemsAlongList, PTL
<1>6. Items = [i \in 1..k-1 |-> data[s[i]]]
  BY <1>2, <1>5 DEF ItemsListed
<1>7. Items' = [i \in 1..k-1 |-> data'[s[i]]]
  BY <1>4, <1>5 DEF ItemsListed
<1>8. \A i \in 1..k-1 : data'[s[i]] = data[s[i]]
  BY <1>3
<1> HIDE DEF Items
<1> QED BY <1>6, <1>7, <1>8

\* The dummy is blank whenever the tail mutex is free.
LEMMA ControlStep ==
  ASSUME IInv, HeapSame, TypeOK', MutexesHeld', LocalsInPlace', DummyInPlace',
         tailMut' = NoThread => next[tail] = NoNode /\ data[tail] = NoValue
  PROVE  IInv'
<1>1. ListShape' BY HeapSameList DEF IInv, HeapSame, ListShape
<1> QED BY <1>1, HeapSameList DEF IInv

\* A push that locks the tail mutex keeps the invariant.
LEMMA LockTailInv ==
  ASSUME IInv, NEW t \in Threads, LockTail(t)
  PROVE  IInv'
<1> USE DEF LockTail, heap, ends, local, IInv
<1>1. HeapSame BY DEF HeapSame
<1>2. TypeOK' BY DEF TypeOK, Places
<1>3. MutexesHeld' BY NoThreadAssumption
  DEF MutexesHeld, TypeOK, HeadPlaces, TailPlaces
<1>4. LocalsInPlace' BY <1>1, HeapSameList
  DEF LocalsInPlace, TypeOK, PushPlaces, BothPlaces, BothCall, LookPlaces
<1>5. DummyInPlace' BY NoThreadAssumption DEF DummyInPlace, ListShape, TypeOK
<1> QED BY <1>1, <1>2, <1>3, <1>4, <1>5, ControlStep, NoThreadAssumption

\* A pop that begins keeps the invariant.
LEMMA BeginPopInv ==
  ASSUME IInv, NEW t \in Threads, BeginPop(t)
  PROVE  IInv'
<1> USE DEF BeginPop, Begin, heap, ends, sync, IInv
<1>1. HeapSame BY DEF HeapSame
<1>2. TypeOK'
  <2>1. <<>> \in UpTo(Values, MaxBatch) BY MaxBatchAssumption DEF UpTo
  <2> QED BY <2>1, PopCallFacts DEF TypeOK, Places, Statuses
<1>3. MutexesHeld' BY DEF MutexesHeld, TypeOK, HeadPlaces, TailPlaces
<1>4. LocalsInPlace' BY <1>1, HeapSameList
  DEF LocalsInPlace, TypeOK, PushPlaces, BothPlaces, BothCall, LookPlaces
<1>5. DummyInPlace' BY DEF DummyInPlace, TypeOK
<1> QED BY <1>1, <1>2, <1>3, <1>4, <1>5, ControlStep DEF ListShape

\* A pop that locks the head mutex, or finds itself interrupted, keeps the invariant.
LEMMA LockHeadInv ==
  ASSUME IInv, NEW t \in Threads, LockHead(t)
  PROVE  IInv'
<1> USE DEF LockHead, Return, heap, ends, IInv
<1>1. HeapSame BY DEF HeapSame
<1>2. TypeOK' BY DEF TypeOK, Places, Statuses
<1>3. MutexesHeld' BY NoThreadAssumption DEF MutexesHeld, TypeOK, HeadPlaces, TailPlaces
<1>4. LocalsInPlace' BY <1>1, HeapSameList
  DEF LocalsInPlace, TypeOK, PushPlaces, BothPlaces, BothCall, LookPlaces
<1>5. DummyInPlace' BY NoThreadAssumption DEF DummyInPlace, TypeOK
<1> QED BY <1>1, <1>2, <1>3, <1>4, <1>5, ControlStep, NoThreadAssumption DEF ListShape

\* A pop that wakes and locks the head mutex again keeps the invariant.
LEMMA RelockHeadInv ==
  ASSUME IInv, NEW t \in Threads, RelockHead(t)
  PROVE  IInv'
<1> USE DEF RelockHead, heap, ends, local, IInv
<1>1. HeapSame BY DEF HeapSame
<1>2. TypeOK' BY DEF TypeOK, Places, Statuses
<1>3. MutexesHeld' BY NoThreadAssumption DEF MutexesHeld, TypeOK, HeadPlaces, TailPlaces
<1>4. LocalsInPlace' BY <1>1, HeapSameList
  DEF LocalsInPlace, TypeOK, PushPlaces, BothPlaces, BothCall, LookPlaces
<1>5. DummyInPlace' BY NoThreadAssumption DEF DummyInPlace, TypeOK
<1> QED BY <1>1, <1>2, <1>3, <1>4, <1>5, ControlStep, NoThreadAssumption DEF ListShape

\* Reading the tail keeps the invariant: while the head mutex is held, m_tail only
\* moves away from the tail that was read.
LEMMA LookInv ==
  ASSUME IInv, NEW t \in Threads, Look(t)
  PROVE  IInv'
<1> USE DEF Look, Leave, Return, heap, ends, IInv
<1>1. HeapSame BY DEF HeapSame
<1>2. TypeOK' BY DEF TypeOK, Places, Statuses
<1>3. MutexesHeld' BY NoThreadAssumption DEF MutexesHeld, TypeOK, HeadPlaces, TailPlaces
<1>4. LocalsInPlace' BY <1>1, HeapSameList, EndsOwned, PopCallFacts, EmptySeq
  DEF LocalsInPlace, TypeOK, PushPlaces, BothPlaces, BothCall, LookPlaces
<1>5. DummyInPlace' BY NoThreadAssumption DEF DummyInPlace, TypeOK
<1> QED BY <1>1, <1>2, <1>3, <1>4, <1>5, ControlStep, NoThreadAssumption DEF ListShape

\* Going to sleep keeps the invariant.
LEMMA ParkInv ==
  ASSUME IInv, NEW t \in Threads, Park(t)
  PROVE  IInv'
<1> USE DEF Park, heap, ends, local, IInv
<1>1. HeapSame BY DEF HeapSame
<1>2. TypeOK' BY DEF TypeOK, Places, Statuses
<1>3. MutexesHeld' BY NoThreadAssumption DEF MutexesHeld, TypeOK, HeadPlaces, TailPlaces
<1>4. LocalsInPlace' BY <1>1, HeapSameList
  DEF LocalsInPlace, TypeOK, PushPlaces, BothPlaces, BothCall, LookPlaces
<1>5. DummyInPlace' BY NoThreadAssumption DEF DummyInPlace, TypeOK
<1> QED BY <1>1, <1>2, <1>3, <1>4, <1>5, ControlStep, NoThreadAssumption DEF ListShape

\* A deadline that passes keeps the invariant.
LEMMA TimeoutInv ==
  ASSUME IInv, NEW t \in Threads, Timeout(t)
  PROVE  IInv'
<1> USE DEF Timeout, heap, ends, local, IInv
<1>1. HeapSame BY DEF HeapSame
<1>2. TypeOK' BY DEF TypeOK, Places, Statuses
<1>3. MutexesHeld' BY NoThreadAssumption DEF MutexesHeld, TypeOK, HeadPlaces, TailPlaces
<1>4. LocalsInPlace' BY <1>1, HeapSameList
  DEF LocalsInPlace, TypeOK, PushPlaces, BothPlaces, BothCall, LookPlaces, MutexesHeld
<1>5. DummyInPlace' BY NoThreadAssumption DEF DummyInPlace, TypeOK
<1> QED BY <1>1, <1>2, <1>3, <1>4, <1>5, ControlStep, NoThreadAssumption DEF ListShape

\* A spurious wakeup keeps the invariant.
LEMMA WakeSpuriouslyInv ==
  ASSUME IInv, NEW t \in Threads, WakeSpuriously(t)
  PROVE  IInv'
<1> USE DEF WakeSpuriously, heap, ends, local, IInv
<1>1. HeapSame BY DEF HeapSame
<1>2. TypeOK' BY DEF TypeOK, Places, Statuses
<1>3. MutexesHeld' BY NoThreadAssumption DEF MutexesHeld, TypeOK, HeadPlaces, TailPlaces
<1>4. LocalsInPlace' BY <1>1, HeapSameList
  DEF LocalsInPlace, TypeOK, PushPlaces, BothPlaces, BothCall, LookPlaces, MutexesHeld
<1>5. DummyInPlace' BY NoThreadAssumption DEF DummyInPlace, TypeOK
<1> QED BY <1>1, <1>2, <1>3, <1>4, <1>5, ControlStep, NoThreadAssumption DEF ListShape

\* A throwing move assignment keeps the invariant: no node was touched.
LEMMA MoveThrowsInv ==
  ASSUME IInv, NEW t \in Threads, MoveThrows(t)
  PROVE  IInv'
<1> USE DEF MoveThrows, Leave, Return, heap, ends, IInv
<1>1. HeapSame BY DEF HeapSame
<1>2. TypeOK' BY DEF TypeOK, Places, Statuses
<1>3. MutexesHeld' BY NoThreadAssumption DEF MutexesHeld, TypeOK, HeadPlaces, TailPlaces
<1>4. LocalsInPlace' BY <1>1, HeapSameList
  DEF LocalsInPlace, TypeOK, PushPlaces, BothPlaces, BothCall, LookPlaces
<1>5. DummyInPlace' BY NoThreadAssumption DEF DummyInPlace, TypeOK
<1> QED BY <1>1, <1>2, <1>3, <1>4, <1>5, ControlStep, NoThreadAssumption DEF ListShape

\* stop_waitings keeps the invariant as it begins.
LEMMA BeginStopInv ==
  ASSUME IInv, NEW t \in Threads, BeginStop(t)
  PROVE  IInv'
<1> USE DEF BeginStop, Begin, heap, ends, sync, IInv
<1>1. HeapSame BY DEF HeapSame
<1>2. TypeOK' BY OtherCallFacts, EmptyUpTo DEF TypeOK, Places, Statuses
<1>3. MutexesHeld' BY NoThreadAssumption DEF MutexesHeld, TypeOK, HeadPlaces, TailPlaces
<1>4. LocalsInPlace' BY <1>1, HeapSameList
  DEF LocalsInPlace, TypeOK, PushPlaces, BothPlaces, BothCall, LookPlaces
<1>5. DummyInPlace' BY NoThreadAssumption DEF DummyInPlace, TypeOK
<1> QED BY <1>1, <1>2, <1>3, <1>4, <1>5, ControlStep, NoThreadAssumption DEF ListShape

\* notify_one and notify_all keep the invariant as they begin.
LEMMA BeginNotifyInv ==
  ASSUME IInv, NEW t \in Threads, BeginNotify(t)
  PROVE  IInv'
<1> USE DEF BeginNotify, Begin, heap, ends, sync, IInv
<1>1. HeapSame BY DEF HeapSame
<1>2. TypeOK' BY OtherCallFacts, EmptyUpTo DEF TypeOK, Places, Statuses
<1>3. MutexesHeld' BY NoThreadAssumption DEF MutexesHeld, TypeOK, HeadPlaces, TailPlaces
<1>4. LocalsInPlace' BY <1>1, HeapSameList
  DEF LocalsInPlace, TypeOK, PushPlaces, BothPlaces, BothCall, LookPlaces
<1>5. DummyInPlace' BY NoThreadAssumption DEF DummyInPlace, TypeOK
<1> QED BY <1>1, <1>2, <1>3, <1>4, <1>5, ControlStep, NoThreadAssumption DEF ListShape

\* Setting m_interrupt_waiting keeps the invariant.
LEMMA SetInterruptInv ==
  ASSUME IInv, NEW t \in Threads, SetInterrupt(t)
  PROVE  IInv'
<1> USE DEF SetInterrupt, heap, ends, local, IInv
<1>1. HeapSame BY DEF HeapSame
<1>2. TypeOK' BY DEF TypeOK, Places, Statuses
<1>3. MutexesHeld' BY NoThreadAssumption DEF MutexesHeld, TypeOK, HeadPlaces, TailPlaces
<1>4. LocalsInPlace' BY <1>1, HeapSameList
  DEF LocalsInPlace, TypeOK, PushPlaces, BothPlaces, BothCall, LookPlaces
<1>5. DummyInPlace' BY NoThreadAssumption DEF DummyInPlace, TypeOK
<1> QED BY <1>1, <1>2, <1>3, <1>4, <1>5, ControlStep, NoThreadAssumption DEF ListShape

\* Waking sleepers keeps the invariant.
LEMMA NotifySomeInv ==
  ASSUME IInv, NEW t \in Threads, NotifySome(t)
  PROVE  IInv'
<1> USE DEF NotifySome, heap, ends, IInv
<1>1. HeapSame BY DEF HeapSame
<1>2. TypeOK' BY DEF TypeOK, Places, Statuses
<1>3. MutexesHeld' BY NoThreadAssumption DEF MutexesHeld, TypeOK, HeadPlaces, TailPlaces
<1>4. LocalsInPlace' BY <1>1, HeapSameList
  DEF LocalsInPlace, TypeOK, PushPlaces, BothPlaces, BothCall, LookPlaces, MutexesHeld
<1>5. DummyInPlace' BY NoThreadAssumption DEF DummyInPlace, TypeOK
<1> QED BY <1>1, <1>2, <1>3, <1>4, <1>5, ControlStep, NoThreadAssumption DEF ListShape

\* clear() and the move to another queue keep the invariant as they begin.
LEMMA BeginBothInv ==
  ASSUME IInv, NEW t \in Threads, BeginBoth(t)
  PROVE  IInv'
<1> USE DEF BeginBoth, Begin, heap, ends, sync, IInv
<1>1. HeapSame BY DEF HeapSame
<1>2. TypeOK' BY OtherCallFacts, EmptyUpTo DEF TypeOK, Places, Statuses
<1>3. MutexesHeld' BY NoThreadAssumption DEF MutexesHeld, TypeOK, HeadPlaces, TailPlaces
<1>4. LocalsInPlace' BY <1>1, HeapSameList
  DEF LocalsInPlace, TypeOK, PushPlaces, BothPlaces, BothCall, LookPlaces
<1>5. DummyInPlace' BY NoThreadAssumption DEF DummyInPlace, TypeOK
<1> QED BY <1>1, <1>2, <1>3, <1>4, <1>5, ControlStep, NoThreadAssumption DEF ListShape

\* Locking both mutexes keeps the invariant.
LEMMA LockBothInv ==
  ASSUME IInv, NEW t \in Threads, LockBoth(t)
  PROVE  IInv'
<1> USE DEF LockBoth, heap, ends, local, IInv
<1>1. HeapSame BY DEF HeapSame
<1>2. TypeOK' BY DEF TypeOK, Places, Statuses
<1>3. MutexesHeld' BY NoThreadAssumption DEF MutexesHeld, TypeOK, HeadPlaces, TailPlaces
<1>4. LocalsInPlace' BY <1>1, HeapSameList
  DEF LocalsInPlace, TypeOK, PushPlaces, BothPlaces, BothCall, LookPlaces, Plain
<1>5. DummyInPlace' BY NoThreadAssumption DEF DummyInPlace, TypeOK, ListShape
<1> QED BY <1>1, <1>2, <1>3, <1>4, <1>5, ControlStep, NoThreadAssumption DEF ListShape

\* clear() keeps the invariant as it ends.
LEMMA ClearDoneInv ==
  ASSUME IInv, NEW t \in Threads, ClearDone(t)
  PROVE  IInv'
<1> USE DEF ClearDone, Leave, Return, heap, ends, IInv
<1>1. HeapSame BY DEF HeapSame
<1>2. TypeOK' BY DEF TypeOK, Places, Statuses
<1>3. MutexesHeld' BY NoThreadAssumption DEF MutexesHeld, TypeOK, HeadPlaces, TailPlaces
<1>4. call[t].op # "assign" => mine[t] = <<>>
  BY AssignCallFacts DEF LocalsInPlace, BothPlaces, BothCall
<1>5. LocalsInPlace' BY <1>1, <1>4, HeapSameList
  DEF LocalsInPlace, TypeOK, PushPlaces, BothPlaces, BothCall, LookPlaces
<1>6. DummyInPlace' BY DEF DummyInPlace, TypeOK
<1> QED BY <1>1, <1>2, <1>3, <1>5, <1>6, ControlStep DEF DummyInPlace

-----------------------------------------------------------------------------
(* A push writes the dummy node, holding only the tail mutex. *)

\* What is known of the dummy, for the steps that write it.
LEMMA DummyFacts ==
  ASSUME IInv
  PROVE  /\ tail \in Nodes /\ tail \notin free
         /\ \A u \in Threads : \A i \in 1..Len(mine[u]) : mine[u][i] # tail
BY EndsOwned, TypeOwned DEF IInv, OwnedIsTheRest

\* Writing a node's data or successor while it is the dummy leaves the list.
LEMMA DummyWritten ==
  ASSUME IInv, tail' = tail, head' = head, Owned' = Owned,
         \A n \in Nodes \ {tail} : next'[n] = next[n] /\ data'[n] = data[n]
  PROVE  (\E k \in 1..Cardinality(Nodes) : \E s \in [1..k -> Nodes] : IsList(s, k))'
<1>1. PICK k \in 1..Cardinality(Nodes) : \E s \in [1..k -> Nodes] : IsList(s, k)
  BY DEF ListShape, IInv
<1>2. PICK s \in [1..k -> Nodes] : IsList(s, k) BY <1>1
<1>3. \A i \in 1..k-1 : s[i] \in Nodes \ {tail}
  BY <1>2, NodesCounted DEF IsList
<1>4. IsList(s, k)' BY <1>2, <1>3 DEF IsList
<1> QED BY <1>4

\* Constructing the value in the dummy node keeps the invariant: no pop reads it yet.
LEMMA ConstructDataInv ==
  ASSUME IInv, NEW t \in Threads, ConstructData(t)
  PROVE  IInv'
<1> USE DEF ConstructData, ends, sync, local, IInv
<1>1. call[t].batch[1] \in Values
  <2>1. call[t] \in PushCalls BY DEF LocalsInPlace, PushPlaces
  <2> QED BY <2>1, PushCallFacts, MaxBatchAssumption
<1>2. TypeOK' BY <1>1 DEF TypeOK, Places
<1>3. Owned' = Owned BY DEF Owned
<1>4. MutexesHeld' BY DEF MutexesHeld, TypeOK, HeadPlaces, TailPlaces
<1>5. LocalsInPlace' BY <1>3 DEF LocalsInPlace, TypeOK, PushPlaces, BothPlaces, BothCall, LookPlaces
<1>6. PrivateNodes' BY DummyFacts DEF PrivateNodes, TypeOK
<1>7. DummyInPlace'
  BY <1>1, NoValueAssumption, DummyFacts
  DEF DummyInPlace, TypeOK, MutexesHeld, TailPlaces
<1>8. tailMut = t BY DEF MutexesHeld, TailPlaces
<1>9. ListShape'
  BY <1>3, <1>8, DummyWritten, NoThreadAssumption DEF ListShape, TypeOK
<1> QED BY <1>2, <1>4, <1>5, <1>6, <1>7, <1>9

\* Linking the sublist behind the dummy keeps the invariant.
LEMMA LinkSublistInv ==
  ASSUME IInv, NEW t \in Threads, LinkSublist(t)
  PROVE  IInv'
<1> USE DEF LinkSublist, ends, sync, local, IInv
<1>1. mine[t][1] \in Nodes
  <2>1. Len(mine[t]) \in 1..MaxBatch
    BY PushCallFacts DEF LocalsInPlace, PushPlaces
  <2> QED BY <2>1, UpToFacts, MaxBatchAssumption DEF TypeOK
<1>2. TypeOK' BY <1>1 DEF TypeOK, Places
<1>3. Owned' = Owned BY DEF Owned
<1>4. MutexesHeld' BY DEF MutexesHeld, TypeOK, HeadPlaces, TailPlaces
<1>5. LocalsInPlace' BY <1>3 DEF LocalsInPlace, TypeOK, PushPlaces, BothPlaces, BothCall, LookPlaces
<1>6. PrivateNodes' BY DummyFacts DEF PrivateNodes, TypeOK
<1>7. DummyInPlace' BY DummyFacts DEF DummyInPlace, TypeOK, MutexesHeld, TailPlaces
<1>8. tailMut = t BY DEF MutexesHeld, TailPlaces
<1>9. ListShape'
  BY <1>3, <1>8, DummyWritten, NoThreadAssumption DEF ListShape, TypeOK
<1> QED BY <1>2, <1>4, <1>5, <1>6, <1>7, <1>9

-----------------------------------------------------------------------------
(* A pop or clear deletes the head, holding the head mutex. *)

\* The list without its head is a list again, whose head is the old successor, and the
\* first value is gone.
LEMMA HeadRemoved ==
  ASSUME IInv, head # tail, Free({head}), head' = next[head],
         tail' = tail, mine' = mine
  PROVE  /\ \A n : n \in Owned' <=> n \in Owned /\ n # head
         /\ head \in Nodes /\ data[head] \in Values
         /\ next[head] \in Owned' /\ next[head] \in Nodes
         /\ next' \in [Nodes -> Nodes \cup {NoNode}]
         /\ data' \in [Nodes -> Values \cup {NoValue}]
         /\ free' \subseteq Nodes
         /\ next'[tail] = next[tail] /\ data'[tail] = data[tail]
         /\ (\E k \in 1..Cardinality(Nodes) : \E s \in [1..k -> Nodes] : IsList(s, k))'
         /\ PrivateNodes'
         /\ Items \in Seq(Values) /\ Items # <<>> /\ Head(Items) = data[head]
         /\ Items' = Tail(Items)
<1> USE DEF IInv
<1>1. PICK k \in 1..Cardinality(Nodes) : \E s \in [1..k -> Nodes] : IsList(s, k)
  BY DEF ListShape
<1>2. PICK s \in [1..k -> Nodes] : IsList(s, k) BY <1>1
<1>k. k \in Nat /\ k >= 2 BY <1>2, NodesCounted DEF IsList
<1>3. \A n : n \in Owned' <=> n \in Owned /\ n # head
  BY TypeOwned, EndsOwned DEF Owned, Free, OwnedIsTheRest
<1>4. head \in Nodes /\ data[head] \in Values
  BY <1>2, <1>k DEF IsList, TypeOK
<1>5. next[head] = s[2] /\ s[2] # head /\ s[2] \in Owned
  BY <1>2, <1>k DEF IsList
<1>6. /\ next' \in [Nodes -> Nodes \cup {NoNode}]
      /\ data' \in [Nodes -> Values \cup {NoValue}]
      /\ free' \subseteq Nodes
  BY <1>4 DEF Free, Blank, TypeOK
<1>7. \A n \in Nodes \ {head} : next'[n] = next[n] /\ data'[n] = data[n]
  BY DEF Free, Blank
<1>8. /\ (\E j \in 1..Cardinality(Nodes) : \E r \in [1..j -> Nodes] : IsList(r, j))'
      /\ Items \in Seq(Values) /\ Items # <<>> /\ Head(Items) = data[head]
      /\ Items' = Tail(Items)
  <2> DEFINE r == [i \in 1..k-1 |-> s[i+1]]
  <2>1. r \in [1..k-1 -> Nodes] BY <1>k
  <2>2. \A i, j \in 1..k-1 : r[i] = r[j] => i = j BY <1>2, <1>k DEF IsList
  <2>3. \A n : n \in Owned' <=> \E i \in 1..k-1 : n = r[i]
    <3>1. ASSUME NEW n \in Owned' PROVE \E i \in 1..k-1 : n = r[i]
      <4>1. PICK i \in 1..k : n = s[i] BY <1>2, <1>3 DEF IsList
      <4>2. i # 1 BY <4>1, <1>2, <1>3 DEF IsList
      <4>3. i-1 \in 1..k-1 /\ r[i-1] = s[i] BY <4>2, <1>k
      <4> QED BY <4>1, <4>3
    <3>2. ASSUME NEW i \in 1..k-1 PROVE r[i] \in Owned'
      BY <1>2, <1>3, <1>k DEF IsList
    <3> QED BY <3>1, <3>2
  <2>4. r[1] = next[head] /\ r[k-1] = tail BY <1>2, <1>5, <1>k DEF IsList
  <2>5. \A i \in 1..(k-1)-1 : next'[r[i]] = r[i+1] /\ data'[r[i]] # NoValue
    BY <1>2, <1>7, <1>k DEF IsList
  <2> HIDE DEF r
  <2>6. Owned' = {r[i] : i \in 1..k-1} BY <2>3
  <2>7. IsList(r, k-1)' BY <2>2, <2>4, <2>5, <2>6 DEF IsList
  <2>8. k-1 \in 1..Cardinality(Nodes) BY <1>k, NodesCounted
  <2>9. ItemsListed /\ ItemsListed'
    BY ItemsAlongList, PTL
  <2> DEFINE q == [i \in 1..k-1 |-> data[s[i]]]
  <2>10. Items = q
    BY <1>2, <2>9 DEF ItemsListed
  <2>11. Items' = [i \in 1..(k-1)-1 |-> data'[r[i]]]
    BY <2>1, <2>7, <2>8, <2>9 DEF ItemsListed
  <2>12. \A i \in 1..k-1 : data[s[i]] \in Values
    BY <1>2, <1>k DEF IsList, TypeOK
  <2>13. q \in Seq(Values) /\ Len(q) = k-1 /\ q # <<>> /\ q[1] = data[head]
    <3>1. q \in [1..k-1 -> Values] /\ k-1 \in Nat
      BY <2>12, <1>k
    <3>2. q \in Seq(Values) /\ Len(q) = k-1
      BY <3>1, IsASeq, LenProperties
    <3>3. q[1] = data[head]
      BY <1>2, <1>k DEF IsList
    <3> QED BY <3>2, <3>3, <1>k
  <2>14. \A i \in 1..(k-1)-1 : r[i] = s[i+1] /\ r[i] # head /\ i+1 \in 1..k-1
    BY <1>2, <1>k DEF IsList, r
  <2>15. \A i \in 1..(k-1)-1 : data'[r[i]] = q[i+1]
    BY <1>7, <2>1, <2>14, <1>k
  <2> HIDE DEF q
  <2>16. Tail(q) = [i \in 1..(k-1)-1 |-> q[i+1]]
    <3>1. /\ Tail(q) \in Seq(Values) /\ Len(Tail(q)) = (k-1)-1
          /\ \A i \in 1..(k-1)-1 : Tail(q)[i] = q[i+1]
      BY <2>13, HeadTailProperties
    <3>2. Tail(q) \in [1..(k-1)-1 -> Values]
      BY <3>1, LenProperties
    <3> QED BY <3>1, <3>2
  <2>17. Head(q) = q[1]
    BY <2>13
  <2> QED BY <2>1, <2>7, <2>8, <2>10, <2>11, <2>13, <2>15, <2>16, <2>17
<1>9. PrivateNodes'
  <2>1. \A u \in Threads : \A i \in 1..Len(mine[u]) :
          mine[u][i] \in Nodes /\ mine[u][i] # head
    BY MineFacts, TypeOwned, EndsOwned DEF OwnedIsTheRest
  <2>2. \A n \in Nodes : n \in free' <=> n \in free \/ n = head BY <1>4 DEF Free
  <2>3. \A n \in free' : next'[n] = NoNode /\ data'[n] = NoValue
    BY <1>4 DEF PrivateNodes, Free, Blank, TypeOK
  <2> QED BY <2>1, <2>2, <2>3, <1>7 DEF PrivateNodes, TypeOK
<1> QED BY <1>3, <1>4, <1>5, <1>6, <1>7, <1>8, <1>9 DEF TypeOK, Owned

\* The tail that a pop has read is ahead of the head, so the list has a value.
LEMMA TakeFacts ==
  ASSUME IInv, NEW t \in Threads, pc[t] = "take"
  PROVE  /\ head # tail /\ data[head] # NoValue
         /\ call[t] \in PopCalls \cup WaitCalls
         /\ Len(got[t]) < call[t].count
         /\ ptail[t] \in Owned /\ ptail[t] # head
<1>1. PICK k \in 1..Cardinality(Nodes) : \E s \in [1..k -> Nodes] : IsList(s, k)
  BY DEF ListShape, IInv
<1>2. PICK s \in [1..k -> Nodes] : IsList(s, k) BY <1>1
<1>3. /\ call[t] \in PopCalls \cup WaitCalls
      /\ Len(got[t]) < call[t].count /\ ptail[t] \in Owned /\ ptail[t] # head
  BY DEF LocalsInPlace, IInv
<1>4. PICK i \in 1..k : ptail[t] = s[i] BY <1>2, <1>3 DEF IsList
<1>5. k \in Nat /\ k >= 2 BY <1>2, <1>3, <1>4, NodesCounted DEF IsList
<1> QED BY <1>2, <1>3, <1>5 DEF IsList

\* Taking the head keeps the invariant: the head is not the tail that was read, so
\* the list behind it is whole.
LEMMA TakeInv ==
  ASSUME IInv, NEW t \in Threads, Take(t)
  PROVE  IInv'
<1> USE DEF IInv
<1>1. /\ pc[t] = "take" /\ head # tail /\ Free({head}) /\ head' = next[head]
      /\ tail' = tail /\ mine' = mine
      /\ UNCHANGED <<tailMut, interrupt, waiters>>
      /\ got' = [got EXCEPT ![t] = Append(@, data[head])]
  BY TakeFacts DEF Take
<1>2. \/ Leave(t, "ready")
      \/ /\ UNCHANGED <<pc, call, ptail, status, headMut>>
         /\ Len(got[t]) + 1 # call[t].count
         /\ call[t].checked => next[head] # ptail[t]
  BY DEF Take
<1>3. got'[t] \in UpTo(Values, MaxBatch) /\ Len(got'[t]) = Len(got[t]) + 1
  <2>1. call[t].count \in 1..MaxBatch /\ Len(got[t]) < call[t].count
    BY <1>1, TakeFacts, PopCallFacts
  <2>2. got[t] \in Seq(Values) /\ data[head] \in Values /\ Len(got[t]) \in Nat
    BY <1>1, HeadRemoved, UpToFacts, MaxBatchAssumption DEF TypeOK
  <2>3. /\ Append(got[t], data[head]) \in Seq(Values)
        /\ Len(Append(got[t], data[head])) = Len(got[t]) + 1
    BY <2>2, AppendProperties
  <2>4. got'[t] = Append(got[t], data[head]) BY <1>1 DEF TypeOK
  <2>5. got'[t] \in [1..Len(got[t]) + 1 -> Values]
    BY <2>2, <2>3, <2>4, LenProperties
  <2> QED BY <2>1, <2>2, <2>3, <2>4, <2>5, MaxBatchAssumption DEF UpTo
<1>4. TypeOK'
  BY <1>1, <1>2, <1>3, HeadRemoved DEF TypeOK, Leave, Return, Places, Statuses
<1>5. MutexesHeld'
  BY <1>1, <1>2, NoThreadAssumption
  DEF MutexesHeld, Leave, Return, TypeOK, HeadPlaces, TailPlaces
<1>6. LocalsInPlace'
  <2>1. CASE Leave(t, "ready")
    BY <1>1, <2>1, HeadRemoved
    DEF LocalsInPlace, Leave, Return, TypeOK, PushPlaces, BothPlaces, BothCall, LookPlaces, MutexesHeld,
        HeadPlaces
  <2>2. CASE /\ UNCHANGED <<pc, call, ptail, status, headMut>>
             /\ Len(got[t]) + 1 # call[t].count
             /\ call[t].checked => next[head] # ptail[t]
    <3>1. call[t].count \in 1..MaxBatch /\ Len(got[t]) < call[t].count
          /\ (~call[t].checked => call[t].count = 1)
          /\ ptail[t] \in Owned /\ ptail[t] # head /\ Len(got[t]) \in Nat
      BY <1>1, TakeFacts, PopCallFacts, UpToFacts, MaxBatchAssumption DEF TypeOK
    <3>2. call[t].checked /\ Len(got'[t]) < call'[t].count
      BY <2>2, <3>1, <1>3, MaxBatchAssumption
    <3>3. ptail'[t] \in Owned' \ {head'} BY <1>1, <2>2, <3>1, <3>2, HeadRemoved
    <3>4. \A u \in Threads \ {t} : pc[u] # "take" /\ got'[u] = got[u]
      BY <1>1 DEF MutexesHeld, HeadPlaces, TypeOK
    <3> QED BY <1>1, <2>2, <3>2, <3>3, <3>4
      DEF LocalsInPlace, PushPlaces, BothPlaces, BothCall, LookPlaces
  <2> QED BY <1>2, <2>1, <2>2
<1>7. DummyInPlace'
  BY <1>1, <1>2, HeadRemoved DEF DummyInPlace, Leave, Return, TypeOK
<1>8. ListShape' BY <1>1, HeadRemoved DEF ListShape
<1> QED BY <1>1, <1>4, <1>5, <1>6, <1>7, <1>8, HeadRemoved

\* Dropping the head keeps the invariant.
LEMMA ClearStepInv ==
  ASSUME IInv, NEW t \in Threads, ClearStep(t)
  PROVE  IInv'
<1> USE DEF IInv
<1>1. /\ pc[t] = "clear" /\ head # tail
      /\ Free({head}) /\ head' = next[head] /\ tail' = tail
      /\ UNCHANGED <<headMut, tailMut, interrupt, waiters>>
      /\ UNCHANGED <<pc, call, mine, ptail, got, status>>
  BY DEF ClearStep, sync, local
<1>2. TypeOK' BY <1>1, HeadRemoved DEF TypeOK
<1>3. MutexesHeld' BY <1>1 DEF MutexesHeld
<1>4. LocalsInPlace' BY <1>1 DEF LocalsInPlace, BothCall, MutexesHeld, HeadPlaces
<1>5. DummyInPlace' BY <1>1, HeadRemoved DEF DummyInPlace
<1>6. ListShape' BY <1>1, HeadRemoved DEF ListShape
<1> QED BY <1>1, <1>2, <1>3, <1>4, <1>5, <1>6, HeadRemoved

-----------------------------------------------------------------------------
(* A push allocates its sublist, and appends it or gives it back. *)

\* r is s, k long, followed by q, m long, and repeats nothing.
IsJoin(r, s, k, q, m) ==
  /\ \A i \in 1..k : r[i] = s[i]
  /\ \A i \in 1..m : r[k+i] = q[i]
  /\ \A i, j \in 1..k+m : r[i] = r[j] => i = j
  /\ \A n : (\E i \in 1..k+m : r[i] = n)
              <=> (\E i \in 1..k : s[i] = n) \/ (\E i \in 1..m : q[i] = n)

\* The list followed by the sublist is one list without a node twice.
LEMMA Joined ==
  ASSUME NEW k \in Nat \ {0}, NEW m \in Nat \ {0},
         NEW s \in [1..k -> Nodes], NEW q \in [1..m -> Nodes],
         \A i, j \in 1..k : s[i] = s[j] => i = j,
         \A i, j \in 1..m : q[i] = q[j] => i = j,
         \A i \in 1..k, j \in 1..m : s[i] # q[j]
  PROVE  /\ k+m \in 1..Cardinality(Nodes)
         /\ \E r \in [1..k+m -> Nodes] : IsJoin(r, s, k, q, m)
<1> DEFINE r == [i \in 1..k+m |-> IF i <= k THEN s[i] ELSE q[i-k]]
<1>1. r \in [1..k+m -> Nodes] OBVIOUS
<1>2. \A i \in 1..k : i \in 1..k+m /\ r[i] = s[i] OBVIOUS
<1>3. \A i \in 1..m : k+i \in 1..k+m /\ r[k+i] = q[i] OBVIOUS
<1>4. \A i \in 1..k+m : i \notin 1..k => i-k \in 1..m /\ r[i] = q[i-k] OBVIOUS
<1> HIDE DEF r
<1>5. \A i, j \in 1..k+m : r[i] = r[j] => i = j
  <2> SUFFICES ASSUME NEW i \in 1..k+m, NEW j \in 1..k+m, r[i] = r[j] PROVE i = j
    OBVIOUS
  <2>1. CASE i \in 1..k /\ j \in 1..k BY <2>1, <1>2
  <2>2. CASE i \in 1..k /\ j \notin 1..k BY <2>2, <1>2, <1>4
  <2>3. CASE i \notin 1..k /\ j \in 1..k BY <2>3, <1>2, <1>4
  <2>4. CASE i \notin 1..k /\ j \notin 1..k
    <3>1. i-k = j-k BY <2>4, <1>4
    <3> QED BY <3>1
  <2> QED BY <2>1, <2>2, <2>3, <2>4
<1>6. \A n : (\E i \in 1..k+m : r[i] = n)
               <=> (\E i \in 1..k : s[i] = n) \/ (\E i \in 1..m : q[i] = n)
  <2>1. ASSUME NEW i \in 1..k+m
        PROVE  (\E j \in 1..k : s[j] = r[i]) \/ (\E j \in 1..m : q[j] = r[i])
    BY <1>2, <1>4
  <2>2. ASSUME NEW i \in 1..k PROVE \E j \in 1..k+m : r[j] = s[i] BY <1>2
  <2>3. ASSUME NEW i \in 1..m PROVE \E j \in 1..k+m : r[j] = q[i] BY <1>3
  <2> TAKE n
  <2>4. ASSUME NEW i \in 1..k+m, r[i] = n
        PROVE  (\E j \in 1..k : s[j] = n) \/ (\E j \in 1..m : q[j] = n)
    BY <2>1, <2>4
  <2>5. ASSUME NEW i \in 1..k, s[i] = n PROVE \E j \in 1..k+m : r[j] = n
    BY <2>2, <2>5
  <2>6. ASSUME NEW i \in 1..m, q[i] = n PROVE \E j \in 1..k+m : r[j] = n
    BY <2>3, <2>6
  <2> QED BY <2>4, <2>5, <2>6
<1>7. k+m \in 1..Cardinality(Nodes)
  <2>1. k+m <= Cardinality(Nodes) BY <1>1, <1>5, DistinctFits
  <2> QED BY <2>1, NodesCounted
<1>8. \A i \in 1..k : r[i] = s[i] BY <1>2
<1>9. \A i \in 1..m : r[k+i] = q[i] BY <1>3
<1>10. IsJoin(r, s, k, q, m) BY <1>5, <1>6, <1>8, <1>9 DEF IsJoin
<1> QED BY <1>1, <1>7, <1>10

\* Appending the sublist of t, already linked behind the dummy, makes one list, and the
\* batch follows the values that were there.
LEMMA SublistAppended ==
  ASSUME IInv, NEW t \in Threads, pc[t] = "advance", AdvanceTail(t)
  PROVE  /\ \A n : n \in Owned' <=> n \in Owned \/ \E i \in 1..Len(mine[t]) : mine[t][i] = n
         /\ (\E k \in 1..Cardinality(Nodes) : \E s \in [1..k -> Nodes] : IsList(s, k))'
         /\ tail' \in Nodes /\ next'[tail'] = NoNode /\ data'[tail'] = NoValue
         /\ BatchInPlace => Items' = Items \o call[t].batch
<1>1. PICK m \in Nat \ {0} : /\ m = Len(mine[t]) /\ m \in 1..MaxBatch
                             /\ mine[t] \in [1..m -> Nodes]
  <2>1. Len(mine[t]) \in 1..MaxBatch
    BY PushCallFacts DEF LocalsInPlace, PushPlaces, IInv
  <2>2. mine[t] \in [1..Len(mine[t]) -> Nodes]
    BY UpToFacts, MaxBatchAssumption DEF IInv, TypeOK
  <2> QED BY <2>1, <2>2, MaxBatchAssumption
<1>2. PICK q \in [1..m -> Nodes] : q = mine[t] BY <1>1
<1>3. /\ tail' = q[m] /\ head' = head /\ next' = next /\ data' = data
      /\ free' = free
      /\ mine' = [mine EXCEPT ![t] = <<>>]
  BY <1>1, <1>2 DEF AdvanceTail, heap
<1>4. /\ next[tail] = q[1] /\ data[tail] # NoValue
      /\ \A i \in 1..m-1 : next[q[i]] = q[i+1] /\ data[q[i]] # NoValue
      /\ next[q[m]] = NoNode /\ data[q[m]] = NoValue
      /\ \A i, j \in 1..m : q[i] = q[j] => i = j
  <2>1. next[tail] = q[1] /\ data[tail] # NoValue
    BY <1>1, <1>2 DEF IInv, DummyInPlace
  <2>2. \A i \in 1..m :
          /\ i < m => next[q[i]] = q[i+1] /\ data[q[i]] # NoValue
          /\ i = m => next[q[i]] = NoNode /\ data[q[i]] = NoValue
    BY <1>1, <1>2 DEF IInv, PrivateNodes
  <2>3. \A i, j \in 1..m : q[i] = q[j] => i = j
    BY <1>1, <1>2 DEF IInv, PrivateNodes
  <2> QED BY <2>1, <2>2, <2>3, <1>1
<1>5. \A u \in Threads : mine'[u] = IF u = t THEN <<>> ELSE mine[u]
  BY <1>3 DEF IInv, TypeOK
<1>6. \A n : n \in Owned' <=> n \in Owned \/ \E i \in 1..m : q[i] = n
  <2>1. MineTyped' BY <1>3, EmptyUpTo DEF IInv, TypeOK, MineTyped
  <2>2. OwnedIsTheRest' BY <2>1, OwnedFacts, PTL
  <2>3. OwnedIsTheRest BY TypeOwned DEF IInv
  <2>4. \A i \in 1..m : q[i] \notin free
    BY <1>1, <1>2 DEF IInv, PrivateNodes
  <2>5. \A i \in 1..m : \A u \in Threads \ {t} : \A j \in 1..Len(mine[u]) : mine[u][j] # q[i]
    BY <1>1, <1>2 DEF IInv, PrivateNodes
  <2> TAKE n
  <2> DEFINE Mine(u) == \E i \in 1..Len(mine[u]) : mine[u][i] = n
  <2>6. n \in Owned <=> n \in Nodes /\ n \notin free /\ \A u \in Threads : ~Mine(u)
    BY <2>3 DEF OwnedIsTheRest
  <2>7. n \in Owned' <=> n \in Nodes /\ n \notin free /\ \A u \in Threads \ {t} : ~Mine(u)
    <3>1. n \in Owned' <=>
            /\ n \in Nodes /\ n \notin free'
            /\ \A u \in Threads : \A i \in 1..Len(mine'[u]) : mine'[u][i] # n
      BY <2>2 DEF OwnedIsTheRest
    <3>2. \A i \in 1..Len(mine'[t]) : mine'[t][i] # n BY <1>5
    <3>3. \A u \in Threads \ {t} : mine'[u] = mine[u] BY <1>5
    <3> QED BY <3>1, <3>2, <3>3, <1>3
  <2>8. Mine(t) <=> \E i \in 1..m : q[i] = n BY <1>1, <1>2
  <2>9. ASSUME NEW i \in 1..m, q[i] = n
        PROVE  n \in Nodes /\ n \notin free /\ \A u \in Threads \ {t} : ~Mine(u)
    BY <2>4, <2>5, <2>9
  <2> HIDE DEF Mine
  <2> QED BY <2>6, <2>7, <2>8, <2>9
<1>7. PICK k \in 1..Cardinality(Nodes) : \E s \in [1..k -> Nodes] : IsList(s, k)
  BY DEF ListShape, IInv
<1>8. PICK s \in [1..k -> Nodes] : IsList(s, k) BY <1>7
<1>9. k \in Nat \ {0} BY NodesCounted
<1>10. \A i \in 1..k, j \in 1..m : s[i] # q[j]
  BY <1>1, <1>2, <1>8, TypeOwned DEF IsList, IInv, OwnedIsTheRest
<1>11. \A i, j \in 1..k : s[i] = s[j] => i = j BY <1>8 DEF IsList
<1>q. \A i, j \in 1..m : q[i] = q[j] => i = j BY <1>4
<1>12. k+m \in 1..Cardinality(Nodes) BY <1>9, <1>10, <1>11, <1>q, Joined
<1>j. PICK r \in [1..k+m -> Nodes] : IsJoin(r, s, k, q, m)
  BY <1>9, <1>10, <1>11, <1>q, Joined
<1>13. /\ \A i \in 1..k : r[i] = s[i]
       /\ \A i \in 1..m : r[k+i] = q[i]
       /\ \A i, j \in 1..k+m : r[i] = r[j] => i = j
  BY <1>j DEF IsJoin
<1>14. r[1] = head /\ r[k+m] = q[m] BY <1>8, <1>9, <1>13 DEF IsList
<1>15. Owned' = {r[i] : i \in 1..k+m}
  <2>1. \A n : n \in Owned <=> \E i \in 1..k : s[i] = n BY <1>8 DEF IsList
  <2>2. \A n : (\E i \in 1..k+m : r[i] = n)
                 <=> (\E i \in 1..k : s[i] = n) \/ (\E i \in 1..m : q[i] = n)
    BY <1>j DEF IsJoin
  <2>3. \A n : n \in Owned' <=> \E i \in 1..k+m : r[i] = n BY <2>1, <2>2, <1>6, Zenon
  <2> QED BY <2>3, Zenon
<1>16. \A i \in 1..(k+m)-1 : next[r[i]] = r[i+1] /\ data[r[i]] # NoValue
  <2> TAKE i \in 1..(k+m)-1
  <2>1. CASE i \in 1..k-1
    <3>1. r[i] = s[i] /\ r[i+1] = s[i+1] BY <2>1, <1>9, <1>13
    <3> QED BY <2>1, <3>1, <1>8 DEF IsList
  <2>2. CASE i = k
    <3>1. r[i] = tail /\ r[i+1] = q[1] BY <2>2, <1>9, <1>13, <1>8 DEF IsList
    <3> QED BY <3>1, <1>4
  <2>3. CASE i > k
    <3>1. i-k \in 1..m-1 /\ i = k+(i-k) /\ i+1 = k+(i-k+1) /\ (i-k)+1 \in 1..m
      BY <2>3, <1>9
    <3>2. r[i] = q[i-k] /\ r[i+1] = q[(i-k)+1] BY <3>1, <1>13
    <3> QED BY <3>1, <3>2, <1>4
  <2> QED BY <2>1, <2>2, <2>3, <1>9
<1>17. IsList(r, k+m)' BY <1>3, <1>13, <1>14, <1>15, <1>16 DEF IsList
<1>18. \A n : n \in Owned' <=> n \in Owned \/ \E i \in 1..Len(mine[t]) : mine[t][i] = n
  BY <1>1, <1>2, <1>6
<1>19. tail' \in Nodes /\ next'[tail'] = NoNode /\ data'[tail'] = NoValue
  BY <1>3, <1>4
<1>20. ASSUME BatchInPlace
       PROVE  Items' = Items \o call[t].batch
  <2> DEFINE b == call[t].batch
             old == [i \in 1..k-1 |-> data[s[i]]]
             new == [i \in 1..(k+m)-1 |-> data'[r[i]]]
  <2>1. /\ b \in Seq(Values) /\ Len(b) = m /\ \A i \in 1..m : b[i] \in Values
    BY <1>1, PushCallFacts DEF IInv, LocalsInPlace, PushPlaces
  <2>2. /\ \A i \in 1..m-1 : data[q[i]] = b[i+1]
        /\ data[tail] = b[1]
    BY <1>1, <1>2, <1>20 DEF BatchInPlace, PushPlaces
  <2>3. ItemsListed /\ ItemsListed'
    BY ItemsAlongList, PTL
  <2>4. Items = old
    BY <1>8, <2>3 DEF ItemsListed
  <2>5. Items' = new
    BY <1>12, <1>17, <2>3 DEF ItemsListed
  <2>6. old \in Seq(Values) /\ Len(old) = k-1 /\ \A i \in 1..k-1 : old[i] = data[s[i]]
    <3>1. \A i \in 1..k-1 : data[s[i]] \in Values
      BY <1>8, <1>9 DEF IsList, IInv, TypeOK
    <3>2. old \in [1..k-1 -> Values] /\ k-1 \in Nat
      BY <1>9, <3>1
    <3> QED BY <3>2, IsASeq, LenProperties
  <2> HIDE DEF old, b
  <2>7. \A i \in 1..(k+m)-1 : data'[r[i]] = IF i <= k-1 THEN old[i] ELSE b[i-(k-1)]
    <3> TAKE i \in 1..(k+m)-1
    <3>1. CASE i <= k-1
      <4>1. i \in 1..k-1 /\ i \in 1..k
        BY <1>9, <3>1
      <4> QED BY <1>3, <1>13, <2>6, <3>1, <4>1
    <3>2. CASE i = k
      <4>1. r[k] = tail /\ i-(k-1) = 1
        BY <1>8, <1>9, <1>13, <3>2 DEF IsList
      <4> QED BY <1>3, <1>9, <2>2, <3>2, <4>1
    <3>3. CASE i > k
      <4>1. i-k \in 1..m-1 /\ i = k+(i-k) /\ i-(k-1) = (i-k)+1 /\ i-k \in 1..m
        BY <1>9, <3>3
      <4>2. r[i] = q[i-k]
        BY <1>13, <4>1
      <4> QED BY <1>3, <1>9, <2>2, <3>3, <4>1, <4>2
    <3> QED BY <1>9, <3>1, <3>2, <3>3
  <2>8. /\ old \o b \in Seq(Values) /\ Len(old \o b) = (k+m)-1
        /\ \A i \in 1..(k+m)-1 : (old \o b)[i] = IF i <= k-1 THEN old[i] ELSE b[i-(k-1)]
    <3>1. old \in Seq(Values) /\ b \in Seq(Values)
      BY <2>1, <2>6
    <3>2. /\ old \o b \in Seq(Values) /\ Len(old \o b) = Len(old) + Len(b)
          /\ \A i \in 1..Len(old) + Len(b) :
               (old \o b)[i] = IF i <= Len(old) THEN old[i] ELSE b[i-Len(old)]
      BY ONLY <3>1, ConcatProperties
    <3>3. Len(old) = k-1 /\ Len(b) = m /\ Len(old) + Len(b) = (k+m)-1
      BY <1>9, <2>1, <2>6
    <3> QED BY <3>2, <3>3
  <2>9. old \o b \in [1..(k+m)-1 -> Values]
    BY <2>8, LenProperties
  <2>10. new = old \o b
    BY <2>7, <2>8, <2>9
  <2> QED BY <2>4, <2>5, <2>10 DEF b
<1> QED BY <1>12, <1>17, <1>18, <1>19, <1>20

\* Advancing m_tail keeps the invariant: the queue now owns the sublist's nodes.
LEMMA AdvanceTailInv ==
  ASSUME IInv, NEW t \in Threads, AdvanceTail(t)
  PROVE  IInv'
<1> USE DEF AdvanceTail, heap
<1>1. TypeOK' BY SublistAppended, EmptyUpTo DEF TypeOK, Places, IInv
<1>2. \A u \in Threads : mine'[u] = IF u = t THEN <<>> ELSE mine[u]
  BY DEF IInv, TypeOK
<1>3. MutexesHeld' BY NoThreadAssumption
  DEF MutexesHeld, TypeOK, HeadPlaces, TailPlaces, IInv
<1>4. LocalsInPlace'
  BY <1>2, SublistAppended DEF LocalsInPlace, TypeOK, PushPlaces, BothPlaces, BothCall, LookPlaces, IInv
<1>5. PrivateNodes' BY <1>2 DEF PrivateNodes, IInv
<1>6. DummyInPlace'
  BY DEF DummyInPlace, TypeOK, MutexesHeld, TailPlaces, IInv
<1>7. ListShape' BY SublistAppended DEF ListShape
<1> QED BY <1>1, <1>3, <1>4, <1>5, <1>6, <1>7 DEF IInv

\* Nothing that happens outside the owned nodes changes the list.
LEMMA ListKept ==
  ASSUME ListShape, Owned' = Owned, head' = head, tail' = tail,
         \A n \in Owned : next'[n] = next[n] /\ data'[n] = data[n]
  PROVE  /\ (\E k \in 1..Cardinality(Nodes) : \E s \in [1..k -> Nodes] : IsList(s, k))'
         /\ next'[tail'] = next[tail] /\ data'[tail'] = data[tail]
<1>1. PICK k \in 1..Cardinality(Nodes) : \E s \in [1..k -> Nodes] : IsList(s, k)
  BY DEF ListShape
<1>2. PICK s \in [1..k -> Nodes] : IsList(s, k) BY <1>1
<1>3. \A i \in 1..k : s[i] \in Owned BY <1>2 DEF IsList
<1>4. IsList(s, k)' BY <1>2, <1>3, NodesCounted DEF IsList
<1> QED BY <1>4, EndsOwned

\* A throwing constructor keeps the invariant and the values: the sublist is freed, and
\* only it.
LEMMA ConstructThrowsInv ==
  ASSUME IInv, NEW t \in Threads, ConstructThrows(t)
  PROVE  IInv' /\ Items' = Items /\ (BatchInPlace => BatchInPlace')
<1> DEFINE gone == Range(mine[t])
<1>1. \A n : n \in gone <=> \E i \in 1..Len(mine[t]) : mine[t][i] = n
  <2>1. DOMAIN mine[t] = 1..Len(mine[t]) BY UpToFacts, MaxBatchAssumption DEF IInv, TypeOK
  <2> QED BY <2>1 DEF Range
<1> HIDE DEF gone
<1>2. /\ pc[t] = "construct" /\ pc' = [pc EXCEPT ![t] = "idle"]
      /\ head' = head /\ tail' = tail
      /\ free' = free \cup gone
      /\ next' = Blank(next, gone, NoNode) /\ data' = Blank(data, gone, NoValue)
      /\ mine' = [mine EXCEPT ![t] = <<>>]
  BY DEF ConstructThrows, Return, ends, Free, gone
<1>3. gone \subseteq Nodes BY <1>1, MineFacts DEF IInv
<1>4. TypeOK'
  BY <1>2, <1>3, EmptyUpTo
  DEF ConstructThrows, Return, ends, IInv, TypeOK, Places, Statuses, Blank
<1>5. \A u \in Threads : mine'[u] = IF u = t THEN <<>> ELSE mine[u]
  BY <1>2 DEF IInv, TypeOK
<1>6. OwnedIsTheRest /\ OwnedIsTheRest'
  <2>1. OwnedIsTheRest BY TypeOwned DEF IInv
  <2>2. OwnedIsTheRest' BY <1>4, TypeOwned, PTL
  <2> QED BY <2>1, <2>2
<1>7. \A u \in Threads \ {t} : \A i \in 1..Len(mine[u]) : mine[u][i] \notin gone
  BY <1>1 DEF IInv, PrivateNodes
<1>8. Owned' = Owned
  <2> SUFFICES ASSUME NEW n PROVE n \in Owned' <=> n \in Owned OBVIOUS
  <2>1. n \in Owned <=>
          /\ n \in Nodes /\ n \notin free /\ n \notin gone
          /\ \A u \in Threads \ {t} : \A i \in 1..Len(mine[u]) : mine[u][i] # n
    BY <1>1, <1>6 DEF OwnedIsTheRest
  <2>2. n \in Owned' <=>
          /\ n \in Nodes /\ n \notin free /\ n \notin gone
          /\ \A u \in Threads \ {t} : \A i \in 1..Len(mine[u]) : mine[u][i] # n
    BY <1>2, <1>5, <1>6 DEF OwnedIsTheRest
  <2> QED BY <2>1, <2>2
<1>9. \A n \in Nodes \ gone : next'[n] = next[n] /\ data'[n] = data[n]
  BY <1>2 DEF Blank
<1>10. \A n \in Owned : n \in Nodes \ gone BY <1>1, <1>6 DEF OwnedIsTheRest
<1>11. MutexesHeld' BY NoThreadAssumption
  DEF ConstructThrows, Return, MutexesHeld, IInv, TypeOK, HeadPlaces, TailPlaces
<1>12. LocalsInPlace'
  BY <1>2, <1>5, <1>8
  DEF ConstructThrows, Return, LocalsInPlace, IInv, TypeOK, PushPlaces, BothPlaces, BothCall, LookPlaces
<1>13. PrivateNodes'
  <2>1. \A n \in free' : next'[n] = NoNode /\ data'[n] = NoValue
    BY <1>2, <1>3 DEF Blank, IInv, PrivateNodes, TypeOK
  <2>2. \A u \in Threads \ {t} : \A i \in 1..Len(mine[u]) :
          mine[u][i] \in Nodes \ gone
    BY <1>7, MineFacts DEF IInv
  <2> QED BY <1>2, <1>5, <1>7, <1>9, <2>1, <2>2 DEF IInv, PrivateNodes
<1>14. next[tail] = NoNode /\ data[tail] = NoValue BY <1>2 DEF IInv, DummyInPlace
<1>15. ListShape'
  BY <1>2, <1>8, <1>9, <1>10, <1>14, ListKept DEF IInv, ListShape
<1>16. DummyInPlace'
  BY <1>2, <1>5, <1>14, ListKept, <1>8, <1>9, <1>10
  DEF IInv, DummyInPlace, MutexesHeld, TailPlaces, TypeOK
<1>17. Items' = Items
  BY <1>2, <1>8, <1>9, <1>10, ItemsKept DEF IInv
<1>18. ASSUME BatchInPlace
       PROVE  BatchInPlace'
  <2>1. \A u \in Threads \ {t} : \A i \in 1..Len(mine[u]) : mine[u][i] \in Nodes \ gone
    BY <1>7, MineFacts DEF IInv
  <2>2. \A u \in Threads \ {t} : \A i \in 1..Len(mine[u])-1 : i \in 1..Len(mine[u])
    BY MineFacts DEF IInv
  <2>3. pc'[t] = "idle" /\ \A u \in Threads \ {t} : /\ pc'[u] = pc[u] /\ call'[u] = call[u]
                                                    /\ mine'[u] = mine[u]
    BY <1>2, <1>5 DEF ConstructThrows, Return, IInv, TypeOK
  <2>4. \A u \in Threads \ {t} : pc[u] \notin {"link", "advance"}
    BY <1>2 DEF IInv, MutexesHeld, TailPlaces
  <2>5. \A u \in Threads \ {t} : \A i \in 1..Len(mine[u])-1 :
          data'[mine[u][i]] = data[mine[u][i]]
    BY <1>9, <2>1, <2>2
  <2> QED BY <1>18, <2>3, <2>4, <2>5 DEF BatchInPlace, PushPlaces, BothPlaces
<1> QED BY <1>4, <1>11, <1>12, <1>13, <1>15, <1>16, <1>17, <1>18 DEF IInv

\* g is f, a function to R, with values, m of them, written along s.
IsWritten(g, f, s, m, values, R) ==
  /\ g \in [Nodes -> R]
  /\ \A i \in 1..m : g[s[i]] = values[i]
  /\ \A n \in Nodes : (\A i \in 1..m : s[i] # n) => g[n] = f[n]

\* What Written reads at the nodes it wrote and at the others.
LEMMA WrittenFacts ==
  ASSUME NEW R, NEW f \in [Nodes -> R], NEW k \in Nat, NEW s \in [1..k -> Nodes],
         \A i, j \in 1..k : s[i] = s[j] => i = j,
         NEW m \in Nat, m <= k, NEW values \in [1..m -> R]
  PROVE  IsWritten(Written(f, s, values), f, s, m, values, R)
<1>1. ASSUME NEW n \in Nodes, NEW i \in 1..m, s[i] = n
      PROVE  Written(f, s, values)[n] = values[i]
  <2>1. (CHOOSE j \in 1..m : s[j] = n) = i BY <1>1
  <2> QED BY <1>1, <2>1 DEF Written
<1>2. ASSUME NEW n \in Nodes, \A i \in 1..m : s[i] # n
      PROVE  Written(f, s, values)[n] = f[n]
  BY <1>2 DEF Written
<1>3. \A n \in Nodes : Written(f, s, values)[n] \in R
  BY <1>1, <1>2
<1>4. Written(f, s, values) \in [Nodes -> R] BY <1>3 DEF Written
<1>5. \A i \in 1..m : s[i] \in Nodes OBVIOUS
<1> QED BY <1>1, <1>2, <1>4, <1>5 DEF IsWritten

\* A sublist s of new nodes: nx and dt are next and data with the nodes linked in order and
\* values, one fewer than there are nodes, written into them; the last node is blank.
IsSublist(s, values, nx, dt) ==
  /\ nx \in [Nodes -> Nodes \cup {NoNode}]
  /\ dt \in [Nodes -> Values \cup {NoValue}]
  /\ s \in Seq(Nodes) /\ Len(s) = Len(values) + 1 /\ Len(s) \in Nat \ {0}
  /\ s \in [1..Len(s) -> free]
  /\ \A i, j \in 1..Len(s) : s[i] = s[j] => i = j
  /\ \A n : n \in Range(s) <=> \E i \in 1..Len(s) : s[i] = n
  /\ \A i \in 1..Len(s)-1 : /\ nx[s[i]] = s[i+1]
                            /\ dt[s[i]] = values[i] /\ dt[s[i]] \in Values
  /\ nx[s[Len(s)]] = NoNode /\ dt[s[Len(s)]] = NoValue
  /\ \A n \in Nodes \ Range(s) : nx[n] = next[n] /\ dt[n] = data[n]

\* What BuildSublist and BeginAssign write is a sublist.
LEMMA SublistBuilt ==
  ASSUME IInv, NEW k \in Nat \ {0}, NEW s \in Distinct(free, k),
         NEW values \in Seq(Values), Len(values) = k-1
  PROVE  IsSublist(s, values, Written(next, s, Tail(s)), Written(data, s, values))
<1> DEFINE nx == Written(next, s, Tail(s))
           dt == Written(data, s, values)
<1>1. /\ s \in [1..k -> free] /\ free \subseteq Nodes /\ s \in [1..k -> Nodes]
      /\ \A i, j \in 1..k : s[i] = s[j] => i = j
  BY DEF Distinct, IInv, TypeOK
<1>2. s \in Seq(Nodes) /\ Len(s) = k /\ DOMAIN s = 1..k
  <2>1. s \in Seq(Nodes) BY <1>1
  <2> QED BY <1>1, <2>1, LenProperties
<1>3. /\ Tail(s) \in [1..k-1 -> Nodes \cup {NoNode}]
      /\ \A i \in 1..k-1 : Tail(s)[i] = s[i+1]
  <2>1. s # <<>> BY <1>2
  <2>2. /\ Tail(s) \in Seq(Nodes) /\ Len(Tail(s)) = k-1
        /\ \A i \in 1..k-1 : Tail(s)[i] = s[i+1]
    BY <1>2, <2>1, HeadTailProperties
  <2>3. Tail(s) \in [1..k-1 -> Nodes] BY <2>2, LenProperties
  <2> QED BY <2>2, <2>3
<1>4. values \in [1..k-1 -> Values] /\ \A i \in 1..k-1 : values[i] \in Values
  BY LenProperties
<1>5. PICK m \in Nat : m = k-1 /\ m <= k OBVIOUS
<1>6. /\ nx \in [Nodes -> Nodes \cup {NoNode}]
      /\ \A i \in 1..k-1 : nx[s[i]] = s[i+1]
      /\ \A n \in Nodes : (\A i \in 1..k-1 : s[i] # n) => nx[n] = next[n]
  <2> DEFINE R == Nodes \cup {NoNode}
  <2>1. next \in [Nodes -> R] BY DEF IInv, TypeOK
  <2>2. Tail(s) \in [1..m -> R] BY <1>3, <1>5
  <2> HIDE DEF R
  <2>3. IsWritten(nx, next, s, m, Tail(s), R)
    BY <2>1, <2>2, <1>1, <1>5, WrittenFacts
  <2> QED BY <2>3, <1>3, <1>5 DEF R, IsWritten
<1>7. /\ dt \in [Nodes -> Values \cup {NoValue}]
      /\ \A i \in 1..k-1 : dt[s[i]] = values[i]
      /\ \A n \in Nodes : (\A i \in 1..k-1 : s[i] # n) => dt[n] = data[n]
  <2> DEFINE R == Values \cup {NoValue}
  <2>1. data \in [Nodes -> R] BY DEF IInv, TypeOK
  <2>2. values \in [1..m -> R] BY <1>4, <1>5
  <2> HIDE DEF R
  <2>3. IsWritten(dt, data, s, m, values, R)
    BY <2>1, <2>2, <1>1, <1>5, WrittenFacts
  <2> QED BY <2>3, <1>5 DEF R, IsWritten
<1> HIDE DEF nx, dt
<1>8. \A n : n \in Range(s) <=> \E i \in 1..k : s[i] = n BY <1>2 DEF Range
<1>9. nx[s[k]] = NoNode /\ dt[s[k]] = NoValue
  <2>1. s[k] \in free /\ s[k] \in Nodes /\ \A i \in 1..k-1 : s[i] # s[k] BY <1>1
  <2> QED BY <2>1, <1>6, <1>7 DEF IInv, PrivateNodes
<1>10. \A n \in Nodes \ Range(s) : nx[n] = next[n] /\ dt[n] = data[n]
  BY <1>6, <1>7, <1>8
<1>11. IsSublist(s, values, nx, dt)
  BY <1>1, <1>2, <1>4, <1>6, <1>7, <1>8, <1>9, <1>10 DEF IsSublist
<1> QED BY <1>11 DEF nx, dt

\* The values that the sublist of the call c starts with: those of a push from its second
\* on, those of an assignment.
Brings(place, c, s, values) ==
  \/ /\ place = "lock_tail" /\ c \in PushCalls /\ Len(s) = Len(c.batch)
     /\ \A i \in 1..Len(s)-1 : values[i] = c.batch[i+1]
  \/ /\ place = "lock_both" /\ c \in AssignCalls /\ Len(s) = Len(c.batch) + 1
     /\ \A i \in 1..Len(s)-1 : values[i] = c.batch[i]

\* An operation that begins with a sublist of nodes that were free keeps the invariant and
\* the values, and its own values are where it has written them.
LEMMA SublistTaken ==
  ASSUME IInv, NEW t \in Threads, NEW c \in LegalCalls,
         NEW place \in {"lock_tail", "lock_both"}, Begin(t, c, place),
         NEW s \in Seq(Nodes), NEW values, NEW nx, NEW dt, IsSublist(s, values, nx, dt),
         next' = nx, data' = dt, Len(s) <= MaxBatch + 1,
         mine' = [mine EXCEPT ![t] = s], free' = free \ Range(s),
         UNCHANGED <<ends, sync, ptail>>, Brings(place, c, s, values)
  PROVE  IInv' /\ Items' = Items /\ (BatchInPlace => BatchInPlace')
<1>1. Len(s) \in 1..MaxBatch + 1
  BY MaxBatchAssumption DEF IsSublist
<1>2. /\ s \in Seq(Nodes) /\ Len(s) \in 1..MaxBatch + 1 /\ Len(s) \in Nat \ {0}
      /\ next' \in [Nodes -> Nodes \cup {NoNode}]
      /\ data' \in [Nodes -> Values \cup {NoValue}]
      /\ s \in [1..Len(s) -> free]
      /\ \A i, j \in 1..Len(s) : s[i] = s[j] => i = j
      /\ \A n : n \in Range(s) <=> \E i \in 1..Len(s) : s[i] = n
      /\ \A i \in 1..Len(s)-1 : /\ next'[s[i]] = s[i+1] /\ data'[s[i]] \in Values
                                /\ data'[s[i]] = values[i]
      /\ next'[s[Len(s)]] = NoNode /\ data'[s[Len(s)]] = NoValue
      /\ \A n \in Nodes \ Range(s) : next'[n] = next[n] /\ data'[n] = data[n]
  BY <1>1 DEF IsSublist
<1>3. /\ pc[t] = "idle" /\ pc' = [pc EXCEPT ![t] = place]
      /\ call' = [call EXCEPT ![t] = c]
      /\ got' = [got EXCEPT ![t] = <<>>] /\ status' = [status EXCEPT ![t] = "none"]
      /\ UNCHANGED <<head, tail, headMut, tailMut, interrupt, waiters, ptail>>
  BY DEF Begin, ends, sync
<1>4. free \subseteq Nodes BY DEF IInv, TypeOK
<1>5. TypeOK'
  <2>1. s \in UpTo(Nodes, MaxBatch + 1) BY <1>1, <1>2, <1>4, MaxBatchAssumption DEF UpTo
  <2> QED BY <2>1, <1>2, <1>3, <1>4, EmptyUpTo DEF IInv, TypeOK, Places, Statuses
<1>6. /\ \A u \in Threads : mine'[u] = IF u = t THEN s ELSE mine[u]
      /\ mine[t] = <<>>
  BY <1>3 DEF IInv, TypeOK, LocalsInPlace, PushPlaces, BothPlaces
<1>7. OwnedIsTheRest /\ OwnedIsTheRest'
  <2>1. OwnedIsTheRest BY TypeOwned DEF IInv
  <2>2. OwnedIsTheRest' BY <1>5, TypeOwned, PTL
  <2> QED BY <2>1, <2>2
<1>8. Owned' = Owned
  <2> SUFFICES ASSUME NEW n PROVE n \in Owned' <=> n \in Owned OBVIOUS
  <2>1. n \in Owned <=>
          /\ n \in Nodes /\ n \notin free
          /\ \A u \in Threads \ {t} : \A i \in 1..Len(mine[u]) : mine[u][i] # n
    BY <1>6, <1>7 DEF OwnedIsTheRest
  <2>2. n \in Owned' <=>
          /\ n \in Nodes /\ n \notin free' /\ n \notin Range(s)
          /\ \A u \in Threads \ {t} : \A i \in 1..Len(mine[u]) : mine[u][i] # n
    <3>1. n \in Owned' <=>
            /\ n \in Nodes /\ n \notin free'
            /\ \A u \in Threads : \A i \in 1..Len(mine'[u]) : mine'[u][i] # n
      BY <1>7 DEF OwnedIsTheRest
    <3>2. n \notin Range(s) <=> \A i \in 1..Len(mine'[t]) : mine'[t][i] # n
      BY <1>2, <1>6
    <3>3. \A u \in Threads \ {t} : mine'[u] = mine[u] BY <1>6
    <3> QED BY <3>1, <3>2, <3>3
  <2>3. n \notin free <=> n \notin free' /\ n \notin Range(s) BY <1>2
  <2> QED BY <2>1, <2>2, <2>3
<1>9. \A n \in Owned : n \in Nodes \ Range(s)
  BY <1>2, <1>7 DEF OwnedIsTheRest
<1>kept. /\ \A n \in Range(s) : n \in free
       /\ \A n \in Nodes \ Range(s) : next'[n] = next[n] /\ data'[n] = data[n]
  BY <1>2
<1>10. MutexesHeld' BY <1>3 DEF MutexesHeld, IInv, TypeOK, HeadPlaces, TailPlaces
<1>11. LocalsInPlace'
  <2>1. /\ place = "lock_tail" => c \in PushCalls /\ Len(s) = Len(c.batch)
        /\ place = "lock_both" => c \in AssignCalls /\ Len(s) = Len(c.batch) + 1
    BY DEF Brings
  <2> QED BY <2>1, <1>3, <1>6, <1>8
    DEF LocalsInPlace, IInv, TypeOK, PushPlaces, BothPlaces, BothCall, LookPlaces
<1>12. PrivateNodes'
  <2>1. \A n \in free' : next'[n] = NoNode /\ data'[n] = NoValue
    BY <1>4, <1>kept DEF IInv, PrivateNodes
  <2>2. \A i \in 1..Len(s) : s[i] \in free /\ s[i] \notin free' BY <1>2
  <2>3. \A u \in Threads : \A i \in 1..Len(mine[u]) :
          mine[u][i] \in Nodes /\ mine[u][i] \notin free /\ mine[u][i] \notin free'
          /\ mine[u][i] \notin Range(s)
    BY <1>kept, MineFacts DEF IInv, PrivateNodes
  <2>4. ASSUME NEW u \in Threads \ {t}, NEW i \in 1..Len(mine[u])
        PROVE  /\ i < Len(mine[u]) =>
                    next'[mine[u][i]] = mine[u][i+1] /\ data'[mine[u][i]] # NoValue
               /\ i = Len(mine[u]) =>
                    next'[mine[u][i]] = NoNode /\ data'[mine[u][i]] = NoValue
    BY <2>3, <1>kept DEF IInv, PrivateNodes
  <2>5. ASSUME NEW u \in Threads, NEW v \in Threads,
               NEW i \in 1..Len(mine'[u]), NEW j \in 1..Len(mine'[v]),
               mine'[u][i] = mine'[v][j]
        PROVE  u = v /\ i = j
    BY <2>2, <2>3, <2>5, <1>2, <1>6 DEF IInv, PrivateNodes
  <2>6. ASSUME NEW i \in 1..Len(s)
        PROVE  /\ i < Len(s) => next'[s[i]] = s[i+1] /\ data'[s[i]] # NoValue
               /\ i = Len(s) => next'[s[i]] = NoNode /\ data'[s[i]] = NoValue
    <3>1. i = Len(s) \/ i \in 1..Len(s)-1 BY <1>1
    <3>2. CASE i = Len(s) BY <1>2, <3>2
    <3>3. CASE i \in 1..Len(s)-1 BY <1>1, <1>2, <3>3, NoValueAssumption
    <3> QED BY <3>1, <3>2, <3>3
  <2>7. ASSUME NEW u \in Threads, NEW i \in 1..Len(mine'[u])
        PROVE  /\ mine'[u][i] \notin free'
               /\ i < Len(mine'[u]) =>
                    next'[mine'[u][i]] = mine'[u][i+1] /\ data'[mine'[u][i]] # NoValue
               /\ i = Len(mine'[u]) =>
                    next'[mine'[u][i]] = NoNode /\ data'[mine'[u][i]] = NoValue
    <3>1. CASE u = t BY <3>1, <2>2, <2>6, <1>6
    <3>2. CASE u # t BY <3>2, <2>3, <2>4, <1>6
    <3> QED BY <3>1, <3>2
  <2> QED BY <2>1, <2>5, <2>7 DEF PrivateNodes
<1>13. ListShape'
  BY <1>2, <1>3, <1>8, <1>9, ListKept DEF IInv, ListShape
<1>14. next'[tail] = next[tail] /\ data'[tail] = data[tail]
  BY <1>2, <1>9, EndsOwned DEF IInv
<1>15. DummyInPlace'
  BY <1>3, <1>6, <1>14 DEF IInv, DummyInPlace, TypeOK
<1>16. Items' = Items
  BY <1>2, <1>3, <1>8, <1>9, ItemsKept DEF IInv
<1>17. ASSUME BatchInPlace
       PROVE  BatchInPlace'
  <2>1. \A u \in Threads \ {t} : \A i \in 1..Len(mine[u])-1 :
          mine[u][i] \in Nodes \ Range(s)
    <3>1. \A u \in Threads : \A i \in 1..Len(mine[u]) :
            mine[u][i] \in Nodes /\ mine[u][i] \notin free
      BY MineFacts DEF IInv, PrivateNodes
    <3>2. \A u \in Threads \ {t} : \A i \in 1..Len(mine[u])-1 : i \in 1..Len(mine[u])
      BY MineFacts DEF IInv
    <3>3. \A n \in Range(s) : n \in free
      BY <1>2
    <3> QED BY <3>1, <3>2, <3>3
  <2>2. pc'[t] = place /\ call'[t] = c
        /\ \A u \in Threads \ {t} : /\ pc'[u] = pc[u] /\ call'[u] = call[u]
                                   /\ mine'[u] = mine[u]
    BY <1>3, <1>6 DEF IInv, TypeOK
  <2>3. \A i \in 1..Len(s)-1 : data'[s[i]] = values[i]
    BY <1>2
  <2>4. \A n \in Nodes \ Range(s) : data'[n] = data[n]
    BY <1>2
  <2> SUFFICES ASSUME NEW u \in Threads
               PROVE  /\ pc'[u] \in BothPlaces =>
                           \A i \in 1..Len(mine'[u])-1 : data'[mine'[u][i]] = call'[u].batch[i]
                      /\ pc'[u] \in PushPlaces =>
                           \A i \in 1..Len(mine'[u])-1 : data'[mine'[u][i]] = call'[u].batch[i+1]
                      /\ pc'[u] \in {"link", "advance"} => data'[tail'] = call'[u].batch[1]
    BY DEF BatchInPlace
  <2>5. CASE u = t
    BY <1>6, <2>2, <2>3, <2>5 DEF PushPlaces, BothPlaces, Brings
  <2>6. CASE u # t
    BY <1>3, <1>14, <1>17, <2>1, <2>2, <2>4, <2>6 DEF BatchInPlace
  <2> QED BY <2>5, <2>6
<1> QED BY <1>5, <1>10, <1>11, <1>12, <1>13, <1>15, <1>16, <1>17 DEF IInv

\* A push begins with its sublist, which has the batch from its second value on.
LEMMA BuildSublistInv ==
  ASSUME IInv, NEW t \in Threads, BuildSublist(t)
  PROVE  IInv' /\ Items' = Items /\ (BatchInPlace => BatchInPlace')
<1>1. PICK c \in PushCalls : \E s \in Distinct(free, Len(c.batch)) :
         /\ Begin(t, c, "lock_tail")
         /\ mine' = [mine EXCEPT ![t] = s]
         /\ free' = free \ Range(s)
         /\ next' = Written(next, s, Tail(s))
         /\ data' = Written(data, s, Tail(c.batch))
         /\ UNCHANGED <<ends, sync, ptail>>
  BY DEF BuildSublist
<1>2. PICK s \in Distinct(free, Len(c.batch)) :
         /\ Begin(t, c, "lock_tail")
         /\ mine' = [mine EXCEPT ![t] = s]
         /\ free' = free \ Range(s)
         /\ next' = Written(next, s, Tail(s))
         /\ data' = Written(data, s, Tail(c.batch))
         /\ UNCHANGED <<ends, sync, ptail>>
  BY <1>1
<1>3. /\ c \in LegalCalls /\ c.batch \in Seq(Values) /\ Len(c.batch) \in 1..MaxBatch
      /\ Len(c.batch) \in Nat \ {0}
  BY PushCallFacts, MaxBatchAssumption
<1> DEFINE values == Tail(c.batch)
<1>4. /\ values \in Seq(Values) /\ Len(values) = Len(c.batch) - 1
      /\ \A i \in 1..Len(c.batch) - 1 : values[i] = c.batch[i+1]
  <2>1. c.batch # <<>> BY <1>3
  <2> QED BY <1>3, <2>1, HeadTailProperties
<1> DEFINE nx == Written(next, s, Tail(s))
           dt == Written(data, s, values)
<1>5. IsSublist(s, values, nx, dt) /\ next' = nx /\ data' = dt
  BY <1>2, <1>3, <1>4, SublistBuilt
<1> HIDE DEF values, nx, dt
<1>6. s \in Seq(Nodes) /\ Len(s) = Len(c.batch) /\ Len(s) <= MaxBatch + 1
  BY <1>3, <1>4, <1>5, MaxBatchAssumption DEF IsSublist
<1>7. Brings("lock_tail", c, s, values) BY <1>4, <1>6 DEF Brings
<1> QED BY <1>2, <1>3, <1>5, <1>6, <1>7, SublistTaken

\* An assignment begins with the other queue's nodes, which have its whole batch.
LEMMA BeginAssignInv ==
  ASSUME IInv, NEW t \in Threads, BeginAssign(t)
  PROVE  IInv' /\ Items' = Items /\ (BatchInPlace => BatchInPlace')
<1>1. PICK c \in AssignCalls : \E s \in Distinct(free, Len(c.batch) + 1) :
         /\ Begin(t, c, "lock_both")
         /\ mine' = [mine EXCEPT ![t] = s]
         /\ free' = free \ Range(s)
         /\ next' = Written(next, s, Tail(s))
         /\ data' = Written(data, s, c.batch)
         /\ UNCHANGED <<ends, sync, ptail>>
  BY DEF BeginAssign
<1>2. PICK s \in Distinct(free, Len(c.batch) + 1) :
         /\ Begin(t, c, "lock_both")
         /\ mine' = [mine EXCEPT ![t] = s]
         /\ free' = free \ Range(s)
         /\ next' = Written(next, s, Tail(s))
         /\ data' = Written(data, s, c.batch)
         /\ UNCHANGED <<ends, sync, ptail>>
  BY <1>1
<1>3. /\ c \in LegalCalls /\ c.batch \in Seq(Values) /\ Len(c.batch) \in 0..MaxBatch
      /\ Len(c.batch) + 1 \in Nat \ {0} /\ Len(c.batch) = (Len(c.batch) + 1) - 1
  BY AssignCallFacts, MaxBatchAssumption
<1> DEFINE nx == Written(next, s, Tail(s))
           dt == Written(data, s, c.batch)
<1>4. IsSublist(s, c.batch, nx, dt) /\ next' = nx /\ data' = dt
  BY <1>2, <1>3, SublistBuilt
<1> HIDE DEF nx, dt
<1>5. s \in Seq(Nodes) /\ Len(s) = Len(c.batch) + 1 /\ Len(s) <= MaxBatch + 1
  BY <1>3, <1>4, MaxBatchAssumption DEF IsSublist
<1>6. Brings("lock_both", c, s, c.batch) BY <1>5 DEF Brings
<1> QED BY <1>2, <1>3, <1>4, <1>5, <1>6, SublistTaken

-----------------------------------------------------------------------------
(* The whole list is replaced, under both mutexes. *)

\* What a move owes: a list of nodes that were free or the mover's own, everything else
\* that was free or the queue's blank; the values are then those of that list.
LEMMA Replaced ==
  ASSUME IInv, NEW t \in Threads, pc[t] \in BothPlaces,
         \A u \in Threads \ {t} : pc[u] \notin HeadPlaces \cup TailPlaces,
         Return(t, "none"), headMut' = NoThread, tailMut' = NoThread,
         UNCHANGED <<interrupt, waiters, got>>,
         mine' = [mine EXCEPT ![t] = <<>>],
         NEW k \in Nat \ {0}, NEW s \in [1..k -> Nodes],
         \A i, j \in 1..k : s[i] = s[j] => i = j,
         \A i \in 1..k : s[i] \in free \/ \E j \in 1..Len(mine[t]) : mine[t][j] = s[i],
         \A j \in 1..Len(mine[t]) : \E i \in 1..k : s[i] = mine[t][j],
         head' = s[1], tail' = s[k],
         \A n : n \in free' <=> n \in free \cup Owned /\ \A i \in 1..k : s[i] # n,
         next' \in [Nodes -> Nodes \cup {NoNode}],
         data' \in [Nodes -> Values \cup {NoValue}],
         \A i \in 1..k-1 : next'[s[i]] = s[i+1] /\ data'[s[i]] # NoValue,
         next'[s[k]] = NoNode /\ data'[s[k]] = NoValue,
         \A n \in free' : next'[n] = NoNode /\ data'[n] = NoValue,
         \A n \in Nodes \ (free \cup Owned) : next'[n] = next[n] /\ data'[n] = data[n]
  PROVE  IInv' /\ Items' = [i \in 1..k-1 |-> data'[s[i]]] /\ (BatchInPlace => BatchInPlace')
<1>1. /\ pc' = [pc EXCEPT ![t] = "idle"] /\ call' = [call EXCEPT ![t] = NoCall]
      /\ status' = [status EXCEPT ![t] = "none"] /\ ptail' = [ptail EXCEPT ![t] = NoNode]
  BY DEF Return
<1>2. free \subseteq Nodes /\ Owned \subseteq Nodes
  BY DEF IInv, TypeOK, Owned
<1>3. TypeOK' BY <1>1, <1>2, EmptyUpTo DEF IInv, TypeOK, Places, Statuses
<1>4. OwnedIsTheRest /\ OwnedIsTheRest'
  <2>1. OwnedIsTheRest BY TypeOwned DEF IInv
  <2>2. OwnedIsTheRest' BY <1>3, TypeOwned, PTL
  <2> QED BY <2>1, <2>2
<1>5. /\ pc'[t] = "idle" /\ mine'[t] = <<>>
      /\ \A u \in Threads \ {t} : /\ pc'[u] = pc[u] /\ mine'[u] = mine[u]
                                 /\ call'[u] = call[u] /\ ptail'[u] = ptail[u]
  BY <1>1 DEF IInv, TypeOK
<1>6. \A u \in Threads : \A i \in 1..Len(mine[u]) :
        mine[u][i] \in Nodes /\ mine[u][i] \notin free /\ mine[u][i] \notin Owned
  BY <1>4, MineFacts DEF IInv, PrivateNodes, OwnedIsTheRest
<1>7. \A u \in Threads \ {t} : \A j \in 1..Len(mine[u]) : \A i \in 1..k : s[i] # mine[u][j]
  BY <1>6 DEF IInv, PrivateNodes
<1>8. Owned' = {s[i] : i \in 1..k}
  <2>1. ASSUME NEW n PROVE n \in Owned' <=> \E i \in 1..k : s[i] = n
    <3>1. n \in Owned' <=> /\ n \in Nodes /\ n \notin free'
                           /\ \A u \in Threads : \A i \in 1..Len(mine'[u]) : mine'[u][i] # n
      BY <1>4 DEF OwnedIsTheRest
    <3>2. (\A u \in Threads : \A i \in 1..Len(mine'[u]) : mine'[u][i] # n)
            <=> \A u \in Threads \ {t} : \A i \in 1..Len(mine[u]) : mine[u][i] # n
      BY <1>5
    <3>3. n \in Owned <=> /\ n \in Nodes /\ n \notin free
                          /\ \A u \in Threads : \A i \in 1..Len(mine[u]) : mine[u][i] # n
      BY <1>4 DEF OwnedIsTheRest
    <3>4. CASE \E i \in 1..k : s[i] = n
      BY <3>1, <3>2, <3>4, <1>7
    <3>5. CASE \A i \in 1..k : s[i] # n
      <4>1. \A i \in 1..Len(mine[t]) : mine[t][i] # n BY <3>5
      <4> QED BY <3>1, <3>2, <3>3, <3>5, <4>1
    <3> QED BY <3>4, <3>5
  <2> QED BY <2>1
<1>9. IsList(s, k)' BY <1>8 DEF IsList
<1>10. k \in 1..Cardinality(Nodes)
  <2>1. \A i, j \in 1..k : s[i] = s[j] => i = j OBVIOUS
  <2>2. k \in Nat \ {0} /\ s \in [1..k -> Nodes] OBVIOUS
  <2>3. k <= Cardinality(Nodes) BY ONLY <2>1, <2>2, DistinctFits
  <2> QED BY ONLY <2>2, <2>3, NodesCounted
<1>11. ListShape' BY <1>9, <1>10 DEF ListShape
<1>12. MutexesHeld'
  <2> SUFFICES ASSUME NEW u \in Threads
               PROVE  /\ headMut' = u <=> pc'[u] \in HeadPlaces
                      /\ tailMut' = u <=> pc'[u] \in TailPlaces
                      /\ u \in waiters' <=> pc'[u] = "parked"
    BY DEF MutexesHeld
  <2>1. u # NoThread BY NoThreadAssumption
  <2>2. CASE u = t
    BY <2>1, <2>2, <1>5 DEF IInv, MutexesHeld, HeadPlaces, TailPlaces, BothPlaces
  <2>3. CASE u # t BY <2>1, <2>3, <1>5 DEF IInv, MutexesHeld
  <2> QED BY <2>2, <2>3
<1>13. LocalsInPlace'
  BY <1>5 DEF IInv, LocalsInPlace, BothCall, HeadPlaces, PushPlaces, BothPlaces, LookPlaces
<1>14. DummyInPlace' BY <1>5 DEF IInv, DummyInPlace, TailPlaces
<1>15. \A u \in Threads \ {t} : \A i \in 1..Len(mine[u]) :
         /\ mine[u][i] \notin free'
         /\ next'[mine[u][i]] = next[mine[u][i]]
         /\ data'[mine[u][i]] = data[mine[u][i]]
  BY <1>6
<1>16. PrivateNodes'
  <2>1. \A n \in free' : next'[n] = NoNode /\ data'[n] = NoValue OBVIOUS
  <2>2. \A u \in Threads \ {t} : \A i \in 1..Len(mine[u]) :
          /\ i < Len(mine[u]) => next'[mine[u][i]] = mine[u][i+1] /\ data'[mine[u][i]] # NoValue
          /\ i = Len(mine[u]) => next'[mine[u][i]] = NoNode /\ data'[mine[u][i]] = NoValue
    BY <1>15 DEF IInv, PrivateNodes
  <2>3. \A u, v \in Threads : \A i \in 1..Len(mine[u]) : \A j \in 1..Len(mine[v]) :
          mine[u][i] = mine[v][j] => u = v /\ i = j
    BY DEF IInv, PrivateNodes
  <2>4. t \in Threads OBVIOUS
  <2> QED BY ONLY <1>5, <1>15, <2>1, <2>2, <2>3, <2>4 DEF PrivateNodes
<1>17. Items' = [i \in 1..k-1 |-> data'[s[i]]]
  <2>1. ItemsListed'
    BY ItemsAlongList, PTL
  <2>2. s \in [1..k -> Nodes] OBVIOUS
  <2> QED BY ONLY <1>9, <1>10, <2>1, <2>2 DEF ItemsListed
<1>18. ASSUME BatchInPlace
       PROVE  BatchInPlace'
  <2>1. \A u \in Threads : \A i \in 1..Len(mine[u])-1 : i \in 1..Len(mine[u])
    BY MineFacts DEF IInv
  <2>2. \A u \in Threads \ {t} : \A i \in 1..Len(mine[u])-1 :
          data'[mine[u][i]] = data[mine[u][i]]
    BY ONLY <1>15, <2>1
  <2>3. \A u \in Threads \ {t} : pc[u] \notin {"link", "advance"}
    BY DEF TailPlaces
  <2> QED BY <1>5, <1>18, <2>2, <2>3 DEF BatchInPlace, PushPlaces, BothPlaces
<1> QED BY <1>3, <1>11, <1>12, <1>13, <1>14, <1>16, <1>17, <1>18 DEF IInv

\* The queue's own nodes gone, the free nodes and the owned ones are blank.
LEMMA BlankFacts ==
  ASSUME IInv
  PROVE  /\ Blank(next, Owned, NoNode) \in [Nodes -> Nodes \cup {NoNode}]
         /\ Blank(data, Owned, NoValue) \in [Nodes -> Values \cup {NoValue}]
         /\ \A n \in free \cup Owned :
              /\ n \in Nodes
              /\ Blank(next, Owned, NoNode)[n] = NoNode
              /\ Blank(data, Owned, NoValue)[n] = NoValue
         /\ \A n \in Nodes \ Owned :
              /\ Blank(next, Owned, NoNode)[n] = next[n]
              /\ Blank(data, Owned, NoValue)[n] = data[n]
<1>1. free \subseteq Nodes /\ Owned \subseteq Nodes BY DEF IInv, TypeOK, Owned
<1>2. next \in [Nodes -> Nodes \cup {NoNode}] /\ data \in [Nodes -> Values \cup {NoValue}]
  BY DEF IInv, TypeOK
<1>3. \A n \in free : next[n] = NoNode /\ data[n] = NoValue BY DEF IInv, PrivateNodes
<1> QED BY <1>1, <1>2, <1>3 DEF Blank

\* Moving the queue's nodes away keeps the invariant and leaves no value.
LEMMA MoveOutInv ==
  ASSUME IInv, NEW t \in Threads, MoveOut(t)
  PROVE  IInv' /\ Items' = <<>> /\ (BatchInPlace => BatchInPlace')
<1>1. /\ pc[t] = "lock_both" /\ call[t].op = "move"
      /\ headMut = NoThread /\ tailMut = NoThread
      /\ headMut' = NoThread /\ tailMut' = NoThread
      /\ UNCHANGED <<interrupt, waiters, got>> /\ mine' = mine
      /\ next' = Blank(next, Owned, NoNode) /\ data' = Blank(data, Owned, NoValue)
      /\ Return(t, "none")
  BY DEF MoveOut, sync
<1>2. PICK n \in free : head' = n /\ tail' = n /\ free' = (free \cup Owned) \ {n}
  BY DEF MoveOut
<1>n. n \in Nodes BY DEF IInv, TypeOK
<1>3. PICK s \in [1..1 -> Nodes] : s[1] = n
  <2>1. [i \in 1..1 |-> n] \in [1..1 -> Nodes] /\ [i \in 1..1 |-> n][1] = n BY <1>n
  <2> QED BY <2>1
<1>4. \A i, j \in 1..1 : s[i] = s[j] => i = j OBVIOUS
<1>5. \A m : m \in free' <=> m \in free \cup Owned /\ \A i \in 1..1 : s[i] # m
  BY <1>2, <1>3
<1>6. /\ next' \in [Nodes -> Nodes \cup {NoNode}]
      /\ data' \in [Nodes -> Values \cup {NoValue}]
  BY <1>1, BlankFacts
<1>7. next'[s[1]] = NoNode /\ data'[s[1]] = NoValue BY <1>1, <1>3, BlankFacts
<1>8. \A m \in free' : next'[m] = NoNode /\ data'[m] = NoValue
  BY <1>1, <1>5, BlankFacts
<1>9. \A m \in Nodes \ (free \cup Owned) : next'[m] = next[m] /\ data'[m] = data[m]
  BY <1>1, BlankFacts
<1>10. \A i \in 1..1-1 : next'[s[i]] = s[i+1] /\ data'[s[i]] # NoValue OBVIOUS
<1>11. head' = s[1] /\ tail' = s[1] BY <1>2, <1>3
<1>12. 1 \in Nat \ {0} OBVIOUS
<1>13. mine[t] = <<>>
  BY <1>1, AssignCallFacts DEF IInv, LocalsInPlace, BothPlaces, BothCall
<1>14. /\ mine' = [mine EXCEPT ![t] = <<>>]
       /\ \A j \in 1..Len(mine[t]) : \E i \in 1..1 : s[i] = mine[t][j]
  BY <1>1, <1>13 DEF IInv, TypeOK
<1>15. /\ pc[t] \in BothPlaces
       /\ \A u \in Threads \ {t} : pc[u] \notin HeadPlaces \cup TailPlaces
  BY <1>1, NoThreadAssumption DEF IInv, MutexesHeld, BothPlaces
<1>16. \A i \in 1..1 : s[i] \in free \/ \E j \in 1..Len(mine[t]) : mine[t][j] = s[i]
  BY <1>3
<1> HIDE DEF IInv
<1>17. IInv' /\ Items' = [i \in 1..1-1 |-> data'[s[i]]] /\ (BatchInPlace => BatchInPlace')
  BY <1>1, <1>4, <1>5, <1>6, <1>7, <1>8, <1>9, <1>10, <1>11, <1>12, <1>14, <1>15, <1>16,
     Replaced
<1>18. [i \in 1..1-1 |-> data'[s[i]]] = <<>>
  OBVIOUS
<1> QED BY <1>17, <1>18

\* The other queue's nodes in place of the last dummy keep the invariant; the values are
\* the whole batch of the assignment.
LEMMA MoveInInv ==
  ASSUME IInv, NEW t \in Threads, MoveIn(t)
  PROVE  /\ IInv' /\ (BatchInPlace => BatchInPlace')
         /\ BatchInPlace => Items' = call[t].batch
<1>1. /\ pc[t] = "clear" /\ head = tail /\ call[t].op = "assign"
      /\ head' = mine[t][1] /\ tail' = mine[t][Len(mine[t])]
      /\ mine' = [mine EXCEPT ![t] = <<>>]
      /\ Free({head}) /\ Return(t, "none") /\ headMut' = NoThread /\ tailMut' = NoThread
      /\ UNCHANGED <<interrupt, waiters, got>>
  BY DEF MoveIn, Leave
<1>2. call[t] \in AssignCalls /\ Len(mine[t]) = Len(call[t].batch) + 1
  <2>1. BothCall(t) BY <1>1 DEF IInv, LocalsInPlace, BothPlaces
  <2>2. call[t] # Plain("clear", "none") /\ call[t] # Plain("move", "none")
    BY <1>1 DEF Plain
  <2> QED BY <2>1, <2>2 DEF BothCall
<1> DEFINE b == call[t].batch
<1>3. /\ b \in Seq(Values) /\ Len(b) \in 0..MaxBatch /\ b \in [1..Len(b) -> Values]
  BY <1>2, AssignCallFacts
<1>4. PICK k \in Nat \ {0} : k = Len(mine[t]) /\ k = Len(b) + 1 /\ Len(b) = k-1
  BY <1>2, <1>3, MaxBatchAssumption
<1>5. mine[t] \in [1..k -> Nodes]
  <2>1. mine[t] \in UpTo(Nodes, MaxBatch + 1) /\ MaxBatch + 1 \in Nat
    BY MaxBatchAssumption DEF IInv, TypeOK
  <2>2. mine[t] \in [1..Len(mine[t]) -> Nodes] BY <2>1, UpToFacts
  <2> QED BY <1>4, <2>2
<1>6. PICK s \in [1..k -> Nodes] : s = mine[t] BY <1>5
<1>7. /\ \A i, j \in 1..k : s[i] = s[j] => i = j
      /\ \A i \in 1..k-1 : next[s[i]] = s[i+1] /\ data[s[i]] # NoValue
      /\ next[s[k]] = NoNode /\ data[s[k]] = NoValue
      /\ \A i \in 1..k : s[i] \notin free
  <2>1. \A i \in 1..k :
          /\ i < k => next[s[i]] = s[i+1] /\ data[s[i]] # NoValue
          /\ i = k => next[s[i]] = NoNode /\ data[s[i]] = NoValue
          /\ s[i] \notin free
    BY <1>4, <1>6 DEF IInv, PrivateNodes
  <2>2. \A i, j \in 1..k : s[i] = s[j] => i = j
    BY <1>4, <1>6 DEF IInv, PrivateNodes
  <2> QED BY <2>1, <2>2
<1>8. head \in Nodes /\ head \in Owned /\ \A i \in 1..k : s[i] # head
  BY <1>4, <1>6, EndsOwned, TypeOwned DEF IInv, TypeOK, OwnedIsTheRest
<1>9. Owned = {head}
  <2>1. PICK m \in 1..Cardinality(Nodes) : \E r \in [1..m -> Nodes] : IsList(r, m)
    BY DEF ListShape, IInv
  <2>2. PICK r \in [1..m -> Nodes] : IsList(r, m) BY <2>1
  <2>3. m = 1 BY <1>1, <2>2, NodesCounted DEF IsList
  <2>4. Owned = {r[i] : i \in 1..1} /\ r[1] = head BY <2>2, <2>3 DEF IsList
  <2> QED BY <2>4
<1>10. \A n : n \in free' <=> n \in free \cup Owned /\ \A i \in 1..k : s[i] # n
  BY <1>1, <1>7, <1>8, <1>9 DEF Free
<1>11. \A n \in Nodes \ {head} : next'[n] = next[n] /\ data'[n] = data[n]
  BY <1>1 DEF Free, Blank
<1>12. /\ next' \in [Nodes -> Nodes \cup {NoNode}]
       /\ data' \in [Nodes -> Values \cup {NoValue}]
       /\ next'[head] = NoNode /\ data'[head] = NoValue
  BY <1>1, <1>8 DEF Free, Blank, IInv, TypeOK
<1>13. /\ \A i \in 1..k-1 : next'[s[i]] = s[i+1] /\ data'[s[i]] # NoValue
       /\ next'[s[k]] = NoNode /\ data'[s[k]] = NoValue
       /\ \A i \in 1..k-1 : data'[s[i]] = data[s[i]]
  <2>1. \A i \in 1..k : s[i] \in Nodes \ {head} BY <1>8
  <2>2. \A i \in 1..k-1 : i \in 1..k OBVIOUS
  <2> QED BY <1>7, <1>11, <2>1, <2>2
<1>14. \A n \in free' : next'[n] = NoNode /\ data'[n] = NoValue
  <2> SUFFICES ASSUME NEW n \in free' PROVE next'[n] = NoNode /\ data'[n] = NoValue
    OBVIOUS
  <2>1. n = head \/ (n \in free /\ n \in Nodes /\ n # head)
    BY <1>9, <1>10 DEF IInv, TypeOK
  <2> QED BY <2>1, <1>11, <1>12 DEF IInv, PrivateNodes
<1>15. \A n \in Nodes \ (free \cup Owned) : next'[n] = next[n] /\ data'[n] = data[n]
  BY <1>9, <1>11
<1>16. /\ pc[t] \in BothPlaces
       /\ \A u \in Threads \ {t} : pc[u] \notin HeadPlaces \cup TailPlaces
  BY <1>1, NoThreadAssumption DEF IInv, MutexesHeld, HeadPlaces, TailPlaces, BothPlaces
<1>17. /\ \A i \in 1..k : s[i] \in free \/ \E j \in 1..Len(mine[t]) : mine[t][j] = s[i]
       /\ \A j \in 1..Len(mine[t]) : \E i \in 1..k : s[i] = mine[t][j]
       /\ head' = s[1] /\ tail' = s[k]
  BY <1>1, <1>4, <1>6
<1> HIDE DEF b
<1>18. IInv' /\ Items' = [i \in 1..k-1 |-> data'[s[i]]] /\ (BatchInPlace => BatchInPlace')
  <2>1. /\ Return(t, "none") /\ headMut' = NoThread /\ tailMut' = NoThread
        /\ UNCHANGED <<interrupt, waiters, got>> /\ mine' = [mine EXCEPT ![t] = <<>>]
    BY <1>1
  <2>2. \A i, j \in 1..k : s[i] = s[j] => i = j BY <1>7
  <2>3. /\ next' \in [Nodes -> Nodes \cup {NoNode}]
        /\ data' \in [Nodes -> Values \cup {NoValue}]
    BY <1>12
  <2>4. \A i \in 1..k-1 : next'[s[i]] = s[i+1] /\ data'[s[i]] # NoValue BY <1>13
  <2>5. next'[s[k]] = NoNode /\ data'[s[k]] = NoValue BY <1>13
  <2> QED BY <1>10, <1>14, <1>15, <1>16, <1>17, <2>1, <2>2, <2>3, <2>4, <2>5, Replaced
<1>19. ASSUME BatchInPlace
       PROVE  Items' = call[t].batch
  <2>1. \A i \in 1..k-1 : data[s[i]] = b[i]
    BY <1>1, <1>4, <1>6, <1>19 DEF BatchInPlace, BothPlaces, b
  <2>2. [i \in 1..k-1 |-> data'[s[i]]] = b
    BY <1>3, <1>4, <1>13, <2>1
  <2> QED BY <1>18, <2>2 DEF b
<1> QED BY <1>18, <1>19

-----------------------------------------------------------------------------
(* The theorems. *)

\* The empty queue of one dummy node satisfies the invariant.
LEMMA InitInv == Init => IInv
<1> SUFFICES ASSUME Init PROVE IInv OBVIOUS
<1> USE DEF Init
<1>1. PICK n \in Nodes : head = n /\ tail = n /\ free = Nodes \ {n} OBVIOUS
<1>2. TypeOK BY <1>1, EmptyUpTo DEF TypeOK, Places, Statuses
<1>3. Owned = {n}
  <2>1. \A t \in Threads : Len(mine[t]) = 0 OBVIOUS
  <2> QED BY <1>1, <1>2, <2>1, TypeOwned DEF OwnedIsTheRest
<1>4. ListShape
  <2> DEFINE s == [i \in 1..1 |-> n]
  <2>1. s \in [1..1 -> Nodes] OBVIOUS
  <2>2. IsList(s, 1) BY <1>1, <1>3 DEF IsList
  <2>3. 1 \in 1..Cardinality(Nodes) BY NodesCounted
  <2> HIDE DEF s
  <2>4. next[tail] = NoNode /\ data[tail] = NoValue BY <1>1
  <2> QED BY <2>1, <2>2, <2>3, <2>4 DEF ListShape
<1>5. MutexesHeld BY NoThreadAssumption DEF MutexesHeld, HeadPlaces, TailPlaces
<1>6. LocalsInPlace BY DEF LocalsInPlace, PushPlaces, BothPlaces, LookPlaces
<1>7. PrivateNodes BY <1>1 DEF PrivateNodes
<1>8. DummyInPlace BY DEF DummyInPlace
<1> QED BY <1>2, <1>4, <1>5, <1>6, <1>7, <1>8 DEF IInv

\* Every step keeps the invariant.
LEMMA NextInv == IInv /\ [Next]_vars => IInv'
<1> SUFFICES ASSUME IInv, [Next]_vars PROVE IInv' OBVIOUS
<1>1. CASE UNCHANGED vars
  <2>1. UNCHANGED <<next, data, free, head, tail, headMut, tailMut, interrupt, waiters,
                    pc, call, mine, ptail, got, status>>
    BY <1>1 DEF vars
  <2>2. Owned' = Owned BY <2>1 DEF Owned
  <2>3. TypeOK' /\ MutexesHeld' BY <2>1 DEF IInv, TypeOK, MutexesHeld
  <2>4. LocalsInPlace' /\ PrivateNodes' /\ DummyInPlace'
    BY <2>1, <2>2 DEF IInv, LocalsInPlace, BothCall, PrivateNodes, DummyInPlace
  <2>5. ListShape' BY <2>1, <2>2, ListKept DEF IInv, ListShape
  <2> QED BY <2>3, <2>4, <2>5 DEF IInv
<1>2. CASE Calls
  BY <1>2, BuildSublistInv, BeginPopInv, BeginBothInv, BeginAssignInv, BeginStopInv,
     BeginNotifyInv
  DEF Calls, Threads
<1>3. ASSUME NEW t \in Threads, Step(t) PROVE IInv'
  <2>1. CASE PushStep(t)
    BY <2>1, LockTailInv, ConstructDataInv, ConstructThrowsInv, LinkSublistInv,
       AdvanceTailInv, NotifySomeInv
    DEF PushStep
  <2>2. CASE PopStep(t)
    BY <2>2, LockHeadInv, RelockHeadInv, LookInv, ParkInv, TakeInv, MoveThrowsInv
    DEF PopStep
  <2>3. CASE ManagerStep(t)
    BY <2>3, LockBothInv, ClearStepInv, ClearDoneInv, MoveInInv, MoveOutInv, SetInterruptInv
    DEF ManagerStep
  <2>4. CASE Timeout(t) BY <2>4, TimeoutInv
  <2> QED BY <1>3, <2>1, <2>2, <2>3, <2>4 DEF Step
<1>4. ASSUME NEW t \in Threads, WakeSpuriously(t) PROVE IInv'
  BY <1>4, WakeSpuriouslyInv
<1> QED BY <1>1, <1>2, <1>3, <1>4 DEF Next

\* The inductive invariant holds in every reachable state of the queue, whatever
\* operations its threads call and however their steps interleave.
THEOREM InvariantHolds == Spec => []IInv
BY InitInv, NextInv, PTL DEF Spec

\* Every variable keeps its type; in particular only constructed values are ever
\* moved out to a caller, and never more than a pop_n asked for.
THEOREM TypeCorrect == Spec => []TypeOK
<1>1. IInv => TypeOK BY DEF IInv
<1> QED BY <1>1, InvariantHolds, PTL

\* The owned nodes are one list from m_head to m_tail: no leak and no dangling
\* link, although push and pop work under different mutexes.
THEOREM ListStaysWhole == Spec => []ListShape
<1>1. IInv => ListShape BY DEF IInv
<1> QED BY <1>1, InvariantHolds, PTL

\* "queue isn't empty here" (threadsafe_queue.h:179): a pop only ever moves from a
\* constructed value, in a node that no push is writing.
THEOREM NeverPopsEmpty == Spec => []QueueIsntEmptyHere
<1>1. IInv => QueueIsntEmptyHere BY TakeFacts DEF QueueIsntEmptyHere
<1> QED BY <1>1, InvariantHolds, PTL

\* A thread blocked on a mutex always leaves another thread able to run.
THEOREM MutexesNeverDeadlock == Spec => []NoLockDeadlock
<1>1. IInv => NoLockDeadlock
  <2> SUFFICES ASSUME IInv, NEW t \in Threads, Blocked(t)
               PROVE  \E u \in Threads : pc[u] \notin {"idle", "parked"} /\ ~Blocked(u)
    BY DEF NoLockDeadlock
  <2>1. ASSUME NEW u \in Threads, tailMut = u
        PROVE  pc[u] \notin {"idle", "parked"} /\ ~Blocked(u)
    BY <2>1, NoThreadAssumption DEF IInv, MutexesHeld, TailPlaces, Blocked
  <2>2. ASSUME NEW u \in Threads, headMut = u
        PROVE  /\ pc[u] \notin {"idle", "parked"}
               /\ Blocked(u) => tailMut # NoThread
    BY <2>2, NoThreadAssumption DEF IInv, MutexesHeld, HeadPlaces, Blocked
  <2>3. tailMut # NoThread \/ headMut # NoThread BY DEF Blocked
  <2>4. tailMut \in Threads \cup {NoThread} /\ headMut \in Threads \cup {NoThread}
    BY DEF IInv, TypeOK
  <2> QED BY <2>1, <2>2, <2>3, <2>4
<1> QED BY <1>1, InvariantHolds, PTL

-----------------------------------------------------------------------------
(* The queue implements FifoQueue. *)

\* What callers ask of the queue are calls of FifoQueue.
LEMMA RequestFacts ==
  /\ Request(NoCall) = Fifo!Idle
  /\ \A c \in PushCalls \cup PopCalls \cup WaitCalls \cup AssignCalls : Request(c) \in Fifo!Calls
  /\ \A op \in {"clear", "move"} : Request(Plain(op, "none")) \in Fifo!Calls
<1>1. Request(NoCall) = Fifo!Idle
  BY DEF Request, NoCall, Plain, Fifo!Idle, Fifo!CallOf
<1>2. ASSUME NEW c \in PushCalls PROVE Request(c) \in Fifo!Calls
  <2>1. c.batch \in [1..Len(c.batch) -> Values] /\ Len(c.batch) \in 0..MaxBatch
    BY PushCallFacts, MaxBatchAssumption
  <2>2. c.batch \in Fifo!SeqOf(Values, MaxBatch) BY <2>1 DEF Fifo!SeqOf
  <2>3. c.op = "push" /\ c.count = 0 BY DEF PushCalls, CallsOf
  <2> QED BY <2>2, <2>3 DEF Request, Fifo!Calls
<1>3. ASSUME NEW c \in AssignCalls PROVE Request(c) \in Fifo!Calls
  <2>1. c.batch \in [1..Len(c.batch) -> Values] /\ Len(c.batch) \in 0..MaxBatch
    BY AssignCallFacts
  <2>2. c.batch \in Fifo!SeqOf(Values, MaxBatch) BY <2>1 DEF Fifo!SeqOf
  <2>3. c.op = "assign" /\ c.count = 0 BY DEF AssignCalls, CallsOf
  <2> QED BY <2>2, <2>3 DEF Request, Fifo!Calls
<1>4. ASSUME NEW c \in PopCalls \cup WaitCalls PROVE Request(c) \in Fifo!Calls
  <2>1. c.op \in {"pop", "wait"} /\ c.count \in 1..MaxBatch BY PopCallFacts
  <2>2. c.batch = <<>> BY DEF PopCalls, WaitCalls, CallsOf
  <2> QED BY <2>1, <2>2 DEF Request, Fifo!Calls
<1>5. ASSUME NEW op \in {"clear", "move"} PROVE Request(Plain(op, "none")) \in Fifo!Calls
  BY DEF Request, Plain, Fifo!Calls
<1> QED BY <1>1, <1>2, <1>3, <1>4, <1>5

\* A step of t leaves the other threads' requests as they are.
OthersStay(t) ==
  \A u \in Threads \ {t} : /\ pc'[u] \in DonePlaces <=> pc[u] \in DonePlaces
                           /\ pc[u] \notin DonePlaces => call'[u] = call[u]

\* What a step of t makes of the requests.
LEMMA PendingFacts ==
  ASSUME NEW t \in Threads, OthersStay(t)
  PROVE  /\ Pending' = [Pending EXCEPT ![t] =
                          Request(IF pc'[t] \in DonePlaces THEN NoCall ELSE call'[t])]
         /\ /\ pc[t] \in DonePlaces <=> pc'[t] \in DonePlaces
            /\ pc[t] \notin DonePlaces => call'[t] = call[t]
            => Pending' = Pending
         /\ Pending[t] = Request(IF pc[t] \in DonePlaces THEN NoCall ELSE call[t])
BY DEF OthersStay, Pending

\* A step that changes no variable of the abstract queue is none of its steps.
LEMMA NothingHappens ==
  ASSUME Items' = Items, Pending' = Pending, got' = got, status' = status
  PROVE  [Fifo!Next]_(Fifo!vars)
BY DEF Fifo!vars

\* An operation begins in the abstract queue with the arguments its caller passed.
LEMMA OperationBegins ==
  ASSUME IInv, NEW t \in Threads, NEW c, NEW place, Begin(t, c, place), Items' = Items,
         place \notin DonePlaces => Request(c) \in Fifo!Calls
  PROVE  [Fifo!Next]_(Fifo!vars)
<1>1. /\ pc[t] = "idle" /\ pc' = [pc EXCEPT ![t] = place] /\ call' = [call EXCEPT ![t] = c]
      /\ got' = [got EXCEPT ![t] = <<>>] /\ status' = [status EXCEPT ![t] = "none"]
  BY DEF Begin
<1>2. /\ pc'[t] = place /\ call'[t] = c
      /\ \A u \in Threads \ {t} : pc'[u] = pc[u] /\ call'[u] = call[u]
  BY <1>1 DEF IInv, TypeOK
<1>3. OthersStay(t) BY <1>2 DEF OthersStay
<1> DEFINE r == Request(IF pc'[t] \in DonePlaces THEN NoCall ELSE call'[t])
<1>4. Pending' = [Pending EXCEPT ![t] = r] BY <1>3, PendingFacts
<1>5. Pending[t] = Fifo!Idle BY <1>1, <1>3, PendingFacts, RequestFacts DEF DonePlaces
<1>6. r \in Fifo!Calls \cup {Fifo!Idle} BY <1>2, RequestFacts
<1> HIDE DEF r
<1>7. Fifo!Begin(t) BY <1>1, <1>4, <1>5, <1>6 DEF Fifo!Begin
<1> QED BY <1>7 DEF Fifo!Next

\* A return is one in the abstract queue.
LEMMA ReturnRefines ==
  ASSUME IInv, NEW t \in Threads, NEW s, Return(t, s)
  PROVE  Fifo!Return(t, s) /\ \A u \in Threads \ {t} : pc'[u] = pc[u] /\ call'[u] = call[u]
<1>1. /\ pc' = [pc EXCEPT ![t] = "idle"] /\ status' = [status EXCEPT ![t] = s]
      /\ call' = [call EXCEPT ![t] = NoCall]
  BY DEF Return
<1>2. pc'[t] = "idle" /\ \A u \in Threads \ {t} : pc'[u] = pc[u] /\ call'[u] = call[u]
  BY <1>1 DEF IInv, TypeOK
<1>3. OthersStay(t) BY <1>2 DEF OthersStay
<1>4. Pending' = [Pending EXCEPT ![t] = Fifo!Idle]
  BY <1>2, <1>3, PendingFacts, RequestFacts DEF DonePlaces
<1> QED BY <1>1, <1>2, <1>4 DEF Fifo!Return

\* What a thread inside an operation has asked for.
LEMMA PendingRequest ==
  ASSUME NEW t \in Threads, pc[t] \notin DonePlaces
  PROVE  Pending[t].op = call[t].op /\ Pending[t].batch = call[t].batch
         /\ Pending[t].count = call[t].count
BY DEF Pending, Request

\* A list whose head is its tail holds no value.
LEMMA NoItems ==
  ASSUME IInv, head = tail
  PROVE  Items = <<>>
<1>1. PICK k \in 1..Cardinality(Nodes) : \E s \in [1..k -> Nodes] : IsList(s, k)
  BY DEF ListShape, IInv
<1>2. PICK s \in [1..k -> Nodes] : IsList(s, k) BY <1>1
<1>3. k = 1 BY <1>2, NodesCounted DEF IsList
<1>4. Items = [i \in 1..k-1 |-> data[s[i]]]
  BY <1>2, ItemsAlongList DEF ItemsListed
<1>5. Items = [i \in 1..0 |-> data[s[i]]]
  BY <1>3, <1>4
<1>6. [i \in 1..0 |-> data[s[i]]] = <<>> OBVIOUS
<1> QED BY <1>5, <1>6

\* A step that leaves the nodes alone keeps the values and BatchInPlace, if no thread comes
\* by it to where more is claimed.
LEMMA ControlKeeps ==
  ASSUME IInv, BatchInPlace, HeapSame,
         \A u \in Threads : pc'[u] \in PushPlaces => pc[u] \in PushPlaces /\ call'[u] = call[u],
         \A u \in Threads : pc'[u] \in BothPlaces =>
           \/ pc[u] \in BothPlaces /\ call'[u] = call[u]
           \/ mine[u] = <<>>,
         \A u \in Threads : pc'[u] \in {"link", "advance"} => pc[u] \in {"link", "advance"}
  PROVE  Items' = Items /\ BatchInPlace'
<1>1. Owned' = Owned BY HeapSameList DEF IInv
<1>2. Items' = Items BY <1>1, ItemsKept DEF IInv, HeapSame
<1>3. Len(<<>>) - 1 < 1 OBVIOUS
<1>4. BatchInPlace' BY <1>3 DEF BatchInPlace, HeapSame, PushPlaces
<1> QED BY <1>2, <1>4

\* Locking, waiting, waking and notifying are steps of nobody in the abstract queue.
LEMMA ControlSteps ==
  ASSUME IInv, BatchInPlace, NEW t \in Threads,
         \/ LockTail(t) \/ NotifySome(t) \/ RelockHead(t) \/ Park(t) \/ Timeout(t)
         \/ WakeSpuriously(t) \/ SetInterrupt(t) \/ LockBoth(t)
  PROVE  BatchInPlace' /\ [Fifo!Next]_(Fifo!vars)
<1>1. HeapSame /\ got' = got /\ status' = status
  BY DEF HeapSame, heap, ends, local, LockTail, NotifySome, RelockHead, Park, Timeout,
         WakeSpuriously, SetInterrupt, LockBoth
<1>2. pc \in [Threads -> Places] /\ call \in [Threads -> LegalCalls \cup {NoCall}]
  BY DEF IInv, TypeOK
<1>3. \A u \in Threads :
        \/ pc'[u] = pc[u] /\ call'[u] = call[u]
        \/ pc[u] = "lock_tail" /\ pc'[u] = "construct" /\ call'[u] = call[u]
        \/ pc[u] = "lock_both" /\ pc'[u] = "clear" /\ call'[u] = call[u]
        \/ /\ pc'[u] \notin PushPlaces \cup BothPlaces \cup DonePlaces
           /\ pc[u] \notin DonePlaces /\ call'[u] = call[u]
        \/ pc[u] \in DonePlaces /\ pc'[u] \in DonePlaces
  <2> USE DEF PushPlaces, BothPlaces, DonePlaces
  <2>1. CASE LockTail(t)
    BY <1>2, <2>1 DEF LockTail, local
  <2>2. CASE NotifySome(t)
    <3>1. \A u \in Threads : u \in waiters => pc[u] = "parked"
      BY DEF IInv, MutexesHeld
    <3>2. PICK woken \in SUBSET waiters :
            pc' = [u \in Threads |-> IF u = t THEN "idle"
                                     ELSE IF u \in woken THEN "relock" ELSE pc[u]]
      BY <2>2 DEF NotifySome
    <3>3. pc[t] = "notify" /\ call' = [call EXCEPT ![t] = NoCall]
      BY <2>2 DEF NotifySome
    <3> QED BY <1>2, <3>1, <3>2, <3>3
  <2>3. CASE RelockHead(t)
    BY <1>2, <2>3 DEF RelockHead, local
  <2>4. CASE Park(t)
    BY <1>2, <2>4 DEF Park, local
  <2>5. CASE Timeout(t) \/ WakeSpuriously(t)
    BY <1>2, <2>5 DEF Timeout, WakeSpuriously, local, IInv, MutexesHeld
  <2>6. CASE SetInterrupt(t) \/ LockBoth(t)
    BY <1>2, <2>6 DEF SetInterrupt, LockBoth, local
  <2> QED BY <2>1, <2>2, <2>3, <2>4, <2>5, <2>6
<1>4. Items' = Items /\ BatchInPlace'
  <2>1. \A u \in Threads : pc'[u] \in PushPlaces => pc[u] \in PushPlaces /\ call'[u] = call[u]
    BY <1>3 DEF PushPlaces, BothPlaces, DonePlaces
  <2>2. \A u \in Threads : pc'[u] \in BothPlaces => pc[u] \in BothPlaces /\ call'[u] = call[u]
    BY <1>3 DEF PushPlaces, BothPlaces, DonePlaces
  <2>3. \A u \in Threads : pc'[u] \in {"link", "advance"} => pc[u] \in {"link", "advance"}
    BY <1>3 DEF PushPlaces, DonePlaces
  <2> QED BY <1>1, <2>1, <2>2, <2>3, ControlKeeps
<1>5. Pending' = Pending
  <2>1. \A u \in Threads : /\ pc'[u] \in DonePlaces <=> pc[u] \in DonePlaces
                           /\ pc[u] \notin DonePlaces => call'[u] = call[u]
    BY <1>3 DEF DonePlaces
  <2> QED BY <2>1, PendingFacts DEF OthersStay
<1> QED BY <1>1, <1>4, <1>5, NothingHappens

\* An operation that brings no nodes begins.
LEMMA BeginSteps ==
  ASSUME IInv, BatchInPlace, NEW t \in Threads,
         BeginPop(t) \/ BeginBoth(t) \/ BeginStop(t) \/ BeginNotify(t)
  PROVE  BatchInPlace' /\ [Fifo!Next]_(Fifo!vars)
<1>1. HeapSame
  BY DEF HeapSame, heap, ends, BeginPop, BeginBoth, BeginStop, BeginNotify
<1>2. PICK c, place : /\ Begin(t, c, place)
                      /\ place \in {"lock_head", "lock_both", "lock_stop", "notify"}
                      /\ place \notin DonePlaces => Request(c) \in Fifo!Calls
  <2>1. CASE BeginPop(t)
    BY <2>1, RequestFacts DEF BeginPop
  <2>2. CASE BeginBoth(t)
    BY <2>2, RequestFacts DEF BeginBoth
  <2>3. CASE BeginStop(t) \/ BeginNotify(t)
    BY <2>3 DEF BeginStop, BeginNotify, DonePlaces
  <2> QED BY <2>1, <2>2, <2>3
<1>3. pc[t] = "idle" /\ pc' = [pc EXCEPT ![t] = place] /\ call' = [call EXCEPT ![t] = c]
  BY <1>2 DEF Begin
<1>4. pc'[t] = place /\ \A u \in Threads \ {t} : pc'[u] = pc[u] /\ call'[u] = call[u]
  BY <1>3 DEF IInv, TypeOK
<1>5. mine[t] = <<>>
  BY <1>3 DEF IInv, LocalsInPlace, PushPlaces, BothPlaces
<1>6. Items' = Items /\ BatchInPlace'
  <2>1. \A u \in Threads : pc'[u] \in PushPlaces => pc[u] \in PushPlaces /\ call'[u] = call[u]
    BY <1>2, <1>4 DEF PushPlaces
  <2>2. \A u \in Threads : pc'[u] \in BothPlaces =>
          \/ pc[u] \in BothPlaces /\ call'[u] = call[u]
          \/ mine[u] = <<>>
    BY <1>4, <1>5
  <2>3. \A u \in Threads : pc'[u] \in {"link", "advance"} => pc[u] \in {"link", "advance"}
    BY <1>2, <1>4
  <2> QED BY <1>1, <2>1, <2>2, <2>3, ControlKeeps
<1> QED BY <1>2, <1>6, OperationBegins

\* A pop ends without a value, or goes on to one.
LEMMA LookSteps ==
  ASSUME IInv, BatchInPlace, NEW t \in Threads, LockHead(t) \/ Look(t) \/ MoveThrows(t)
  PROVE  BatchInPlace' /\ [Fifo!Next]_(Fifo!vars)
<1>1. HeapSame /\ got' = got
  BY DEF HeapSame, heap, ends, LockHead, Look, MoveThrows
<1>2. pc \in [Threads -> Places] /\ call \in [Threads -> LegalCalls \cup {NoCall}]
  BY DEF IInv, TypeOK
<1>3. /\ pc[t] \in {"lock_head", "look", "look_late", "take"}
      /\ pc[t] # "take" => got[t] = <<>>
      /\ call[t].op \in {"pop", "wait"}
  <2>1. pc[t] \in {"lock_head", "look", "look_late", "take"}
    BY DEF LockHead, Look, MoveThrows
  <2> QED BY <2>1, PopCallFacts DEF IInv, LocalsInPlace, LookPlaces
<1>4. \/ /\ pc' = [pc EXCEPT ![t] = "look"] \/ pc' = [pc EXCEPT ![t] = "take"]
            \/ pc' = [pc EXCEPT ![t] = "park"]
         /\ call' = call /\ status' = status
      \/ Return(t, "interrupted") /\ call[t].op = "wait" /\ got[t] = <<>>
      \/ Return(t, "empty") /\ call[t].op = "pop" /\ got[t] = <<>> /\ head = tail
      \/ Return(t, "timeout") /\ call[t].op = "wait" /\ got[t] = <<>> /\ head = tail
      \/ Return(t, "threw")
  <2>1. CASE LockHead(t)
    BY <1>3, <2>1 DEF LockHead
  <2>2. CASE Look(t)
    BY <1>3, <2>2 DEF Look, Leave
  <2>3. CASE MoveThrows(t)
    BY <2>3 DEF MoveThrows, Leave
  <2> QED BY <2>1, <2>2, <2>3
<1>5. /\ pc'[t] \in {"look", "take", "park", "idle"}
      /\ \A u \in Threads \ {t} : pc'[u] = pc[u] /\ call'[u] = call[u]
  <2>1. CASE Return(t, "interrupted") \/ Return(t, "empty") \/ Return(t, "timeout")
               \/ Return(t, "threw")
    BY <1>2, <2>1 DEF Return
  <2>2. CASE /\ pc' = [pc EXCEPT ![t] = "look"] \/ pc' = [pc EXCEPT ![t] = "take"]
                \/ pc' = [pc EXCEPT ![t] = "park"]
             /\ call' = call
    BY <1>2, <2>2
  <2> QED BY <1>4, <2>1, <2>2
<1>6. Items' = Items /\ BatchInPlace'
  <2>1. \A u \in Threads : pc'[u] \in PushPlaces => pc[u] \in PushPlaces /\ call'[u] = call[u]
    BY <1>5 DEF PushPlaces
  <2>2. \A u \in Threads : pc'[u] \in BothPlaces => pc[u] \in BothPlaces /\ call'[u] = call[u]
    BY <1>5 DEF BothPlaces
  <2>3. \A u \in Threads : pc'[u] \in {"link", "advance"} => pc[u] \in {"link", "advance"}
    BY <1>5
  <2> QED BY <1>1, <2>1, <2>2, <2>3, ControlKeeps
<1>7. Pending[t].op = call[t].op
  BY <1>3, PendingRequest DEF DonePlaces
<1>8. CASE /\ pc' = [pc EXCEPT ![t] = "look"] \/ pc' = [pc EXCEPT ![t] = "take"]
              \/ pc' = [pc EXCEPT ![t] = "park"]
           /\ call' = call /\ status' = status
  <2>1. pc'[t] \in {"look", "take", "park"} BY <1>2, <1>8
  <2>2. OthersStay(t) BY <1>5 DEF OthersStay
  <2>3. Pending' = Pending BY <1>3, <1>8, <2>1, <2>2, PendingFacts DEF DonePlaces
  <2> QED BY <1>1, <1>6, <1>8, <2>3, NothingHappens
<1>9. CASE Return(t, "interrupted") /\ call[t].op = "wait" /\ got[t] = <<>>
  <2>1. Fifo!Return(t, "interrupted") BY <1>9, ReturnRefines
  <2>2. Fifo!Interrupt(t) BY <1>1, <1>6, <1>7, <1>9, <2>1 DEF Fifo!Interrupt
  <2> QED BY <1>6, <2>2 DEF Fifo!Next
<1>10. CASE Return(t, "empty") /\ call[t].op = "pop" /\ got[t] = <<>> /\ head = tail
  <2>1. Fifo!Return(t, "empty") /\ Items = <<>> BY <1>10, ReturnRefines, NoItems
  <2>2. Fifo!FindEmpty(t) BY <1>1, <1>6, <1>7, <1>10, <2>1 DEF Fifo!FindEmpty
  <2> QED BY <1>6, <2>2 DEF Fifo!Next
<1>11. CASE Return(t, "timeout") /\ call[t].op = "wait" /\ got[t] = <<>> /\ head = tail
  <2>1. Fifo!Return(t, "timeout") /\ Items = <<>> BY <1>11, ReturnRefines, NoItems
  <2>2. Fifo!FindEmpty(t) BY <1>1, <1>6, <1>7, <1>11, <2>1 DEF Fifo!FindEmpty
  <2> QED BY <1>6, <2>2 DEF Fifo!Next
<1>12. CASE Return(t, "threw")
  <2>1. Fifo!Return(t, "threw") BY <1>12, ReturnRefines
  <2>2. Fifo!Throw(t) BY <1>1, <1>3, <1>6, <1>7, <2>1 DEF Fifo!Throw
  <2> QED BY <1>6, <2>2 DEF Fifo!Next
<1> QED BY <1>4, <1>8, <1>9, <1>10, <1>11, <1>12

\* A push's steps before its sublist is in the queue show nothing, even the write into the
\* dummy.
LEMMA PushSteps ==
  ASSUME IInv, BatchInPlace, NEW t \in Threads, ConstructData(t) \/ LinkSublist(t)
  PROVE  BatchInPlace' /\ [Fifo!Next]_(Fifo!vars)
<1>1. /\ head' = head /\ tail' = tail /\ free' = free /\ mine' = mine /\ call' = call
      /\ got' = got /\ status' = status
  BY DEF ConstructData, LinkSublist, ends, sync, local
<1>2. \A n \in Nodes \ {tail} : next'[n] = next[n] /\ data'[n] = data[n]
  BY DEF ConstructData, LinkSublist, IInv, TypeOK
<1>3. Owned' = Owned /\ Owned \subseteq Nodes
  BY <1>1 DEF Owned
<1>4. Items' = Items
  BY <1>1, <1>2, <1>3, ItemsKept DEF IInv
<1>5. tailMut = t
  BY DEF ConstructData, LinkSublist, IInv, MutexesHeld, TailPlaces
<1>6. /\ pc[t] \in {"construct", "link"} /\ pc'[t] \in {"link", "advance"}
      /\ \A u \in Threads \ {t} : pc'[u] = pc[u] /\ pc[u] \notin {"link", "advance"}
  BY <1>5 DEF ConstructData, LinkSublist, IInv, TypeOK, MutexesHeld, TailPlaces
<1>7. data'[tail] = call[t].batch[1]
  <2>1. CASE ConstructData(t)
    BY <2>1, DummyFacts DEF ConstructData, IInv, TypeOK
  <2>2. CASE LinkSublist(t)
    BY <2>2 DEF LinkSublist, BatchInPlace
  <2> QED BY <2>1, <2>2
<1>8. \A u \in Threads : \A i \in 1..Len(mine[u])-1 : data'[mine[u][i]] = data[mine[u][i]]
  <2>1. \A u \in Threads : \A i \in 1..Len(mine[u])-1 : i \in 1..Len(mine[u])
    BY MineFacts DEF IInv
  <2>2. \A u \in Threads : \A i \in 1..Len(mine[u]) : mine[u][i] \in Nodes \ {tail}
    BY MineFacts, DummyFacts DEF IInv
  <2> QED BY <1>2, <2>1, <2>2
<1>9. BatchInPlace'
  <2> SUFFICES ASSUME NEW u \in Threads
               PROVE  /\ pc'[u] \in BothPlaces =>
                           \A i \in 1..Len(mine[u])-1 : data'[mine[u][i]] = call[u].batch[i]
                      /\ pc'[u] \in PushPlaces =>
                           \A i \in 1..Len(mine[u])-1 : data'[mine[u][i]] = call[u].batch[i+1]
                      /\ pc'[u] \in {"link", "advance"} => data'[tail] = call[u].batch[1]
    BY <1>1 DEF BatchInPlace
  <2>1. /\ pc'[u] \in PushPlaces => pc[u] \in PushPlaces
        /\ pc'[u] \in BothPlaces => pc[u] \in BothPlaces
    BY <1>6 DEF PushPlaces, BothPlaces
  <2>2. pc'[u] \in {"link", "advance"} => u = t
    BY <1>6
  <2> QED BY <1>7, <1>8, <2>1, <2>2 DEF BatchInPlace
<1>10. OthersStay(t) BY <1>1, <1>6 DEF OthersStay
<1>11. Pending' = Pending BY <1>1, <1>6, <1>10, PendingFacts DEF DonePlaces
<1> QED BY <1>1, <1>4, <1>9, <1>11, NothingHappens

\* Advancing m_tail pushes the whole batch that the caller passed.
LEMMA AdvanceTailStep ==
  ASSUME IInv, BatchInPlace, NEW t \in Threads, AdvanceTail(t)
  PROVE  BatchInPlace' /\ [Fifo!Next]_(Fifo!vars)
<1>1. /\ pc[t] = "advance" /\ pc' = [pc EXCEPT ![t] = "notify"] /\ data' = data
      /\ mine' = [mine EXCEPT ![t] = <<>>] /\ call' = call /\ got' = got /\ status' = status
  BY DEF AdvanceTail, heap
<1>2. Items' = Items \o call[t].batch
  BY <1>1, SublistAppended
<1>3. call[t].op = "push"
  <2>1. call[t] \in PushCalls
    BY <1>1 DEF IInv, LocalsInPlace, PushPlaces
  <2> QED BY <2>1, PushCallFacts
<1>4. \A u \in Threads \ {t} : /\ pc'[u] = pc[u] /\ mine'[u] = mine[u]
                               /\ pc[u] \notin {"link", "advance"}
  BY <1>1 DEF IInv, TypeOK, MutexesHeld, TailPlaces
<1>5. pc'[t] = "notify"
  BY <1>1 DEF IInv, TypeOK
<1>6. BatchInPlace'
  BY <1>1, <1>4, <1>5 DEF BatchInPlace, PushPlaces, BothPlaces
<1>7. OthersStay(t) BY <1>1, <1>4 DEF OthersStay
<1>8. Pending' = [Pending EXCEPT ![t] = Fifo!Idle]
  BY <1>5, <1>7, PendingFacts, RequestFacts DEF DonePlaces
<1>9. Pending[t].op = "push" /\ Pending[t].batch = call[t].batch
  BY <1>1, <1>3, PendingRequest DEF DonePlaces
<1>10. Fifo!Push(t)
  BY <1>1, <1>2, <1>8, <1>9 DEF Fifo!Push
<1> QED BY <1>6, <1>10 DEF Fifo!Next

\* Deleting the head touches neither the sublists nor the dummy.
LEMMA HeadRemovedKeeps ==
  ASSUME IInv, BatchInPlace, head # tail, Free({head}), head' = next[head],
         tail' = tail, mine' = mine,
         \A u \in Threads : pc'[u] \in PushPlaces \cup BothPlaces =>
                              pc'[u] = pc[u] /\ call'[u] = call[u]
  PROVE  BatchInPlace'
<1>1. \A n \in Nodes \ {head} : data'[n] = data[n]
  BY DEF Free, Blank
<1>2. \A u \in Threads : \A i \in 1..Len(mine[u])-1 : data'[mine[u][i]] = data[mine[u][i]]
  <2>1. \A u \in Threads : \A i \in 1..Len(mine[u])-1 : i \in 1..Len(mine[u])
    BY MineFacts DEF IInv
  <2>2. \A u \in Threads : \A i \in 1..Len(mine[u]) : mine[u][i] \in Nodes \ {head}
    BY MineFacts, EndsOwned, TypeOwned DEF IInv, OwnedIsTheRest
  <2> QED BY <1>1, <2>1, <2>2
<1>3. data'[tail] = data[tail]
  BY HeadRemoved
<1> QED BY <1>2, <1>3 DEF BatchInPlace, PushPlaces

\* A pop takes the oldest value, and no more values than its caller asked for.
LEMMA TakeStep ==
  ASSUME IInv, BatchInPlace, NEW t \in Threads, Take(t)
  PROVE  BatchInPlace' /\ [Fifo!Next]_(Fifo!vars)
<1>1. /\ pc[t] = "take" /\ head # tail /\ Free({head}) /\ head' = next[head]
      /\ tail' = tail /\ mine' = mine
      /\ got' = [got EXCEPT ![t] = Append(@, data[head])]
  BY TakeFacts DEF Take
<1>2. \/ Return(t, "ready")
      \/ UNCHANGED <<pc, call, status>> /\ Len(got[t]) + 1 # call[t].count
  BY DEF Take, Leave
<1>3. \A u \in Threads \ {t} : pc'[u] = pc[u] /\ call'[u] = call[u]
  BY <1>2, ReturnRefines
<1>4. pc'[t] \in {"idle", "take"}
  BY <1>1, <1>2 DEF Return, IInv, TypeOK
<1>5. BatchInPlace'
  <2>1. \A u \in Threads : pc'[u] \in PushPlaces \cup BothPlaces =>
                             pc'[u] = pc[u] /\ call'[u] = call[u]
    BY <1>3, <1>4 DEF PushPlaces, BothPlaces
  <2> QED BY <1>1, <2>1, HeadRemovedKeeps
<1>6. Items # <<>> /\ Head(Items) = data[head] /\ Items' = Tail(Items)
  BY <1>1, HeadRemoved
<1>7. /\ Len(got[t]) \in Nat /\ call[t].count \in Nat /\ Len(got[t]) < call[t].count
      /\ call[t].op \in {"pop", "wait"}
  BY <1>1, TakeFacts, PopCallFacts, UpToFacts, MaxBatchAssumption DEF IInv, TypeOK
<1>8. Pending[t].op = call[t].op /\ Pending[t].count = call[t].count
  BY <1>1, PendingRequest DEF DonePlaces
<1>9. CASE Return(t, "ready")
  <2>1. Fifo!Return(t, "ready") BY <1>9, ReturnRefines
  <2>2. Fifo!Take(t) BY <1>1, <1>6, <1>7, <1>8, <2>1 DEF Fifo!Take
  <2> QED BY <1>5, <2>2 DEF Fifo!Next
<1>10. CASE UNCHANGED <<pc, call, status>> /\ Len(got[t]) + 1 # call[t].count
  <2>1. Pending' = Pending BY <1>10 DEF Pending
  <2>2. Len(got[t]) + 1 < Pending[t].count BY <1>7, <1>8, <1>10
  <2>3. Fifo!Take(t) BY <1>1, <1>6, <1>7, <1>8, <1>10, <2>1, <2>2 DEF Fifo!Take
  <2> QED BY <1>5, <2>3 DEF Fifo!Next
<1> QED BY <1>2, <1>9, <1>10

\* clear() and the assignment drop the oldest value, or have dropped all.
LEMMA ClearSteps ==
  ASSUME IInv, BatchInPlace, NEW t \in Threads, ClearStep(t) \/ ClearDone(t) \/ MoveIn(t)
  PROVE  BatchInPlace' /\ [Fifo!Next]_(Fifo!vars)
<1>1. /\ pc[t] = "clear" /\ got' = got
      /\ call[t].op \in {"clear", "assign"} /\ (call[t].op = "clear" => call[t].batch = <<>>)
  <2>1. pc[t] = "clear" /\ got' = got BY DEF ClearStep, ClearDone, MoveIn, local
  <2>2. BothCall(t) BY <2>1 DEF IInv, LocalsInPlace, BothPlaces
  <2> QED BY <2>1, <2>2, AssignCallFacts DEF BothCall, Plain
<1>2. Pending[t].op = call[t].op /\ Pending[t].batch = call[t].batch
  BY <1>1, PendingRequest DEF DonePlaces
<1>3. CASE ClearStep(t)
  <2>1. /\ head # tail /\ Free({head}) /\ head' = next[head] /\ tail' = tail /\ mine' = mine
        /\ UNCHANGED <<pc, call, status>>
    BY <1>3 DEF ClearStep, local
  <2>2. BatchInPlace' BY <2>1, HeadRemovedKeeps
  <2>3. Items # <<>> /\ Items' = Tail(Items) BY <2>1, HeadRemoved
  <2>4. Pending' = Pending BY <2>1 DEF Pending
  <2>5. Fifo!DropOldest(t) BY <1>1, <1>2, <2>1, <2>3, <2>4 DEF Fifo!DropOldest
  <2> QED BY <2>2, <2>5 DEF Fifo!Next
<1>4. CASE ClearDone(t)
  <2>1. HeapSame /\ Return(t, "none") /\ head = tail /\ call[t].op = "clear"
    BY <1>4 DEF ClearDone, Leave, HeapSame, heap, ends
  <2>2. /\ Fifo!Return(t, "none") /\ Items = <<>>
        /\ \A u \in Threads \ {t} : pc'[u] = pc[u] /\ call'[u] = call[u]
    BY <2>1, ReturnRefines, NoItems
  <2>3. pc'[t] = "idle" BY <2>1 DEF Return, IInv, TypeOK
  <2>4. Items' = Items /\ BatchInPlace'
    <3>1. \A u \in Threads : pc'[u] \in PushPlaces => pc[u] \in PushPlaces /\ call'[u] = call[u]
      BY <2>2, <2>3 DEF PushPlaces
    <3>2. \A u \in Threads : pc'[u] \in BothPlaces => pc[u] \in BothPlaces /\ call'[u] = call[u]
      BY <2>2, <2>3 DEF BothPlaces
    <3>3. \A u \in Threads : pc'[u] \in {"link", "advance"} => pc[u] \in {"link", "advance"}
      BY <2>2, <2>3
    <3> QED BY <2>1, <3>1, <3>2, <3>3, ControlKeeps
  <2>5. Fifo!Replace(t) BY <1>1, <1>2, <2>1, <2>2, <2>4 DEF Fifo!Replace
  <2> QED BY <2>4, <2>5 DEF Fifo!Next
<1>5. CASE MoveIn(t)
  <2>1. Return(t, "none") /\ head = tail BY <1>5 DEF MoveIn, Leave
  <2>2. Fifo!Return(t, "none") /\ Items = <<>> BY <2>1, ReturnRefines, NoItems
  <2>3. Items' = call[t].batch /\ BatchInPlace' BY <1>5, MoveInInv
  <2>4. Fifo!Replace(t) BY <1>1, <1>2, <2>2, <2>3 DEF Fifo!Replace
  <2> QED BY <2>3, <2>4 DEF Fifo!Next
<1> QED BY <1>3, <1>4, <1>5

\* The move to another queue takes all values at once.
LEMMA MoveOutStep ==
  ASSUME IInv, BatchInPlace, NEW t \in Threads, MoveOut(t)
  PROVE  BatchInPlace' /\ [Fifo!Next]_(Fifo!vars)
<1>1. /\ pc[t] = "lock_both" /\ call[t].op = "move" /\ got' = got /\ Return(t, "none")
  BY DEF MoveOut
<1>2. Pending[t].op = "move" BY <1>1, PendingRequest DEF DonePlaces
<1>3. Items' = <<>> /\ BatchInPlace' BY MoveOutInv
<1>4. Fifo!Return(t, "none") BY <1>1, ReturnRefines
<1>5. Fifo!MoveAway(t) BY <1>1, <1>2, <1>3, <1>4 DEF Fifo!MoveAway
<1> QED BY <1>3, <1>5 DEF Fifo!Next

\* A push or an assignment begins with nodes of its own; a push whose value's constructor
\* throws gives them up.
LEMMA SublistSteps ==
  ASSUME IInv, BatchInPlace, NEW t \in Threads,
         BuildSublist(t) \/ BeginAssign(t) \/ ConstructThrows(t)
  PROVE  BatchInPlace' /\ [Fifo!Next]_(Fifo!vars)
<1>1. Items' = Items /\ BatchInPlace'
  BY BuildSublistInv, BeginAssignInv, ConstructThrowsInv
<1>2. CASE BuildSublist(t)
  <2>1. PICK c \in PushCalls : Begin(t, c, "lock_tail") BY <1>2 DEF BuildSublist
  <2> QED BY <1>1, <2>1, RequestFacts, OperationBegins
<1>3. CASE BeginAssign(t)
  <2>1. PICK c \in AssignCalls : Begin(t, c, "lock_both") BY <1>3 DEF BeginAssign
  <2> QED BY <1>1, <2>1, RequestFacts, OperationBegins
<1>4. CASE ConstructThrows(t)
  <2>1. pc[t] = "construct" /\ got' = got /\ Return(t, "threw")
    BY <1>4 DEF ConstructThrows
  <2>2. call[t].op = "push"
    BY <2>1, PushCallFacts DEF IInv, LocalsInPlace, PushPlaces
  <2>3. Pending[t].op = "push" BY <2>1, <2>2, PendingRequest DEF DonePlaces
  <2>4. Fifo!Return(t, "threw") BY <2>1, ReturnRefines
  <2>5. Fifo!Throw(t) BY <1>1, <2>1, <2>3, <2>4 DEF Fifo!Throw
  <2> QED BY <1>1, <2>5 DEF Fifo!Next
<1> QED BY <1>2, <1>3, <1>4

\* Every step of the queue is one step of FifoQueue, or none.
LEMMA StepRefines ==
  ASSUME IInv, BatchInPlace, [Next]_vars
  PROVE  BatchInPlace' /\ [Fifo!Next]_(Fifo!vars)
<1>1. CASE UNCHANGED vars
  <2>1. HeapSame /\ UNCHANGED <<pc, call, got, status>>
    BY <1>1 DEF vars, HeapSame
  <2>2. Items' = Items /\ BatchInPlace' BY <2>1, ControlKeeps
  <2>3. Pending' = Pending BY <2>1 DEF Pending
  <2> QED BY <2>1, <2>2, <2>3, NothingHappens
<1>2. CASE Calls
  BY <1>2, SublistSteps, BeginSteps DEF Calls, Threads
<1>3. ASSUME NEW t \in Threads, Step(t) \/ WakeSpuriously(t)
      PROVE  BatchInPlace' /\ [Fifo!Next]_(Fifo!vars)
  <2>1. CASE PushStep(t)
    BY <2>1, ControlSteps, PushSteps, SublistSteps, AdvanceTailStep DEF PushStep
  <2>2. CASE PopStep(t)
    BY <2>2, LookSteps, ControlSteps, TakeStep DEF PopStep
  <2>3. CASE ManagerStep(t)
    BY <2>3, ClearSteps, MoveOutStep, ControlSteps DEF ManagerStep
  <2>4. CASE Timeout(t) \/ WakeSpuriously(t)
    BY <2>4, ControlSteps
  <2> QED BY <1>3, <2>1, <2>2, <2>3, <2>4 DEF Step
<1> QED BY <1>1, <1>2, <1>3 DEF Next

\* The empty queue of one dummy node is the empty FIFO queue.
LEMMA InitRefines ==
  ASSUME Init
  PROVE  BatchInPlace /\ Fifo!Init
<1>1. Items = <<>>
  BY InitInv, NoItems DEF Init
<1>2. Pending = [t \in Threads |-> Fifo!Idle]
  BY RequestFacts DEF Init, Pending, DonePlaces
<1>3. BatchInPlace
  BY DEF Init, BatchInPlace, PushPlaces, BothPlaces
<1> QED BY <1>1, <1>2, <1>3 DEF Init, Fifo!Init

\* ts_queue is a FIFO queue: whatever operations run at once, under their different
\* mutexes, each push adds exactly the range its caller passed, in order, once and at one
\* moment, or nothing when it throws; each pop takes the oldest value, at most as many as
\* it asked for; only clear(), an assignment and a move remove values otherwise, and an
\* assignment brings just the other queue's; and a pop reports empty or timeout only at a
\* moment when there is no value.
THEOREM QueueIsFifo == Spec => ImplementsFifo
<1>1. Init => BatchInPlace /\ Fifo!Init
  BY InitRefines
<1>2. IInv /\ BatchInPlace /\ [Next]_vars => BatchInPlace' /\ [Fifo!Next]_(Fifo!vars)
  BY StepRefines
<1> QED BY <1>1, <1>2, InvariantHolds, PTL DEF Spec, ImplementsFifo, Fifo!Spec
=============================================================================
