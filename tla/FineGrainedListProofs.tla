------------------------ MODULE FineGrainedListProofs ------------------------
(* tfg_flist never touches a deleted node, its traversals miss no node and do *)
(* not overtake each other, and pushes and removals change the list one at a  *)
(* time, for any number of threads, nodes and values.                         *)
EXTENDS FineGrainedList, Integers, FiniteSets, WellFoundedInduction, TLAPS

USE NamesAssumption, OpsAssumption DEF Cells, At, GoTo, Walking, history, heap

\* The empty list satisfies the invariant.
LEMMA InitInv == Init => IInv
<1> SUFFICES ASSUME Init PROVE IInv
  OBVIOUS
<1>1. Nodes # {} => (CHOOSE v \in Values : TRUE) \in Values
  BY ValuesAssumption
<1>2. TypeOK
  BY <1>1 DEF Init, TypeOK
<1>3. NoUseAfterFree /\ LocksHeld /\ HandsOff /\ Adjacent
  BY DEF Init, NoUseAfterFree, LocksHeld, HandsOff, Adjacent, InUse, Held
<1>4. OnePredecessor
  BY DEF Init, OnePredecessor, Doomed
<1> QED BY <1>2, <1>3, <1>4 DEF IInv

\* A push that allocates a node keeps the invariant: nobody has the node.
LEMMA BuildNodeInv ==
  ASSUME IInv, NEW t \in Threads, BuildNode(t)
  PROVE  IInv'
<1> USE DEF IInv, BuildNode
<1>1. TypeOK'
  BY DEF TypeOK, Reach
<1>2. NoUseAfterFree'
  BY DEF TypeOK, NoUseAfterFree, LocksHeld, OnePredecessor, HandsOff, Adjacent, InUse, Held, Doomed
<1>3. LocksHeld'
  BY DEF TypeOK, LocksHeld, Held, HandsOff, NoUseAfterFree, Adjacent
<1>4. OnePredecessor'
  BY DEF TypeOK, OnePredecessor, Doomed, Adjacent, HandsOff
<1>5. HandsOff'
  BY DEF TypeOK, HandsOff, LocksHeld, OnePredecessor, Adjacent, Held, NoUseAfterFree, Doomed
<1>6. Adjacent'
  BY DEF TypeOK, Adjacent, LocksHeld, OnePredecessor, HandsOff, Held
<1> QED BY <1>1, <1>2, <1>3, <1>4, <1>5, <1>6

\* Linking the new node in front keeps the invariant: nobody holds the head's mutex.
LEMMA PushNodeFrontInv ==
  ASSUME IInv, NEW t \in Threads, PushNodeFront(t)
  PROVE  IInv'
<1> USE DEF IInv, PushNodeFront
<1>1. TypeOK'
  BY DEF TypeOK, Reach
<1>2. NoUseAfterFree'
  BY DEF TypeOK, NoUseAfterFree, LocksHeld, OnePredecessor, HandsOff, Adjacent, InUse, Held, Doomed
<1>3. LocksHeld'
  BY DEF TypeOK, LocksHeld, Held, HandsOff, NoUseAfterFree, Adjacent
<1>4. OnePredecessor'
  <2>1. /\ cur[t] \in Nodes /\ cur[t] \in Cells /\ cur[t] # BeforeBegin
        /\ cur[t] \in Doomed /\ next[cur[t]] = NoNode /\ cur[t] \notin free
    BY DEF TypeOK, Doomed, HandsOff, OnePredecessor
  <2>2. \A n \in Cells : next'[n] = IF n = BeforeBegin THEN cur[t]
                                    ELSE IF n = cur[t] THEN next[BeforeBegin] ELSE next[n]
    BY <2>1 DEF TypeOK
  <2>3. \A n \in Cells : next[n] # cur[t]
    BY <2>1 DEF OnePredecessor
  <2>4. Doomed' \subseteq Doomed \ {cur[t]}
    <3>1. \A u \in Threads : pc'[u] = "push" \/ pc'[u] = "delete" =>
            u # t /\ pc[u] = pc'[u] /\ cur'[u] = cur[u]
      BY DEF TypeOK
    <3> QED BY <3>1 DEF Doomed, HandsOff
  <2>5. \A m, n \in Cells : next'[m] = next'[n] /\ next'[m] # NoNode => m = n
    BY <2>1, <2>2, <2>3 DEF OnePredecessor
  <2>6. \A n \in Cells : next'[n] \notin free' \cup Doomed'
    <3>1. \A n \in Cells : next[n] \notin free \cup Doomed BY DEF OnePredecessor
    <3>2. BeforeBegin \in Cells /\ free' = free BY DEF heap
    <3> QED BY <3>1, <3>2, <2>1, <2>2, <2>4
  <2>7. \A n \in (free' \cup Doomed') \ {NoNode} : next'[n] = NoNode
    <3>1. \A n \in (free \cup Doomed) \ {NoNode} : n \in Nodes /\ next[n] = NoNode
      BY DEF OnePredecessor, TypeOK, Doomed
    <3>2. \A n \in (free' \cup Doomed') \ {NoNode} :
            n \in (free \cup Doomed) \ {NoNode} /\ n # cur[t]
      BY <2>1, <2>4
    <3> QED BY <3>1, <3>2, <2>2
  <2> QED BY <2>5, <2>6, <2>7 DEF OnePredecessor
<1>5. HandsOff'
  <2>1. \A u \in Threads : pc'[u] = "push" \/ pc'[u] = "delete" =>
          u # t /\ pc[u] = pc'[u] /\ cur'[u] = cur[u]
    BY DEF TypeOK
  <2> QED BY <2>1 DEF HandsOff
<1>6. Adjacent'
  BY DEF TypeOK, Adjacent, LocksHeld, OnePredecessor, HandsOff, Held
<1> QED BY <1>1, <1>2, <1>3, <1>4, <1>5, <1>6

\* A traversal that ends leaves every variable in its type.
LEMMA LeaveType ==
  ASSUME TypeOK, NEW t \in Threads, NEW left, Leave(t, left),
         UNCHANGED <<next, data>>, free' \subseteq Nodes
  PROVE  TypeOK'
<1> USE DEF TypeOK, Leave
<1>1. /\ next' \in [Cells -> Nodes \cup {NoNode}]
      /\ data' \in [Nodes -> Values]
      /\ free' \subseteq Nodes
  OBVIOUS
<1>2. lock' \in [Cells -> Threads \cup {NoThread}]
  OBVIOUS
<1>3. pc' \in [Threads -> {"idle", "push", "step", "lock_next", "let_go", "visit", "test",
                          "delete"}]
  BY DEF GoTo
<1>4. /\ op' \in [Threads -> Ops \cup {"none"}]
      /\ wanted' \in [Threads -> SUBSET Values]
  OBVIOUS
<1>5. /\ prev' \in [Threads -> Cells \cup {NoNode}]
      /\ cur' \in [Threads -> Nodes \cup {NoNode}]
  OBVIOUS
<1>6. /\ stays' \in [Threads -> SUBSET Nodes]
      /\ passed' \in [Threads -> SUBSET Nodes]
      /\ before' \in [Threads -> SUBSET Threads]
  OBVIOUS
<1>7. ASSUME NEW u \in Threads
      PROVE  /\ Walking(u)' => prev'[u] \in Cells
             /\ pc'[u] \notin {"idle", "step"} => cur'[u] \in Nodes
  <2>1. CASE u = t
    <3>1. pc'[t] = "idle" BY DEF GoTo
    <3> QED BY <2>1, <3>1 DEF Walking
  <2>2. CASE u # t
    <3>1. pc'[u] = pc[u] /\ prev'[u] = prev[u] /\ cur'[u] = cur[u] BY <2>2 DEF GoTo
    <3> QED BY <3>1 DEF Walking
  <2> QED BY <2>1, <2>2
<1> QED BY <1>1, <1>2, <1>3, <1>4, <1>5, <1>6, <1>7

\* So does a traversal that goes on from its current node.
LEMMA GoOnType ==
  ASSUME TypeOK, NEW t \in Threads, NEW unlocked, GoOn(t, unlocked),
         cur[t] \in Nodes
  PROVE  TypeOK'
<1> USE DEF TypeOK, GoOn, heap
<1>1. /\ next' \in [Cells -> Nodes \cup {NoNode}]
      /\ data' \in [Nodes -> Values]
      /\ free' \subseteq Nodes
      /\ op' \in [Threads -> Ops \cup {"none"}]
      /\ wanted' \in [Threads -> SUBSET Values]
      /\ stays' \in [Threads -> SUBSET Nodes]
      /\ before' \in [Threads -> SUBSET Threads]
  OBVIOUS
<1>2. lock' \in [Cells -> Threads \cup {NoThread}]
  OBVIOUS
<1>3. pc' \in [Threads -> {"idle", "push", "step", "lock_next", "let_go", "visit", "test",
                          "delete"}]
  BY DEF GoTo
<1>4. /\ prev' \in [Threads -> Cells \cup {NoNode}]
      /\ cur' \in [Threads -> Nodes \cup {NoNode}]
  BY DEF Cells
<1>5. passed' \in [Threads -> SUBSET Nodes]
  OBVIOUS
<1>6. ASSUME NEW u \in Threads
      PROVE  /\ Walking(u)' => prev'[u] \in Cells
             /\ pc'[u] \notin {"idle", "step"} => cur'[u] \in Nodes
  <2>1. CASE u = t
    <3>1. pc'[t] = "step" /\ prev'[t] = cur[t] BY DEF GoTo
    <3> QED BY <2>1, <3>1 DEF Cells
  <2>2. CASE u # t
    <3>1. pc'[u] = pc[u] /\ prev'[u] = prev[u] /\ cur'[u] = cur[u] BY <2>2 DEF GoTo
    <3> QED BY <3>1 DEF Walking
  <2> QED BY <2>1, <2>2
<1> QED BY <1>1, <1>2, <1>3, <1>4, <1>5, <1>6

\* A traversal that begins keeps the invariant.
LEMMA EnterInv ==
  ASSUME IInv, NEW t \in Threads, Enter(t)
  PROVE  IInv'
<1> USE DEF IInv, Enter
<1>1. TypeOK'
  BY DEF TypeOK, Reach
<1>2. NoUseAfterFree'
  BY DEF TypeOK, NoUseAfterFree, LocksHeld, OnePredecessor, HandsOff, Adjacent, InUse, Held, Doomed
<1>3. LocksHeld'
  BY DEF TypeOK, LocksHeld, Held, HandsOff, NoUseAfterFree, Adjacent
<1>4. OnePredecessor'
  BY DEF TypeOK, OnePredecessor, Doomed, Adjacent, HandsOff
<1>5. HandsOff'
  BY DEF TypeOK, HandsOff, LocksHeld, OnePredecessor, Adjacent, Held, NoUseAfterFree, Doomed
<1>6. Adjacent'
  BY DEF TypeOK, Adjacent, LocksHeld, OnePredecessor, HandsOff, Held
<1> QED BY <1>1, <1>2, <1>3, <1>4, <1>5, <1>6

\* Looking at the successor keeps the invariant: it is neither free nor in a thread's
\* hands, and stays the successor while the node is locked.
LEMMA StepInv ==
  ASSUME IInv, NEW t \in Threads, Step(t)
  PROVE  IInv'
<1>1. TypeOK'
  <2>1. CASE Leave(t, {prev[t]})
    BY <2>1, LeaveType DEF IInv, TypeOK, heap, Step
  <2>2. CASE ~Leave(t, {prev[t]})
    <3>1. /\ At(t, "step")
          /\ next[prev[t]] # NoNode
          /\ cur' = [cur EXCEPT ![t] = next[prev[t]]]
          /\ GoTo(t, "lock_next")
          /\ UNCHANGED <<heap, lock, op, wanted, prev, history>>
      BY <2>2 DEF Step
    <3> QED BY <3>1 DEF IInv, TypeOK, Walking, At, GoTo, heap, history
  <2> QED BY <2>1, <2>2
<1> USE DEF IInv, Step, GoOn, Leave, Accepted
<1>2. NoUseAfterFree'
  BY DEF TypeOK, NoUseAfterFree, LocksHeld, OnePredecessor, HandsOff, Adjacent, InUse, Held, Doomed
<1>3. LocksHeld'
  BY DEF TypeOK, LocksHeld, Held, HandsOff, NoUseAfterFree, Adjacent
<1>4. OnePredecessor'
  BY DEF TypeOK, OnePredecessor, Doomed, Adjacent, HandsOff
<1>5. HandsOff'
  BY DEF TypeOK, HandsOff, LocksHeld, OnePredecessor, Adjacent, Held, NoUseAfterFree, Doomed
<1>6. Adjacent'
  BY DEF TypeOK, Adjacent, LocksHeld, OnePredecessor, HandsOff, Held
<1> QED BY <1>1, <1>2, <1>3, <1>4, <1>5, <1>6

\* Locking the successor keeps the invariant.
LEMMA LockNextInv ==
  ASSUME IInv, NEW t \in Threads, LockNext(t)
  PROVE  IInv'
<1> USE DEF IInv, LockNext
<1>1. TypeOK'
  BY DEF TypeOK, Reach
<1>2. NoUseAfterFree'
  BY DEF TypeOK, NoUseAfterFree, LocksHeld, OnePredecessor, HandsOff, Adjacent, InUse, Held, Doomed
<1>3. LocksHeld'
  BY DEF TypeOK, LocksHeld, Held, HandsOff, NoUseAfterFree, Adjacent
<1>4. OnePredecessor'
  BY DEF TypeOK, OnePredecessor, Doomed, Adjacent, HandsOff
<1>5. HandsOff'
  BY DEF TypeOK, HandsOff, LocksHeld, OnePredecessor, Adjacent, Held, NoUseAfterFree, Doomed
<1>6. Adjacent'
  BY DEF TypeOK, Adjacent, LocksHeld, OnePredecessor, HandsOff, Held
<1> QED BY <1>1, <1>2, <1>3, <1>4, <1>5, <1>6

\* Unlocking the predecessor keeps the invariant.
LEMMA LetGoInv ==
  ASSUME IInv, NEW t \in Threads, LetGo(t)
  PROVE  IInv'
<1> USE DEF IInv, LetGo
<1>1. TypeOK'
  BY DEF TypeOK, Reach
<1>2. NoUseAfterFree'
  BY DEF TypeOK, NoUseAfterFree, LocksHeld, OnePredecessor, HandsOff, Adjacent, InUse, Held, Doomed
<1>3. LocksHeld'
  BY DEF TypeOK, LocksHeld, Held, HandsOff, NoUseAfterFree, Adjacent
<1>4. OnePredecessor'
  BY DEF TypeOK, OnePredecessor, Doomed, Adjacent, HandsOff
<1>5. HandsOff'
  BY DEF TypeOK, HandsOff, LocksHeld, OnePredecessor, Adjacent, Held, NoUseAfterFree, Doomed
<1>6. Adjacent'
  BY DEF TypeOK, Adjacent, LocksHeld, OnePredecessor, HandsOff, Held
<1> QED BY <1>1, <1>2, <1>3, <1>4, <1>5, <1>6

\* Going on from a visited node, or ending there, keeps the invariant.
LEMMA VisitInv ==
  ASSUME IInv, NEW t \in Threads, Visit(t)
  PROVE  IInv'
<1>1. TypeOK'
  <2>1. At(t, "visit") /\ (GoOn(t, {}) \/ (Leave(t, {cur[t]}) /\ UNCHANGED heap))
    BY DEF Visit, heap
  <2>2. TypeOK /\ cur[t] \in Nodes /\ free \subseteq Nodes
    BY <2>1 DEF IInv, TypeOK, At
  <2>3. CASE GoOn(t, {})
    BY <2>2, <2>3, GoOnType
  <2>4. CASE Leave(t, {cur[t]}) /\ UNCHANGED heap
    BY <2>2, <2>4, LeaveType DEF heap
  <2> QED BY <2>1, <2>3, <2>4
<1> USE DEF IInv, Visit, GoOn, Leave, Accepted
<1>2. NoUseAfterFree'
  BY DEF TypeOK, NoUseAfterFree, LocksHeld, OnePredecessor, HandsOff, Adjacent, InUse, Held, Doomed
<1>3. LocksHeld'
  BY DEF TypeOK, LocksHeld, Held, HandsOff, NoUseAfterFree, Adjacent
<1>4. OnePredecessor'
  BY DEF TypeOK, OnePredecessor, Doomed, Adjacent, HandsOff
<1>5. HandsOff'
  BY DEF TypeOK, HandsOff, LocksHeld, OnePredecessor, Adjacent, Held, NoUseAfterFree, Doomed
<1>6. Adjacent'
  BY DEF TypeOK, Adjacent, LocksHeld, OnePredecessor, HandsOff, Held
<1> QED BY <1>1, <1>2, <1>3, <1>4, <1>5, <1>6

\* Going on past a kept node keeps the invariant.
LEMMA KeepInv ==
  ASSUME IInv, NEW t \in Threads, Keep(t)
  PROVE  IInv'
<1>1. TypeOK'
  <2>1. At(t, "test") /\ GoOn(t, {prev[t]})
    BY DEF Keep
  <2>2. TypeOK /\ cur[t] \in Nodes
    BY <2>1 DEF IInv, TypeOK, At
  <2> QED BY <2>1, <2>2, GoOnType
<1> USE DEF IInv, Keep, GoOn, Leave, Accepted
<1>2. NoUseAfterFree'
  BY DEF TypeOK, NoUseAfterFree, LocksHeld, OnePredecessor, HandsOff, Adjacent, InUse, Held, Doomed
<1>3. LocksHeld'
  BY DEF TypeOK, LocksHeld, Held, HandsOff, NoUseAfterFree, Adjacent
<1>4. OnePredecessor'
  BY DEF TypeOK, OnePredecessor, Doomed, Adjacent, HandsOff
<1>5. HandsOff'
  <2>1. \A u \in Threads : pc'[u] \in {"push", "delete"} =>
          u # t /\ pc[u] = pc'[u] /\ cur'[u] = cur[u]
    BY DEF TypeOK
  <2>2. \A n \in Nodes : lock[n] = NoThread => lock'[n] = NoThread
    BY DEF TypeOK, Cells
  <2>3. free' = free /\ \A u \in Threads : pc[u] \in {"push", "delete"} => cur[u] \in Nodes
    BY DEF TypeOK, heap
  <2> QED BY <2>1, <2>2, <2>3 DEF HandsOff
<1>6. Adjacent'
  BY DEF TypeOK, Adjacent, LocksHeld, OnePredecessor, HandsOff, Held
<1> QED BY <1>1, <1>2, <1>3, <1>4, <1>5, <1>6

\* Taking a node out keeps the invariant: only its predecessor pointed to it.
LEMMA UnlinkInv ==
  ASSUME IInv, NEW t \in Threads, Unlink(t)
  PROVE  IInv'
<1> USE DEF IInv, Unlink, GoOn, Leave, Accepted
<1>1. TypeOK'
  BY DEF TypeOK, Reach
<1>2. NoUseAfterFree'
  BY DEF TypeOK, NoUseAfterFree, LocksHeld, OnePredecessor, HandsOff, Adjacent, InUse, Held, Doomed
<1>3. LocksHeld'
  BY DEF TypeOK, LocksHeld, Held, HandsOff, NoUseAfterFree, Adjacent
<1>4. OnePredecessor'
  <2> DEFINE p == prev[t]
             c == cur[t]
  <2>1. p \in Cells /\ c \in Nodes /\ next[p] = c /\ p # c
    BY DEF TypeOK, Adjacent
  <2>2. \A n \in Cells : next'[n] = IF n = c THEN NoNode
                                   ELSE IF n = p THEN next[c] ELSE next[n]
    BY <2>1 DEF TypeOK
  <2>3. \A n \in Cells : next[n] = c => n = p
    BY <2>1 DEF OnePredecessor
  <2>4. Doomed' = Doomed \cup {c} /\ free' = free
    BY DEF TypeOK, Doomed
  <2>5. \A m, n \in Cells : next'[m] = next'[n] /\ next'[m] # NoNode => m = n
    BY <2>1, <2>2 DEF OnePredecessor
  <2>6. \A n \in Cells : next'[n] \notin free \cup Doomed \cup {c}
    <3>1. c \notin free \cup Doomed
      BY <2>1 DEF OnePredecessor
    <3>2. NoNode \notin free \cup Doomed \cup {c}
      BY <2>1 DEF TypeOK, Doomed
    <3>3. \A n \in Cells : next[n] \notin free \cup Doomed
      BY DEF OnePredecessor
    <3>4. next[c] # c
      BY <2>1, <2>3
    <3> QED BY <2>1, <2>2, <2>3, <3>1, <3>2, <3>3, <3>4 DEF Cells
  <2>7. \A n \in (free \cup Doomed \cup {c}) \ {NoNode} : next'[n] = NoNode
    <3>1. free \cup Doomed \subseteq Nodes
      BY DEF TypeOK, Doomed
    <3>2. p \notin free \cup Doomed
      BY <2>1, <3>1 DEF OnePredecessor
    <3> QED BY <2>1, <2>2, <3>1, <3>2 DEF OnePredecessor
  <2> QED BY <2>4, <2>5, <2>6, <2>7 DEF OnePredecessor
<1>5. HandsOff'
  BY DEF TypeOK, HandsOff, LocksHeld, OnePredecessor, Adjacent, Held, NoUseAfterFree, Doomed
<1>6. Adjacent'
  BY DEF TypeOK, Adjacent, LocksHeld, OnePredecessor, HandsOff, Held
<1> QED BY <1>1, <1>2, <1>3, <1>4, <1>5, <1>6

\* Deleting a node keeps the invariant: no thread holds or wants it.
LEMMA DeleteInv ==
  ASSUME IInv, NEW t \in Threads, Delete(t)
  PROVE  IInv'
<1>1. TypeOK'
  <2>1. TypeOK /\ free' \subseteq Nodes /\ UNCHANGED <<next, data>>
    BY DEF IInv, TypeOK, At, Delete
  <2>2. CASE Leave(t, {prev[t]})
    BY <2>1, <2>2, LeaveType
  <2>3. CASE ~Leave(t, {prev[t]})
    <3>1. /\ At(t, "delete")
          /\ cur' = [cur EXCEPT ![t] = NoNode]
          /\ GoTo(t, "step")
          /\ UNCHANGED <<lock, op, wanted, prev, history>>
      BY <2>3 DEF Delete
    <3> QED BY <2>1, <3>1 DEF TypeOK, Walking, At, GoTo, history
  <2> QED BY <2>2, <2>3
<1> USE DEF IInv, Delete, GoOn, Leave, Accepted
<1>2. NoUseAfterFree'
  BY DEF TypeOK, NoUseAfterFree, LocksHeld, OnePredecessor, HandsOff, Adjacent, InUse, Held, Doomed
<1>3. LocksHeld'
  BY DEF TypeOK, LocksHeld, Held, HandsOff, NoUseAfterFree, Adjacent
<1>4. OnePredecessor'
  <2>1. cur[t] \in Doomed /\ Doomed' \subseteq Doomed
    BY DEF TypeOK, Doomed
  <2>2. (free \cup Doomed)' \subseteq free \cup Doomed
    BY <2>1
  <2> QED BY <2>2 DEF OnePredecessor
<1>5. HandsOff'
  BY DEF TypeOK, HandsOff, LocksHeld, OnePredecessor, Adjacent, Held, NoUseAfterFree, Doomed
<1>6. Adjacent'
  BY DEF TypeOK, Adjacent, LocksHeld, OnePredecessor, HandsOff, Held
<1> QED BY <1>1, <1>2, <1>3, <1>4, <1>5, <1>6

\* An exception from the user's code keeps the invariant.
LEMMA ThrowInv ==
  ASSUME IInv, NEW t \in Threads, Throw(t)
  PROVE  IInv'
<1>1. TypeOK'
  <2>1. TypeOK /\ free \subseteq Nodes
    BY DEF IInv, TypeOK
  <2>2. PICK left : Leave(t, left) /\ UNCHANGED heap
    BY DEF Throw
  <2> QED BY <2>1, <2>2, LeaveType DEF heap
<1> USE DEF IInv, Throw, GoOn, Leave, Accepted
<1>2. NoUseAfterFree'
  BY DEF TypeOK, NoUseAfterFree, LocksHeld, OnePredecessor, HandsOff, Adjacent, InUse, Held, Doomed
<1>3. LocksHeld'
  BY DEF TypeOK, LocksHeld, Held, HandsOff, NoUseAfterFree, Adjacent
<1>4. OnePredecessor'
  BY DEF TypeOK, OnePredecessor, Doomed, Adjacent, HandsOff
<1>5. HandsOff'
  <2>1. \A u \in Threads : pc'[u] \in {"push", "delete"} =>
          u # t /\ pc[u] = pc'[u] /\ cur'[u] = cur[u]
    BY DEF TypeOK
  <2>2. \A n \in Nodes : lock[n] = NoThread => lock'[n] = NoThread
    BY DEF TypeOK, Cells
  <2>3. free' = free /\ \A u \in Threads : pc[u] \in {"push", "delete"} => cur[u] \in Nodes
    BY DEF TypeOK, heap
  <2> QED BY <2>1, <2>2, <2>3 DEF HandsOff
<1>6. Adjacent'
  BY DEF TypeOK, Adjacent, LocksHeld, OnePredecessor, HandsOff, Held
<1> QED BY <1>1, <1>2, <1>3, <1>4, <1>5, <1>6

\* Every step keeps the invariant.
LEMMA NextInv == IInv /\ [Next]_vars => IInv'
<1> SUFFICES ASSUME IInv, [Next]_vars PROVE IInv'
  OBVIOUS
<1>1. CASE UNCHANGED vars
  <2> USE <1>1 DEF vars, IInv
  <2>1. TypeOK' BY DEF TypeOK
  <2>2. NoUseAfterFree' BY DEF NoUseAfterFree, InUse, Held
  <2>3. LocksHeld' BY DEF LocksHeld, Held
  <2>4. OnePredecessor' BY DEF OnePredecessor, Doomed
  <2>5. HandsOff' BY DEF HandsOff
  <2>6. Adjacent' BY DEF Adjacent
  <2> QED BY <2>1, <2>2, <2>3, <2>4, <2>5, <2>6
<1>2. ASSUME NEW t \in Pushers, BuildNode(t) \/ PushNodeFront(t)
      PROVE  IInv'
  BY <1>2, BuildNodeInv, PushNodeFrontInv DEF Threads
<1>3. ASSUME NEW t \in Walkers, Enter(t) \/ WalkStep(t) \/ Throw(t)
      PROVE  IInv'
  BY <1>3, EnterInv, StepInv, LockNextInv, LetGoInv, VisitInv, KeepInv, UnlinkInv,
     DeleteInv, ThrowInv DEF Threads, WalkStep
<1> QED BY <1>1, <1>2, <1>3 DEF Next

\* The invariant holds in every reachable state.
THEOREM InvariantHolds == Spec => []IInv
  BY InitInv, NextInv, PTL DEF Spec

\* Type correctness.
THEOREM TypeCorrect == Spec => []TypeOK
<1>1. IInv => TypeOK
  BY DEF IInv
<1> QED BY <1>1, InvariantHolds, PTL

\* No thread reads, locks or deletes a node that has been deleted, and no node is
\* deleted while its mutex is held.
THEOREM NeverTouchesDeleted == Spec => []NoUseAfterFree
<1>1. IInv => NoUseAfterFree
  BY DEF IInv
<1> QED BY <1>1, InvariantHolds, PTL

-----------------------------------------------------------------------------
(* The order of the list *)

\* The nodes that push_front has linked and nobody has taken out.
OnList == Nodes \ (free \cup Doomed)
Linked == OnList \cup {BeforeBegin}

\* rank numbers the linked nodes in the order of the list: a node's successor is the one
\* of the next higher rank.
Ordered(rank) ==
  /\ \A m, n \in Linked : rank[m] = rank[n] => m = n
  /\ \A n \in OnList : rank[BeforeBegin] < rank[n]
  /\ \A m \in Linked :
       /\ next[m] # NoNode => next[m] \in OnList /\ rank[m] < rank[next[m]]
       /\ \A n \in OnList :
            rank[m] < rank[n] => next[m] # NoNode /\ rank[next[m]] <= rank[n]

\* Whether traversal t has gone past n, or past where n was pushed.
Behind(rank, n, t) ==
  IF pc[t] = "visit" THEN rank[n] < rank[cur[t]] ELSE rank[n] <= rank[prev[t]]

\* What is behind a traversal and stayed it has met; what is not it has not.
Scanned(rank) ==
  \A t \in Threads : Walking(t) =>
    \A n \in OnList : /\ n \in stays[t] /\ Behind(rank, n, t) => n \in passed[t]
                      /\ ~Behind(rank, n, t) => n \notin passed[t]

\* Who began later holds nodes of lower ranks.
InTurn(rank) ==
  \A u \in Threads : \A t \in before[u] : \A m \in Held(u), n \in Held(t) : rank[m] < rank[n]

Ranked == \E rank \in [Cells -> Int] : Ordered(rank) /\ Scanned(rank) /\ InTurn(rank)

\* What the history variables say of traversals.
Traversals ==
  \A t \in Threads :
    /\ stays[t] \subseteq OnList
    /\ \A n \in stays[t] \cap passed[t] : data[n] \notin wanted[t]
    /\ ~Walking(t) => stays[t] = {} /\ passed[t] = {} /\ before[t] = {}
    /\ \A u \in before[t] : Walking(u) /\ u # t

\* Where a traversal is in the list.
LEMMA TraversalsOnList ==
  ASSUME IInv, NEW t \in Threads
  PROVE  /\ Held(t) \subseteq Linked
         /\ Walking(t) /\ pc[t] # "visit" => prev[t] \in Linked /\ prev[t] \in Held(t)
         /\ pc[t] \in {"lock_next", "let_go", "visit", "test"} => cur[t] \in OnList
         /\ pc[t] \in {"let_go", "visit", "test"} => cur[t] \in Held(t)
         /\ pc[t] \in {"lock_next", "let_go", "test"} => next[prev[t]] = cur[t]
         /\ pc[t] \in {"push", "delete"} => cur[t] \in Nodes \ OnList
<1> USE DEF IInv, TypeOK
<1>1. Held(t) \subseteq Cells
  BY DEF Held
<1>2. ASSUME NEW n \in Held(t)
      PROVE  n \notin free \cup Doomed
  <2>1. lock[n] = t
    BY <1>1, <1>2 DEF LocksHeld
  <2>2. n \notin free
    BY <1>2 DEF NoUseAfterFree, InUse
  <2>3. n \notin Doomed
    BY <2>1 DEF HandsOff, Doomed
  <2> QED BY <2>2, <2>3
<1>3. Held(t) \subseteq Linked
  BY <1>1, <1>2 DEF Linked, OnList
<1>4. Walking(t) /\ pc[t] # "visit" => prev[t] \in Held(t)
  BY DEF Held
<1>5. pc[t] \in {"let_go", "visit", "test"} => cur[t] \in Held(t) /\ cur[t] \in Nodes
  BY DEF Held
<1>6. pc[t] \in {"lock_next", "let_go", "test"} => next[prev[t]] = cur[t]
  BY DEF Adjacent
<1>7. pc[t] = "lock_next" => cur[t] \in OnList
  BY <1>6 DEF OnePredecessor, OnList
<1>8. pc[t] \in {"push", "delete"} => cur[t] \in Nodes \ OnList
  BY DEF OnList, Doomed
<1>9. pc[t] \in {"let_go", "visit", "test"} => cur[t] \in OnList
  BY <1>3, <1>5 DEF Linked
<1> QED BY <1>3, <1>4, <1>5, <1>6, <1>7, <1>8, <1>9

\* What can be reached from a node are the linked nodes of its rank and of higher ones.
LEMMA ReachByRank ==
  ASSUME IInv, NEW rank \in [Cells -> Int], Ordered(rank), NEW m \in Linked
  PROVE  Reach(m) = {n \in OnList : rank[m] <= rank[n]}
<1> DEFINE up == {n \in OnList : rank[m] <= rank[n]}
           whole == {S \in SUBSET Cells : m \in S /\ \A k \in S : next[k] \in S \cup {NoNode}}
<1>1. Linked \subseteq Cells /\ OnList \subseteq Nodes /\ OnList \subseteq Linked
  BY DEF Linked, OnList
<1>2. ASSUME NEW n \in Reach(m)
      PROVE  n \in up
  <2> DEFINE S == {m} \cup up
  <2>1. S \subseteq Cells /\ m \in S
    BY <1>1
  <2>2. ASSUME NEW k \in S, next[k] # NoNode
        PROVE  next[k] \in S
    <3>1. k \in Linked /\ rank[m] <= rank[k]
      BY <1>1, <2>2
    <3>2. next[k] \in OnList /\ rank[k] < rank[next[k]]
      BY <2>2, <3>1 DEF Ordered
    <3>3. rank[m] \in Int /\ rank[k] \in Int /\ rank[next[k]] \in Int
      BY <1>1, <3>1, <3>2
    <3> QED BY <3>1, <3>2, <3>3
  <2>3. S \in whole
    BY <2>1, <2>2
  <2>4. n \in S /\ n \in Nodes
    <3> HIDE DEF S
    <3> QED BY <1>2, <2>3 DEF Reach
  <2>5. CASE n = m
    <3>1. m \in OnList
      BY <2>4, <2>5 DEF Linked
    <3> QED BY <1>1, <2>5, <3>1
  <2> QED BY <2>4, <2>5
<1>3. ASSUME NEW n \in up, NEW S \in whole
      PROVE  n \in S
  <2> SUFFICES ASSUME n \notin S
               PROVE  FALSE
    OBVIOUS
  <2>0. /\ \A k \in Linked : rank[k] \in Int
        /\ n \in OnList /\ n \in Linked /\ rank[m] <= rank[n] /\ m \in S
    BY <1>1, <1>3
  <2> DEFINE Below == {k \in S : k \in Linked /\ rank[k] <= rank[n]}
             Gaps == {rank[n] - rank[k] : k \in Below}
             Above == {p \in Nat \X Nat : p[1] < p[2]}
  <2>1. IsWellFoundedOn(Above, Nat)
    <3>1. OpToRel(<, Nat) = Above
      BY DEF OpToRel
    <3> QED BY <3>1, NatLessThanWellFounded
  <2>2. Gaps \in SUBSET Nat /\ Gaps # {}
    <3>1. \A k \in Below : rank[n] - rank[k] \in Nat
      BY <2>0
    <3>2. m \in Below
      BY <2>0
    <3> QED BY <3>1, <3>2
  <2>3. PICK g \in Gaps : \A h \in Nat : <<h, g>> \in Above => h \notin Gaps
    <3> HIDE DEF Gaps, Above
    <3> QED BY <2>1, <2>2, WFMin
  <2>4. PICK k \in Below : g = rank[n] - rank[k]
    OBVIOUS
  <2>5. \A j \in Below : rank[j] <= rank[k]
    <3> SUFFICES ASSUME NEW j \in Below, ~(rank[j] <= rank[k])
                 PROVE  FALSE
      OBVIOUS
    <3>1. rank[j] \in Int /\ rank[k] \in Int /\ rank[n] \in Int /\ rank[j] <= rank[n]
          /\ rank[k] <= rank[n]
      BY <2>0, <2>4
    <3>2. rank[n] - rank[j] \in Nat /\ rank[n] - rank[k] \in Nat
          /\ rank[n] - rank[j] < rank[n] - rank[k]
      BY <3>1
    <3>3. <<rank[n] - rank[j], g>> \in Above /\ rank[n] - rank[j] \in Gaps
      BY <2>4, <3>2
    <3> QED BY <2>3, <3>2, <3>3
  <2>6. k \in S /\ k \in Linked /\ rank[k] <= rank[n]
    BY <2>4
  <2>7. rank[k] < rank[n]
    <3>1. rank[k] # rank[n]
      BY <2>0, <2>6 DEF Ordered
    <3> QED BY <2>0, <2>6, <3>1
  <2>8. /\ next[k] # NoNode /\ rank[next[k]] <= rank[n]
        /\ next[k] \in OnList /\ rank[k] < rank[next[k]]
    BY <2>0, <2>6, <2>7 DEF Ordered
  <2>9. next[k] \in S
    BY <2>6, <2>8
  <2>10. next[k] \in Below
    BY <1>1, <2>8, <2>9
  <2>11. rank[next[k]] <= rank[k] /\ rank[next[k]] \in Int /\ rank[k] \in Int
    <3> HIDE DEF Below
    <3> QED BY <1>1, <2>0, <2>5, <2>6, <2>8, <2>10
  <2> QED BY <2>8, <2>11
<1>4. up \subseteq Reach(m)
  BY <1>1, <1>3 DEF Reach
<1> QED BY <1>2, <1>4

\* The nodes on the list and their order, by any ranks that fit.
ByRank ==
  \A rank \in [Cells -> Int] : Ordered(rank) =>
    /\ Listed = OnList
    /\ Ahead = {p \in OnList \X OnList : rank[p[1]] < rank[p[2]]}
\* The invariant makes Reach and the ranks agree.
LEMMA ListByRank == IInv => ByRank
<1> SUFFICES ASSUME IInv, NEW rank \in [Cells -> Int], Ordered(rank)
             PROVE  /\ Listed = OnList
                    /\ Ahead = {p \in OnList \X OnList : rank[p[1]] < rank[p[2]]}
  BY DEF ByRank
<1>1. /\ \A m \in Linked : Reach(m) = {n \in OnList : rank[m] <= rank[n]}
      /\ BeforeBegin \in Linked /\ OnList \subseteq Linked /\ Linked \subseteq Cells
  BY ReachByRank DEF Linked, OnList
<1>2. \A n \in OnList : rank[BeforeBegin] <= rank[n]
  <2>1. \A n \in OnList : rank[BeforeBegin] < rank[n]
    BY DEF Ordered
  <2>2. \A n \in Linked : rank[n] \in Int
    BY <1>1
  <2> QED BY <1>1, <2>1, <2>2
<1>3. Listed = OnList
  BY <1>1, <1>2 DEF Listed
<1>4. ASSUME NEW m \in OnList, NEW n \in OnList
      PROVE  m # n /\ n \in Reach(m) <=> rank[m] < rank[n]
  <2>1. rank[m] \in Int /\ rank[n] \in Int /\ (rank[m] = rank[n] => m = n)
    BY <1>1 DEF Ordered
  <2>2. n \in Reach(m) <=> rank[m] <= rank[n]
    BY <1>1
  <2> QED BY <2>1, <2>2
<1>5. Ahead = {p \in OnList \X OnList : rank[p[1]] < rank[p[2]]}
  BY <1>3, <1>4 DEF Ahead
<1> QED BY <1>3, <1>5

-----------------------------------------------------------------------------
(* Every step keeps the order *)

\* A step that changes neither the linked nodes nor their successors.
LEMMA SameOrder ==
  ASSUME NEW rank, Ordered(rank), OnList' = OnList, next' = next
  PROVE  Ordered(rank)'
BY DEF Ordered, Linked

\* The node taken out is skipped.
LEMMA UnlinkOrder ==
  ASSUME IInv, NEW rank \in [Cells -> Int], Ordered(rank), NEW p \in Linked, NEW c \in OnList,
         next[p] = c, next' = [next EXCEPT ![p] = next[c], ![c] = NoNode],
         OnList' = OnList \ {c}
  PROVE  Ordered(rank)'
<1>1. /\ OnList \subseteq Nodes /\ Linked = OnList \cup {BeforeBegin} /\ Linked \subseteq Cells
      /\ next \in [Cells -> Nodes \cup {NoNode}]
      /\ Linked' = Linked \ {c} /\ p # c
  BY DEF Linked, OnList, IInv, TypeOK, OnePredecessor, Ordered
<1>2. \A m \in Linked' : next'[m] = IF m = p THEN next[c] ELSE next[m]
  BY <1>1
<1>3. \A m \in Linked : m # p => next[m] # c
  BY <1>1 DEF IInv, OnePredecessor
<1>4. rank[p] < rank[c] /\ \A m \in Linked : rank[m] \in Int
  BY <1>1 DEF Ordered
<1>5. /\ \A m, n \in Linked : rank[m] = rank[n] => m = n
      /\ \A n \in OnList : rank[BeforeBegin] < rank[n]
      /\ \A m \in Linked : next[m] # NoNode => next[m] \in OnList /\ rank[m] < rank[next[m]]
      /\ \A m \in Linked : \A n \in OnList :
           rank[m] < rank[n] => next[m] # NoNode /\ rank[next[m]] <= rank[n]
  BY DEF Ordered
<1>6. ASSUME NEW m \in Linked', next'[m] # NoNode
      PROVE  next'[m] \in OnList' /\ rank[m] < rank[next'[m]]
  <2>1. CASE m = p
    <3>1. next'[m] = next[c] /\ next[c] \in OnList /\ rank[c] < rank[next[c]]
      BY <1>1, <1>2, <1>5, <1>6, <2>1
    <3>2. next[c] # c
      BY <1>1, <1>3
    <3> QED BY <1>1, <1>4, <2>1, <3>1, <3>2
  <2>2. CASE m # p
    BY <1>1, <1>2, <1>3, <1>5, <1>6, <2>2
  <2> QED BY <2>1, <2>2
<1>7. ASSUME NEW m \in Linked', NEW n \in OnList', rank[m] < rank[n]
      PROVE  next'[m] # NoNode /\ rank[next'[m]] <= rank[n]
  <2>1. CASE m = p
    <3>1. rank[c] <= rank[n] /\ n # c /\ n \in OnList
      BY <1>1, <1>5, <1>7, <2>1
    <3>2. rank[c] < rank[n]
      BY <1>1, <1>4, <1>5, <3>1
    <3>3. next[c] # NoNode /\ rank[next[c]] <= rank[n]
      BY <1>1, <1>5, <3>1, <3>2
    <3> QED BY <1>2, <2>1, <3>3
  <2>2. CASE m # p
    BY <1>1, <1>2, <1>5, <1>7, <2>2
  <2> QED BY <2>1, <2>2
<1>8. /\ \A m, n \in Linked' : rank[m] = rank[n] => m = n
      /\ \A n \in OnList' : rank[BeforeBegin] < rank[n]
  BY <1>1, <1>5
<1> QED BY <1>6, <1>7, <1>8 DEF Ordered

\* The ranks when n is pushed: it gets the head's, and the head one below.
Pushed(rank, n) == [rank EXCEPT ![BeforeBegin] = rank[BeforeBegin] - 1, ![n] = rank[BeforeBegin]]

\* The node pushed comes first, and the others keep their places.
LEMMA PushOrder ==
  ASSUME IInv, NEW rank \in [Cells -> Int], Ordered(rank), NEW c \in Nodes \ OnList,
         next' = [next EXCEPT ![c] = next[BeforeBegin], ![BeforeBegin] = c],
         OnList' = OnList \cup {c}
  PROVE  /\ Pushed(rank, c) \in [Cells -> Int]
         /\ Pushed(rank, c)[BeforeBegin] < Pushed(rank, c)[c]
         /\ \A n \in OnList : Pushed(rank, c)[n] = rank[n] /\ Pushed(rank, c)[c] < rank[n]
         /\ Ordered(Pushed(rank, c))'
<1> DEFINE new == Pushed(rank, c)
<1>1. /\ OnList \subseteq Nodes /\ Linked = OnList \cup {BeforeBegin} /\ Linked \subseteq Cells
      /\ next \in [Cells -> Nodes \cup {NoNode}]
      /\ Linked' = Linked \cup {c} /\ c # BeforeBegin /\ c \in Cells /\ NoNode \notin Nodes
  BY DEF Linked, OnList, IInv, TypeOK
<1>2. /\ new \in [Cells -> Int]
      /\ new[BeforeBegin] = rank[BeforeBegin] - 1 /\ new[c] = rank[BeforeBegin]
      /\ \A n \in OnList : new[n] = rank[n]
  BY <1>1 DEF Pushed
<1> HIDE DEF new
<1>3. /\ next'[BeforeBegin] = c /\ next'[c] = next[BeforeBegin]
      /\ \A n \in OnList : next'[n] = next[n]
  BY <1>1
<1>4. \A m \in Linked : rank[m] \in Int
  BY <1>1
<1>5. /\ \A m, n \in Linked : rank[m] = rank[n] => m = n
      /\ \A n \in OnList : rank[BeforeBegin] < rank[n]
      /\ \A m \in Linked : next[m] # NoNode => next[m] \in OnList /\ rank[m] < rank[next[m]]
      /\ \A m \in Linked : \A n \in OnList :
           rank[m] < rank[n] => next[m] # NoNode /\ rank[next[m]] <= rank[n]
  BY DEF Ordered
<1>6. new[BeforeBegin] < new[c] /\ \A n \in OnList : new[c] < rank[n] /\ new[BeforeBegin] < new[n]
  BY <1>1, <1>2, <1>4, <1>5
<1>7. \A m, n \in Linked' : new[m] = new[n] => m = n
  <2>1. \A m \in Linked' : m = BeforeBegin \/ m = c \/ m \in OnList
    BY <1>1
  <2>2. \A m \in Linked' : new[m] \in Int
    BY <1>1, <1>2
  <2>3. \A n \in OnList : new[n] # new[c] /\ new[n] # new[BeforeBegin]
    BY <1>1, <1>2, <1>6, <2>2
  <2>4. new[c] # new[BeforeBegin]
    BY <1>1, <1>6, <2>2
  <2> QED BY <1>1, <1>2, <1>5, <2>1, <2>3, <2>4
<1>8. ASSUME NEW m \in Linked', next'[m] # NoNode
      PROVE  next'[m] \in OnList' /\ new[m] < new[next'[m]]
  <2>1. CASE m = BeforeBegin
    BY <1>3, <1>6, <2>1
  <2>2. CASE m = c
    BY <1>1, <1>2, <1>3, <1>5, <1>8, <2>2
  <2>3. CASE m \in OnList
    BY <1>1, <1>2, <1>3, <1>5, <1>8, <2>3
  <2> QED BY <1>1, <2>1, <2>2, <2>3
<1>9. ASSUME NEW m \in Linked', NEW n \in OnList', new[m] < new[n]
      PROVE  next'[m] # NoNode /\ new[next'[m]] <= new[n]
  <2>1. CASE m = BeforeBegin
    <3>1. n = c \/ n \in OnList
      OBVIOUS
    <3>2. new[c] <= new[n]
      BY <1>1, <1>2, <1>4, <1>6, <3>1
    <3> QED BY <1>1, <1>3, <2>1, <3>2
  <2>2. CASE m = c
    <3>1. n \in OnList /\ rank[BeforeBegin] < rank[n]
      BY <1>1, <1>2, <1>5, <1>9, <2>2
    <3>2. /\ next[BeforeBegin] # NoNode /\ rank[next[BeforeBegin]] <= rank[n]
          /\ next[BeforeBegin] \in OnList
      BY <1>1, <1>5, <3>1
    <3> QED BY <1>2, <1>3, <2>2, <3>1, <3>2
  <2>3. CASE m \in OnList
    <3>1. n \in OnList
      BY <1>1, <1>2, <1>4, <1>5, <1>9, <2>3
    <3>2. /\ next[m] # NoNode /\ rank[next[m]] <= rank[n] /\ next[m] \in OnList
      BY <1>1, <1>2, <1>5, <1>9, <2>3, <3>1
    <3> QED BY <1>2, <1>3, <2>3, <3>1, <3>2
  <2> QED BY <1>1, <2>1, <2>2, <2>3
<1>10. Ordered(new)'
  <2>1. \A n \in OnList' : new[BeforeBegin] < new[n]
    BY <1>6
  <2> QED BY <1>7, <1>8, <1>9, <2>1 DEF Ordered
<1> QED BY <1>2, <1>6, <1>10 DEF new

\* What a thread may do.
Acts(t) == BuildNode(t) \/ PushNodeFront(t) \/ Enter(t) \/ WalkStep(t) \/ Throw(t)

\* A thread leaves what the others are doing, and what they hold, alone.
LEMMA OthersStay ==
  ASSUME IInv, NEW t \in Threads, Acts(t), NEW u \in Threads \ {t}
  PROVE  /\ pc'[u] = pc[u] /\ cur'[u] = cur[u] /\ prev'[u] = prev[u]
         /\ wanted'[u] = wanted[u] /\ passed'[u] = passed[u]
         /\ stays'[u] \subseteq stays[u] /\ before'[u] \subseteq before[u]
         /\ Held(u)' = Held(u)
<1> USE DEF IInv, TypeOK
<1>1. ASSUME NEW left, Leave(t, left)
      PROVE  /\ pc'[u] = pc[u] /\ cur'[u] = cur[u] /\ prev'[u] = prev[u]
             /\ wanted'[u] = wanted[u] /\ passed'[u] = passed[u]
             /\ stays'[u] \subseteq stays[u] /\ before'[u] \subseteq before[u]
  BY <1>1 DEF Leave
<1>2. ASSUME NEW unlocked, GoOn(t, unlocked)
      PROVE  /\ pc'[u] = pc[u] /\ cur'[u] = cur[u] /\ prev'[u] = prev[u]
             /\ wanted'[u] = wanted[u] /\ passed'[u] = passed[u]
             /\ stays'[u] \subseteq stays[u] /\ before'[u] \subseteq before[u]
  BY <1>2 DEF GoOn
<1>3. /\ pc'[u] = pc[u] /\ cur'[u] = cur[u] /\ prev'[u] = prev[u]
      /\ wanted'[u] = wanted[u] /\ passed'[u] = passed[u]
      /\ stays'[u] \subseteq stays[u] /\ before'[u] \subseteq before[u]
  <2>1. CASE \E left : Leave(t, left)
    BY <1>1, <2>1
  <2>2. CASE \E unlocked : GoOn(t, unlocked)
    BY <1>2, <2>2
  <2>3. CASE BuildNode(t) \/ PushNodeFront(t)
    BY <2>3 DEF BuildNode, PushNodeFront
  <2>4. CASE Enter(t)
    BY <2>4 DEF Enter
  <2>5. CASE (Step(t) \/ LockNext(t) \/ LetGo(t)) /\ ~\E left : Leave(t, left)
    BY <2>5 DEF Step, LockNext, LetGo
  <2>6. CASE Unlink(t)
    BY <2>6 DEF Unlink
  <2>7. CASE Delete(t) /\ ~\E left : Leave(t, left)
    BY <2>7 DEF Delete
  <2>8. Visit(t) \/ Keep(t) \/ Throw(t) =>
          (\E left : Leave(t, left)) \/ (\E unlocked : GoOn(t, unlocked))
    BY DEF Visit, Keep, Throw
  <2> QED BY <2>1, <2>2, <2>3, <2>4, <2>5, <2>6, <2>7, <2>8 DEF Acts, WalkStep
<1>4. Held(u)' = Held(u)
  BY <1>3 DEF Held
<1> QED BY <1>3, <1>4

\* The nodes on the list stay the same while no thread takes one into its hands or
\* lets go of one.
LEMMA SameHands ==
  ASSUME IInv, NEW t \in Threads, Acts(t), free' = free,
         pc[t] \notin {"push", "delete"}, pc'[t] \notin {"push", "delete"}
  PROVE  OnList' = OnList
<1>1. \A u \in Threads \ {t} : pc'[u] = pc[u] /\ cur'[u] = cur[u]
  BY OthersStay
<1>2. Doomed' = Doomed
  BY <1>1 DEF Doomed
<1> QED BY <1>2 DEF OnList

\* What each action does to the nodes on the list.
LEMMA OnListSame ==
  ASSUME IInv, NEW t \in Threads, Acts(t), ~PushNodeFront(t), ~Unlink(t)
  PROVE  OnList' = OnList /\ next' = next
<1> USE DEF IInv, TypeOK
<1>1. CASE BuildNode(t)
  <2>1. PICK n \in free : /\ free' = free \ {n}
                          /\ cur' = [cur EXCEPT ![t] = n]
                          /\ pc' = [pc EXCEPT ![t] = "push"]
    BY <1>1 DEF BuildNode
  <2>2. pc[t] = "idle" /\ next' = next
    BY <1>1 DEF BuildNode
  <2>3. Doomed' = Doomed \cup {n}
    <3>1. /\ pc'[t] = "push" /\ cur'[t] = n
          /\ \A u \in Threads \ {t} : pc'[u] = pc[u] /\ cur'[u] = cur[u]
      BY <2>1
    <3> QED BY <2>2, <3>1 DEF Doomed
  <2> QED BY <2>1, <2>2, <2>3 DEF OnList
<1>2. CASE Delete(t)
  <2>1. /\ pc[t] = "delete" /\ free' = free \cup {cur[t]} /\ next' = next
        /\ pc'[t] \notin {"push", "delete"}
    BY <1>2 DEF Delete, Leave
  <2>2. \A u \in Threads \ {t} : pc'[u] = pc[u] /\ cur'[u] = cur[u]
    BY OthersStay
  <2>3. Doomed' = Doomed \ {cur[t]}
    BY <2>1, <2>2 DEF Doomed, HandsOff
  <2>4. cur[t] \in Doomed
    BY <2>1 DEF Doomed
  <2> QED BY <2>1, <2>3, <2>4 DEF OnList
<1>3. CASE Enter(t) \/ Step(t) \/ LockNext(t) \/ LetGo(t) \/ Visit(t) \/ Keep(t) \/ Throw(t)
  <2>1. free' = free /\ next' = next /\ pc[t] \notin {"push", "delete"}
    BY <1>3 DEF Enter, Step, LockNext, LetGo, Visit, Keep, Throw, GoOn
  <2>2. pc'[t] \notin {"push", "delete"}
    BY <1>3 DEF Enter, Step, LockNext, LetGo, Visit, Keep, Throw, GoOn, Leave
  <2> QED BY <2>1, <2>2, SameHands
<1> QED BY <1>1, <1>2, <1>3 DEF Acts, WalkStep

\* A push adds its node to the list.
LEMMA OnListPushed ==
  ASSUME IInv, NEW t \in Threads, PushNodeFront(t)
  PROVE  OnList' = OnList \cup {cur[t]} /\ cur[t] \in Nodes \ OnList
<1> USE DEF IInv, TypeOK
<1>1. /\ pc[t] = "push" /\ free' = free /\ pc'[t] = "idle" /\ cur[t] \in Nodes
      /\ \A u \in Threads \ {t} : pc'[u] = pc[u] /\ cur'[u] = cur[u]
  BY DEF PushNodeFront
<1>2. Doomed' = Doomed \ {cur[t]}
  BY <1>1 DEF Doomed, HandsOff
<1>3. cur[t] \in Doomed /\ cur[t] \notin free
  BY <1>1 DEF Doomed, HandsOff
<1> QED BY <1>1, <1>2, <1>3 DEF OnList

\* A removal takes its node out.
LEMMA OnListUnlinked ==
  ASSUME IInv, NEW t \in Threads, Unlink(t)
  PROVE  OnList' = OnList \ {cur[t]} /\ cur[t] \in OnList
<1> USE DEF IInv, TypeOK
<1>1. /\ pc[t] = "test" /\ free' = free /\ pc'[t] = "delete" /\ cur' = cur
      /\ \A u \in Threads \ {t} : pc'[u] = pc[u]
  BY DEF Unlink
<1>2. Doomed' = Doomed \cup {cur[t]}
  BY <1>1 DEF Doomed
<1>3. cur[t] \in OnList
  BY <1>1, TraversalsOnList
<1> QED BY <1>1, <1>2, <1>3 DEF OnList

\* The scans of the others go on as before when no node comes onto the list.
LEMMA ScannedKept ==
  ASSUME IInv, NEW t \in Threads, Acts(t), NEW rank, Scanned(rank), OnList' \subseteq OnList,
         Walking(t)' =>
           \A n \in OnList' : /\ n \in stays'[t] /\ Behind(rank, n, t)' => n \in passed'[t]
                              /\ ~Behind(rank, n, t)' => n \notin passed'[t]
  PROVE  Scanned(rank)'
<1>1. ASSUME NEW u \in Threads, Walking(u)'
      PROVE  \A n \in OnList' : /\ n \in stays'[u] /\ Behind(rank, n, u)' => n \in passed'[u]
                                /\ ~Behind(rank, n, u)' => n \notin passed'[u]
  <2>1. CASE u = t
    BY <1>1, <2>1
  <2>2. CASE u # t
    <3>1. /\ pc'[u] = pc[u] /\ cur'[u] = cur[u] /\ prev'[u] = prev[u]
          /\ passed'[u] = passed[u] /\ stays'[u] \subseteq stays[u]
      BY <2>2, OthersStay
    <3>2. Walking(u) /\ \A n \in OnList' : Behind(rank, n, u)' <=> Behind(rank, n, u)
      BY <1>1, <3>1 DEF Behind
    <3>3. \A n \in OnList : /\ n \in stays[u] /\ Behind(rank, n, u) => n \in passed[u]
                            /\ ~Behind(rank, n, u) => n \notin passed[u]
      BY <3>2 DEF Scanned
    <3> QED BY <3>1, <3>2, <3>3
  <2> QED BY <2>1, <2>2
<1> HIDE DEF Walking
<1> QED BY <1>1 DEF Scanned

\* A step that leaves the list alone keeps the scans.
LEMMA ScannedSame ==
  ASSUME IInv, NEW t \in Threads, Acts(t), ~PushNodeFront(t), ~Unlink(t),
         NEW rank \in [Cells -> Int], Ordered(rank), Scanned(rank), Traversals
  PROVE  Scanned(rank)'
<1>0. OnList' = OnList /\ OnList \subseteq Linked /\ Linked \subseteq Cells
  BY OnListSame DEF OnList, Linked
<1> DEFINE Fits(n) == /\ n \in stays'[t] /\ Behind(rank, n, t)' => n \in passed'[t]
                      /\ ~Behind(rank, n, t)' => n \notin passed'[t]
<1>1. SUFFICES ASSUME Walking(t)', NEW n \in OnList
               PROVE  Fits(n)
  <2> HIDE DEF Fits
  <2>1. Walking(t)' => \A n \in OnList' : Fits(n)
    BY <1>0
  <2> USE DEF Fits
  <2> QED BY <1>0, <2>1, ScannedKept
<1>2. \A m \in Linked : rank[m] \in Int
  BY <1>0
<1>3. Walking(t) => /\ n \in stays[t] /\ Behind(rank, n, t) => n \in passed[t]
                    /\ ~Behind(rank, n, t) => n \notin passed[t]
  BY DEF Scanned
<1> USE DEF IInv, TypeOK
<1>4. CASE Enter(t)
  <2>1. passed'[t] = {} /\ pc'[t] = "step" /\ prev'[t] = BeforeBegin
    BY <1>4 DEF Enter, Traversals
  <2>2. rank[BeforeBegin] < rank[n] /\ BeforeBegin \in Linked
    BY DEF Ordered, Linked
  <2>3. ~Behind(rank, n, t)'
    BY <1>0, <1>2, <2>1, <2>2 DEF Behind
  <2> QED BY <2>1, <2>3
<1>5. CASE LetGo(t)
  <2>1. /\ pc[t] = "let_go" /\ pc'[t] = "visit" /\ cur' = cur /\ prev' = prev
        /\ stays' = stays /\ passed' = passed
    BY <1>5 DEF LetGo
  <2>2. next[prev[t]] = cur[t] /\ prev[t] \in Linked /\ cur[t] \in OnList /\ cur[t] # NoNode
    BY <2>1, TraversalsOnList DEF OnList
  <2>3. rank[prev[t]] < rank[cur[t]] /\ (rank[prev[t]] < rank[n] => rank[cur[t]] <= rank[n])
    BY <2>2 DEF Ordered
  <2>4. rank[n] < rank[cur[t]] <=> rank[n] <= rank[prev[t]]
    BY <1>0, <1>2, <2>2, <2>3
  <2>5. Behind(rank, n, t)' <=> Behind(rank, n, t)
    BY <2>1, <2>4 DEF Behind
  <2> QED BY <1>3, <2>1, <2>5
<1>6. CASE Visit(t) \/ Keep(t)
  <2>1. PICK unlocked : GoOn(t, unlocked)
    BY <1>1, <1>6 DEF Visit, Keep, Leave
  <2>2. /\ pc[t] \in {"visit", "test"} /\ pc'[t] = "step" /\ prev'[t] = cur[t]
        /\ stays' = stays /\ passed'[t] = passed[t] \cup {cur[t]}
    BY <1>6, <2>1 DEF GoOn, Visit, Keep
  <2>3. cur[t] \in OnList
    BY <2>2, TraversalsOnList
  <2>4. pc[t] = "test" => /\ rank[prev[t]] < rank[cur[t]] /\ prev[t] \in Linked
                          /\ rank[prev[t]] < rank[n] => rank[cur[t]] <= rank[n]
    <3>1. pc[t] = "test" => /\ next[prev[t]] = cur[t] /\ prev[t] \in Linked
                            /\ cur[t] # NoNode
      BY <2>3, TraversalsOnList DEF OnList
    <3> QED BY <3>1 DEF Ordered
  <2>5. rank[n] = rank[cur[t]] => n = cur[t]
    BY <1>0, <2>3 DEF Ordered
  <2>6. Behind(rank, n, t)' <=> rank[n] <= rank[cur[t]]
    BY <2>2 DEF Behind
  <2>7. Behind(rank, n, t)' <=> Behind(rank, n, t) \/ n = cur[t]
    <3>1. CASE pc[t] = "visit"
      <4>1. Behind(rank, n, t) <=> rank[n] < rank[cur[t]]
        BY <3>1 DEF Behind
      <4>2. rank[n] <= rank[cur[t]] <=> rank[n] < rank[cur[t]] \/ n = cur[t]
        BY <1>0, <1>2, <2>3, <2>5
      <4> QED BY <2>6, <4>1, <4>2
    <3>2. CASE pc[t] = "test"
      <4>1. Behind(rank, n, t) <=> rank[n] <= rank[prev[t]]
        BY <3>2 DEF Behind
      <4>2. rank[n] <= rank[cur[t]] <=> rank[n] <= rank[prev[t]] \/ n = cur[t]
        BY <1>0, <1>2, <2>3, <2>4, <2>5, <3>2
      <4> QED BY <2>6, <4>1, <4>2
    <3> QED BY <2>2, <3>1, <3>2
  <2> QED BY <1>3, <2>2, <2>7
<1>7. CASE Step(t) \/ LockNext(t) \/ Delete(t)
  <2>1. /\ Walking(t) /\ pc[t] # "visit" /\ pc'[t] # "visit" /\ prev'[t] = prev[t]
        /\ stays' = stays /\ passed' = passed
    BY <1>1, <1>7 DEF Step, LockNext, Delete, Leave
  <2>2. Behind(rank, n, t)' <=> Behind(rank, n, t)
    BY <2>1 DEF Behind
  <2> QED BY <1>3, <2>1, <2>2
<1>8. CASE Throw(t) \/ BuildNode(t)
  BY <1>1, <1>8 DEF Throw, BuildNode, Leave
<1> QED BY <1>4, <1>5, <1>6, <1>7, <1>8 DEF Acts, WalkStep

\* A removal keeps the scans: the node taken out is no longer asked for.
LEMMA ScannedUnlink ==
  ASSUME IInv, NEW t \in Threads, Unlink(t), NEW rank, Scanned(rank)
  PROVE  Scanned(rank)'
<1>1. OnList' \subseteq OnList /\ Acts(t)
  BY OnListUnlinked DEF Acts, WalkStep
<1>2. /\ Walking(t) /\ pc[t] = "test" /\ pc'[t] = "delete" /\ prev' = prev
      /\ stays'[t] \subseteq stays[t] /\ passed' = passed
  BY DEF Unlink, IInv, TypeOK
<1>3. \A n \in OnList : Behind(rank, n, t)' <=> Behind(rank, n, t)
  BY <1>2 DEF Behind
<1>4. \A n \in OnList : /\ n \in stays[t] /\ Behind(rank, n, t) => n \in passed[t]
                        /\ ~Behind(rank, n, t) => n \notin passed[t]
  BY <1>2 DEF Scanned
<1>5. \A n \in OnList' : /\ n \in stays'[t] /\ Behind(rank, n, t)' => n \in passed'[t]
                         /\ ~Behind(rank, n, t)' => n \notin passed'[t]
  BY <1>1, <1>2, <1>3, <1>4
<1> QED BY <1>1, <1>5, ScannedKept

\* Nobody holds the head while a node is pushed: every traversal is past it.
LEMMA PastTheHead ==
  ASSUME IInv, lock[BeforeBegin] = NoThread, NEW u \in Threads
  PROVE  /\ Held(u) \subseteq OnList
         /\ Walking(u) => /\ pc[u] = "visit" => cur[u] \in OnList
                          /\ pc[u] # "visit" => prev[u] \in OnList
<1>1. BeforeBegin \notin Held(u)
  BY DEF IInv, LocksHeld
<1>2. Held(u) \subseteq OnList
  BY <1>1, TraversalsOnList DEF Linked
<1> QED BY <1>2, TraversalsOnList

\* A push keeps the scans: every traversal is past the new node, which it need not meet.
LEMMA ScannedPush ==
  ASSUME IInv, NEW t \in Threads, PushNodeFront(t), NEW rank \in [Cells -> Int],
         Ordered(rank), Scanned(rank), Traversals,
         NEW c, c = cur[t], NEW new, new = Pushed(rank, c)
  PROVE  Scanned(new)'
<1>1. /\ OnList' = OnList \cup {c} /\ c \in Nodes \ OnList
      /\ next' = [next EXCEPT ![c] = next[BeforeBegin], ![BeforeBegin] = c]
      /\ pc[t] = "push" /\ pc'[t] = "idle" /\ stays' = stays /\ passed' = passed
      /\ lock[BeforeBegin] = NoThread /\ Acts(t)
  BY OnListPushed DEF PushNodeFront, Acts, IInv, TypeOK
<1>2. \A n \in OnList : new[n] = rank[n] /\ new[c] < rank[n]
  BY <1>1, PushOrder
<1> SUFFICES ASSUME NEW u \in Threads, Walking(u)', NEW n \in OnList'
             PROVE  /\ n \in stays'[u] /\ Behind(new, n, u)' => n \in passed'[u]
                    /\ ~Behind(new, n, u)' => n \notin passed'[u]
  BY DEF Scanned
<1>3. u # t
  BY <1>1
<1>4. pc'[u] = pc[u] /\ cur'[u] = cur[u] /\ prev'[u] = prev[u] /\ Walking(u)
  BY <1>1, <1>3, OthersStay
<1>5. /\ pc[u] = "visit" => cur[u] \in OnList
      /\ pc[u] # "visit" => prev[u] \in OnList
  BY <1>1, <1>4, PastTheHead
<1>6. CASE n = c
  <2>1. c \notin stays[u]
    BY <1>1 DEF Traversals
  <2>2. \A m \in OnList : new[c] < new[m] /\ new[c] \in Int /\ new[m] \in Int
    <3>1. new \in [Cells -> Int] /\ OnList \subseteq Cells /\ c \in Cells
      BY <1>1, PushOrder DEF OnList
    <3> QED BY <1>2, <3>1
  <2>3. \A m \in OnList : new[c] <= new[m]
    BY <2>2
  <2>4. Behind(new, n, u)'
    <3>1. CASE pc[u] = "visit"
      BY <1>4, <1>5, <1>6, <2>2, <3>1 DEF Behind
    <3>2. CASE pc[u] # "visit"
      BY <1>4, <1>5, <1>6, <2>3, <3>2 DEF Behind
    <3> QED BY <3>1, <3>2
  <2> QED BY <1>1, <1>6, <2>1, <2>4
<1>7. CASE n \in OnList
  <2>1. Behind(new, n, u)' <=> Behind(rank, n, u)
    <3>1. CASE pc[u] = "visit"
      BY <1>2, <1>4, <1>5, <1>7, <3>1 DEF Behind
    <3>2. CASE pc[u] # "visit"
      BY <1>2, <1>4, <1>5, <1>7, <3>2 DEF Behind
    <3> QED BY <3>1, <3>2
  <2>2. /\ n \in stays[u] /\ Behind(rank, n, u) => n \in passed[u]
        /\ ~Behind(rank, n, u) => n \notin passed[u]
    BY <1>4, <1>7 DEF Scanned
  <2> QED BY <1>1, <2>1, <2>2
<1> QED BY <1>1, <1>6, <1>7

-----------------------------------------------------------------------------
(* Every step keeps the turns *)

\* Who is nowhere in the list holds nothing; and what a thread holds is ranked.
LEMMA HeldRanked ==
  ASSUME IInv, NEW rank \in [Cells -> Int], NEW u \in Threads
  PROVE  /\ ~Walking(u) => Held(u) = {}
         /\ \A n \in Held(u) : rank[n] \in Int
<1>1. Held(u) \subseteq Linked /\ Linked \subseteq Cells
  BY TraversalsOnList DEF Linked, OnList
<1>2. ~Walking(u) => Held(u) = {}
  BY DEF Held
<1> QED BY <1>1, <1>2

\* A step of t keeps the turns while t holds no lower node and the others no others, if
\* what t holds is still before what those that began before it hold.
LEMMA TurnKept ==
  ASSUME IInv, NEW t \in Threads, Acts(t), ~PushNodeFront(t), NEW rank \in [Cells -> Int],
         InTurn(rank), Traversals, before'[t] \subseteq before[t],
         \A n \in Held(t)' : n \in Linked /\ \E m \in Held(t) : rank[m] <= rank[n],
         \A v \in before[t] : \A n \in Held(t)', k \in Held(v) : rank[n] < rank[k]
  PROVE  InTurn(rank)'
<1> SUFFICES ASSUME NEW u \in Threads, NEW v \in before'[u], NEW m \in Held(u)', NEW n \in Held(v)'
             PROVE  rank[m] < rank[n]
  BY DEF InTurn
<1>1. v \in before[u] /\ v # u /\ v \in Threads
  <2>1. before'[u] \subseteq before[u]
    BY OthersStay
  <2> QED BY <2>1 DEF Traversals, IInv, TypeOK
<1>2. CASE u = t
  <2>1. Held(v)' = Held(v)
    BY <1>1, <1>2, OthersStay
  <2> QED BY <1>1, <1>2, <2>1
<1>3. CASE u # t
  <2>1. Held(u)' = Held(u)
    BY <1>3, OthersStay
  <2>2. CASE v = t
    <3>1. n \in Linked /\ \E k \in Held(t) : rank[k] <= rank[n]
      BY <2>2
    <3>2. PICK k \in Held(t) : rank[k] <= rank[n]
      BY <3>1
    <3>3. rank[m] < rank[k]
      BY <1>1, <2>1, <2>2 DEF InTurn
    <3>4. rank[m] \in Int /\ rank[k] \in Int /\ rank[n] \in Int
      <4>1. Linked \subseteq Cells
        BY DEF Linked, OnList
      <4> QED BY <2>1, <3>1, <4>1, HeldRanked
    <3> QED BY <3>2, <3>3, <3>4
  <2>3. CASE v # t
    <3>1. Held(v)' = Held(v)
      BY <1>1, <2>3, OthersStay
    <3> QED BY <1>1, <2>1, <3>1 DEF InTurn
  <2> QED BY <2>2, <2>3
<1> QED BY <1>2, <1>3

\* A step after which t holds nothing new keeps the turns.
LEMMA TurnLess ==
  ASSUME IInv, NEW t \in Threads, Acts(t), ~PushNodeFront(t), NEW rank \in [Cells -> Int],
         InTurn(rank), Traversals, before'[t] \subseteq before[t], Held(t)' \subseteq Held(t)
  PROVE  InTurn(rank)'
<1>1. \A n \in Held(t)' : n \in Linked /\ \E m \in Held(t) : rank[m] <= rank[n]
  <2>1. \A n \in Held(t) : n \in Linked /\ rank[n] \in Int
    BY TraversalsOnList, HeldRanked
  <2>2. \A n \in Held(t) : rank[n] <= rank[n]
    BY <2>1
  <2> QED BY <2>1, <2>2
<1>2. \A v \in before[t] : \A n \in Held(t)', k \in Held(v) : rank[n] < rank[k]
  BY DEF InTurn
<1> QED BY <1>1, <1>2, TurnKept

\* Locking the next node: those that began before are past it, since they do not hold it.
LEMMA TurnLockNext ==
  ASSUME IInv, NEW t \in Threads, LockNext(t), NEW rank \in [Cells -> Int],
         Ordered(rank), InTurn(rank), Traversals
  PROVE  InTurn(rank)'
<1> DEFINE c == cur[t]
<1>1. /\ pc[t] = "lock_next" /\ before' = before /\ lock[c] = NoThread
      /\ Held(t) = {prev[t]} /\ Held(t)' = {prev[t], c}
      /\ Acts(t) /\ ~PushNodeFront(t)
  BY DEF LockNext, Held, IInv, TypeOK, Acts, WalkStep, PushNodeFront
<1>2. /\ prev[t] \in Linked /\ c \in OnList /\ next[prev[t]] = c /\ c # NoNode
      /\ Linked \subseteq Cells /\ OnList \subseteq Linked
  BY <1>1, TraversalsOnList DEF OnList, Linked
<1>3. rank[prev[t]] < rank[c] /\ rank[prev[t]] \in Int /\ rank[c] \in Int
  BY <1>2 DEF Ordered
<1>4. rank[prev[t]] <= rank[prev[t]] /\ rank[prev[t]] <= rank[c]
  BY <1>3
<1>5. \A n \in Held(t)' : n \in Linked /\ \E m \in Held(t) : rank[m] <= rank[n]
  BY <1>1, <1>2, <1>4
<1>6. ASSUME NEW v \in before[t], NEW k \in Held(v)
      PROVE  rank[prev[t]] < rank[k] /\ rank[c] < rank[k]
  <2>1. v \in Threads /\ rank[prev[t]] < rank[k]
    BY <1>1 DEF InTurn, IInv, TypeOK
  <2>2. k \in Linked /\ rank[k] \in Int
    BY <1>2, <2>1, TraversalsOnList
  <2>3. k # BeforeBegin
    <3>1. prev[t] = BeforeBegin \/ rank[BeforeBegin] < rank[prev[t]]
      BY <1>2 DEF Ordered, Linked
    <3>2. k = BeforeBegin => ~(rank[prev[t]] < rank[k])
      BY <1>2, <1>3, <2>1, <2>2, <3>1
    <3> QED BY <2>1, <3>2
  <2>4. rank[c] <= rank[k]
    BY <1>2, <2>1, <2>2, <2>3 DEF Ordered, Linked
  <2>5. k # c
    <3>1. lock[k] = v
      BY <1>2, <2>1, <2>2 DEF IInv, LocksHeld
    <3> QED BY <1>1, <2>1, <3>1
  <2>6. rank[k] # rank[c]
    BY <1>2, <2>2, <2>5 DEF Ordered
  <2> QED BY <1>3, <2>1, <2>2, <2>4, <2>6
<1>7. \A v \in before[t] : \A n \in Held(t)', k \in Held(v) : rank[n] < rank[k]
  BY <1>1, <1>6
<1>8. before'[t] \subseteq before[t]
  BY <1>1
<1> QED BY <1>1, <1>5, <1>7, <1>8, TurnKept

\* A traversal that begins holds the head, and the others are past it.
LEMMA TurnEnter ==
  ASSUME IInv, NEW t \in Threads, Enter(t), NEW rank \in [Cells -> Int],
         Ordered(rank), InTurn(rank), Traversals
  PROVE  InTurn(rank)'
<1>1. /\ pc[t] = "idle" /\ lock[BeforeBegin] = NoThread /\ Held(t)' = {BeforeBegin}
      /\ before'[t] = {u \in Threads : Walking(u)} /\ Acts(t)
      /\ \A u \in Threads \ {t} : before'[u] = before[u]
  BY DEF Enter, Held, IInv, TypeOK, Acts
<1> SUFFICES ASSUME NEW u \in Threads, NEW v \in before'[u], NEW m \in Held(u)', NEW n \in Held(v)'
             PROVE  rank[m] < rank[n]
  BY DEF InTurn
<1>2. CASE u = t
  <2>1. v \in Threads /\ v # t /\ m = BeforeBegin
    BY <1>1, <1>2
  <2>2. n \in OnList
    BY <1>1, <2>1, OthersStay, PastTheHead
  <2> QED BY <2>1, <2>2 DEF Ordered
<1>3. CASE u # t
  <2>1. v \in before[u] /\ v \in Threads /\ v # t
    BY <1>1, <1>3 DEF Traversals, IInv, TypeOK
  <2>2. Held(u)' = Held(u) /\ Held(v)' = Held(v)
    BY <1>1, <1>3, <2>1, OthersStay
  <2> QED BY <2>1, <2>2 DEF InTurn
<1> QED BY <1>2, <1>3

\* A push changes no rank that counts.
LEMMA TurnPush ==
  ASSUME IInv, NEW t \in Threads, PushNodeFront(t), NEW rank \in [Cells -> Int],
         Ordered(rank), InTurn(rank), Traversals,
         NEW c, c = cur[t], NEW new, new = Pushed(rank, c)
  PROVE  InTurn(new)'
<1>1. /\ OnList' = OnList \cup {c} /\ c \in Nodes \ OnList
      /\ next' = [next EXCEPT ![c] = next[BeforeBegin], ![BeforeBegin] = c]
      /\ pc[t] = "push" /\ pc'[t] = "idle" /\ before' = before
      /\ lock[BeforeBegin] = NoThread /\ Acts(t)
  BY OnListPushed DEF PushNodeFront, Acts, IInv, TypeOK
<1>2. \A n \in OnList : new[n] = rank[n]
  BY <1>1, PushOrder
<1>3. \A u \in Threads : Held(u)' = Held(u) /\ Held(u) \subseteq OnList
  <2>1. Held(t)' = {} /\ Held(t) = {}
    BY <1>1 DEF Held
  <2> QED BY <1>1, <2>1, OthersStay, PastTheHead
<1> SUFFICES ASSUME NEW u \in Threads, NEW v \in before'[u], NEW m \in Held(u)', NEW n \in Held(v)'
             PROVE  new[m] < new[n]
  BY DEF InTurn
<1>4. v \in Threads /\ v \in before[u]
  BY <1>1 DEF IInv, TypeOK
<1>5. m \in Held(u) /\ n \in Held(v) /\ m \in OnList /\ n \in OnList
  BY <1>3, <1>4
<1>6. rank[m] < rank[n]
  BY <1>4, <1>5 DEF InTurn
<1> QED BY <1>2, <1>5, <1>6

\* The other actions.
LEMMA TurnSame ==
  ASSUME IInv, NEW t \in Threads, Acts(t), ~PushNodeFront(t), NEW rank \in [Cells -> Int],
         Ordered(rank), InTurn(rank), Traversals
  PROVE  InTurn(rank)'
<1> USE DEF IInv, TypeOK
<1>1. CASE Enter(t)
  BY <1>1, TurnEnter
<1>2. CASE LockNext(t)
  BY <1>2, TurnLockNext
<1>3. CASE ~Enter(t) /\ ~LockNext(t)
  <2>1. ASSUME NEW left, Leave(t, left)
        PROVE  before'[t] \subseteq before[t] /\ Held(t)' \subseteq Held(t)
    BY <2>1 DEF Leave, Held
  <2>2. ASSUME NEW unlocked, GoOn(t, unlocked), pc[t] \in {"visit", "test"}
        PROVE  before'[t] \subseteq before[t] /\ Held(t)' \subseteq Held(t)
    BY <2>2 DEF GoOn, Held
  <2>3. before'[t] \subseteq before[t] /\ Held(t)' \subseteq Held(t)
    <3>1. CASE \E left : Leave(t, left)
      BY <2>1, <3>1
    <3>2. CASE Visit(t) \/ Keep(t) \/ Throw(t)
      BY <2>1, <2>2, <3>2 DEF Visit, Keep, Throw
    <3>3. CASE BuildNode(t)
      BY <3>3 DEF BuildNode, Held
    <3>4. CASE (Step(t) \/ LetGo(t) \/ Unlink(t) \/ Delete(t)) /\ ~\E left : Leave(t, left)
      BY <3>4 DEF Step, LetGo, Unlink, Delete, Held
    <3> QED BY <1>3, <3>1, <3>2, <3>3, <3>4 DEF Acts, WalkStep
  <2> QED BY <2>3, TurnLess
<1> QED BY <1>1, <1>2, <1>3

-----------------------------------------------------------------------------
(* Every step keeps what is said of the traversals *)

\* The traversal that steps.
MineKept(t) ==
  /\ stays'[t] \subseteq OnList'
  /\ \A n \in stays'[t] \cap passed'[t] : data[n] \notin wanted'[t]
  /\ ~Walking(t)' => stays'[t] = {} /\ passed'[t] = {} /\ before'[t] = {}
  /\ \A u \in before'[t] : Walking(u)' /\ u # t

\* A traversal that ends forgets all.
LEMMA MineLeft ==
  ASSUME IInv, NEW t \in Threads, NEW left, Leave(t, left)
  PROVE  MineKept(t)
BY DEF Leave, MineKept, IInv, TypeOK

\* A traversal that goes on has found its node not accepted.
LEMMA MineGoneOn ==
  ASSUME IInv, NEW t \in Threads, NEW unlocked, GoOn(t, unlocked), Acts(t), Walking(t),
         ~Accepted(t), OnList' = OnList, Traversals
  PROVE  MineKept(t)
<1>1. /\ stays' = stays /\ passed'[t] = passed[t] \cup {cur[t]} /\ wanted' = wanted
      /\ before' = before /\ pc'[t] = "step"
  BY DEF GoOn, IInv, TypeOK
<1>2. \A u \in before[t] : u \in Threads /\ Walking(u) /\ u # t
  BY DEF Traversals, IInv, TypeOK
<1>3. \A u \in before[t] : Walking(u)'
  <2>1. \A u \in Threads \ {t} : pc'[u] = pc[u]
    BY OthersStay
  <2> QED BY <1>2, <2>1
<1>4. stays[t] \subseteq OnList /\ \A n \in stays[t] \cap passed[t] : data[n] \notin wanted[t]
  BY DEF Traversals
<1>5. data[cur[t]] \notin wanted[t]
  BY DEF Accepted
<1> QED BY <1>1, <1>2, <1>3, <1>4, <1>5 DEF MineKept

\* The same for each of the steps of a thread.
LEMMA MineStep ==
  ASSUME IInv, NEW t \in Threads, Acts(t), Traversals,
         NEW rank \in [Cells -> Int], Ordered(rank)
  PROVE  MineKept(t)
<1>0. Reach(BeforeBegin) \subseteq OnList
  <2>1. BeforeBegin \in Linked
    BY DEF Linked
  <2> QED BY <2>1, ReachByRank
<1> USE DEF IInv, TypeOK
<1>1. \A u \in Threads \ {t} : pc'[u] = pc[u]
  BY OthersStay
<1>2. /\ stays[t] \subseteq OnList
      /\ \A n \in stays[t] \cap passed[t] : data[n] \notin wanted[t]
      /\ ~Walking(t) => stays[t] = {} /\ passed[t] = {} /\ before[t] = {}
      /\ \A u \in before[t] : u \in Threads /\ Walking(u) /\ u # t
  BY DEF Traversals
<1>3. \A u \in before[t] : Walking(u)'
  BY <1>1, <1>2
<1>4. CASE \E left : Leave(t, left)
  BY <1>4, MineLeft
<1>5. CASE Visit(t) \/ Keep(t) \/ Throw(t)
  <2>1. OnList' = OnList /\ Walking(t)
    <3>1. ~PushNodeFront(t) /\ ~Unlink(t)
      BY <1>5 DEF Visit, Keep, Throw, PushNodeFront, Unlink, GoOn, Leave
    <3> QED BY <1>5, <3>1, OnListSame DEF Visit, Keep, Throw
  <2> QED BY <1>4, <1>5, <2>1, MineGoneOn DEF Visit, Keep, Throw
<1>6. CASE Enter(t)
  <2>1. /\ stays'[t] = Reach(BeforeBegin) /\ passed'[t] = {} /\ pc'[t] = "step"
        /\ before'[t] = {u \in Threads : Walking(u)} /\ pc[t] = "idle"
    BY <1>2, <1>6 DEF Enter
  <2>2. \A u \in before'[t] : Walking(u)' /\ u # t
    BY <1>1, <2>1
  <2>3. Reach(BeforeBegin) \subseteq OnList'
    <3>1. ~PushNodeFront(t) /\ ~Unlink(t)
      BY <2>1 DEF PushNodeFront, Unlink
    <3> QED BY <1>0, <3>1, OnListSame
  <2> QED BY <2>1, <2>2, <2>3 DEF MineKept
<1>7. CASE BuildNode(t) \/ PushNodeFront(t)
  <2>1. /\ stays' = stays /\ passed' = passed /\ before' = before /\ ~Walking(t) /\ ~Walking(t)'
    BY <1>7 DEF BuildNode, PushNodeFront
  <2> QED BY <1>2, <1>3, <2>1 DEF MineKept
<1>8. CASE (Step(t) \/ LockNext(t) \/ LetGo(t) \/ Delete(t)) /\ ~\E left : Leave(t, left)
  <2>1. /\ stays' = stays /\ passed' = passed /\ before' = before /\ wanted' = wanted
        /\ Walking(t)'
    BY <1>8 DEF Step, LockNext, LetGo, Delete
  <2>2. OnList' = OnList
    <3>1. ~PushNodeFront(t) /\ ~Unlink(t)
      BY <1>8 DEF Step, LockNext, LetGo, Delete, PushNodeFront, Unlink
    <3> QED BY <3>1, OnListSame
  <2> QED BY <1>2, <1>3, <2>1, <2>2 DEF MineKept
<1>9. CASE Unlink(t)
  <2>1. /\ stays'[t] = stays[t] \ {cur[t]} /\ passed' = passed /\ before' = before
        /\ wanted' = wanted /\ Walking(t)'
    BY <1>9 DEF Unlink
  <2>2. OnList' = OnList \ {cur[t]}
    BY <1>9, OnListUnlinked
  <2> QED BY <1>2, <1>3, <2>1, <2>2 DEF MineKept
<1> QED BY <1>4, <1>5, <1>6, <1>7, <1>8, <1>9 DEF Acts, WalkStep

\* Every step keeps it, for every thread.
LEMMA TraversalsStep ==
  ASSUME IInv, NEW t \in Threads, Acts(t), Traversals,
         NEW rank \in [Cells -> Int], Ordered(rank)
  PROVE  Traversals'
<1> SUFFICES ASSUME NEW u \in Threads
             PROVE  /\ stays'[u] \subseteq OnList'
                    /\ \A n \in stays'[u] \cap passed'[u] : data'[n] \notin wanted'[u]
                    /\ ~Walking(u)' => stays'[u] = {} /\ passed'[u] = {} /\ before'[u] = {}
                    /\ \A v \in before'[u] : Walking(v)' /\ v # u
  BY DEF Traversals
<1>1. /\ stays[u] \subseteq OnList
      /\ \A n \in stays[u] \cap passed[u] : data[n] \notin wanted[u]
      /\ ~Walking(u) => stays[u] = {} /\ passed[u] = {} /\ before[u] = {}
      /\ \A v \in before[u] : Walking(v) /\ v # u /\ v \in Threads
  BY DEF Traversals, IInv, TypeOK
<1>2. stays'[t] \subseteq OnList' /\ MineKept(t)
  BY MineStep DEF MineKept
<1>3. \A n \in OnList : data'[n] = data[n]
  <2>1. CASE BuildNode(t)
    BY <2>1 DEF BuildNode, IInv, TypeOK, OnList
  <2>2. CASE ~BuildNode(t)
    <3>1. data' = data
      BY <2>2 DEF Acts, WalkStep, PushNodeFront, Enter, Throw, Step, LockNext, LetGo, Visit,
           GoOn, Keep, Unlink, Delete
    <3> QED BY <3>1
  <2> QED BY <2>1, <2>2
<1>4. CASE u = t
  <2>1. \A n \in stays'[t] : data'[n] = data[n]
    <3>1. CASE PushNodeFront(t)
      BY <3>1 DEF PushNodeFront
    <3>2. CASE ~PushNodeFront(t)
      <4>1. OnList' \subseteq OnList
        BY <3>2, OnListSame, OnListUnlinked
      <4> QED BY <1>2, <1>3, <4>1
    <3> QED BY <3>1, <3>2
  <2> QED BY <1>2, <1>4, <2>1 DEF MineKept
<1>5. CASE u # t
  <2>1. /\ pc'[u] = pc[u] /\ wanted'[u] = wanted[u] /\ passed'[u] = passed[u]
        /\ stays'[u] \subseteq stays[u] /\ before'[u] \subseteq before[u]
    BY <1>5, OthersStay
  <2>2. stays'[u] \subseteq OnList'
    <3>1. CASE Unlink(t)
      <4>1. stays'[u] = stays[u] \ {cur[t]} /\ OnList' = OnList \ {cur[t]}
        BY <3>1, OnListUnlinked DEF Unlink
      <4> QED BY <1>1, <4>1
    <3>2. CASE ~Unlink(t)
      <4>1. OnList \subseteq OnList'
        BY <3>2, OnListSame, OnListPushed
      <4> QED BY <1>1, <2>1, <4>1
    <3> QED BY <3>1, <3>2
  <2>3. \A n \in stays'[u] \cap passed'[u] : data'[n] \notin wanted'[u]
    BY <1>1, <1>3, <2>1
  <2>4. ~Walking(u)' => stays'[u] = {} /\ passed'[u] = {} /\ before'[u] = {}
    BY <1>1, <2>1
  <2>5. \A v \in before'[u] : Walking(v)' /\ v # u
    <3>1. \A v \in Threads \ {t} : pc'[v] = pc[v]
      BY OthersStay
    <3>2. t \in before'[u] => Walking(t)'
      <4>1. t \in before'[u] => t \in before[u] /\ Walking(t)
        BY <1>1, <2>1
      <4>2. (\E left : Leave(t, left)) => t \notin before'[u]
        BY <1>5 DEF Leave
      <4>3. Walking(t) /\ ~Walking(t)' => \E left : Leave(t, left)
        <5> SUFFICES ASSUME Walking(t), ~Walking(t)' PROVE \E left : Leave(t, left)
          OBVIOUS
        <5> USE DEF IInv, TypeOK
        <5>1. ~BuildNode(t) /\ ~PushNodeFront(t) /\ ~Enter(t)
          BY DEF BuildNode, PushNodeFront, Enter
        <5>2. ~LockNext(t) /\ ~LetGo(t) /\ ~Keep(t) /\ ~Unlink(t)
          BY DEF LockNext, LetGo, Keep, GoOn, Unlink
        <5>3. Step(t) \/ Delete(t) \/ Visit(t) \/ Throw(t) => \E left : Leave(t, left)
          BY DEF Step, Delete, Visit, GoOn, Throw
        <5> QED BY <5>1, <5>2, <5>3 DEF Acts, WalkStep
      <4> QED BY <4>1, <4>2, <4>3
    <3> QED BY <1>1, <2>1, <3>1, <3>2
  <2> QED BY <2>2, <2>3, <2>4, <2>5
<1> QED BY <1>4, <1>5

-----------------------------------------------------------------------------
(* What follows for the traversals *)

\* The strengthening for the traversals: an order of the list that they keep to.
Ranks == Ranked /\ Traversals

\* On the empty list no ranks are needed.
LEMMA InitRanks == Init => Ranks
<1> SUFFICES ASSUME Init PROVE Ranks
  OBVIOUS
<1> DEFINE rank == [c \in Cells |-> 0]
<1>1. OnList = {} /\ Linked = {BeforeBegin} /\ \A m \in Cells : next[m] = NoNode
  BY DEF Init, OnList, Linked
<1>2. rank \in [Cells -> Int] /\ Ordered(rank)
  BY <1>1 DEF Ordered
<1>3. Scanned(rank) /\ InTurn(rank)
  BY <1>1 DEF Init, Scanned, InTurn
<1>4. Traversals
  BY DEF Init, Traversals
<1> QED BY <1>2, <1>3, <1>4 DEF Ranks, Ranked

\* One step of one thread.
LEMMA RanksStep ==
  ASSUME IInv, Ranks, NEW t \in Threads, Acts(t)
  PROVE  Ranks'
<1>1. PICK rank \in [Cells -> Int] : Ordered(rank) /\ Scanned(rank) /\ InTurn(rank)
  BY DEF Ranks, Ranked
<1>2. Traversals
  BY DEF Ranks
<1>3. Traversals'
  BY <1>1, <1>2, TraversalsStep
<1>4. Ranked'
  <2>1. CASE PushNodeFront(t)
    <3>1. PICK c : c = cur[t]
      OBVIOUS
    <3>2. PICK new : new = Pushed(rank, c)
      OBVIOUS
    <3>3. /\ OnList' = OnList \cup {c} /\ c \in Nodes \ OnList
          /\ next' = [next EXCEPT ![c] = next[BeforeBegin], ![BeforeBegin] = c]
      BY <2>1, <3>1, OnListPushed DEF PushNodeFront
    <3>4. new \in [Cells -> Int] /\ Ordered(new)'
      BY <1>1, <3>2, <3>3, PushOrder
    <3>5. Scanned(new)' /\ InTurn(new)'
      BY <1>1, <1>2, <2>1, <3>1, <3>2, ScannedPush, TurnPush
    <3> QED BY <3>4, <3>5 DEF Ranked
  <2>2. CASE Unlink(t)
    <3>1. PICK p, c : p = prev[t] /\ c = cur[t]
      OBVIOUS
    <3>2. /\ OnList' = OnList \ {c} /\ c \in OnList /\ p \in Linked /\ next[p] = c
          /\ next' = [next EXCEPT ![p] = next[c], ![c] = NoNode]
      BY <2>2, <3>1, OnListUnlinked, TraversalsOnList DEF Unlink
    <3>3. Ordered(rank)'
      BY <1>1, <3>2, UnlinkOrder
    <3>4. Scanned(rank)'
      BY <1>1, <2>2, ScannedUnlink
    <3>5. InTurn(rank)'
      <4>1. ~PushNodeFront(t)
        BY <2>2 DEF Unlink, PushNodeFront
      <4> QED BY <1>1, <1>2, <4>1, TurnSame
    <3> QED BY <1>1, <3>3, <3>4, <3>5 DEF Ranked
  <2>3. CASE ~PushNodeFront(t) /\ ~Unlink(t)
    <3>1. OnList' = OnList /\ next' = next
      BY <2>3, OnListSame
    <3>2. Ordered(rank)'
      BY <1>1, <3>1, SameOrder
    <3>3. Scanned(rank)' /\ InTurn(rank)'
      BY <1>1, <1>2, <2>3, ScannedSame, TurnSame
    <3> QED BY <1>1, <3>2, <3>3 DEF Ranked
  <2> QED BY <2>1, <2>2, <2>3
<1> QED BY <1>3, <1>4 DEF Ranks

\* A step is one of a thread's.
LEMMA StepOfOne == Next => \E t \in Threads : Acts(t)
BY DEF Next, Acts, Threads

\* There is always such an order.
LEMMA RanksNext == IInv /\ Ranks /\ [Next]_vars => Ranks'
<1> SUFFICES ASSUME IInv, Ranks, [Next]_vars PROVE Ranks'
  OBVIOUS
<1>1. CASE UNCHANGED vars
  <2>1. OnList' = OnList /\ next' = next /\ stays' = stays /\ passed' = passed /\ pc' = pc
        /\ cur' = cur /\ prev' = prev /\ before' = before /\ data' = data /\ wanted' = wanted
    BY <1>1 DEF vars, OnList, Doomed
  <2>2. Traversals'
    BY <2>1 DEF Ranks, Traversals
  <2>3. PICK rank \in [Cells -> Int] : Ordered(rank) /\ Scanned(rank) /\ InTurn(rank)
    BY DEF Ranks, Ranked
  <2>4. Ordered(rank)'
    BY <2>1, <2>3, SameOrder
  <2>5. Scanned(rank)'
    BY <2>1, <2>3 DEF Scanned, Behind
  <2>6. InTurn(rank)'
    BY <2>1, <2>3 DEF InTurn, Held
  <2> QED BY <2>2, <2>3, <2>4, <2>5, <2>6 DEF Ranks, Ranked
<1>2. CASE Next
  BY <1>2, StepOfOne, RanksStep
<1> QED BY <1>1, <1>2

\* In every reachable state the list has an order that its traversals keep to.
THEOREM RanksHold == Spec => []Ranks
  BY InitRanks, RanksNext, InvariantHolds, PTL DEF Spec

\* A traversal that meets the end of the list has gone past every node that was on it all
\* along and none of those is one it looks for; and it meets no node twice.
THEOREM MeetsEachOnce == Spec => []EachOnce
<1>1. IInv /\ Ranks => EachOnce
  <2> SUFFICES ASSUME IInv, Ranks, NEW t \in Threads
               PROVE  /\ At(t, "step") /\ next[prev[t]] = NoNode =>
                           \A n \in stays[t] : n \in passed[t] /\ data[n] \notin wanted[t]
                      /\ pc[t] \in {"visit", "test"} => cur[t] \notin passed[t]
    BY DEF EachOnce
  <2>1. PICK rank \in [Cells -> Int] : Ordered(rank) /\ Scanned(rank)
    BY DEF Ranks, Ranked
  <2>2. /\ stays[t] \subseteq OnList /\ OnList \subseteq Linked /\ Linked \subseteq Cells
        /\ \A n \in stays[t] \cap passed[t] : data[n] \notin wanted[t]
    BY DEF Ranks, Traversals, OnList, Linked
  <2>3. Walking(t) =>
          \A n \in OnList : /\ n \in stays[t] /\ Behind(rank, n, t) => n \in passed[t]
                            /\ ~Behind(rank, n, t) => n \notin passed[t]
    BY <2>1 DEF Scanned
  <2>4. ASSUME At(t, "step"), next[prev[t]] = NoNode, NEW n \in stays[t]
        PROVE  n \in passed[t] /\ data[n] \notin wanted[t]
    <3>1. prev[t] \in Linked /\ n \in OnList
      BY <2>2, <2>4, TraversalsOnList
    <3>2. ~(rank[prev[t]] < rank[n])
      BY <2>1, <2>4, <3>1 DEF Ordered
    <3>3. rank[n] <= rank[prev[t]]
      BY <2>2, <3>1, <3>2
    <3>4. n \in passed[t]
      BY <2>3, <2>4, <3>1, <3>3 DEF Behind
    <3> QED BY <2>2, <3>4
  <2>5. ASSUME pc[t] \in {"visit", "test"}
        PROVE  cur[t] \notin passed[t]
    <3>1. cur[t] \in OnList /\ rank[cur[t]] \in Int
      BY <2>2, <2>5, TraversalsOnList
    <3>2. ~Behind(rank, cur[t], t)
      <4>1. CASE pc[t] = "visit"
        BY <3>1, <4>1 DEF Behind
      <4>2. CASE pc[t] = "test"
        <5>1. prev[t] \in Linked /\ next[prev[t]] = cur[t] /\ cur[t] # NoNode
          BY <3>1, <4>2, TraversalsOnList DEF OnList
        <5>2. rank[prev[t]] < rank[cur[t]] /\ rank[prev[t]] \in Int
          BY <2>1, <2>2, <5>1 DEF Ordered
        <5> QED BY <3>1, <4>2, <5>2 DEF Behind
      <4> QED BY <2>5, <4>1, <4>2
    <3> QED BY <2>3, <2>5, <3>1, <3>2
  <2> QED BY <2>4, <2>5
<1> QED BY <1>1, InvariantHolds, RanksHold, PTL

\* Traversals do not overtake each other.
THEOREM NobodyOvertakes == Spec => []NoOvertaking
<1>1. IInv /\ Ranks => NoOvertaking
  <2> SUFFICES ASSUME IInv, Ranks, NEW u \in Threads, NEW t \in before[u],
                      NEW m \in Held(u), NEW n \in Held(t)
               PROVE  m # n /\ n \in Reach(m)
    BY DEF NoOvertaking
  <2>1. PICK rank \in [Cells -> Int] : Ordered(rank) /\ InTurn(rank)
    BY DEF Ranks, Ranked
  <2>2. rank[m] < rank[n]
    BY <2>1 DEF InTurn
  <2>3. t \in Threads
    BY DEF IInv, TypeOK
  <2>4. m \in Linked /\ n \in Linked /\ rank[m] \in Int /\ rank[n] \in Int
    <3>1. Linked \subseteq Cells
      BY DEF Linked, OnList
    <3> QED BY <2>3, <3>1, TraversalsOnList
  <2>5. n # BeforeBegin
    <3>1. m = BeforeBegin \/ rank[BeforeBegin] < rank[m]
      BY <2>1, <2>4 DEF Ordered, Linked
    <3>2. n = BeforeBegin => FALSE
      BY <2>2, <2>4, <3>1
    <3> QED BY <3>2
  <2>6. n \in OnList /\ rank[m] <= rank[n] /\ m # n
    BY <2>2, <2>4, <2>5 DEF Linked
  <2>7. Reach(m) = {k \in OnList : rank[m] <= rank[k]}
    BY <2>1, <2>4, ReachByRank
  <2> QED BY <2>6, <2>7
<1> QED BY <1>1, InvariantHolds, RanksHold, PTL

\* The ways in which one step may change the list.
OneChange ==
  \/ Listed' = Listed /\ Ahead' = Ahead
  \/ \E n \in Nodes \ Listed :
       Listed' = Listed \cup {n} /\ Ahead' = Ahead \cup ({n} \X Listed)
  \/ \E n \in Listed :
       Listed' = Listed \ {n} /\ Ahead' = Ahead \cap (Listed' \X Listed')

\* Each step of a thread changes the list in one of these ways.
LEMMA OneChangeStep ==
  ASSUME IInv, Ranks, ByRank, ByRank', NEW t \in Threads, Acts(t)
  PROVE  OneChange
<1>1. PICK rank \in [Cells -> Int] : Ordered(rank)
  BY DEF Ranks, Ranked
<1>2. /\ Listed = OnList
      /\ Ahead = {p \in OnList \X OnList : rank[p[1]] < rank[p[2]]}
  BY <1>1 DEF ByRank
<1>3. ASSUME NEW new \in [Cells -> Int], Ordered(new)'
      PROVE  /\ Listed' = OnList'
             /\ Ahead' = {p \in OnList' \X OnList' : new[p[1]] < new[p[2]]}
  BY <1>3 DEF ByRank
<1>4. CASE PushNodeFront(t)
  <2>1. PICK c : c = cur[t]
    OBVIOUS
  <2>2. PICK new : new = Pushed(rank, c)
    OBVIOUS
  <2>3. /\ OnList' = OnList \cup {c} /\ c \in Nodes \ OnList
        /\ next' = [next EXCEPT ![c] = next[BeforeBegin], ![BeforeBegin] = c]
    BY <1>4, <2>1, OnListPushed DEF PushNodeFront
  <2>4. /\ new \in [Cells -> Int] /\ Ordered(new)'
        /\ \A n \in OnList : new[n] = rank[n] /\ new[c] < rank[n]
    BY <1>1, <2>2, <2>3, PushOrder
  <2>5. ASSUME NEW m \in OnList', NEW n \in OnList'
        PROVE  new[m] < new[n] <=> (m \in OnList /\ n \in OnList /\ rank[m] < rank[n])
                                   \/ (m = c /\ n \in OnList)
    <3>1. new[m] \in Int /\ new[n] \in Int
      BY <2>3, <2>4 DEF OnList
    <3> QED BY <2>3, <2>4, <3>1
  <2>6. Ahead' = Ahead \cup ({c} \X Listed)
    <3>1. Ahead' = {p \in OnList' \X OnList' : new[p[1]] < new[p[2]]}
      BY <1>3, <2>4
    <3>2. \A m, n : <<m, n>> \in Ahead' <=> <<m, n>> \in Ahead \cup ({c} \X Listed)
      BY <1>2, <2>3, <2>5, <3>1
    <3>3. /\ \A p \in Ahead' : p = <<p[1], p[2]>>
          /\ \A p \in Ahead \cup ({c} \X Listed) : p = <<p[1], p[2]>>
      BY <1>2, <3>1
    <3> QED BY <3>2, <3>3
  <2>7. Listed' = Listed \cup {c} /\ c \in Nodes \ Listed
    BY <1>2, <1>3, <2>3, <2>4
  <2> QED BY <2>6, <2>7 DEF OneChange
<1>5. CASE Unlink(t)
  <2>1. PICK p, c : p = prev[t] /\ c = cur[t]
    OBVIOUS
  <2>2. /\ OnList' = OnList \ {c} /\ c \in OnList /\ p \in Linked /\ next[p] = c
        /\ next' = [next EXCEPT ![p] = next[c], ![c] = NoNode]
    BY <1>5, <2>1, OnListUnlinked, TraversalsOnList DEF Unlink
  <2>3. Ordered(rank)'
    BY <1>1, <2>2, UnlinkOrder
  <2>4. /\ Listed' = OnList'
        /\ Ahead' = {q \in OnList' \X OnList' : rank[q[1]] < rank[q[2]]}
    BY <1>3, <2>3
  <2>5. Ahead' = Ahead \cap (Listed' \X Listed')
    BY <1>2, <2>2, <2>4
  <2> QED BY <1>2, <2>2, <2>4, <2>5 DEF OneChange
<1>6. CASE ~PushNodeFront(t) /\ ~Unlink(t)
  <2>1. OnList' = OnList /\ next' = next
    BY <1>6, OnListSame
  <2>2. Ordered(rank)'
    BY <1>1, <2>1, SameOrder
  <2>3. Listed' = Listed /\ Ahead' = Ahead
    BY <1>2, <1>3, <2>1, <2>2
  <2> QED BY <2>3 DEF OneChange
<1> QED BY <1>4, <1>5, <1>6

\* Pushes and removals change the list as if done one after the other.
THEOREM ChangesOneAtATime == Spec => OneAtATime
<1>1. IInv /\ Ranks /\ ByRank /\ ByRank' /\ [Next]_vars => [OneChange]_vars
  <2>1. Next /\ IInv /\ Ranks /\ ByRank /\ ByRank' => OneChange
    BY StepOfOne, OneChangeStep
  <2> QED BY <2>1
<1>2. IInv => ByRank
  BY ListByRank
<1> QED BY <1>1, <1>2, InvariantHolds, RanksHold, PTL DEF Spec, OneAtATime, OneChange
=============================================================================
