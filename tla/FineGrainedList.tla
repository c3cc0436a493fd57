--------------------------- MODULE FineGrainedList ---------------------------
(* tfg_flist: a singly linked list with a mutex in each node.  A traversal    *)
(* goes hand over hand: it locks the next node before it unlocks the one it   *)
(* stands on.                                                                 *)
EXTENDS Naturals, FiniteSets

CONSTANTS Pushers,   \* threads that call push_front
          Walkers,   \* threads that traverse
          Nodes,     \* the addresses the allocator hands out, reused once freed
          BeforeBegin, \* m_before_begin, the node before the first
          Values,    \* what the elements hold
          Ops,       \* the traversals called
          NoNode, NoThread

Threads == Pushers \cup Walkers
Cells == Nodes \cup {BeforeBegin}

\* for_each and for_first_of call user code with the node's mutex held; remove_if
\* and remove_first_if with its predecessor's too.
Visitors == {"for_each", "for_first_of"}
Removers == {"remove_if", "remove_first_if"}

ASSUME NamesAssumption ==
  BeforeBegin \notin Nodes /\ NoNode \notin Cells /\ NoThread \notin Threads
ASSUME NodesAssumption == IsFiniteSet(Nodes)
ASSUME OpsAssumption == Ops \subseteq Visitors \cup Removers
ASSUME ValuesAssumption == Values # {}

VARIABLES
  next, data, \* node_type::m_next and what m_pdata points to
  free,       \* addresses that are not allocated
  lock,       \* the holder of each node's m_mut
  pc,         \* where each thread is
  op, wanted, \* the traversal called, and the values its predicate accepts
  prev, cur,  \* prev_cptr; cur_cptr, or a push's new node
  stays,      \* history: nodes on the list since the traversal began
  passed,     \* history: nodes the traversal has gone past
  before      \* history: traversals that began before this one and still run

heap == <<next, data, free>>
history == <<stays, passed, before>>
vars == <<next, data, free, lock, pc, op, wanted, prev, cur, stays, passed, before>>

At(t, place) == pc[t] = place
GoTo(t, place) == pc' = [pc EXCEPT ![t] = place]

\* The nodes from n on: those of every set that has n and each member's successor.
Reach(n) ==
  LET whole == {S \in SUBSET Cells : n \in S /\ \A m \in S : next[m] \in S \cup {NoNode}}
  IN  {m \in Nodes : \A S \in whole : m \in S}

Init ==
  /\ next = [n \in Cells |-> NoNode]
  /\ data = [n \in Nodes |-> CHOOSE v \in Values : TRUE]
  /\ free = Nodes
  /\ lock = [n \in Cells |-> NoThread]
  /\ pc = [t \in Threads |-> "idle"]
  /\ op = [t \in Threads |-> "none"]
  /\ wanted = [t \in Threads |-> {}]
  /\ prev = [t \in Threads |-> NoNode]
  /\ cur = [t \in Threads |-> NoNode]
  /\ stays = [t \in Threads |-> {}]
  /\ passed = [t \in Threads |-> {}]
  /\ before = [t \in Threads |-> {}]

-----------------------------------------------------------------------------
(* push_front *)

BuildNode(t) ==
  /\ At(t, "idle")
  /\ \E n \in free, v \in Values :
       /\ free' = free \ {n}
       /\ data' = [data EXCEPT ![n] = v]
       /\ cur' = [cur EXCEPT ![t] = n]
  /\ GoTo(t, "push")
  /\ UNCHANGED <<next, lock, op, wanted, prev, history>>

\* push_node_front, under the head's mutex.  A fault does without the mutex.
PushUnlocked(t) ==
  /\ At(t, "push")
  /\ next' = [next EXCEPT ![cur[t]] = next[BeforeBegin], ![BeforeBegin] = cur[t]]
  /\ cur' = [cur EXCEPT ![t] = NoNode]
  /\ GoTo(t, "idle")
  /\ UNCHANGED <<data, free, lock, op, wanted, prev, history>>
PushNodeFront(t) ==
  /\ At(t, "push")
  /\ lock[BeforeBegin] = NoThread
  /\ next' = [next EXCEPT ![cur[t]] = next[BeforeBegin], ![BeforeBegin] = cur[t]]
  /\ cur' = [cur EXCEPT ![t] = NoNode]
  /\ GoTo(t, "idle")
  /\ UNCHANGED <<data, free, lock, op, wanted, prev, history>>

-----------------------------------------------------------------------------
(* Traversals *)

Walking(t) == pc[t] \in {"step", "lock_next", "let_go", "visit", "test", "delete"}

\* A traversal begins when it gets the head's mutex.  clear() is remove_if with a
\* predicate that accepts everything.
Enter(t) ==
  /\ At(t, "idle")
  /\ lock[BeforeBegin] = NoThread
  /\ lock' = [lock EXCEPT ![BeforeBegin] = t]
  /\ \E o \in Ops, w \in SUBSET Values :
       /\ o = "for_each" => w = {}
       /\ op' = [op EXCEPT ![t] = o]
       /\ wanted' = [wanted EXCEPT ![t] = w]
  /\ prev' = [prev EXCEPT ![t] = BeforeBegin]
  /\ stays' = [stays EXCEPT ![t] = Reach(BeforeBegin)]
  /\ before' = [before EXCEPT ![t] = {u \in Threads : Walking(u)}]
  /\ GoTo(t, "step")
  /\ UNCHANGED <<heap, cur, passed>>

\* A traversal ends; its locks are those of left.
Leave(t, left) ==
  /\ lock' = [n \in Cells |-> IF n \in left THEN NoThread ELSE lock[n]]
  /\ GoTo(t, "idle")
  /\ op' = [op EXCEPT ![t] = "none"]
  /\ wanted' = [wanted EXCEPT ![t] = {}]
  /\ prev' = [prev EXCEPT ![t] = NoNode]
  /\ cur' = [cur EXCEPT ![t] = NoNode]
  /\ stays' = [stays EXCEPT ![t] = {}]
  /\ passed' = [passed EXCEPT ![t] = {}]
  /\ before' = [u \in Threads |-> IF u = t THEN {} ELSE before[u] \ {t}]

\* while(prev_cptr->m_next).  The fault unlocks the node before the next one is locked.
StepLettingGo(t) ==
  /\ At(t, "step")
  /\ \/ /\ next[prev[t]] = NoNode
        /\ Leave(t, {prev[t]})
     \/ /\ next[prev[t]] # NoNode
        /\ cur' = [cur EXCEPT ![t] = next[prev[t]]]
        /\ lock' = [lock EXCEPT ![prev[t]] = NoThread]
        /\ GoTo(t, "lock_next")
        /\ UNCHANGED <<op, wanted, prev, history>>
  /\ UNCHANGED heap
Step(t) ==
  /\ At(t, "step")
  /\ \/ /\ next[prev[t]] = NoNode
        /\ Leave(t, {prev[t]})
     \/ /\ next[prev[t]] # NoNode
        /\ cur' = [cur EXCEPT ![t] = next[prev[t]]]
        /\ GoTo(t, "lock_next")
        /\ UNCHANGED <<lock, op, wanted, prev, history>>
  /\ UNCHANGED heap

LockNext(t) ==
  /\ At(t, "lock_next")
  /\ lock[cur[t]] = NoThread
  /\ lock' = [lock EXCEPT ![cur[t]] = t]
  /\ GoTo(t, IF op[t] \in Visitors THEN "let_go" ELSE "test")
  /\ UNCHANGED <<heap, op, wanted, prev, cur, history>>

\* prev_lock.unlock() in for_each and for_first_of.
LetGo(t) ==
  /\ At(t, "let_go")
  /\ lock' = [lock EXCEPT ![prev[t]] = NoThread]
  /\ GoTo(t, "visit")
  /\ UNCHANGED <<heap, op, wanted, prev, cur, history>>

Accepted(t) == data[cur[t]] \in wanted[t]

\* The traversal goes on from cur; unlocked is what it has not unlocked yet.
GoOn(t, unlocked) ==
  /\ lock' = [n \in Cells |-> IF n \in unlocked THEN NoThread ELSE lock[n]]
  /\ passed' = [passed EXCEPT ![t] = @ \cup {cur[t]}]
  /\ prev' = [prev EXCEPT ![t] = cur[t]]
  /\ cur' = [cur EXCEPT ![t] = NoNode]
  /\ GoTo(t, "step")
  /\ UNCHANGED <<heap, op, wanted, stays, before>>

\* The user's code has run on the node; for_first_of ends with the first accepted.
Visit(t) ==
  /\ At(t, "visit")
  /\ \/ ~Accepted(t) /\ GoOn(t, {})
     \/ Accepted(t) /\ Leave(t, {cur[t]}) /\ UNCHANGED heap

\* remove_if and remove_first_if leave a node that is not accepted.
Keep(t) ==
  /\ At(t, "test")
  /\ ~Accepted(t)
  /\ GoOn(t, {prev[t]})

\* The node is moved out of the list into tmp and unlocked.  A fault leaves it
\* linked.
UnlinkNothing(t) ==
  /\ At(t, "test")
  /\ Accepted(t)
  /\ lock' = [lock EXCEPT ![cur[t]] = NoThread]
  /\ GoTo(t, "delete")
  /\ UNCHANGED <<heap, op, wanted, prev, cur, history>>
Unlink(t) ==
  /\ At(t, "test")
  /\ Accepted(t)
  /\ next' = [next EXCEPT ![prev[t]] = next[cur[t]], ![cur[t]] = NoNode]
  /\ lock' = [lock EXCEPT ![cur[t]] = NoThread]
  /\ stays' = [u \in Threads |-> stays[u] \ {cur[t]}]
  /\ GoTo(t, "delete")
  /\ UNCHANGED <<data, free, op, wanted, prev, cur, passed, before>>

\* tmp is deleted; remove_if goes on from prev, remove_first_if ends.
Delete(t) ==
  /\ At(t, "delete")
  /\ free' = free \cup {cur[t]}
  /\ \/ /\ op[t] = "remove_if"
        /\ cur' = [cur EXCEPT ![t] = NoNode]
        /\ GoTo(t, "step")
        /\ UNCHANGED <<lock, op, wanted, prev, history>>
     \/ /\ op[t] = "remove_first_if"
        /\ Leave(t, {prev[t]})
  /\ UNCHANGED <<next, data>>

\* The user's operation or predicate throws: the locks held are given back.
Throw(t) ==
  /\ pc[t] \in {"visit", "test"}
  /\ Leave(t, IF At(t, "test") THEN {prev[t], cur[t]} ELSE {cur[t]})
  /\ UNCHANGED heap

WalkStep(t) ==
  Step(t) \/ LockNext(t) \/ LetGo(t) \/ Visit(t) \/ Keep(t) \/ Unlink(t) \/ Delete(t)

Next ==
  \/ \E t \in Pushers : BuildNode(t) \/ PushNodeFront(t)
  \/ \E t \in Walkers : Enter(t) \/ WalkStep(t) \/ Throw(t)

Spec == Init /\ [][Next]_vars

\* A traversal that has begun goes on when it can.
FairSpec == Spec /\ \A t \in Walkers : WF_vars(WalkStep(t))

-----------------------------------------------------------------------------
(* What must hold. *)

\* The nodes whose mutexes t holds, and the nodes it will read or lock next.
Held(t) ==
  CASE pc[t] \in {"step", "lock_next", "delete"} -> {prev[t]}
    [] pc[t] \in {"let_go", "test"} -> {prev[t], cur[t]}
    [] pc[t] = "visit" -> {cur[t]}
    [] OTHER -> {}
InUse(t) == Held(t) \cup IF pc[t] \in {"lock_next", "delete"} THEN {cur[t]} ELSE {}

\* Nodes that are allocated and not on the list: about to be pushed or deleted.
Doomed == {cur[t] : t \in {u \in Threads : pc[u] \in {"push", "delete"}}}

\* Type invariant; while(prev_cptr->m_next) keeps null out of cur_cptr.
TypeOK ==
  /\ next \in [Cells -> Nodes \cup {NoNode}]
  /\ data \in [Nodes -> Values]
  /\ free \subseteq Nodes
  /\ lock \in [Cells -> Threads \cup {NoThread}]
  /\ pc \in [Threads -> {"idle", "push", "step", "lock_next", "let_go", "visit", "test", "delete"}]
  /\ op \in [Threads -> Ops \cup {"none"}]
  /\ wanted \in [Threads -> SUBSET Values]
  /\ prev \in [Threads -> Cells \cup {NoNode}]
  /\ cur \in [Threads -> Nodes \cup {NoNode}]
  /\ stays \in [Threads -> SUBSET Nodes]
  /\ passed \in [Threads -> SUBSET Nodes]
  /\ before \in [Threads -> SUBSET Threads]
  /\ \A t \in Threads :
       /\ Walking(t) => prev[t] \in Cells
       /\ pc[t] \notin {"idle", "step"} => cur[t] \in Nodes

\* "under lock, can't change by another thread" (ts_fine_graited_flist.h:91, 93): a
\* thread never reads, locks or deletes a node another thread has deleted, and no
\* node is deleted while its mutex is held.
NoUseAfterFree ==
  /\ \A t \in Threads : InUse(t) \cap free = {}
  /\ \A n \in free : lock[n] = NoThread

\* A node is locked by the thread that stands on it, and by nobody else.
LocksHeld == \A t \in Threads, n \in Cells : lock[n] = t <=> n \in Held(t)

\* A node on the list has one predecessor; the others have none and no successor.
OnePredecessor ==
  /\ \A m, n \in Cells : next[m] = next[n] /\ next[m] # NoNode => m = n
  /\ \A n \in Cells : next[n] \notin free \cup Doomed
  /\ \A n \in (free \cup Doomed) \ {NoNode} : next[n] = NoNode

\* A node in a thread's hands is in nobody else's.
HandsOff ==
  \A t \in Threads : pc[t] \in {"push", "delete"} =>
    /\ cur[t] \notin free
    /\ lock[cur[t]] = NoThread
    /\ \A u \in Threads \ {t} : pc[u] \in {"push", "delete"} => cur[u] # cur[t]

\* The node locked next is the successor of the one that is held, and another one.
Adjacent ==
  \A t \in Threads :
    /\ pc[t] \in {"lock_next", "let_go", "test"} => next[prev[t]] = cur[t]
    /\ pc[t] \in {"let_go", "test"} => prev[t] # cur[t]

\* The inductive invariant.
IInv ==
  TypeOK /\ NoUseAfterFree /\ LocksHeld /\ OnePredecessor /\ HandsOff /\ Adjacent

\* A traversal that meets the end has gone past every node that was on the list all
\* along, and its predicate accepted none of those; it met none of them twice.
EachOnce ==
  \A t \in Threads :
    /\ At(t, "step") /\ next[prev[t]] = NoNode =>
         \A n \in stays[t] : n \in passed[t] /\ data[n] \notin wanted[t]
    /\ pc[t] \in {"visit", "test"} => cur[t] \notin passed[t]

\* Traversals do not overtake each other: one that began later stays behind.
NoOvertaking ==
  \A u \in Threads : \A t \in before[u] :
    \A m \in Held(u), n \in Held(t) : m # n /\ n \in Reach(m)

\* The nodes on the list, and which of them is before which.
Listed == Reach(BeforeBegin)
Ahead == {p \in Listed \X Listed : p[1] # p[2] /\ p[2] \in Reach(p[1])}

\* Pushes and removals at different places at the same time change the list as if
\* done one after the other: a step adds a node in front, or takes out one node, or
\* leaves the list alone.  Nothing is lost, comes back or changes its place.
OneAtATime ==
  [][\/ Listed' = Listed /\ Ahead' = Ahead
     \/ \E n \in Nodes \ Listed :
          Listed' = Listed \cup {n} /\ Ahead' = Ahead \cup ({n} \X Listed)
     \/ \E n \in Listed :
          Listed' = Listed \ {n} /\ Ahead' = Ahead \cap (Listed' \X Listed')]_vars

\* A traversal ends, whatever the other threads push in front of it or hold for a
\* while: no circle of waiting, and no lock left behind by an exception.
TraversalEnds == \A t \in Walkers : Walking(t) ~> ~Walking(t)
=============================================================================
