------------------------------- MODULE TsQueue -------------------------------
(* ts_adv::ts_queue: a singly linked list of nodes behind a head mutex and a *)
(* tail mutex, its last node a dummy that holds no value, with a condition   *)
(* variable tied to the head mutex.  Threads call its operations; each       *)
(* operation runs in the steps that another thread can see between.          *)
EXTENDS Naturals, FiniteSets, Sequences, SequencesExt, Functions

CONSTANTS Producers,  \* threads that call the push operations
          Consumers,  \* threads that call the pop operations
          Managers,   \* threads that clear, move, notify and stop
          Nodes,      \* the addresses the allocator hands out, reused once freed
          Values,     \* the values pushed
          MaxBatch,   \* bound: longest push_range, largest count of a pop_n
          Notifies,   \* which of none, one, all the pushes do afterwards
          NoNode, NoThread, NoValue

Threads == Producers \cup Consumers \cup Managers

ASSUME NoNodeAssumption == NoNode \notin Nodes
ASSUME NoThreadAssumption == NoThread \notin Threads
ASSUME NoValueAssumption == NoValue \notin Values
ASSUME NodesAssumption == Nodes # {} /\ IsFiniteSet(Nodes)
ASSUME MaxBatchAssumption == MaxBatch \in Nat \ {0}
ASSUME NotifiesAssumption == Notifies \subseteq {"none", "one", "all"}

VARIABLES
  next,       \* node::m_next, the owning pointer to the following node
  data,       \* node::m_storage; NoValue while node::initialized is false
  free,       \* addresses that are not allocated
  head, tail, \* m_head, m_tail
  headMut, tailMut, \* the mutexes' holders
  interrupt,  \* m_interrupt_waiting
  waiters,    \* threads asleep on m_cb
  pc,         \* where each thread is in its operation
  call,       \* the arguments of the operation
  mine,       \* nodes a push has allocated and not yet linked, and the nodes of
              \* the queue that an assignment moves in
  ptail,      \* the tail that get_tail_protected returned
  got,        \* the values a pop has moved out
  status      \* how the last operation ended

heap == <<next, data, free>>
ends == <<head, tail>>
sync == <<headMut, tailMut, interrupt, waiters>>
local == <<call, mine, ptail, got, status>>
vars == <<next, data, free, head, tail, headMut, tailMut, interrupt, waiters,
          pc, call, mine, ptail, got, status>>

UpTo(S, k) == UNION {[1..i -> S] : i \in 0..k}

\* The arguments of an operation.
CallsOf(ops, batches, counts, timed, checked, notifies) ==
  [op : ops, batch : batches, count : counts, timed : timed, checked : checked,
   notify : notifies]

\* push/emplace are a push_range of one value.
PushCalls ==
  CallsOf({"push"}, UNION {[1..k -> Values] : k \in 1..MaxBatch}, {0}, {FALSE}, {FALSE},
          Notifies)

\* pop and pop_n; wait_and_pop, wait_for/until_and_pop and their _n forms.  The
\* one-value waits move the head out without looking at the tail again.
PopCalls == CallsOf({"pop"}, {<<>>}, 1..MaxBatch, {FALSE}, {TRUE}, {"none"})
WaitCalls ==
  CallsOf({"wait"}, {<<>>}, 1..MaxBatch, BOOLEAN, {TRUE}, {"none"})
    \cup CallsOf({"wait"}, {<<>>}, {1}, BOOLEAN, {FALSE}, {"none"})

\* The assignment from a queue that holds batch.
AssignCalls == CallsOf({"assign"}, UpTo(Values, MaxBatch), {0}, {FALSE}, {FALSE}, {"none"})

\* clear, the move to another queue, stop_waitings and notify_one/all; a thread
\* between operations has NoCall.
Plain(op, notify) ==
  [op |-> op, batch |-> <<>>, count |-> 0, timed |-> FALSE, checked |-> FALSE,
   notify |-> notify]
NoCall == Plain("none", "none")
OtherCalls ==
  {Plain("clear", "none"), Plain("move", "none"), Plain("stop", "all"),
   Plain("notify", "one"), Plain("notify", "all")}

LegalCalls == PushCalls \cup PopCalls \cup WaitCalls \cup AssignCalls \cup OtherCalls

At(t, place) == pc[t] = place
GoTo(t, place) == pc' = [pc EXCEPT ![t] = place]

\* t's operation starts at place.
Begin(t, c, place) ==
  /\ At(t, "idle")
  /\ GoTo(t, place)
  /\ call' = [call EXCEPT ![t] = c]
  /\ got' = [got EXCEPT ![t] = <<>>]
  /\ status' = [status EXCEPT ![t] = "none"]

\* t's operation ends, and its arguments and local variables with it.
Return(t, s) ==
  /\ GoTo(t, "idle")
  /\ status' = [status EXCEPT ![t] = s]
  /\ call' = [call EXCEPT ![t] = NoCall]
  /\ ptail' = [ptail EXCEPT ![t] = NoNode]

Init ==
  /\ \E n \in Nodes :
       /\ head = n
       /\ tail = n
       /\ free = Nodes \ {n}
  /\ next = [n \in Nodes |-> NoNode]
  /\ data = [n \in Nodes |-> NoValue]
  /\ headMut = NoThread /\ tailMut = NoThread
  /\ interrupt = FALSE /\ waiters = {}
  /\ pc = [t \in Threads |-> "idle"]
  /\ call = [t \in Threads |-> NoCall]
  /\ mine = [t \in Threads |-> <<>>]
  /\ ptail = [t \in Threads |-> NoNode]
  /\ got = [t \in Threads |-> <<>>]
  /\ status = [t \in Threads |-> "none"]

-----------------------------------------------------------------------------
(* Pushing.  A sublist of as many nodes as values is built with no lock held: *)
(* the first value goes into the queue's own dummy node, each other value    *)
(* into the node before, and the last new node is the next dummy.            *)

Distinct(S, k) == {s \in [1..k -> S] : \A i, j \in 1..k : s[i] = s[j] => i = j}

\* f with values[i] written at node s[i].
Written(f, s, values) ==
  [n \in Nodes |-> IF \E i \in DOMAIN values : s[i] = n
                     THEN values[CHOOSE i \in DOMAIN values : s[i] = n] ELSE f[n]]

\* The nodes of gone are deleted; the fault Leak forgets to.
Leak(gone) == UNCHANGED heap
Blank(f, gone, none) == [n \in Nodes |-> IF n \in gone THEN none ELSE f[n]]
Free(gone) ==
  /\ free' = free \cup gone
  /\ next' = Blank(next, gone, NoNode)
  /\ data' = Blank(data, gone, NoValue)

BuildSublist(t) ==
  \E c \in PushCalls :
    /\ Len(c.batch) <= Cardinality(free)
    /\ \E s \in Distinct(free, Len(c.batch)) :
         /\ Begin(t, c, "lock_tail")
         /\ mine' = [mine EXCEPT ![t] = s]
         /\ free' = free \ Range(s)
         /\ next' = Written(next, s, Tail(s))
         /\ data' = Written(data, s, Tail(c.batch))
    /\ UNCHANGED <<ends, sync, ptail>>

LockTail(t) ==
  /\ At(t, "lock_tail")
  /\ tailMut = NoThread
  /\ tailMut' = t
  /\ GoTo(t, "construct")
  /\ UNCHANGED <<heap, ends, headMut, interrupt, waiters, local>>

\* A fault: the dummy gets the last value of the range, the first one is lost.
ConstructLast(t) ==
  /\ At(t, "construct")
  /\ data' = [data EXCEPT ![tail] = call[t].batch[Len(call[t].batch)]]
  /\ GoTo(t, "link")
  /\ UNCHANGED <<next, free, ends, sync, local>>

\* m_tail->construct_data
ConstructData(t) ==
  /\ At(t, "construct")
  /\ data' = [data EXCEPT ![tail] = call[t].batch[1]]
  /\ GoTo(t, "link")
  /\ UNCHANGED <<next, free, ends, sync, local>>

\* T's constructor throws: the guard unlocks and the new nodes are deleted.
ConstructThrows(t) ==
  /\ At(t, "construct")
  /\ tailMut' = NoThread
  /\ Free(Range(mine[t]))
  /\ mine' = [mine EXCEPT ![t] = <<>>]
  /\ Return(t, "threw")
  /\ UNCHANGED <<ends, headMut, interrupt, waiters, got>>

LinkSublist(t) ==
  /\ At(t, "link")
  /\ next' = [next EXCEPT ![tail] = mine[t][1]]
  /\ GoTo(t, "advance")
  /\ UNCHANGED <<data, free, ends, sync, local>>

AdvanceTail(t) ==
  /\ At(t, "advance")
  /\ tail' = mine[t][Len(mine[t])]
  /\ mine' = [mine EXCEPT ![t] = <<>>]
  /\ tailMut' = NoThread
  /\ GoTo(t, "notify")
  /\ UNCHANGED <<heap, head, headMut, interrupt, waiters, call, ptail, got, status>>

\* notify_one / notify_all, called with no lock held.
NotifySome(t) ==
  /\ At(t, "notify")
  /\ \E woken \in SUBSET waiters :
       /\ CASE call[t].notify = "none" -> woken = {}
            [] call[t].notify = "one" -> IF waiters = {} THEN woken = {}
                                         ELSE \E w \in waiters : woken = {w}
            [] call[t].notify = "all" -> woken = waiters
       /\ waiters' = waiters \ woken
       /\ pc' = [u \in Threads |-> IF u = t THEN "idle"
                                   ELSE IF u \in woken THEN "relock" ELSE pc[u]]
  /\ call' = [call EXCEPT ![t] = NoCall]
  /\ UNCHANGED <<heap, ends, headMut, tailMut, interrupt, mine, ptail, got, status>>

PushStep(t) ==
  LockTail(t) \/ ConstructData(t) \/ ConstructThrows(t) \/ LinkSublist(t)
    \/ AdvanceTail(t) \/ NotifySome(t)

-----------------------------------------------------------------------------
(* Popping, with or without waiting. *)

BeginPop(t) ==
  /\ \E c \in PopCalls \cup WaitCalls : Begin(t, c, "lock_head")
  /\ UNCHANGED <<heap, ends, sync, mine, ptail>>

\* A wait first returns if stop_waitings was called before.
LockHead(t) ==
  /\ At(t, "lock_head")
  /\ headMut = NoThread
  /\ IF call[t].op = "wait" /\ interrupt
       THEN Return(t, "interrupted") /\ UNCHANGED headMut
       ELSE GoTo(t, "look") /\ headMut' = t /\ UNCHANGED <<call, ptail, status>>
  /\ UNCHANGED <<heap, ends, tailMut, interrupt, waiters, mine, got>>

\* A fault: the predicate is not evaluated again after a wakeup.
RelockAndTake(t) ==
  /\ headMut = NoThread
  /\ At(t, "relock") \/ At(t, "relock_late")
  /\ GoTo(t, "take")
  /\ headMut' = t
  /\ UNCHANGED <<heap, ends, tailMut, interrupt, waiters, local>>

\* The thread has slept on m_cb: the head mutex is taken again, in time or not.
RelockHead(t) ==
  /\ headMut = NoThread
  /\ \/ At(t, "relock") /\ GoTo(t, "look")
     \/ At(t, "relock_late") /\ GoTo(t, "look_late")
  /\ headMut' = t
  /\ UNCHANGED <<heap, ends, tailMut, interrupt, waiters, local>>

\* The operation ends and its guard unlocks the head mutex.
Leave(t, s) == Return(t, s) /\ headMut' = NoThread

\* Whether t sees a value; the fault gives up at the deadline without looking.
SeesValueInTime(t) == head # tail /\ ~At(t, "look_late")
SeesValue(t) == head # tail

\* get_tail_protected, and what the caller decides from it: the wait's predicate
\* and the interrupt test after it, or the emptiness test of pop.
Look(t) ==
  /\ At(t, "look") \/ At(t, "look_late")
  /\ tailMut = NoThread
  /\ LET interrupted == call[t].op = "wait" /\ interrupt IN
     \/ interrupted /\ Leave(t, "interrupted")
     \/ /\ ~interrupted /\ SeesValue(t)
        /\ GoTo(t, "take")
        /\ ptail' = [ptail EXCEPT ![t] = tail]
        /\ UNCHANGED <<headMut, call, status>>
     \/ /\ ~interrupted /\ ~SeesValue(t)
        /\ \/ call[t].op = "pop" /\ Leave(t, "empty")
           \/ call[t].op = "wait" /\ At(t, "look_late") /\ Leave(t, "timeout")
           \/ /\ call[t].op = "wait" /\ At(t, "look")
              /\ GoTo(t, "park")
              /\ UNCHANGED <<headMut, call, ptail, status>>
  /\ UNCHANGED <<heap, ends, tailMut, interrupt, waiters, mine, got>>

\* The wait gives up the mutex and goes to sleep.
Park(t) ==
  /\ At(t, "park")
  /\ headMut' = NoThread
  /\ waiters' = waiters \cup {t}
  /\ GoTo(t, "parked")
  /\ UNCHANGED <<heap, ends, tailMut, interrupt, local>>

\* The deadline of a timed wait passes, or the sleep ends for no reason.
Timeout(t) ==
  /\ t \in waiters
  /\ call[t].timed
  /\ waiters' = waiters \ {t}
  /\ GoTo(t, "relock_late")
  /\ UNCHANGED <<heap, ends, headMut, tailMut, interrupt, local>>
WakeSpuriously(t) ==
  /\ t \in waiters
  /\ waiters' = waiters \ {t}
  /\ GoTo(t, "relock")
  /\ UNCHANGED <<heap, ends, headMut, tailMut, interrupt, local>>

\* Whether the value being taken is the last one.
TakenEnough(t) ==
  Len(got[t]) + 1 = call[t].count \/ (call[t].checked /\ next[head] = ptail[t])

\* One value is moved out and its node deleted.  pop_n goes on until it has
\* count values or meets the tail it read before.
Take(t) ==
  /\ At(t, "take")
  /\ got' = [got EXCEPT ![t] = Append(@, data[head])]
  /\ head' = next[head]
  /\ Free({head})
  /\ IF TakenEnough(t)
       THEN Leave(t, "ready")
       ELSE UNCHANGED <<pc, call, ptail, status, headMut>>
  /\ UNCHANGED <<tail, tailMut, interrupt, waiters, mine>>

\* A fault: the exception leaves the head mutex locked.
MoveThrowsLocked(t) ==
  /\ At(t, "take")
  /\ Return(t, "threw")
  /\ UNCHANGED <<heap, ends, sync, mine, got>>

\* T's move assignment throws: the value stays at the head.
MoveThrows(t) ==
  /\ At(t, "take")
  /\ Leave(t, "threw")
  /\ UNCHANGED <<heap, ends, tailMut, interrupt, waiters, mine, got>>

PopStep(t) ==
  LockHead(t) \/ RelockHead(t) \/ Look(t) \/ Park(t) \/ Take(t) \/ MoveThrows(t)

-----------------------------------------------------------------------------
(* The operations that take both mutexes at once (std::scoped_lock), and the *)
(* ones that only touch the condition variable.                              *)

\* clear and the move to another queue.
BeginBoth(t) ==
  /\ \E op \in {"clear", "move"} : Begin(t, Plain(op, "none"), "lock_both")
  /\ UNCHANGED <<heap, ends, sync, mine, ptail>>

\* The assignment from another queue.  The other queue's list, with its dummy, is
\* locked together with this one, so nobody sees it after the call.
BeginAssign(t) ==
  \E c \in AssignCalls :
    /\ Len(c.batch) < Cardinality(free)
    /\ \E s \in Distinct(free, Len(c.batch) + 1) :
         /\ Begin(t, c, "lock_both")
         /\ mine' = [mine EXCEPT ![t] = s]
         /\ free' = free \ Range(s)
         /\ next' = Written(next, s, Tail(s))
         /\ data' = Written(data, s, c.batch)
    /\ UNCHANGED <<ends, sync, ptail>>

\* A fault: only the head mutex is taken.
LockHeadOnly(t) ==
  /\ At(t, "lock_both")
  /\ call[t].op \in {"clear", "assign"}
  /\ headMut = NoThread
  /\ headMut' = t
  /\ GoTo(t, "clear")
  /\ UNCHANGED <<heap, ends, tailMut, interrupt, waiters, local>>

LockBoth(t) ==
  /\ At(t, "lock_both")
  /\ call[t].op \in {"clear", "assign"}
  /\ headMut = NoThread /\ tailMut = NoThread
  /\ headMut' = t /\ tailMut' = t
  /\ GoTo(t, "clear")
  /\ UNCHANGED <<heap, ends, interrupt, waiters, local>>

\* clear_unprotected, one node at a time.
ClearStep(t) ==
  /\ At(t, "clear")
  /\ head # tail
  /\ head' = next[head]
  /\ Free({head})
  /\ UNCHANGED <<tail, sync, pc, local>>

\* clear() ends.
ClearDone(t) ==
  /\ At(t, "clear")
  /\ head = tail
  /\ call[t].op = "clear"
  /\ Leave(t, "none")
  /\ tailMut' = NoThread
  /\ UNCHANGED <<heap, ends, interrupt, waiters, mine, got>>

\* The cleared queue gets the other queue's nodes; its own dummy is deleted.
\* Nobody is notified.
MoveIn(t) ==
  /\ At(t, "clear")
  /\ head = tail
  /\ call[t].op = "assign"
  /\ head' = mine[t][1]
  /\ tail' = mine[t][Len(mine[t])]
  /\ mine' = [mine EXCEPT ![t] = <<>>]
  /\ Free({head})
  /\ Leave(t, "none")
  /\ tailMut' = NoThread
  /\ UNCHANGED <<interrupt, waiters, got>>

\* The nodes that this queue's list is made of.
Owned == Nodes \ (free \cup UNION {Range(mine[t]) : t \in Threads})

\* The queue is moved from: its nodes go to the other queue (they leave this
\* model), and it gets a new dummy.
MoveOut(t) ==
  /\ At(t, "lock_both")
  /\ call[t].op = "move"
  /\ headMut = NoThread /\ tailMut = NoThread
  /\ \E n \in free :
       /\ head' = n
       /\ tail' = n
       /\ free' = (free \cup Owned) \ {n}
  /\ next' = Blank(next, Owned, NoNode)
  /\ data' = Blank(data, Owned, NoValue)
  /\ Return(t, "none")
  /\ UNCHANGED <<sync, mine, got>>

BeginStop(t) ==
  /\ Begin(t, Plain("stop", "all"), "lock_stop")
  /\ UNCHANGED <<heap, ends, sync, mine, ptail>>

\* A fault: the flag is set without the mutex.
SetInterruptUnlocked(t) ==
  /\ At(t, "lock_stop")
  /\ interrupt' = TRUE
  /\ GoTo(t, "notify")
  /\ UNCHANGED <<heap, ends, headMut, tailMut, waiters, local>>

\* The flag is set under the head mutex, and the waiters notified after it.
SetInterrupt(t) ==
  /\ At(t, "lock_stop")
  /\ headMut = NoThread
  /\ interrupt' = TRUE
  /\ GoTo(t, "notify")
  /\ UNCHANGED <<heap, ends, headMut, tailMut, waiters, local>>

BeginNotify(t) ==
  /\ \E n \in {"one", "all"} :
       Begin(t, Plain("notify", n), "notify")
  /\ UNCHANGED <<heap, ends, sync, mine, ptail>>

ManagerStep(t) ==
  LockBoth(t) \/ ClearStep(t) \/ ClearDone(t) \/ MoveIn(t) \/ MoveOut(t) \/ SetInterrupt(t)

-----------------------------------------------------------------------------
Calls ==
  \/ \E t \in Producers : BuildSublist(t)
  \/ \E t \in Consumers : BeginPop(t)
  \/ \E t \in Managers :
       BeginBoth(t) \/ BeginAssign(t) \/ BeginStop(t) \/ BeginNotify(t)

\* Steps of an operation that has begun.
Step(t) == PushStep(t) \/ PopStep(t) \/ ManagerStep(t) \/ Timeout(t)

Next == Calls \/ \E t \in Threads : Step(t) \/ WakeSpuriously(t)

Spec == Init /\ [][Next]_vars

\* An operation that has begun goes on when it can, and deadlines pass.  Nobody
\* has to call an operation, and no sleeper has to wake by itself.
FairSpec == Spec /\ \A t \in Threads : WF_vars(Step(t))

-----------------------------------------------------------------------------
(* What must hold. *)

Places == {"idle", "lock_tail", "construct", "link", "advance", "notify", "lock_head",
           "look", "look_late", "relock", "relock_late", "park", "parked", "take",
           "lock_both", "clear", "lock_stop"}
Statuses == {"none", "empty", "ready", "interrupted", "timeout", "threw"}

\* Type invariant: every variable ranges over what its C++ type allows.
TypeOK ==
  /\ next \in [Nodes -> Nodes \cup {NoNode}]
  /\ data \in [Nodes -> Values \cup {NoValue}]
  /\ free \subseteq Nodes
  /\ head \in Nodes /\ tail \in Nodes
  /\ headMut \in Threads \cup {NoThread}
  /\ tailMut \in Threads \cup {NoThread}
  /\ interrupt \in BOOLEAN
  /\ waiters \subseteq Threads
  /\ pc \in [Threads -> Places]
  /\ call \in [Threads -> LegalCalls \cup {NoCall}]
  /\ mine \in [Threads -> UpTo(Nodes, MaxBatch + 1)]
  /\ ptail \in [Threads -> Nodes \cup {NoNode}]
  /\ got \in [Threads -> UpTo(Values, MaxBatch)]
  /\ status \in [Threads -> Statuses]

\* "queue isn't empty here" (threadsafe_queue.h:179): when a pop moves the head
\* out, no other thread's pops or clear have emptied the queue since it looked,
\* the value is constructed, and the node is not the one that a push, which
\* holds only the tail mutex, is writing.
QueueIsntEmptyHere ==
  \A t \in Threads : At(t, "take") => head # tail /\ data[head] # NoValue

\* The nodes of the queue, m_head first.
IsList(s, k) ==
  /\ \A i, j \in 1..k : s[i] = s[j] => i = j
  /\ Owned = {s[i] : i \in 1..k}
  /\ s[1] = head /\ s[k] = tail
  /\ \A i \in 1..k-1 : next[s[i]] = s[i+1] /\ data[s[i]] # NoValue

\* The nodes the queue owns form one list from m_head to m_tail: none leaks, none
\* is freed while linked, whatever push_range, clear, the moves and T's exceptions
\* do (threadsafe_queue.h:77, 102, 123, 135, 309, 350).  All but the dummy at the
\* tail are constructed; the dummy is, or has a successor, only during a push.
ListShape ==
  /\ \E k \in 1..Cardinality(Nodes) : \E s \in [1..k -> Nodes] : IsList(s, k)
  /\ tailMut = NoThread => next[tail] = NoNode /\ data[tail] = NoValue

\* Where a thread cannot go on before another one unlocks.
Blocked(t) ==
  \/ pc[t] \in {"lock_tail", "look", "look_late"} /\ tailMut # NoThread
  \/ pc[t] \in {"lock_head", "relock", "relock_late", "lock_stop"} /\ headMut # NoThread
  \/ pc[t] = "lock_both" /\ (headMut # NoThread \/ tailMut # NoThread)

\* Threads never wait for the two mutexes in a circle, in particular not after
\* an operation ended in an exception: when one is blocked, another can run.
NoLockDeadlock ==
  \A t \in Threads :
    Blocked(t) => \E u \in Threads : pc[u] \notin {"idle", "parked"} /\ ~Blocked(u)

-----------------------------------------------------------------------------
(* The inductive invariant that the proofs of TsQueueProofs rest on. *)

HeadPlaces == {"look", "look_late", "park", "take", "clear"}
TailPlaces == {"construct", "link", "advance", "clear"}
PushPlaces == {"lock_tail", "construct", "link", "advance"}
BothPlaces == {"lock_both", "clear"}
LookPlaces == {"lock_head", "look", "look_late", "relock", "relock_late", "park", "parked"}

\* A mutex is held exactly between a lock and its unlock in the code.
MutexesHeld ==
  \A t \in Threads :
    /\ headMut = t <=> pc[t] \in HeadPlaces
    /\ tailMut = t <=> pc[t] \in TailPlaces
    /\ t \in waiters <=> pc[t] = "parked"

\* The operations that take both mutexes: an assignment brings one node more than
\* it brings values, the dummy.
BothCall(t) ==
  \/ /\ call[t] = Plain("clear", "none")
     /\ mine[t] = <<>>
  \/ /\ call[t] = Plain("move", "none") /\ pc[t] = "lock_both"
     /\ mine[t] = <<>>
  \/ /\ call[t] \in AssignCalls
     /\ Len(mine[t]) = Len(call[t].batch) + 1

\* The arguments and local variables where they are used.  The tail a pop has
\* read is still ahead of it on the list.
LocalsInPlace ==
  \A t \in Threads :
    /\ pc[t] \in PushPlaces => call[t] \in PushCalls /\ Len(mine[t]) = Len(call[t].batch)
    /\ pc[t] \in BothPlaces => BothCall(t)
    /\ pc[t] \notin PushPlaces \cup BothPlaces => mine[t] = <<>>
    /\ pc[t] \in LookPlaces => got[t] = <<>>
    /\ pc[t] \in LookPlaces \cup {"take"} => call[t] \in PopCalls \cup WaitCalls
    /\ pc[t] = "take" => Len(got[t]) < call[t].count /\ ptail[t] \in Owned \ {head}

\* A free node is blank; the nodes of a push, or of an assignment, are nobody
\* else's and form the sublist it built.
PrivateNodes ==
  /\ \A n \in free : next[n] = NoNode /\ data[n] = NoValue
  /\ \A t \in Threads : \A i \in 1..Len(mine[t]) :
       /\ mine[t][i] \notin free
       /\ \A u \in Threads : \A j \in 1..Len(mine[u]) :
            mine[t][i] = mine[u][j] => t = u /\ i = j
       /\ i < Len(mine[t]) => next[mine[t][i]] = mine[t][i+1] /\ data[mine[t][i]] # NoValue
       /\ i = Len(mine[t]) => next[mine[t][i]] = NoNode /\ data[mine[t][i]] = NoValue

\* What a push has already written into the dummy node.
DummyInPlace ==
  \A t \in Threads :
    /\ pc[t] \in {"construct", "clear"} => next[tail] = NoNode /\ data[tail] = NoValue
    /\ pc[t] = "link" => next[tail] = NoNode /\ data[tail] # NoValue
    /\ pc[t] = "advance" => next[tail] = mine[t][1] /\ data[tail] # NoValue

\* The inductive invariant: with it, each step keeps the list whole although a
\* push and a pop hold different mutexes.
IInv == TypeOK /\ ListShape /\ MutexesHeld /\ LocalsInPlace /\ PrivateNodes /\ DummyInPlace

-----------------------------------------------------------------------------
(* The queue as a FIFO queue. *)

\* The queue's values, oldest first.  A push counts when m_tail has advanced.
Items ==
  LET k == Cardinality(Owned)
      node == CHOOSE s \in [1..k -> Owned] : IsList(s, k)
  IN  [i \in 1..k-1 |-> data[node[i]]]

\* What of its arguments an operation's effect on the values depends on.
Request(c) == [op |-> c.op, batch |-> c.batch, count |-> c.count]

\* The request of each thread's operation, while the values can still show it.
DonePlaces == {"idle", "notify", "lock_stop"}
Pending == [t \in Threads |-> Request(IF pc[t] \in DonePlaces THEN NoCall ELSE call[t])]

Fifo == INSTANCE FifoQueue WITH items <- Items, call <- Pending

\* ts_queue is a FIFO queue: every step of every operation is one atomic step of
\* FifoQueue or none.  A push adds exactly the range its caller passed, in its
\* order, once and at one moment, or nothing if it throws; values leave in the
\* order they came, each for one pop; a pop reports empty or timeout only after
\* it has seen the queue empty (threadsafe_queue.h:84, 102, 153, 350).
ImplementsFifo == Fifo!Spec

\* stop_waitings (threadsafe_queue.h:301) releases every sleeper, and nobody goes
\* to sleep on the queue again.
StopReleasesWaiters == interrupt ~> [](waiters = {})

\* ts_queue_test.cpp:143-149: a value pushed with push_and_notify_one makes the
\* thread in wait_and_pop return it.  Nobody sleeps on while a value is queued.
PushWakesWaiter ==
  \A t \in Consumers :
    (At(t, "parked") /\ head # tail) ~> (~At(t, "parked") \/ head = tail)
=============================================================================
