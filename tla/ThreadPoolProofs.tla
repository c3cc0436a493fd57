--------------------------- MODULE ThreadPoolProofs ---------------------------
(* That a task of basic_thread_pool is in one place, and that nested helping  *)
(* closes no circle, for any number of workers and tasks.                     *)
EXTENDS ThreadPool, SequenceTheorems, FiniteSetTheorems, WellFoundedInduction, TLAPS

Kinds == {"nowhere", "global", "inner", "hand", "stack"}

\* Task k is in the place of that kind of thread t, and in no other.
LiesIn(k, kind, t) ==
  /\ status[k] = "assigned" <=> kind # "nowhere"
  /\ kind = "inner" => t \in Workers
  /\ k \in Range(global) <=> kind = "global"
  /\ \A w \in Workers : k \in Range(inner[w]) <=> kind = "inner" /\ w = t
  /\ \A u \in Threads : hand[u] = k <=> kind = "hand" /\ u = t
  /\ \A u \in Threads : k \in Range(stack[u]) <=> kind = "stack" /\ u = t

OnePlace == \A k \in Tasks : \E kind \in Kinds, t \in Threads : LiesIn(k, kind, t)

\* No queue and no stack has a task twice.
NoneTwice ==
  /\ IsInjective(global)
  /\ \A w \in Workers : IsInjective(inner[w])
  /\ \A t \in Threads : IsInjective(stack[t])

\* What a thread is running and has in its hand, by where it is.
HandsAndStacks ==
  /\ \A t \in Threads :
       /\ hand[t] # NoTask <=> pc[t] = "run"
       /\ pc[t] \in {"loop", "join", "exited"} => stack[t] = <<>>
       /\ pc[t] = "body" => stack[t] # <<>>
  /\ \A w \in Workers : pc[w] # "join" /\ Root \notin Range(stack[w])
  /\ pc[Main] # "loop"
  /\ pc[Main] \in {"join", "exited"} \/ (stack[Main] # <<>> /\ stack[Main][1] = Root)

\* Code that holds a task is running until the task is done.
KeepersRun ==
  \A k \in Tasks : status[k] = "assigned" /\ keeper[k] # Outside =>
    \E t \in Threads : keeper[k] \in Range(stack[t])

\* rank is an order in which the running code may have been started.
Rising(s, rank) == \A i, j \in DOMAIN s : i < j => rank[s[i]] < rank[s[j]]
Ranked(rank) ==
  /\ \A t \in Threads : Rising(stack[t], rank)
  /\ \A t \in Threads, k \in Tasks :
       k \in Range(stack[t]) /\ keeper[k] # Outside => rank[keeper[k]] < rank[k]

\* A task is started after the code that holds it.
StartedInOrder == \E n \in Nat : \E rank \in [Frames -> 0..n] : Ranked(rank)

IInv ==
  /\ TypeOK /\ OnePlace /\ NoneTwice /\ HandsAndStacks /\ KeepersRun
  /\ OnlyOutsideLeft /\ StartedInOrder

-----------------------------------------------------------------------------
(* Sequences without repetition *)

\* The first of a queue is taken.
LEMMA HeadTaken ==
  ASSUME NEW S, NEW s \in Seq(S), s # <<>>, IsInjective(s)
  PROVE  /\ Head(s) \in S /\ Tail(s) \in Seq(S)
         /\ IsInjective(Tail(s))
         /\ Head(s) \in Range(s)
         /\ \A k : k \in Range(Tail(s)) <=> k \in Range(s) /\ k # Head(s)
<1>1. /\ Head(s) = s[1] /\ Head(s) \in S /\ Tail(s) \in Seq(S) /\ Len(s) \in Nat \ {0}
      /\ Len(Tail(s)) = Len(s) - 1
      /\ DOMAIN s = 1..Len(s) /\ DOMAIN Tail(s) = 1..Len(s) - 1
      /\ \A i \in 1..Len(s) - 1 : Tail(s)[i] = s[i + 1]
  BY HeadTailProperties, LenProperties, EmptySeq
<1>2. IsInjective(Tail(s))
  BY <1>1 DEF IsInjective
<1>3. ASSUME NEW k \in Range(Tail(s))
      PROVE  k \in Range(s) /\ k # Head(s)
  BY <1>1, <1>3 DEF Range, IsInjective
<1>4. ASSUME NEW k \in Range(s), k # Head(s)
      PROVE  k \in Range(Tail(s))
  <2>1. PICK i \in 1..Len(s) : s[i] = k
    BY <1>1 DEF Range
  <2>2. i - 1 \in 1..Len(s) - 1 /\ Tail(s)[i - 1] = k
    BY <1>1, <1>4, <2>1
  <2> QED BY <1>1, <2>2 DEF Range
<1>5. Head(s) \in Range(s)
  BY <1>1 DEF Range
<1> QED BY <1>1, <1>2, <1>3, <1>4, <1>5

\* The last of a queue, or the top of a stack, is taken.
LEMMA LastTaken ==
  ASSUME NEW S, NEW s \in Seq(S), s # <<>>, IsInjective(s)
  PROVE  /\ Last(s) \in S /\ Front(s) \in Seq(S)
         /\ Len(Front(s)) = Len(s) - 1 /\ Len(s) \in Nat \ {0}
         /\ \A i \in 1..Len(s) - 1 : Front(s)[i] = s[i]
         /\ IsInjective(Front(s))
         /\ Last(s) \in Range(s)
         /\ \A k : k \in Range(Front(s)) <=> k \in Range(s) /\ k # Last(s)
         /\ Front(s) = <<>> <=> Len(s) = 1
         /\ Len(s) # 1 => Front(s)[1] = s[1]
<1>1. Last(s) = s[Len(s)] /\ Len(s) \in Nat \ {0} /\ DOMAIN s = 1..Len(s)
      /\ \A i \in 1..Len(s) : s[i] \in S
  BY LenProperties, EmptySeq, ElementOfSeq DEF Last
<1>2. /\ Front(s) \in Seq(S) /\ Len(Front(s)) = Len(s) - 1
      /\ \A i \in 1..Len(s) - 1 : Front(s)[i] = s[i]
  BY <1>1, SubSeqProperties DEF Front
<1>3. DOMAIN Front(s) = 1..Len(s) - 1
  BY <1>2, LenProperties
<1>4. IsInjective(Front(s))
  BY <1>1, <1>2, <1>3 DEF IsInjective
<1>5. ASSUME NEW k \in Range(Front(s))
      PROVE  k \in Range(s) /\ k # Last(s)
  BY <1>1, <1>2, <1>3, <1>5 DEF Range, IsInjective
<1>6. ASSUME NEW k \in Range(s), k # Last(s)
      PROVE  k \in Range(Front(s))
  BY <1>1, <1>2, <1>3, <1>6 DEF Range
<1>7. Last(s) \in Range(s)
  BY <1>1 DEF Range
<1>8. Front(s) = <<>> <=> Len(s) = 1
  <2>1. Front(s) # <<>> => Len(Front(s)) # 0
    BY <1>2, EmptySeq
  <2>2. Front(s) = <<>> => Len(Front(s)) = 0
    BY EmptySeq
  <2>3. Len(Front(s)) = 0 <=> Len(s) = 1
    BY <1>1, <1>2
  <2> QED BY <2>1, <2>2, <2>3
<1>9. Len(s) # 1 => Front(s)[1] = s[1]
  BY <1>1, <1>2
<1> QED BY <1>1, <1>2, <1>4, <1>5, <1>6, <1>7, <1>8, <1>9

\* One more at the end.
LEMMA Appended ==
  ASSUME NEW S, NEW s \in Seq(S), NEW e \in S, IsInjective(s), e \notin Range(s)
  PROVE  /\ Append(s, e) \in Seq(S) /\ Append(s, e) # <<>>
         /\ Len(Append(s, e)) = Len(s) + 1 /\ Len(s) \in Nat
         /\ \A i \in 1..Len(s) : Append(s, e)[i] = s[i]
         /\ Append(s, e)[Len(s) + 1] = e
         /\ IsInjective(Append(s, e))
         /\ \A k : k \in Range(Append(s, e)) <=> k \in Range(s) \/ k = e
<1>1. /\ Append(s, e) \in Seq(S) /\ Append(s, e) # <<>>
      /\ Len(Append(s, e)) = Len(s) + 1 /\ Len(s) \in Nat
      /\ \A i \in 1..Len(s) : Append(s, e)[i] = s[i]
      /\ Append(s, e)[Len(s) + 1] = e
  BY AppendProperties, LenProperties
<1>2. DOMAIN s = 1..Len(s) /\ DOMAIN Append(s, e) = 1..Len(s) + 1
  BY <1>1, LenProperties
<1>3. IsInjective(Append(s, e))
  BY <1>1, <1>2 DEF IsInjective, Range
<1>4. ASSUME NEW k
      PROVE  k \in Range(Append(s, e)) <=> k \in Range(s) \/ k = e
  BY <1>1, <1>2 DEF Range
<1> QED BY <1>1, <1>3, <1>4

\* Nothing is in an empty queue.
LEMMA EmptyRange == Range(<<>>) = {} /\ IsInjective(<<>>)
  BY EmptySeq, LenProperties DEF Range, IsInjective

\* try_steal's index is one of the vector.
LEMMA Remainder ==
  ASSUME NEW a \in Int, NEW n \in Nat \ {0}
  PROVE  a % n \in 0..n - 1
  OBVIOUS

-----------------------------------------------------------------------------
(* Steps that only change where a thread is *)

PlacesOfThreads == {"loop", "own", "global", "steal", "run", "body", "join", "exited"}

\* Where t may be, as to its stack.
Fits(t, place) ==
  /\ place \in PlacesOfThreads
  /\ place \in {"loop", "join", "exited"} => stack[t] = <<>>
  /\ place = "body" => stack[t] # <<>>
  /\ t \in Workers => place # "join"
  /\ t = Main => place # "loop"

\* What the other parts of the invariant are about.
tasksVars == <<inner, global, hand, stack, status, keeper>>

\* A step that only moves a thread on keeps the invariant.
LEMMA ControlKeeps ==
  ASSUME IInv, NEW t \in Threads, NEW place, pc[t] # "run", place # "run",
         Fits(t, place), pc' = [pc EXCEPT ![t] = place],
         t = Main => (pc[t] \in {"join", "exited"} => place \in {"join", "exited"}),
         UNCHANGED tasksVars, stopped' \in BOOLEAN, tried' \in [Threads -> 0..NumWorkers - 1]
  PROVE  IInv'
<1> USE DEF IInv, tasksVars
<1>1. TypeOK'
  BY DEF TypeOK, Fits, PlacesOfThreads
<1>2. OnePlace'
  BY DEF OnePlace, LiesIn
<1>3. NoneTwice'
  BY DEF NoneTwice
<1>4. HandsAndStacks'
  BY WorkersAssumption DEF HandsAndStacks, TypeOK, Fits, PlacesOfThreads, Threads
<1>5. KeepersRun' /\ OnlyOutsideLeft'
  BY DEF KeepersRun, OnlyOutsideLeft
<1>6. StartedInOrder'
  BY DEF StartedInOrder, Ranked
<1> QED BY <1>1, <1>2, <1>3, <1>4, <1>5, <1>6

\* After try_work a thread that runs nothing is at its loop.
LEMMA BackFits ==
  ASSUME IInv, NEW t \in Threads, pc[t] \in {"own", "global", "steal"}
  PROVE  Fits(t, Back(t))
  BY WorkersAssumption DEF IInv, TypeOK, HandsAndStacks, Fits, Back, Running, PlacesOfThreads, Threads

\* A worker looks at m_stopped.
LEMMA LoopKeeps ==
  ASSUME IInv, NEW t \in Threads, Loop(t)
  PROVE  IInv'
<1>1. DEFINE place == IF stopped THEN "exited" ELSE "own"
<1>2. Fits(t, place) /\ place # "run" /\ pc[t] = "loop"
  BY WorkersAssumption DEF Loop, At, Fits, PlacesOfThreads, IInv, HandsAndStacks, Threads
<1>3. /\ pc' = [pc EXCEPT ![t] = place] /\ UNCHANGED tasksVars
      /\ stopped' \in BOOLEAN /\ tried' \in [Threads -> 0..NumWorkers - 1]
  BY DEF Loop, GoTo, tasksVars, IInv, TypeOK
<1> QED BY <1>2, <1>3, ControlKeeps

\* A task that waits helps.
LEMMA HelpKeeps ==
  ASSUME IInv, NEW t \in Threads, Help(t)
  PROVE  IInv'
<1>1. Fits(t, "own") /\ pc[t] = "body"
  BY DEF Help, At, Fits, PlacesOfThreads
<1>2. /\ pc' = [pc EXCEPT ![t] = "own"] /\ UNCHANGED tasksVars
      /\ stopped' \in BOOLEAN /\ tried' \in [Threads -> 0..NumWorkers - 1]
  BY DEF Help, GoTo, tasksVars, IInv, TypeOK
<1> QED BY <1>1, <1>2, ControlKeeps

\* A task stops the pool.
LEMMA StopKeeps ==
  ASSUME IInv, NEW t \in Threads, Stop(t)
  PROVE  IInv'
<1>1. Fits(t, "body") /\ pc[t] = "body"
  BY WorkersAssumption DEF Stop, At, Fits, PlacesOfThreads, IInv, HandsAndStacks, Threads
<1>2. /\ pc' = [pc EXCEPT ![t] = "body"] /\ UNCHANGED tasksVars
      /\ stopped' \in BOOLEAN /\ tried' \in [Threads -> 0..NumWorkers - 1]
  BY <1>1 DEF Stop, tasksVars, IInv, TypeOK
<1> QED BY <1>1, <1>2, ControlKeeps

-----------------------------------------------------------------------------
(* A task goes from a queue to a hand *)

\* A task taken out of a queue into a hand is still in one place.
LEMMA TakenKeeps ==
  ASSUME IInv, NEW t \in Threads, NEW k \in Tasks, pc[t] \in {"own", "global", "steal"},
         pc' = [pc EXCEPT ![t] = "run"], hand' = [hand EXCEPT ![t] = k],
         UNCHANGED <<stopped, stack, status, keeper>>,
         tried' \in [Threads -> 0..NumWorkers - 1],
         global' \in Seq(Tasks), IsInjective(global'),
         inner' \in [Workers -> Seq(Tasks)], \A w \in Workers : IsInjective(inner'[w]),
         \/ /\ k \in Range(global) /\ inner' = inner
            /\ \A j : j \in Range(global') <=> j \in Range(global) /\ j # k
         \/ /\ global' = global
            /\ \E v \in Workers :
                 /\ k \in Range(inner[v])
                 /\ \A w \in Workers : \A j :
                      j \in Range(inner'[w]) <=> j \in Range(inner[w]) /\ ~(w = v /\ j = k)
  PROVE  IInv'
<1>0. hand[t] = NoTask /\ hand \in [Threads -> Tasks \cup {NoTask}] /\ NoTask \notin Tasks
  BY TasksAssumption DEF IInv, TypeOK, HandsAndStacks, Frames
<1>1. TypeOK'
  BY DEF IInv, TypeOK
<1>2. OnePlace'
  <2> SUFFICES ASSUME NEW j \in Tasks
               PROVE  \E kind \in Kinds, u \in Threads : LiesIn(j, kind, u)'
    BY DEF OnePlace
  <2>1. PICK kind \in Kinds : \E u \in Threads : LiesIn(j, kind, u)
    BY DEF IInv, OnePlace
  <2>2. PICK u \in Threads : LiesIn(j, kind, u)
    BY <2>1
  <2>3. CASE j # k
    <3>1. LiesIn(j, kind, u)'
      BY <1>0, <2>2, <2>3 DEF LiesIn
    <3> QED BY <3>1
  <2>4. CASE j = k
    <3>1. kind \in {"global", "inner"}
      BY <2>2, <2>4 DEF LiesIn
    <3>2. LiesIn(j, "hand", t)'
      BY <1>0, <2>2, <2>4, <3>1 DEF LiesIn
    <3> QED BY <3>2 DEF Kinds
  <2> QED BY <2>3, <2>4
<1>3. NoneTwice'
  BY DEF IInv, NoneTwice
<1>4. HandsAndStacks'
  BY <1>0 DEF IInv, HandsAndStacks, TypeOK, Threads
<1>5. KeepersRun' /\ OnlyOutsideLeft'
  BY DEF IInv, KeepersRun, OnlyOutsideLeft
<1>6. StartedInOrder'
  BY DEF IInv, StartedInOrder, Ranked
<1> QED BY <1>1, <1>2, <1>3, <1>4, <1>5, <1>6 DEF IInv

\* A thread looks into its own queue.
LEMMA TakeOwnKeeps ==
  ASSUME IInv, NEW t \in Threads, TakeOwn(t)
  PROVE  IInv'
<1>0. pc[t] = "own" /\ UNCHANGED <<global, stopped, tried, stack, status, keeper>>
  BY DEF TakeOwn, At
<1>1. CASE t \in Workers /\ inner[t] # <<>>
  <2>1. inner[t] \in Seq(Tasks) /\ IsInjective(inner[t])
    BY <1>1 DEF IInv, TypeOK, NoneTwice
  <2>2. /\ Head(inner[t]) \in Tasks /\ Tail(inner[t]) \in Seq(Tasks)
        /\ IsInjective(Tail(inner[t])) /\ Head(inner[t]) \in Range(inner[t])
        /\ \A k : k \in Range(Tail(inner[t])) <=> k \in Range(inner[t]) /\ k # Head(inner[t])
    BY <1>1, <2>1, HeadTaken
  <2>3. /\ hand' = [hand EXCEPT ![t] = Head(inner[t])]
        /\ inner' = [inner EXCEPT ![t] = Tail(inner[t])]
        /\ pc' = [pc EXCEPT ![t] = "run"]
    BY <1>1 DEF TakeOwn, GoTo
  <2>4. inner' \in [Workers -> Seq(Tasks)] /\ \A w \in Workers : IsInjective(inner'[w])
    BY <1>1, <2>2, <2>3 DEF IInv, TypeOK, NoneTwice
  <2>5. \A w \in Workers : \A j :
          j \in Range(inner'[w]) <=> j \in Range(inner[w]) /\ ~(w = t /\ j = Head(inner[t]))
    BY <1>1, <2>2, <2>3 DEF IInv, TypeOK
  <2>6. tried' \in [Threads -> 0..NumWorkers - 1] /\ global' \in Seq(Tasks) /\ IsInjective(global')
    BY <1>0 DEF IInv, TypeOK, NoneTwice
  <2> QED BY <1>0, <1>1, <2>2, <2>3, <2>4, <2>5, <2>6, TakenKeeps
<1>2. CASE ~(t \in Workers /\ inner[t] # <<>>)
  <2>1. pc' = [pc EXCEPT ![t] = "global"] /\ UNCHANGED tasksVars
    BY <1>0, <1>2 DEF TakeOwn, GoTo, tasksVars
  <2>2. Fits(t, "global")
    BY DEF Fits, PlacesOfThreads
  <2> QED BY <1>0, <2>1, <2>2, ControlKeeps DEF IInv, TypeOK
<1> QED BY <1>1, <1>2

\* A thread looks into the global queue.
LEMMA TakeGlobalKeeps ==
  ASSUME IInv, NEW t \in Threads, TakeGlobal(t)
  PROVE  IInv'
<1>0. pc[t] = "global" /\ UNCHANGED <<inner, stopped, tried, stack, status, keeper>>
  BY DEF TakeGlobal, At
<1>1. CASE global # <<>>
  <2>1. global \in Seq(Tasks) /\ IsInjective(global)
    BY DEF IInv, TypeOK, NoneTwice
  <2>2. /\ Head(global) \in Tasks /\ Tail(global) \in Seq(Tasks)
        /\ IsInjective(Tail(global)) /\ Head(global) \in Range(global)
        /\ \A k : k \in Range(Tail(global)) <=> k \in Range(global) /\ k # Head(global)
    BY <1>1, <2>1, HeadTaken
  <2>3. /\ hand' = [hand EXCEPT ![t] = Head(global)]
        /\ global' = Tail(global)
        /\ pc' = [pc EXCEPT ![t] = "run"]
    BY <1>1 DEF TakeGlobal, GoTo
  <2>4. inner' \in [Workers -> Seq(Tasks)] /\ \A w \in Workers : IsInjective(inner'[w])
    BY <1>0 DEF IInv, TypeOK, NoneTwice
  <2>5. tried' \in [Threads -> 0..NumWorkers - 1]
    BY <1>0 DEF IInv, TypeOK
  <2> QED BY <1>0, <2>2, <2>3, <2>4, <2>5, TakenKeeps
<1>2. CASE global = <<>>
  <2>1. pc' = [pc EXCEPT ![t] = "steal"] /\ UNCHANGED tasksVars
    BY <1>0, <1>2 DEF TakeGlobal, GoTo, tasksVars
  <2>2. Fits(t, "steal")
    BY DEF Fits, PlacesOfThreads
  <2> QED BY <1>0, <2>1, <2>2, ControlKeeps DEF IInv, TypeOK
<1> QED BY <1>1, <1>2

\* try_steal_task looks into deques that exist.
LEMMA VictimIsWorker ==
  ASSUME IInv, NEW t \in Threads
  PROVE  Victim(t) \in Workers
<1>1. (IF t \in Workers THEN t ELSE -1) + tried[t] + 1 \in Int
  BY WorkersAssumption DEF IInv, TypeOK, Workers
<1> QED BY <1>1, Remainder, WorkersAssumption DEF Victim, Workers

\* A thread looks into another's queue.
LEMMA StealKeeps ==
  ASSUME IInv, NEW t \in Threads, Steal(t)
  PROVE  IInv'
<1> DEFINE v == Victim(t)
<1>0. pc[t] = "steal" /\ UNCHANGED <<global, stopped, stack, status, keeper>> /\ v \in Workers
  BY VictimIsWorker DEF Steal, At
<1>1. tried \in [Threads -> 0..NumWorkers - 1] /\ 0 \in 0..NumWorkers - 1 /\ NumWorkers \in Nat
  BY WorkersAssumption DEF IInv, TypeOK
<1>2. inner[v] \in Seq(Tasks) /\ IsInjective(inner[v])
  BY <1>0 DEF IInv, TypeOK, NoneTwice
<1>3. CASE inner[v] # <<>>
  <2>1. /\ Last(inner[v]) \in Tasks /\ Front(inner[v]) \in Seq(Tasks)
        /\ IsInjective(Front(inner[v])) /\ Last(inner[v]) \in Range(inner[v])
        /\ \A k : k \in Range(Front(inner[v])) <=> k \in Range(inner[v]) /\ k # Last(inner[v])
    BY <1>2, <1>3, LastTaken
  <2>2. /\ hand' = [hand EXCEPT ![t] = Last(inner[v])]
        /\ inner' = [inner EXCEPT ![v] = Front(inner[v])]
        /\ pc' = [pc EXCEPT ![t] = "run"]
        /\ tried' = [tried EXCEPT ![t] = 0]
    BY <1>3 DEF Steal, GoTo
  <2>3. tried' \in [Threads -> 0..NumWorkers - 1]
    BY <1>1, <2>2
  <2>4. inner' \in [Workers -> Seq(Tasks)] /\ \A w \in Workers : IsInjective(inner'[w])
    BY <1>0, <2>1, <2>2 DEF IInv, TypeOK, NoneTwice
  <2>5. \A w \in Workers : \A j :
          j \in Range(inner'[w]) <=> j \in Range(inner[w]) /\ ~(w = v /\ j = Last(inner[v]))
    BY <1>0, <2>1, <2>2 DEF IInv, TypeOK
  <2>6. global' \in Seq(Tasks) /\ IsInjective(global')
    BY <1>0 DEF IInv, TypeOK, NoneTwice
  <2> HIDE DEF v
  <2> QED BY <1>0, <2>1, <2>2, <2>3, <2>4, <2>5, <2>6, TakenKeeps
<1>4. CASE inner[v] = <<>>
  <2>0. UNCHANGED tasksVars
    BY <1>0, <1>4 DEF Steal, tasksVars
  <2>1. CASE AllTried(t)
    <3>1. pc' = [pc EXCEPT ![t] = Back(t)] /\ tried' = [tried EXCEPT ![t] = 0]
      BY <1>4, <2>1 DEF Steal, GoTo
    <3>2. tried' \in [Threads -> 0..NumWorkers - 1] /\ stopped' \in BOOLEAN
      BY <1>0, <1>1, <3>1 DEF IInv, TypeOK
    <3>3. Fits(t, Back(t)) /\ Back(t) # "run"
      BY <1>0, BackFits DEF Back
    <3> QED BY <1>0, <2>0, <3>1, <3>2, <3>3, ControlKeeps
  <2>2. CASE ~AllTried(t)
    <3>1. pc' = [pc EXCEPT ![t] = "steal"] /\ tried' = [tried EXCEPT ![t] = @ + 1]
      BY <1>0, <1>4, <2>2 DEF Steal, IInv, TypeOK
    <3>2. tried[t] + 1 \in 0..NumWorkers - 1
      BY <1>1, <2>2 DEF AllTried
    <3>3. tried' \in [Threads -> 0..NumWorkers - 1] /\ stopped' \in BOOLEAN
      BY <1>0, <1>1, <3>1, <3>2 DEF IInv, TypeOK
    <3>4. Fits(t, "steal")
      BY DEF Fits, PlacesOfThreads
    <3> QED BY <1>0, <2>0, <3>1, <3>3, <3>4, ControlKeeps
  <2> QED BY <2>1, <2>2
<1> QED BY <1>3, <1>4

-----------------------------------------------------------------------------
(* Tasks are assigned, started and done *)

\* Where a task is when it is known to be somewhere.
LEMMA Elsewhere ==
  ASSUME IInv, NEW k \in Tasks
  PROVE  /\ status[k] # "assigned" =>
              /\ k \notin Range(global) /\ \A w \in Workers : k \notin Range(inner[w])
              /\ \A u \in Threads : hand[u] # k /\ k \notin Range(stack[u])
         /\ \A t \in Threads : hand[t] = k =>
              status[k] = "assigned" /\ \A u \in Threads : k \notin Range(stack[u])
         /\ \A t \in Threads : k \in Range(stack[t]) =>
              status[k] = "assigned" /\ \A u \in Threads : k \in Range(stack[u]) => u = t
<1>1. PICK kind \in Kinds : \E u \in Threads : LiesIn(k, kind, u)
  BY DEF IInv, OnePlace
<1>2. PICK u \in Threads : LiesIn(k, kind, u)
  BY <1>1
<1> QED BY <1>2 DEF LiesIn

\* The top of a stack that is not empty.
LEMMA TopFacts ==
  ASSUME IInv, NEW t \in Threads, stack[t] # <<>>
  PROVE  /\ stack[t] \in Seq(Frames) /\ IsInjective(stack[t])
         /\ Len(stack[t]) \in Nat \ {0} /\ DOMAIN stack[t] = 1..Len(stack[t])
         /\ Top(t) = stack[t][Len(stack[t])] /\ Top(t) \in Frames /\ Top(t) \in Range(stack[t])
<1>1. stack[t] \in Seq(Frames) /\ IsInjective(stack[t])
  BY DEF IInv, TypeOK, NoneTwice
<1>2. Len(stack[t]) \in Nat \ {0} /\ DOMAIN stack[t] = 1..Len(stack[t])
  BY <1>1, LenProperties, EmptySeq
<1>3. Top(t) = stack[t][Len(stack[t])]
  BY DEF Top, Last
<1>4. Top(t) \in Frames /\ Top(t) \in Range(stack[t])
  BY <1>1, <1>2, <1>3, ElementOfSeq DEF Range
<1> QED BY <1>1, <1>2, <1>3, <1>4

\* A task is assigned into one queue.
LEMMA AssignKeeps ==
  ASSUME IInv, NEW t \in Threads, Assign(t)
  PROVE  IInv'
<1>0. pc[t] = "body" /\ stack[t] # <<>> /\ UNCHANGED <<stopped, pc, tried, hand, stack>>
  BY DEF Assign, At, IInv, HandsAndStacks
<1>1. PICK k \in Tasks :
        /\ status[k] = "new" /\ Enqueue(t, k) /\ status' = [status EXCEPT ![k] = "assigned"]
        /\ \E w \in {Top(t), Outside} : keeper' = [keeper EXCEPT ![k] = w]
  BY DEF Assign
<1>2. PICK w \in {Top(t), Outside} : keeper' = [keeper EXCEPT ![k] = w]
  BY <1>1
<1>3. w \in Frames \cup {Outside} /\ (w # Outside => w \in Range(stack[t]))
  BY <1>0, TopFacts
<1>4. /\ k \notin Range(global) /\ \A v \in Workers : k \notin Range(inner[v])
      /\ \A u \in Threads : hand[u] # k /\ k \notin Range(stack[u])
  BY <1>1, Elsewhere
<1>5. /\ global' \in Seq(Tasks) /\ IsInjective(global')
      /\ inner' \in [Workers -> Seq(Tasks)] /\ \A v \in Workers : IsInjective(inner'[v])
      /\ \A j : j \in Range(global') <=> j \in Range(global) \/ (t \notin Workers /\ j = k)
      /\ \A v \in Workers : \A j :
              j \in Range(inner'[v]) <=> j \in Range(inner[v]) \/ (v = t /\ j = k)
  <2>1. /\ global \in Seq(Tasks) /\ IsInjective(global) /\ inner \in [Workers -> Seq(Tasks)]
        /\ \A v \in Workers : IsInjective(inner[v])
    BY DEF IInv, TypeOK, NoneTwice
  <2>2. CASE t \in Workers
    <3>1. /\ Append(inner[t], k) \in Seq(Tasks) /\ IsInjective(Append(inner[t], k))
          /\ \A j : j \in Range(Append(inner[t], k)) <=> j \in Range(inner[t]) \/ j = k
      BY <1>4, <2>1, <2>2, Appended
    <3>2. inner' = [inner EXCEPT ![t] = Append(inner[t], k)] /\ global' = global
      BY <1>1, <2>2 DEF Enqueue
    <3> QED BY <2>1, <2>2, <3>1, <3>2
  <2>3. CASE t \notin Workers
    <3>1. /\ Append(global, k) \in Seq(Tasks) /\ IsInjective(Append(global, k))
          /\ \A j : j \in Range(Append(global, k)) <=> j \in Range(global) \/ j = k
      BY <1>4, <2>1, Appended
    <3>2. global' = Append(global, k) /\ inner' = inner
      BY <1>1, <2>3 DEF Enqueue
    <3> QED BY <2>1, <2>3, <3>1, <3>2
  <2> QED BY <2>2, <2>3
<1>6. TypeOK'
  BY <1>0, <1>1, <1>2, <1>3, <1>5 DEF IInv, TypeOK
<1>7. OnePlace'
  <2> SUFFICES ASSUME NEW j \in Tasks
               PROVE  \E kind \in Kinds, u \in Threads : LiesIn(j, kind, u)'
    BY DEF OnePlace
  <2>1. PICK kind \in Kinds : \E u \in Threads : LiesIn(j, kind, u)
    BY DEF IInv, OnePlace
  <2>2. PICK u \in Threads : LiesIn(j, kind, u)
    BY <2>1
  <2>3. status \in [Tasks -> {"new", "assigned", "done", "left"}]
    BY DEF IInv, TypeOK
  <2>4. CASE j # k
    <3>1. LiesIn(j, kind, u)'
      BY <1>0, <1>1, <1>5, <2>2, <2>3, <2>4 DEF LiesIn
    <3> QED BY <3>1
  <2>5. CASE j = k /\ t \in Workers
    <3>1. LiesIn(j, "inner", t)'
      BY <1>0, <1>1, <1>4, <1>5, <2>3, <2>5 DEF LiesIn
    <3> QED BY <3>1 DEF Kinds
  <2>6. CASE j = k /\ t \notin Workers
    <3>1. LiesIn(j, "global", t)'
      BY <1>0, <1>1, <1>4, <1>5, <2>3, <2>6 DEF LiesIn
    <3> QED BY <3>1 DEF Kinds
  <2> QED BY <2>4, <2>5, <2>6
<1>8. NoneTwice'
  BY <1>0, <1>5 DEF IInv, NoneTwice
<1>9. HandsAndStacks'
  BY <1>0 DEF IInv, HandsAndStacks
<1>10. KeepersRun' /\ OnlyOutsideLeft'
  BY <1>0, <1>1, <1>2, <1>3 DEF IInv, TypeOK, KeepersRun, OnlyOutsideLeft
<1>11. StartedInOrder'
  BY <1>0, <1>2, <1>4 DEF IInv, TypeOK, StartedInOrder, Ranked
<1> QED BY <1>6, <1>7, <1>8, <1>9, <1>10, <1>11 DEF IInv

\* A started task comes after all that were started before.
LEMMA NewestRank ==
  ASSUME IInv, NEW t \in Threads, NEW k \in Tasks, hand[t] = k,
         stack' = [stack EXCEPT ![t] = Append(stack[t], k)], keeper' = keeper
  PROVE  StartedInOrder'
<1>1. PICK n \in Nat : \E rank \in [Frames -> 0..n] : Ranked(rank)
  BY DEF IInv, StartedInOrder
<1>2. PICK rank \in [Frames -> 0..n] : Ranked(rank)
  BY <1>1
<1> DEFINE newer == [rank EXCEPT ![k] = n + 1]
<1>3. k \in Frames /\ newer \in [Frames -> 0..n + 1] /\ newer[k] = n + 1
      /\ \A f \in Frames \ {k} : newer[f] = rank[f] /\ rank[f] < n + 1
  BY DEF Frames
<1>4. /\ \A u \in Threads : k \notin Range(stack[u])
      /\ \A u \in Threads : stack[u] \in Seq(Frames) /\ IsInjective(stack[u])
      /\ stack \in [Threads -> Seq(Frames)]
  BY Elsewhere DEF IInv, TypeOK, NoneTwice
<1> HIDE DEF newer
<1>5. ASSUME NEW u \in Threads
      PROVE  Rising(stack[u], newer)
  <2>1. \A i \in DOMAIN stack[u] : stack[u][i] \in Frames \ {k}
    BY <1>4, LenProperties, ElementOfSeq DEF Range
  <2> QED BY <1>2, <1>3, <2>1 DEF Ranked, Rising
<1>6. Rising(stack'[t], newer)
  <2>1. /\ Len(Append(stack[t], k)) = Len(stack[t]) + 1 /\ Len(stack[t]) \in Nat
        /\ \A i \in 1..Len(stack[t]) : Append(stack[t], k)[i] = stack[t][i]
        /\ Append(stack[t], k)[Len(stack[t]) + 1] = k
        /\ Append(stack[t], k) \in Seq(Frames)
    BY <1>3, <1>4, Appended
  <2>2. DOMAIN Append(stack[t], k) = 1..Len(stack[t]) + 1 /\ DOMAIN stack[t] = 1..Len(stack[t])
    BY <1>4, <2>1, LenProperties
  <2>3. stack'[t] = Append(stack[t], k)
    BY <1>4
  <2>4. \A i \in 1..Len(stack[t]) : stack[t][i] \in Frames \ {k}
    BY <1>4, <2>2, ElementOfSeq DEF Range
  <2>5. ASSUME NEW i \in 1..Len(stack[t]) + 1, NEW j \in 1..Len(stack[t]) + 1, i < j
        PROVE  newer[stack'[t][i]] < newer[stack'[t][j]]
    <3>1. CASE j = Len(stack[t]) + 1
      <4>1. i \in 1..Len(stack[t])
        BY <2>1, <2>5, <3>1
      <4> QED BY <1>3, <2>1, <2>3, <2>4, <3>1, <4>1
    <3>2. CASE j # Len(stack[t]) + 1
      <4>0. Len(stack[t]) \in Nat
        BY <2>1
      <4>1. i \in DOMAIN stack[t] /\ j \in DOMAIN stack[t]
        BY <2>2, <2>5, <3>2, <4>0
      <4>2. newer[stack[t][i]] < newer[stack[t][j]]
        BY <1>5, <2>5, <4>1 DEF Rising
      <4> QED BY <2>1, <2>2, <2>3, <4>1, <4>2
    <3> QED BY <3>1, <3>2
  <2> QED BY <2>2, <2>3, <2>5 DEF Rising
<1>7. \A u \in Threads : Rising(stack'[u], newer)
  BY <1>4, <1>5, <1>6
<1>8. ASSUME NEW u \in Threads, NEW j \in Tasks, j \in Range(stack'[u]), keeper[j] # Outside
      PROVE  newer[keeper[j]] < newer[j]
  <2>1. j \in Range(stack[u]) \/ j = k
    BY <1>3, <1>4, <1>8, Appended
  <2>2. status[j] = "assigned"
    BY <2>1, Elsewhere
  <2>3. keeper[j] \in Frames \ {k}
    BY <1>4, <1>8, <2>2 DEF IInv, KeepersRun, TypeOK
  <2>4. CASE j = k
    BY <1>3, <2>3, <2>4
  <2>5. CASE j # k
    BY <1>2, <1>3, <1>8, <2>1, <2>3, <2>5 DEF Ranked, Frames
  <2> QED BY <2>4, <2>5
<1>9. Ranked(newer)'
  BY <1>7, <1>8 DEF Ranked
<1>10. n + 1 \in Nat
  OBVIOUS
<1> QED BY <1>3, <1>9, <1>10 DEF StartedInOrder

\* A task starts on top of its thread's stack.
LEMMA RunKeeps ==
  ASSUME IInv, NEW t \in Threads, Run(t)
  PROVE  IInv'
<1> DEFINE k == hand[t]
<1>0. /\ pc[t] = "run" /\ k \in Tasks /\ NoTask \notin Tasks
      /\ hand \in [Threads -> Tasks \cup {NoTask}] /\ stack \in [Threads -> Seq(Frames)]
  BY TasksAssumption DEF Run, At, IInv, TypeOK, HandsAndStacks, Frames
<1>1. /\ stack' = [stack EXCEPT ![t] = Append(stack[t], k)]
      /\ hand' = [hand EXCEPT ![t] = NoTask] /\ pc' = [pc EXCEPT ![t] = "body"]
      /\ UNCHANGED <<inner, global, stopped, tried, status, keeper>>
  BY DEF Run, GoTo
<1>2. \A u \in Threads : k \notin Range(stack[u])
  BY <1>0, Elsewhere
<1>3. /\ Append(stack[t], k) \in Seq(Frames) /\ Append(stack[t], k) # <<>>
      /\ Len(stack[t]) \in Nat
      /\ \A i \in 1..Len(stack[t]) : Append(stack[t], k)[i] = stack[t][i]
      /\ IsInjective(Append(stack[t], k))
      /\ \A j : j \in Range(Append(stack[t], k)) <=> j \in Range(stack[t]) \/ j = k
  BY <1>0, <1>2, Appended DEF IInv, NoneTwice, Frames
<1>4. stack' \in [Threads -> Seq(Frames)]
      /\ \A u \in Threads : \A j :
              j \in Range(stack'[u]) <=> j \in Range(stack[u]) \/ (u = t /\ j = k)
  BY <1>0, <1>1, <1>3
<1>5. StartedInOrder'
  BY <1>0, <1>1, NewestRank
<1> HIDE DEF k
<1>6. TypeOK'
  BY <1>1, <1>4 DEF IInv, TypeOK
<1>7. OnePlace'
  <2> SUFFICES ASSUME NEW j \in Tasks
               PROVE  \E kind \in Kinds, u \in Threads : LiesIn(j, kind, u)'
    BY DEF OnePlace
  <2>1. PICK kind \in Kinds : \E u \in Threads : LiesIn(j, kind, u)
    BY DEF IInv, OnePlace
  <2>2. PICK u \in Threads : LiesIn(j, kind, u)
    BY <2>1
  <2>3. hand[t] = k
    BY DEF k
  <2>4. CASE j # k
    <3>1. LiesIn(j, kind, u)'
      BY <1>0, <1>1, <1>4, <2>2, <2>3, <2>4 DEF LiesIn
    <3> QED BY <3>1
  <2>5. CASE j = k
    <3>1. LiesIn(j, "stack", t)'
      BY <1>0, <1>1, <1>4, <2>2, <2>3, <2>5 DEF LiesIn
    <3> QED BY <3>1 DEF Kinds
  <2> QED BY <2>4, <2>5
<1>8. NoneTwice'
  BY <1>0, <1>1, <1>3 DEF IInv, NoneTwice
<1>9. HandsAndStacks'
  <2>1. Root # k
    BY <1>0, TasksAssumption
  <2>2. stack[t] # <<>> => Append(stack[t], k)[1] = stack[t][1]
    BY <1>0, <1>3, EmptySeq
  <2>3. pc \in [Threads -> PlacesOfThreads] /\ Main \in Threads /\ Main \notin Workers
    BY WorkersAssumption DEF IInv, TypeOK, Threads, PlacesOfThreads
  <2>4. ASSUME NEW u \in Threads
        PROVE  /\ hand'[u] # NoTask <=> pc'[u] = "run"
               /\ pc'[u] \in {"loop", "join", "exited"} => stack'[u] = <<>>
               /\ pc'[u] = "body" => stack'[u] # <<>>
    BY <1>0, <1>1, <1>3, <2>3 DEF IInv, HandsAndStacks
  <2>5. ASSUME NEW w \in Workers
        PROVE  pc'[w] # "join" /\ Root \notin Range(stack'[w])
    BY <1>1, <1>4, <2>1, <2>3 DEF IInv, HandsAndStacks, Threads
  <2>6. pc'[Main] # "loop"
    BY <1>1, <2>3 DEF IInv, HandsAndStacks
  <2>7. pc'[Main] \in {"join", "exited"} \/ (stack'[Main] # <<>> /\ stack'[Main][1] = Root)
    BY <1>0, <1>1, <1>3, <2>2, <2>3 DEF IInv, HandsAndStacks
  <2> QED BY <2>4, <2>5, <2>6, <2>7 DEF HandsAndStacks
<1>10. KeepersRun' /\ OnlyOutsideLeft'
  BY <1>1, <1>4 DEF IInv, KeepersRun, OnlyOutsideLeft
<1> QED BY <1>5, <1>6, <1>7, <1>8, <1>9, <1>10 DEF IInv

\* Main's own code is at the bottom of its stack and nowhere else.
LEMMA RootFacts ==
  ASSUME IInv, NEW t \in Threads, stack[t] # <<>>
  PROVE  /\ Top(t) = Root => t = Main /\ Len(stack[t]) = 1
         /\ t = Main /\ Len(stack[t]) = 1 => Top(t) = Root
<1>1. /\ IsInjective(stack[t]) /\ Len(stack[t]) \in Nat \ {0} /\ DOMAIN stack[t] = 1..Len(stack[t])
      /\ Top(t) = stack[t][Len(stack[t])] /\ Top(t) \in Range(stack[t])
  BY TopFacts
<1>2. t = Main => stack[t][1] = Root
  BY DEF IInv, HandsAndStacks
<1>3. t # Main => Root \notin Range(stack[t])
  BY DEF IInv, HandsAndStacks, Threads
<1>4. t = Main /\ Top(t) = Root => Len(stack[t]) = 1
  <2>1. 1 \in DOMAIN stack[t] /\ Len(stack[t]) \in DOMAIN stack[t]
    BY <1>1
  <2> QED BY <1>1, <1>2, <2>1 DEF IsInjective
<1> QED BY <1>1, <1>2, <1>3, <1>4

\* A task ends, and its keeper may go on.
LEMMA FinishKeeps ==
  ASSUME IInv, NEW t \in Threads, Finish(t)
  PROVE  IInv'
<1> DEFINE k == Top(t)
<1>0. /\ pc[t] = "body" /\ stack[t] # <<>> /\ Awaited(k) = {} /\ Main \in Threads /\ Main \notin Workers
      /\ pc \in [Threads -> PlacesOfThreads] /\ stack \in [Threads -> Seq(Frames)]
      /\ status \in [Tasks -> {"new", "assigned", "done", "left"}]
  BY WorkersAssumption DEF Finish, At, IInv, HandsAndStacks, TypeOK, Threads, PlacesOfThreads
<1>1. /\ status' = [status EXCEPT ![k] = "done"] /\ stack' = [stack EXCEPT ![t] = Front(stack[t])]
      /\ pc' = [pc EXCEPT ![t] = IF Len(stack[t]) = 1 THEN "loop" ELSE "body"]
      /\ UNCHANGED <<inner, global, stopped, tried, hand, keeper>>
  BY DEF Finish, GoTo
<1>2. k # Root /\ k \in Tasks /\ k \in Range(stack[t])
  <2>1. k # Root
    BY <1>0, RootFacts DEF Finish
  <2> QED BY <1>0, <2>1, TopFacts DEF Frames
<1>3. /\ Front(stack[t]) \in Seq(Frames) /\ Len(Front(stack[t])) = Len(stack[t]) - 1
      /\ Len(stack[t]) \in Nat \ {0}
      /\ \A i \in 1..Len(stack[t]) - 1 : Front(stack[t])[i] = stack[t][i]
      /\ IsInjective(Front(stack[t]))
      /\ \A j : j \in Range(Front(stack[t])) <=> j \in Range(stack[t]) /\ j # k
  <2>1. stack[t] \in Seq(Frames) /\ stack[t] # <<>> /\ IsInjective(stack[t])
    BY <1>0 DEF IInv, NoneTwice
  <2>2. k = Last(stack[t])
    BY DEF Top
  <2> HIDE DEF k
  <2> QED BY <2>1, <2>2, LastTaken
<1>4. stack' \in [Threads -> Seq(Frames)]
      /\ \A u \in Threads : \A j :
              j \in Range(stack'[u]) <=> j \in Range(stack[u]) /\ ~(u = t /\ j = k)
  BY <1>0, <1>1, <1>3
<1>5. /\ Front(stack[t]) = <<>> <=> Len(stack[t]) = 1
      /\ Len(stack[t]) # 1 => Front(stack[t])[1] = stack[t][1]
  <2>1. stack[t] \in Seq(Frames) /\ stack[t] # <<>> /\ IsInjective(stack[t])
    BY <1>0 DEF IInv, NoneTwice
  <2> QED BY <2>1, LastTaken
<1>6. t = Main => Len(stack[t]) # 1 /\ Front(stack[t])[1] = Root
  <2>1. t = Main => Len(stack[t]) # 1
    BY <1>0, <1>2, RootFacts
  <2>2. t = Main => stack[t][1] = Root
    BY <1>0 DEF IInv, HandsAndStacks
  <2> QED BY <1>5, <2>1, <2>2
<1> HIDE DEF k
<1>7. TypeOK'
  BY <1>0, <1>1, <1>4 DEF IInv, TypeOK
<1>8. OnePlace'
  <2> SUFFICES ASSUME NEW j \in Tasks
               PROVE  \E kind \in Kinds, u \in Threads : LiesIn(j, kind, u)'
    BY DEF OnePlace
  <2>1. PICK kind \in Kinds : \E u \in Threads : LiesIn(j, kind, u)
    BY DEF IInv, OnePlace
  <2>2. PICK u \in Threads : LiesIn(j, kind, u)
    BY <2>1
  <2>4. CASE j # k
    <3>1. LiesIn(j, kind, u)'
      BY <1>0, <1>1, <1>4, <2>2, <2>4 DEF LiesIn
    <3> QED BY <3>1
  <2>5. CASE j = k
    <3>1. LiesIn(j, "nowhere", t)'
      BY <1>0, <1>1, <1>2, <1>4, <2>2, <2>5 DEF LiesIn
    <3> QED BY <3>1 DEF Kinds
  <2> QED BY <2>4, <2>5
<1>9. NoneTwice'
  BY <1>0, <1>1, <1>3 DEF IInv, NoneTwice
<1>10. HandsAndStacks'
  <2>1. ASSUME NEW u \in Threads
        PROVE  /\ hand'[u] # NoTask <=> pc'[u] = "run"
               /\ pc'[u] \in {"loop", "join", "exited"} => stack'[u] = <<>>
               /\ pc'[u] = "body" => stack'[u] # <<>>
    BY <1>0, <1>1, <1>5 DEF IInv, HandsAndStacks
  <2>2. ASSUME NEW w \in Workers
        PROVE  pc'[w] # "join" /\ Root \notin Range(stack'[w])
    BY <1>0, <1>1, <1>4 DEF IInv, HandsAndStacks, Threads
  <2>3. pc'[Main] # "loop"
    BY <1>0, <1>1, <1>6 DEF IInv, HandsAndStacks
  <2>4. pc'[Main] \in {"join", "exited"} \/ (stack'[Main] # <<>> /\ stack'[Main][1] = Root)
    BY <1>0, <1>1, <1>5, <1>6 DEF IInv, HandsAndStacks
  <2> QED BY <2>1, <2>2, <2>3, <2>4 DEF HandsAndStacks
<1>11. KeepersRun'
  <2> SUFFICES ASSUME NEW j \in Tasks, status'[j] = "assigned", keeper'[j] # Outside
               PROVE  \E u \in Threads : keeper'[j] \in Range(stack'[u])
    BY DEF KeepersRun
  <2>1. status[j] = "assigned" /\ keeper'[j] = keeper[j]
    BY <1>0, <1>1, <1>2
  <2>2. keeper[j] # k
    BY <1>0, <2>1 DEF Awaited
  <2>3. PICK u \in Threads : keeper[j] \in Range(stack[u])
    BY <2>1 DEF IInv, KeepersRun
  <2> QED BY <1>4, <2>1, <2>2, <2>3
<1>12. OnlyOutsideLeft'
  BY <1>0, <1>1 DEF IInv, OnlyOutsideLeft
<1>13. StartedInOrder'
  <2>1. PICK n \in Nat : \E rank \in [Frames -> 0..n] : Ranked(rank)
    BY DEF IInv, StartedInOrder
  <2>2. PICK rank \in [Frames -> 0..n] : Ranked(rank)
    BY <2>1
  <2>3. DOMAIN Front(stack[t]) = 1..Len(stack[t]) - 1 /\ DOMAIN stack[t] = 1..Len(stack[t])
    BY <1>0, <1>3, LenProperties
  <2>4. Rising(Front(stack[t]), rank)
    <3> SUFFICES ASSUME NEW i \in 1..Len(stack[t]) - 1, NEW j \in 1..Len(stack[t]) - 1, i < j
                 PROVE  rank[Front(stack[t])[i]] < rank[Front(stack[t])[j]]
      BY <2>3 DEF Rising
    <3>1. i \in DOMAIN stack[t] /\ j \in DOMAIN stack[t]
      BY <1>3, <2>3
    <3>2. rank[stack[t][i]] < rank[stack[t][j]]
      BY <2>2, <3>1 DEF Ranked, Rising
    <3> QED BY <1>3, <3>2
  <2>5. Ranked(rank)'
    BY <1>0, <1>1, <1>4, <2>2, <2>4 DEF Ranked
  <2> QED BY <2>5 DEF StartedInOrder
<1> QED BY <1>7, <1>8, <1>9, <1>10, <1>11, <1>12, <1>13 DEF IInv

-----------------------------------------------------------------------------
(* The pool is destroyed *)

\* The destructor stops the workers.
LEMMA DestroyKeeps ==
  ASSUME IInv, Destroy
  PROVE  IInv'
<1>0. /\ pc[Main] = "body" /\ stack[Main] # <<>> /\ Awaited(Root) = {}
      /\ Main \in Threads /\ Main \notin Workers
      /\ pc \in [Threads -> PlacesOfThreads] /\ stack \in [Threads -> Seq(Frames)]
  BY WorkersAssumption DEF Destroy, At, IInv, HandsAndStacks, TypeOK, Threads, PlacesOfThreads
<1>1. /\ stack' = [stack EXCEPT ![Main] = <<>>] /\ pc' = [pc EXCEPT ![Main] = "join"] /\ stopped' = TRUE
      /\ UNCHANGED <<inner, global, tried, hand, status, keeper>> /\ Top(Main) = Root
  BY DEF Destroy, GoTo
<1>2. \A j : j \in Range(stack[Main]) <=> j = Root
  <2>1. Len(stack[Main]) = 1
    BY <1>0, <1>1, RootFacts
  <2> QED BY <1>0, <1>1, <2>1, TopFacts DEF Range
<1>3. stack' \in [Threads -> Seq(Frames)]
      /\ \A u \in Threads : \A j :
              j \in Range(stack'[u]) <=> j \in Range(stack[u]) /\ ~(u = Main /\ j = Root)
  BY <1>0, <1>1, <1>2, EmptyRange, EmptySeq
<1>4. TypeOK'
  BY <1>0, <1>1, <1>3 DEF IInv, TypeOK
<1>5. OnePlace'
  BY <1>1, <1>3, TasksAssumption DEF IInv, OnePlace, LiesIn
<1>6. NoneTwice'
  BY <1>0, <1>1, EmptyRange DEF IInv, NoneTwice
<1>7. HandsAndStacks'
  <2>1. ASSUME NEW u \in Threads
        PROVE  /\ hand'[u] # NoTask <=> pc'[u] = "run"
               /\ pc'[u] \in {"loop", "join", "exited"} => stack'[u] = <<>>
               /\ pc'[u] = "body" => stack'[u] # <<>>
    BY <1>0, <1>1 DEF IInv, HandsAndStacks
  <2>2. ASSUME NEW w \in Workers
        PROVE  pc'[w] # "join" /\ Root \notin Range(stack'[w])
    BY <1>0, <1>1, <1>3 DEF IInv, HandsAndStacks, Threads
  <2>3. pc'[Main] = "join"
    BY <1>0, <1>1
  <2> QED BY <2>1, <2>2, <2>3 DEF HandsAndStacks
<1>8. KeepersRun'
  BY <1>0, <1>1, <1>3 DEF IInv, KeepersRun, Awaited
<1>9. OnlyOutsideLeft'
  BY <1>1 DEF IInv, OnlyOutsideLeft
<1>10. StartedInOrder'
  <2>1. PICK n \in Nat : \E rank \in [Frames -> 0..n] : Ranked(rank)
    BY DEF IInv, StartedInOrder
  <2>2. PICK rank \in [Frames -> 0..n] : Ranked(rank)
    BY <2>1
  <2>3. DOMAIN <<>> = {}
    OBVIOUS
  <2>4. Rising(<<>>, rank)
    BY <2>3 DEF Rising
  <2>5. Ranked(rank)'
    BY <1>0, <1>1, <1>3, <2>2, <2>4 DEF Ranked
  <2> QED BY <2>5 DEF StartedInOrder
<1> QED BY <1>4, <1>5, <1>6, <1>7, <1>8, <1>9, <1>10 DEF IInv

\* The tasks left in the queues are those that are not done, and nobody runs any more.
LEMMA DropKeeps ==
  ASSUME IInv, Drop
  PROVE  IInv'
<1>0. /\ \A t \in Threads : pc[t] \in {"join", "exited"} /\ stack[t] = <<>> /\ hand[t] = NoTask
      /\ Main \in Threads /\ Main \notin Workers
      /\ pc \in [Threads -> PlacesOfThreads] /\ NoTask \notin Tasks
      /\ status \in [Tasks -> {"new", "assigned", "done", "left"}]
  BY WorkersAssumption, TasksAssumption
     DEF Drop, At, IInv, HandsAndStacks, TypeOK, Threads, PlacesOfThreads, Frames
<1>1. /\ pc' = [pc EXCEPT ![Main] = "exited"] /\ inner' = [w \in Workers |-> <<>>] /\ global' = <<>>
      /\ status' = [k \in Tasks |-> IF k \in Queued THEN "left" ELSE status[k]]
      /\ UNCHANGED <<stopped, tried, hand, stack, keeper>>
  BY DEF Drop, GoTo, Queued
<1>2. ASSUME NEW k \in Tasks
      PROVE  k \in Queued <=> status[k] = "assigned"
  <2>1. PICK kind \in Kinds : \E u \in Threads : LiesIn(k, kind, u)
    BY DEF IInv, OnePlace
  <2>2. PICK u \in Threads : LiesIn(k, kind, u)
    BY <2>1
  <2>3. kind \notin {"hand", "stack"}
    BY <1>0, <2>2, EmptyRange DEF LiesIn
  <2>4. k \in Queued <=> k \in Range(global) \/ \E w \in Workers : k \in Range(inner[w])
    BY DEF Queued
  <2>5. kind = "inner" => u \in Workers
    BY <2>2 DEF LiesIn
  <2> QED BY <2>2, <2>3, <2>4, <2>5 DEF LiesIn, Kinds
<1>3. TypeOK'
  BY <1>0, <1>1, EmptySeq DEF IInv, TypeOK
<1>4. \A k \in Tasks : status'[k] # "assigned"
  BY <1>0, <1>1, <1>2
<1>5. OnePlace'
  <2> SUFFICES ASSUME NEW k \in Tasks
               PROVE  LiesIn(k, "nowhere", Main)'
    BY <1>0 DEF OnePlace, Kinds
  <2> QED BY <1>0, <1>1, <1>4, EmptyRange DEF LiesIn
<1>6. NoneTwice'
  BY <1>0, <1>1, EmptyRange DEF IInv, NoneTwice
<1>7. HandsAndStacks'
  BY <1>0, <1>1 DEF IInv, HandsAndStacks, Threads
<1>8. KeepersRun'
  BY <1>4 DEF KeepersRun
<1>9. OnlyOutsideLeft'
  <2> SUFFICES ASSUME NEW k \in Tasks, status'[k] = "left"
               PROVE  keeper'[k] = Outside
    BY DEF OnlyOutsideLeft
  <2>1. CASE status[k] = "assigned"
    BY <1>0, <1>1, <2>1, EmptyRange DEF IInv, KeepersRun
  <2>2. CASE status[k] = "left"
    BY <1>1, <2>2 DEF IInv, OnlyOutsideLeft
  <2> QED BY <1>0, <1>1, <1>2, <2>1, <2>2
<1>10. StartedInOrder'
  BY <1>1 DEF IInv, StartedInOrder, Ranked
<1> QED BY <1>3, <1>5, <1>6, <1>7, <1>8, <1>9, <1>10 DEF IInv

-----------------------------------------------------------------------------
(* The invariant *)

\* A new pool satisfies the invariant.
LEMMA InitInvariant == Init => IInv
<1> SUFFICES ASSUME Init
             PROVE  IInv
  OBVIOUS
<1>0. /\ Main \in Threads /\ Main \notin Workers /\ 0 \in 0..NumWorkers - 1 /\ NoTask \notin Tasks
      /\ <<>> \in Seq(Tasks) /\ <<>> \in Seq(Frames) /\ <<Root>> \in Seq(Frames)
  BY WorkersAssumption, TasksAssumption DEF Threads, Frames
<1>1. Range(<<Root>>) = {Root} /\ IsInjective(<<Root>>) /\ <<Root>> # <<>> /\ <<Root>>[1] = Root
  BY DEF Range, IsInjective
<1>2. TypeOK
  BY <1>0 DEF Init, TypeOK
<1>3. OnePlace
  <2> SUFFICES ASSUME NEW k \in Tasks
               PROVE  LiesIn(k, "nowhere", Main)
    BY <1>0 DEF OnePlace, Kinds
  <2>1. \A t \in Threads : k \notin Range(stack[t])
    BY <1>1, EmptyRange, TasksAssumption DEF Init
  <2> QED BY <1>0, <2>1, EmptyRange DEF Init, LiesIn
<1>4. NoneTwice
  BY <1>1, EmptyRange DEF Init, NoneTwice
<1>5. HandsAndStacks
  BY <1>0, <1>1, EmptyRange DEF Init, HandsAndStacks, Threads
<1>6. KeepersRun /\ OnlyOutsideLeft
  BY DEF Init, KeepersRun, OnlyOutsideLeft
<1>7. StartedInOrder
  <2> DEFINE rank == [f \in Frames |-> 0]
  <2>1. rank \in [Frames -> 0..0]
    OBVIOUS
  <2>2. DOMAIN <<>> = {} /\ DOMAIN <<Root>> = 1..1
    OBVIOUS
  <2>3. \A t \in Threads : Rising(stack[t], rank)
    BY <2>2 DEF Init, Rising
  <2>4. Ranked(rank)
    BY <2>3 DEF Init, Ranked
  <2> HIDE DEF rank
  <2> QED BY <2>1, <2>4 DEF StartedInOrder
<1> QED BY <1>2, <1>3, <1>4, <1>5, <1>6, <1>7 DEF IInv

\* Every step preserves the invariant.
LEMMA NextInvariant == IInv /\ [Next]_vars => IInv'
<1> SUFFICES ASSUME IInv, [Next]_vars
             PROVE  IInv'
  OBVIOUS
<1>1. CASE UNCHANGED vars
  <2> USE <1>1 DEF vars
  <2>1. TypeOK' /\ HandsAndStacks'
    BY DEF IInv, TypeOK, HandsAndStacks
  <2>2. OnePlace' /\ NoneTwice'
    BY DEF IInv, OnePlace, LiesIn, NoneTwice
  <2>3. KeepersRun' /\ OnlyOutsideLeft' /\ StartedInOrder'
    BY DEF IInv, KeepersRun, OnlyOutsideLeft, StartedInOrder, Ranked
  <2> QED BY <2>1, <2>2, <2>3 DEF IInv
<1>2. ASSUME NEW t \in Threads, Step(t)
      PROVE  IInv'
  BY <1>2, LoopKeeps, TakeOwnKeeps, TakeGlobalKeeps, StealKeeps, RunKeeps, FinishKeeps DEF Step
<1>3. ASSUME NEW t \in Threads, Assign(t) \/ Help(t) \/ Stop(t)
      PROVE  IInv'
  BY <1>3, AssignKeeps, HelpKeeps, StopKeeps
<1>4. CASE Destroy
  BY <1>4, DestroyKeeps
<1>5. CASE Drop
  BY <1>5, DropKeeps
<1> QED BY <1>1, <1>2, <1>3, <1>4, <1>5 DEF Next

\* The invariant holds in every state of the pool.
THEOREM InvariantHolds == Spec => []IInv
<1> QED BY InitInvariant, NextInvariant, PTL DEF Spec

\* Type correctness; in particular try_steal_task only looks into deques that exist.
THEOREM TypeCorrect == Spec => []TypeOK
<1>1. IInv => TypeOK
  BY DEF IInv
<1> QED BY InvariantHolds, <1>1, PTL

\* The destruction of the pool destroys no wrapper of a task that some code waits for,
\* for any number of workers and tasks.
THEOREM WaitedForIsNotLeft == Spec => []OnlyOutsideLeft
<1>1. IInv => OnlyOutsideLeft
  BY DEF IInv
<1> QED BY InvariantHolds, <1>1, PTL

-----------------------------------------------------------------------------
(* A task is in one place *)

\* The spots of a task one by one.
LEMMA SpotsOfTask ==
  ASSUME NEW k
  PROVE  \A p : p \in Spots(k) <=>
           \/ \E i \in DOMAIN global : global[i] = k /\ p = <<"global", Main, i>>
           \/ \E t \in Threads : hand[t] = k /\ p = <<"hand", t, 1>>
           \/ \E w \in Workers : \E i \in DOMAIN inner[w] : inner[w][i] = k /\ p = <<"inner", w, i>>
           \/ \E t \in Threads : \E i \in DOMAIN stack[t] : stack[t][i] = k /\ p = <<"stack", t, i>>
<1> DEFINE InGlobal == {<<"global", Main, i>> : i \in Positions(global, k)}
           InHand == {<<"hand", t, 1>> : t \in {u \in Threads : hand[u] = k}}
           InInner == UNION {{<<"inner", w, i>> : i \in Positions(inner[w], k)} : w \in Workers}
           InStack == UNION {{<<"stack", t, i>> : i \in Positions(stack[t], k)} : t \in Threads}
<1> SUFFICES ASSUME NEW p
             PROVE  p \in Spots(k) <=>
                      \/ \E i \in DOMAIN global : global[i] = k /\ p = <<"global", Main, i>>
                      \/ \E t \in Threads : hand[t] = k /\ p = <<"hand", t, 1>>
                      \/ \E w \in Workers : \E i \in DOMAIN inner[w] :
                            inner[w][i] = k /\ p = <<"inner", w, i>>
                      \/ \E t \in Threads : \E i \in DOMAIN stack[t] :
                            stack[t][i] = k /\ p = <<"stack", t, i>>
  OBVIOUS
<1>1. p \in InGlobal <=> \E i \in DOMAIN global : global[i] = k /\ p = <<"global", Main, i>>
  BY DEF Positions
<1>2. p \in InHand <=> \E t \in Threads : hand[t] = k /\ p = <<"hand", t, 1>>
  OBVIOUS
<1>3. p \in InInner <=> \E w \in Workers : \E i \in DOMAIN inner[w] : inner[w][i] = k /\ p = <<"inner", w, i>>
  BY DEF Positions
<1>4. p \in InStack <=> \E t \in Threads : \E i \in DOMAIN stack[t] : stack[t][i] = k /\ p = <<"stack", t, i>>
  BY DEF Positions
<1>5. p \in Spots(k) <=> p \in InGlobal \/ p \in InHand \/ p \in InInner \/ p \in InStack
  BY DEF Spots
<1> HIDE DEF InGlobal, InHand, InInner, InStack
<1> QED BY <1>1, <1>2, <1>3, <1>4, <1>5

\* Of each task that is assigned, and neither done nor left, there is one wrapper in
\* queues, hands and stacks, and none of any other, for any number of workers and tasks.
THEOREM EachRunsOnce == Spec => []RunsOnce
<1>1. ASSUME IInv, NEW k \in Tasks
      PROVE  Cardinality(Spots(k)) = IF status[k] = "assigned" THEN 1 ELSE 0
  <2>1. PICK kind \in Kinds : \E t \in Threads : LiesIn(k, kind, t)
    BY <1>1 DEF IInv, OnePlace
  <2>2. PICK t \in Threads : LiesIn(k, kind, t)
    BY <2>1
  <2>3. \A f, x : x \in Range(f) <=> \E i \in DOMAIN f : f[i] = x
    BY DEF Range
  <2>4. CASE kind = "nowhere"
    <3>1. Spots(k) = {}
      BY <2>2, <2>3, <2>4, SpotsOfTask DEF LiesIn
    <3> QED BY <2>2, <2>4, <3>1, FS_EmptySet DEF LiesIn
  <2>5. ASSUME kind # "nowhere"
        PROVE  \E q : Spots(k) = {q}
    <3>1. CASE kind = "global"
      <4>1. PICK i \in DOMAIN global : global[i] = k
        BY <2>2, <2>3, <3>1 DEF LiesIn
      <4>2. \A j \in DOMAIN global : global[j] = k => j = i
        BY <1>1, <4>1 DEF IInv, NoneTwice, IsInjective
      <4>3. Spots(k) = {<<"global", Main, i>>}
        BY <2>2, <2>3, <3>1, <4>1, <4>2, SpotsOfTask DEF LiesIn
      <4> QED BY <4>3
    <3>2. CASE kind = "hand"
      <4>1. Spots(k) = {<<"hand", t, 1>>}
        BY <2>2, <2>3, <3>2, SpotsOfTask DEF LiesIn
      <4> QED BY <4>1
    <3>3. CASE kind = "inner"
      <4>1. PICK i \in DOMAIN inner[t] : inner[t][i] = k
        BY <2>2, <2>3, <3>3 DEF LiesIn
      <4>2. \A j \in DOMAIN inner[t] : inner[t][j] = k => j = i
        BY <1>1, <2>2, <3>3, <4>1 DEF IInv, NoneTwice, IsInjective, LiesIn
      <4>3. Spots(k) = {<<"inner", t, i>>}
        BY <2>2, <2>3, <3>3, <4>1, <4>2, SpotsOfTask DEF LiesIn
      <4> QED BY <4>3
    <3>4. CASE kind = "stack"
      <4>1. PICK i \in DOMAIN stack[t] : stack[t][i] = k
        BY <2>2, <2>3, <3>4 DEF LiesIn
      <4>2. \A j \in DOMAIN stack[t] : stack[t][j] = k => j = i
        BY <1>1, <4>1 DEF IInv, NoneTwice, IsInjective
      <4>3. Spots(k) = {<<"stack", t, i>>}
        BY <2>2, <2>3, <3>4, <4>1, <4>2, SpotsOfTask DEF LiesIn
      <4> QED BY <4>3
    <3> QED BY <2>5, <3>1, <3>2, <3>3, <3>4 DEF Kinds
  <2>6. CASE kind # "nowhere"
    <3>1. PICK q : Spots(k) = {q}
      BY <2>5, <2>6
    <3>2. Cardinality({q}) = 1
      BY FS_Singleton
    <3> QED BY <2>2, <2>6, <3>1, <3>2 DEF LiesIn
  <2> QED BY <2>4, <2>6
<1>2. IInv => RunsOnce
  BY <1>1 DEF RunsOnce
<1> QED BY InvariantHolds, <1>2, PTL

\* No wrapper outlives the packaged_task it refers to: a wrapper is there only while its
\* task is assigned, and the code that holds it runs until it is done.
THEOREM WrappersDoNotDangle == Spec => []NothingDangles
<1>1. ASSUME IInv, NEW k \in Tasks, Spots(k) # {}
      PROVE  status[k] = "assigned"
  <2>1. PICK kind \in Kinds : \E t \in Threads : LiesIn(k, kind, t)
    BY <1>1 DEF IInv, OnePlace
  <2>2. PICK t \in Threads : LiesIn(k, kind, t)
    BY <2>1
  <2>3. \A f, x : x \in Range(f) <=> \E i \in DOMAIN f : f[i] = x
    BY DEF Range
  <2>4. kind # "nowhere"
    BY <1>1, <2>2, <2>3, SpotsOfTask DEF LiesIn
  <2> QED BY <2>2, <2>4 DEF LiesIn
<1>2. IInv => NothingDangles
  BY <1>1 DEF NothingDangles, IInv, KeepersRun
<1> QED BY InvariantHolds, <1>2, PTL

-----------------------------------------------------------------------------
(* Nested helping *)

\* Of finitely many ranks one is the highest.
LEMMA HighestRank ==
  ASSUME NEW n \in Nat, NEW ranks \in SUBSET (0..n), ranks # {}
  PROVE  \E r \in ranks : \A q \in ranks : q <= r
<1> DEFINE Above == {p \in Nat \X Nat : p[1] < p[2]}
           Gaps == {n - r : r \in ranks}
<1>1. IsWellFoundedOn(Above, Nat)
  <2>1. OpToRel(<, Nat) = Above
    BY DEF OpToRel
  <2> HIDE DEF Above
  <2> QED BY <2>1, NatLessThanWellFounded
<1>2. Gaps \subseteq Nat /\ Gaps # {}
  <2>1. \A r \in ranks : r \in Nat /\ r <= n
    OBVIOUS
  <2>2. \A r \in ranks : n - r \in Nat
    BY <2>1
  <2> QED BY <2>2
<1>3. PICK d \in Gaps : \A e \in Gaps : <<e, d>> \notin Above
  <2> HIDE DEF Above, Gaps
  <2>1. \E d \in Gaps : \A e \in Gaps : ~ (<<e, d>> \in Above)
    BY <1>1, <1>2, WFMin
  <2> QED BY <2>1
<1>4. PICK r \in ranks : d = n - r
  OBVIOUS
<1>5. ASSUME NEW q \in ranks
      PROVE  q <= r
  <2>1. n - q \in Gaps
    OBVIOUS
  <2>2. ~ (n - q < d)
    BY <1>2, <1>3, <2>1
  <2> QED BY <1>4, <2>2
<1> QED BY <1>5

\* If all running code waited for tasks and no task were queued or in a hand, the code
\* started last would wait for a task that was started later still.
THEOREM HelpingClosesNoCircle == Spec => []NoHelpingCircle
<1>1. ASSUME IInv, \E t \in Threads : Running(t), Queued = {}, \A t \in Threads : hand[t] = NoTask,
             \A t \in Threads : Running(t) => Awaited(Top(t)) # {}
      PROVE  FALSE
  <2>1. PICK n \in Nat : \E rank \in [Frames -> 0..n] : Ranked(rank)
    BY <1>1 DEF IInv, StartedInOrder
  <2>2. PICK rank \in [Frames -> 0..n] : Ranked(rank)
    BY <2>1
  <2> DEFINE Runners == {t \in Threads : Running(t)}
             Ranks == {rank[Top(t)] : t \in Runners}
  <2>3. \A t \in Runners : /\ stack[t] # <<>> /\ Top(t) \in Frames /\ Top(t) = stack[t][Len(stack[t])]
                           /\ Len(stack[t]) \in Nat \ {0} /\ DOMAIN stack[t] = 1..Len(stack[t])
                           /\ \A i \in DOMAIN stack[t] : stack[t][i] \in Frames
    BY <1>1, TopFacts, ElementOfSeq DEF Running
  <2>4. Ranks \in SUBSET (0..n) /\ Ranks # {}
    BY <1>1, <2>3
  <2>5. PICK r \in Ranks : \A q \in Ranks : q <= r
    <3> HIDE DEF Ranks
    <3> QED BY <2>4, HighestRank
  <2>6. PICK t \in Runners : r = rank[Top(t)]
    OBVIOUS
  <2>7. PICK k \in Tasks : keeper[k] = Top(t) /\ status[k] = "assigned"
    <3>1. PICK k \in Tasks : keeper[k] = Top(t) /\ status[k] \in {"assigned", "left"}
      BY <1>1, <2>6 DEF Awaited
    <3>2. keeper[k] # Outside
      BY <2>3, <2>6, <3>1, TasksAssumption
    <3> QED BY <1>1, <3>1, <3>2 DEF IInv, OnlyOutsideLeft
  <2>8. PICK u \in Threads : k \in Range(stack[u])
    <3>1. PICK kind \in Kinds : \E v \in Threads : LiesIn(k, kind, v)
      BY <1>1 DEF IInv, OnePlace
    <3>2. PICK v \in Threads : LiesIn(k, kind, v)
      BY <3>1
    <3>3. kind \notin {"nowhere", "hand"}
      BY <1>1, <2>7, <3>2, TasksAssumption DEF LiesIn, Frames
    <3>4. kind \notin {"global", "inner"}
      BY <1>1, <3>2 DEF LiesIn, Queued
    <3> QED BY <3>2, <3>3, <3>4 DEF LiesIn, Kinds
  <2>9. u \in Runners
    BY <2>8, EmptyRange DEF Running
  <2>10. rank[Top(t)] < rank[k]
    <3>1. keeper[k] # Outside
      BY <2>3, <2>6, <2>7, TasksAssumption
    <3> QED BY <2>2, <2>7, <2>8, <3>1 DEF Ranked
  <2>11. rank[k] <= rank[Top(u)]
    <3>1. PICK i \in DOMAIN stack[u] : stack[u][i] = k
      BY <2>8 DEF Range
    <3>2. CASE i = Len(stack[u])
      BY <2>3, <2>9, <3>1, <3>2 DEF Frames
    <3>3. CASE i # Len(stack[u])
      <4>1. i < Len(stack[u]) /\ Len(stack[u]) \in DOMAIN stack[u]
        BY <2>3, <2>9, <3>1, <3>3
      <4>2. rank[stack[u][i]] < rank[stack[u][Len(stack[u])]]
        BY <2>2, <3>1, <4>1 DEF Ranked, Rising
      <4>3. rank[k] < rank[Top(u)]
        BY <2>3, <2>9, <3>1, <4>2
      <4>4. rank[k] \in 0..n /\ rank[Top(u)] \in 0..n
        BY <2>3, <2>9 DEF Frames
      <4> QED BY <4>3, <4>4
    <3> QED BY <3>2, <3>3
  <2>12. rank[Top(u)] <= rank[Top(t)]
    BY <2>5, <2>6, <2>9
  <2>13. rank[k] \in 0..n /\ rank[Top(u)] \in 0..n /\ rank[Top(t)] \in 0..n
    BY <2>3, <2>6, <2>9 DEF Frames
  <2> QED BY <2>10, <2>11, <2>12, <2>13
<1>2. IInv => NoHelpingCircle
  BY <1>1 DEF NoHelpingCircle
<1> QED BY InvariantHolds, <1>2, PTL
=============================================================================
