------------------------------ MODULE ThreadPool ------------------------------
(* basic_thread_pool: workers with a deque each and a global queue.  A task   *)
(* may assign tasks and wait for them; while it waits it takes other tasks    *)
(* and runs them on top of itself, as f1 of tests/test.cpp does.              *)
(*                                                                            *)
(* What is queued is a ptask_wrapper, which does not own its task: it holds a *)
(* reference to the packaged_task of the code that called assign_task.  k in  *)
(* a queue, a hand or a stack is such a wrapper; keeper[k] is who holds the   *)
(* packaged_task itself.                                                      *)
EXTENDS Integers, FiniteSets, Sequences, SequencesExt

CONSTANTS NumWorkers,  \* std::thread::hardware_concurrency()
          Main,        \* the thread that constructs and destroys the pool
          Tasks,       \* bound: the tasks there are to assign
          Root,        \* Main's own code between construction and destruction
          NoTask,
          Outside      \* code that holds packaged_tasks for longer than the pool lives

Workers == 0..NumWorkers - 1
Threads == Workers \cup {Main}
Frames == Tasks \cup {Root}

ASSUME WorkersAssumption == NumWorkers \in Nat \ {0} /\ Main \notin Workers
ASSUME TasksAssumption ==
  Root \notin Tasks /\ NoTask \notin Frames /\ Outside \notin Frames

VARIABLES
  inner,    \* m_inner_queues
  global,   \* m_queue, a FIFO queue
  stopped,  \* m_stopped
  pc,       \* where each thread is in thread_worker or try_work
  tried,    \* try_steal_task's i
  hand,     \* try_work's current_task
  stack,    \* the tasks a thread is running, each on top of the one before
  status,   \* of each task: new, assigned, done, or left in a queue that is destroyed
  keeper    \* the frame that holds the packaged_task until it is done, or Outside

vars == <<inner, global, stopped, pc, tried, hand, stack, status, keeper>>

At(t, place) == pc[t] = place
GoTo(t, place) == pc' = [pc EXCEPT ![t] = place]
Top(t) == Last(stack[t])
Running(t) == stack[t] # <<>>

\* What thread t does after try_work: the worker's loop, or the code that called it.
Back(t) == IF Running(t) THEN "body" ELSE "loop"

Init ==
  /\ inner = [w \in Workers |-> <<>>]
  /\ global = <<>>
  /\ stopped = FALSE
  /\ pc = [t \in Threads |-> IF t = Main THEN "body" ELSE "loop"]
  /\ tried = [t \in Threads |-> 0]
  /\ hand = [t \in Threads |-> NoTask]
  /\ stack = [t \in Threads |-> IF t = Main THEN <<Root>> ELSE <<>>]
  /\ status = [k \in Tasks |-> "new"]
  /\ keeper = [k \in Tasks |-> Outside]

-----------------------------------------------------------------------------
(* The pool *)

\* assign_task: the wrapper of a worker's task goes to the worker's own deque.
Enqueue(t, k) ==
  IF t \in Workers
    THEN inner' = [inner EXCEPT ![t] = Append(@, k)] /\ UNCHANGED global
    ELSE global' = Append(global, k) /\ UNCHANGED inner

\* The running code assigns a task.  It holds the packaged_task on its own stack and
\* waits for the future before that ends, as f1 and main do, or the packaged_task
\* lies outside and is there until the pool has gone.
Assign(t) ==
  /\ At(t, "body")
  /\ \E k \in Tasks :
       /\ status[k] = "new"
       /\ Enqueue(t, k)
       /\ status' = [status EXCEPT ![k] = "assigned"]
       /\ \E f \in {Top(t), Outside} : keeper' = [keeper EXCEPT ![k] = f]
  /\ UNCHANGED <<stopped, pc, tried, hand, stack>>

\* while(!m_stopped) try_work();
Loop(t) ==
  /\ At(t, "loop")
  /\ GoTo(t, IF stopped THEN "exited" ELSE "own")
  /\ UNCHANGED <<inner, global, stopped, tried, hand, stack, status, keeper>>

\* try_take_task, first part: the thread's own deque, oldest first.  Faults look no
\* further than m_stopped, or look on although a task was found.
TakeOwnUnlessStopped(t) ==
  /\ At(t, "own")
  /\ IF ~stopped /\ t \in Workers /\ inner[t] # <<>>
       THEN /\ hand' = [hand EXCEPT ![t] = Head(inner[t])]
            /\ inner' = [inner EXCEPT ![t] = Tail(@)]
            /\ GoTo(t, "run")
       ELSE GoTo(t, IF stopped THEN Back(t) ELSE "global") /\ UNCHANGED <<hand, inner>>
  /\ UNCHANGED <<global, stopped, tried, stack, status, keeper>>
TakeOwnAndMore(t) ==
  /\ At(t, "own")
  /\ IF t \in Workers /\ inner[t] # <<>>
       THEN /\ hand' = [hand EXCEPT ![t] = Head(inner[t])]
            /\ inner' = [inner EXCEPT ![t] = Tail(@)]
            /\ GoTo(t, IF global # <<>> THEN "global" ELSE "run")
       ELSE GoTo(t, "global") /\ UNCHANGED <<hand, inner>>
  /\ UNCHANGED <<global, stopped, tried, stack, status, keeper>>
TakeOwn(t) ==
  /\ At(t, "own")
  /\ IF t \in Workers /\ inner[t] # <<>>
       THEN /\ hand' = [hand EXCEPT ![t] = Head(inner[t])]
            /\ inner' = [inner EXCEPT ![t] = Tail(@)]
            /\ GoTo(t, "run")
       ELSE GoTo(t, "global") /\ UNCHANGED <<hand, inner>>
  /\ UNCHANGED <<global, stopped, tried, stack, status, keeper>>

\* Second part: the global queue.
TakeGlobal(t) ==
  /\ At(t, "global")
  /\ IF global # <<>>
       THEN /\ hand' = [hand EXCEPT ![t] = Head(global)]
            /\ global' = Tail(global)
            /\ GoTo(t, "run")
       ELSE GoTo(t, "steal") /\ UNCHANGED <<hand, global>>
  /\ UNCHANGED <<inner, stopped, tried, stack, status, keeper>>

\* tl_thread_index is -1 in a thread that is no worker.
Victim(t) == ((IF t \in Workers THEN t ELSE -1) + tried[t] + 1) % NumWorkers

\* Whether try_steal_task has tried all deques; the fault tries once more.
AllTriedLate(t) == tried[t] = NumWorkers
AllTried(t) == tried[t] + 1 = NumWorkers

\* Third part: the newest task of each deque in turn, the thread's own last.  The
\* fault leaves the wrapper in the deque, as a copy instead of a move would.
StealAndLeave(t) ==
  /\ At(t, "steal")
  /\ LET v == Victim(t) IN
     \/ /\ inner[v] # <<>>
        /\ hand' = [hand EXCEPT ![t] = Last(inner[v])]
        /\ GoTo(t, "run")
        /\ tried' = [tried EXCEPT ![t] = 0]
     \/ /\ inner[v] = <<>>
        /\ IF AllTried(t)
             THEN GoTo(t, Back(t)) /\ tried' = [tried EXCEPT ![t] = 0]
             ELSE tried' = [tried EXCEPT ![t] = @ + 1] /\ UNCHANGED pc
        /\ UNCHANGED hand
  /\ UNCHANGED <<inner, global, stopped, stack, status, keeper>>
Steal(t) ==
  /\ At(t, "steal")
  /\ LET v == Victim(t) IN
     \/ /\ inner[v] # <<>>
        /\ hand' = [hand EXCEPT ![t] = Last(inner[v])]
        /\ inner' = [inner EXCEPT ![v] = Front(@)]
        /\ GoTo(t, "run")
        /\ tried' = [tried EXCEPT ![t] = 0]
     \/ /\ inner[v] = <<>>
        /\ IF AllTried(t)
             THEN GoTo(t, Back(t)) /\ tried' = [tried EXCEPT ![t] = 0]
             ELSE tried' = [tried EXCEPT ![t] = @ + 1] /\ UNCHANGED pc
        /\ UNCHANGED <<hand, inner>>
  /\ UNCHANGED <<global, stopped, stack, status, keeper>>

\* current_task()
Run(t) ==
  /\ At(t, "run")
  /\ stack' = [stack EXCEPT ![t] = Append(@, hand[t])]
  /\ hand' = [hand EXCEPT ![t] = NoTask]
  /\ GoTo(t, "body")
  /\ UNCHANGED <<inner, global, stopped, tried, status, keeper>>

-----------------------------------------------------------------------------
(* The code that tasks and Main run *)

\* The tasks of f whose futures are not ready.
Awaited(f) == {k \in Tasks : keeper[k] = f /\ status[k] \in {"assigned", "left"}}

\* while(fut.wait_for(0ms) != ready) tp.try_work();
Help(t) ==
  /\ At(t, "body")
  /\ Awaited(Top(t)) # {}
  /\ GoTo(t, "own")
  /\ UNCHANGED <<inner, global, stopped, tried, hand, stack, status, keeper>>

\* A task returns or throws, which makes its future ready.  The packaged_tasks that
\* it holds end with it: it has waited for them.
Finish(t) ==
  /\ At(t, "body")
  /\ t \in Workers \/ Top(t) # Root
  /\ Awaited(Top(t)) = {}
  /\ status' = [status EXCEPT ![Top(t)] = "done"]
  /\ stack' = [stack EXCEPT ![t] = Front(@)]
  /\ GoTo(t, IF Len(stack[t]) = 1 THEN "loop" ELSE "body")
  /\ UNCHANGED <<inner, global, stopped, tried, hand, keeper>>

\* stop(), which tasks may call too.
Stop(t) ==
  /\ At(t, "body")
  /\ ~stopped
  /\ stopped' = TRUE
  /\ UNCHANGED <<inner, global, pc, tried, hand, stack, status, keeper>>

\* Main destroys the pool: stop(), then m_threads joins the workers.
Destroy ==
  /\ At(Main, "body")
  /\ Top(Main) = Root
  /\ Awaited(Root) = {}
  /\ stopped' = TRUE
  /\ stack' = [stack EXCEPT ![Main] = <<>>]
  /\ GoTo(Main, "join")
  /\ UNCHANGED <<inner, global, tried, hand, status, keeper>>

Queued == Range(global) \cup UNION {Range(inner[w]) : w \in Workers}

\* The queues go with the wrappers left in them; the packaged_tasks these refer to
\* stay as they are, and are not called any more.  The fault is what another order of
\* the members would do: no join before.
DropUnjoined ==
  /\ At(Main, "join")
  /\ GoTo(Main, "exited")
  /\ inner' = [w \in Workers |-> <<>>]
  /\ global' = <<>>
  /\ status' = [k \in Tasks |-> IF k \in Queued THEN "left" ELSE status[k]]
  /\ UNCHANGED <<stopped, tried, hand, stack, keeper>>
Drop ==
  /\ At(Main, "join")
  /\ \A w \in Workers : At(w, "exited")
  /\ GoTo(Main, "exited")
  /\ inner' = [w \in Workers |-> <<>>]
  /\ global' = <<>>
  /\ status' = [k \in Tasks |-> IF k \in Queued THEN "left" ELSE status[k]]
  /\ UNCHANGED <<stopped, tried, hand, stack, keeper>>

Step(t) ==
  Loop(t) \/ TakeOwn(t) \/ TakeGlobal(t) \/ Steal(t) \/ Run(t) \/ Finish(t)

Next ==
  \/ \E t \in Threads : Step(t) \/ Assign(t) \/ Help(t) \/ Stop(t)
  \/ Destroy
  \/ Drop
  \/ \* everything has ended
     /\ \A t \in Threads : At(t, "exited")
     /\ UNCHANGED vars

Spec == Init /\ [][Next]_vars

\* Threads go on when they can; code that waits helps, and ends.  Main may block on a
\* future instead, unless it knows that the workers do not take new tasks.  Nobody
\* has to assign a task.
FairSpec ==
  /\ Spec
  /\ \A t \in Threads : WF_vars(Step(t))
  /\ \A w \in Workers : WF_vars(Help(w))
  /\ WF_vars(stopped /\ Help(Main))
  /\ WF_vars(Destroy) /\ WF_vars(Drop)

-----------------------------------------------------------------------------
(* What must hold. *)

\* Type invariant.
TypeOK ==
  /\ inner \in [Workers -> Seq(Tasks)]
  /\ global \in Seq(Tasks)
  /\ stopped \in BOOLEAN
  /\ pc \in [Threads -> {"loop", "own", "global", "steal", "run", "body", "join", "exited"}]
  /\ tried \in [Threads -> 0..NumWorkers - 1]
  /\ hand \in [Threads -> Tasks \cup {NoTask}]
  /\ stack \in [Threads -> Seq(Frames)]
  /\ status \in [Tasks -> {"new", "assigned", "done", "left"}]
  /\ keeper \in [Tasks -> Frames \cup {Outside}]

Positions(s, k) == {i \in DOMAIN s : s[i] = k}

\* Where the wrapper of task k is: queued, in a hand, or running.
Spots(k) ==
  {<<"global", Main, i>> : i \in Positions(global, k)}
    \cup {<<"hand", t, 1>> : t \in {u \in Threads : hand[u] = k}}
    \cup (UNION {{<<"inner", w, i>> : i \in Positions(inner[w], k)} : w \in Workers})
    \cup (UNION {{<<"stack", t, i>> : i \in Positions(stack[t], k)} : t \in Threads})

\* A task has one wrapper from its assignment until it is done or the queues are
\* destroyed, and none before and after: while the pool works it is not lost, and it is
\* called at most once, whoever pops and steals at the same time.
RunsOnce ==
  \A k \in Tasks : Cardinality(Spots(k)) = IF status[k] = "assigned" THEN 1 ELSE 0

\* No wrapper outlives the packaged_task it refers to: whoever holds that is still
\* there, for as long as a queue, a hand or a running call has the wrapper.
NothingDangles ==
  \A k \in Tasks :
    Spots(k) # {} => keeper[k] = Outside \/ \E t \in Threads : keeper[k] \in Range(stack[t])

\* Tasks that run others on top of themselves while they wait never wait for each
\* other in a circle: if the top of every stack waits, a task is queued or about to
\* run.
NoHelpingCircle ==
  (\E t \in Threads : Running(t)) =>
    \/ Queued # {} \/ \E t \in Threads : hand[t] # NoTask
    \/ \E t \in Threads : Running(t) /\ Awaited(Top(t)) = {}

\* The destruction of the pool destroys no wrapper whose task some code waits for,
\* which would wait for ever: the tasks left in the queues are those from outside.
OnlyOutsideLeft == \A k \in Tasks : status[k] = "left" => keeper[k] = Outside

\* The pool is destroyed in the end: the join ends although tasks wait for tasks when
\* the workers are stopped.
DestructionEnds == At(Main, "join") ~> \A t \in Threads : At(t, "exited")

\* Every task that the code that holds it waits for is run in the end.
WaitedForRuns == \A k \in Tasks : (keeper[k] # Outside) ~> (status[k] = "done")
=============================================================================
