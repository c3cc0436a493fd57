----------------------------- MODULE StackDrain -----------------------------
(* The third block of tests/test.cpp: a pusher, and poppers that drain a      *)
(* ts_stack until it is empty and the pusher has set its flag.                *)
EXTENDS TsStack

CONSTANTS Pusher, Items

Poppers == Threads \ {Pusher}

VARIABLES
  left,  \* how many values the pusher has not pushed yet
  stop,  \* the pusher's atomic flag
  at     \* where each popper is in its loop

drainVars == <<stackVars, left, stop, at>>

Init ==
  /\ StackInit
  /\ left = Items /\ stop = FALSE
  /\ at = [p \in Poppers |-> "pop"]

Step(p, from, to) == at[p] = from /\ at' = [at EXCEPT ![p] = to]

PushNext ==
  /\ left > 0
  /\ \E v \in Values : Push(Pusher, <<v>>, "one", 1)
  /\ left' = left - 1
  /\ UNCHANGED <<stop, at>>

\* stop=true;
SetStop ==
  /\ left = 0 /\ At(Pusher, "idle") /\ ~stop
  /\ stop' = TRUE
  /\ UNCHANGED <<stackVars, left, at>>

WaitAndPop(p) == Step(p, "pop", "popping") /\ BeginWait(p) /\ UNCHANGED <<left, stop>>

\* ts.empty(), which takes the mutex, then stop.load().
TestEmpty(p) ==
  /\ At(p, "idle") /\ Locks
  /\ Step(p, "popping", IF stack = <<>> THEN "load" ELSE "pop")
  /\ UNCHANGED <<stackVars, left, stop>>
TestStop(p) ==
  /\ Step(p, "load", IF stop THEN "interrupt" ELSE "pop")
  /\ UNCHANGED <<stackVars, left, stop>>
Interrupt(p) == Step(p, "interrupt", "return") /\ StopWaitings(p) /\ UNCHANGED <<left, stop>>

InStack(t) == GoOn(t) /\ UNCHANGED <<left, stop, at>>

Moves(t) ==
  \/ InStack(t)
  \/ t = Pusher /\ (PushNext \/ SetStop)
  \/ t \in Poppers /\ (WaitAndPop(t) \/ TestEmpty(t) \/ TestStop(t) \/ Interrupt(t))

Next == \E t \in Threads : Moves(t)

\* Threads go on when they can; mutexes need not be fair.
Spec == Init /\ [][Next]_drainVars /\ \A t \in Threads : WF_drainVars(Moves(t))

\* Every popper returns once the pusher has ended, so that the jointhreads of the block
\* can be joined.
DrainEnds == <>(\A p \in Poppers : at[p] = "return")
=============================================================================
