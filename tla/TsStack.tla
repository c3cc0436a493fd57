------------------------------- MODULE TsStack -------------------------------
(* ts_adv::ts_stack: a stack behind one mutex, with a condition variable and  *)
(* an interrupt flag.  What runs under the mutex is one step, except the      *)
(* waiting pops, which hold it from their test until they sleep.              *)
EXTENDS Naturals, FiniteSets, Sequences

CONSTANTS Threads, Values, NoThread,
          Notifies, \* which of none, one, all the pushes do afterwards
          MaxLen,   \* bound: longest stack
          MaxBatch, \* bound: longest push_range, largest count of a pop_n
          Throws    \* whether moving a value can throw

ASSUME StackAssumption ==
  /\ NoThread \notin Threads /\ IsFiniteSet(Threads)
  /\ Notifies \subseteq {"none", "one", "all"}
  /\ Throws \in BOOLEAN /\ MaxLen \in Nat /\ MaxBatch \in Nat \ {0}

VARIABLES
  stack,      \* m_stack, its top last
  interrupt,  \* m_interrupt_waiting
  mutex,      \* who holds m_mut between two steps
  pc,         \* where each thread is; asleep is a wait on m_cb
  quiet       \* history: values may lie there that no thread was notified for

stackVars == <<stack, interrupt, mutex, pc, quiet>>

At(t, place) == pc[t] = place
GoTo(t, place) == pc' = [pc EXCEPT ![t] = place]
Sleepers == {t \in Threads : pc[t] = "asleep"}
PcAfterWaking(ts) == [u \in Threads |-> IF u \in ts THEN "woken" ELSE pc[u]]

\* The locks the operations take; the faults are operations that take none.
TakesNone == TRUE
PushLocks == mutex = NoThread
StopLocks == mutex = NoThread
Locks == mutex = NoThread

Put(content, silent) ==
  /\ stack' = content
  /\ quiet' = (content # <<>> /\ (quiet \/ silent))

AtMost(n) == IF n < Len(stack) THEN n ELSE Len(stack)
Without(k) == SubSeq(stack, 1, Len(stack) - k)
\* How many values a pop of n takes; fewer when a move throws.
Taken(n) == (IF Throws THEN 0 ELSE AtMost(n))..AtMost(n)

StackInit ==
  /\ stack = <<>> /\ interrupt = FALSE /\ mutex = NoThread /\ quiet = FALSE
  /\ pc = [t \in Threads |-> "idle"]

-----------------------------------------------------------------------------
(* Pushes and notifications *)

\* emplace, push and push_range of a batch; with k below its length an exception
\* ends it after k values, and nobody is notified.
Push(t, batch, notify, k) ==
  /\ At(t, "idle") /\ PushLocks
  /\ Put(stack \o SubSeq(batch, 1, k),
         IF k = Len(batch) THEN notify = "none" \/ (notify = "one" /\ k > 1) ELSE k > 0)
  /\ GoTo(t, IF k < Len(batch) \/ notify = "none" THEN "idle" ELSE notify)
  /\ UNCHANGED <<interrupt, mutex>>

PushSome(t) ==
  \E n \in 1..MaxBatch : \E batch \in [1..n -> Values], notify \in Notifies, k \in 0..n :
    Len(stack) + n <= MaxLen /\ Push(t, batch, notify, k)

\* notify_one() and notify_all() by themselves.
CallNotify(t) ==
  /\ At(t, "idle")
  /\ \E notify \in Notifies \ {"none"} : GoTo(t, notify)
  /\ UNCHANGED <<stack, interrupt, mutex, quiet>>

\* m_cb.notify_one() or notify_all(), with no lock.
Notify(t) ==
  /\ pc[t] \in {"one", "all"}
  /\ \E ts \in SUBSET Sleepers :
       /\ IF At(t, "all") THEN ts = Sleepers
          ELSE Cardinality(ts) = 1 \/ (ts = {} /\ Sleepers = {})
       /\ pc' = [PcAfterWaking(ts) EXCEPT ![t] = "idle"]
  /\ UNCHANGED <<stack, interrupt, mutex, quiet>>

StopWaitings(t) ==
  /\ At(t, "idle") /\ StopLocks
  /\ interrupt' = TRUE
  /\ pc' = PcAfterWaking(Sleepers)
  /\ UNCHANGED <<stack, mutex, quiet>>

-----------------------------------------------------------------------------
(* Pops *)

\* pop, pop_n and a try_lock_and_pop that gets the lock.
Pop(t) ==
  /\ At(t, "idle") /\ Locks
  /\ \E n \in 1..MaxBatch : \E k \in Taken(n) : Put(Without(k), FALSE)
  /\ UNCHANGED <<interrupt, mutex, pc>>

\* The waiting pops.  Count and deadline matter later, and are chosen there.
BeginWait(t) ==
  /\ At(t, "idle")
  /\ GoTo(t, "enter")
  /\ UNCHANGED <<stack, interrupt, mutex, quiet>>

\* interrupted; or as many values as there are up to the count; or timeout; or the wait
\* goes on, with the mutex still held.
Look(t) ==
  /\ pc[t] \in {"enter", "woken", "expired"} /\ Locks
  /\ \/ /\ interrupt
        /\ GoTo(t, "idle") /\ UNCHANGED <<stack, quiet, mutex>>
     \/ /\ ~interrupt /\ stack # <<>>
        /\ \E n \in 1..MaxBatch : \E k \in Taken(n) : Put(Without(k), k = 0 /\ At(t, "woken"))
        /\ GoTo(t, "idle") /\ UNCHANGED mutex
     \/ /\ ~interrupt /\ stack = <<>>
        /\ IF At(t, "expired") THEN GoTo(t, "idle") /\ UNCHANGED mutex
                               ELSE GoTo(t, "park") /\ mutex' = t
        /\ UNCHANGED <<stack, quiet>>
  /\ UNCHANGED interrupt

Park(t) ==
  /\ At(t, "park")
  /\ mutex' = NoThread
  /\ GoTo(t, "asleep")
  /\ UNCHANGED <<stack, interrupt, quiet>>

\* The deadline of a wait that has one passes, or m_cb wakes for no reason.
WakeAlone(t) ==
  /\ At(t, "asleep")
  /\ GoTo(t, "expired") \/ GoTo(t, "woken")
  /\ UNCHANGED <<stack, interrupt, mutex, quiet>>

-----------------------------------------------------------------------------
(* The whole stack *)

\* clear(), and the move constructor of another stack, which leaves this one empty.
Empty(t) ==
  /\ At(t, "idle") /\ Locks
  /\ Put(<<>>, FALSE)
  /\ UNCHANGED <<interrupt, mutex, pc>>

\* swap() with a stack of any content: nobody who sleeps here is notified.
Swap(t) ==
  /\ At(t, "idle") /\ Locks
  /\ \E n \in 0..MaxLen : \E other \in [1..n -> Values] : Put(other, TRUE)
  /\ UNCHANGED <<interrupt, mutex, pc>>

\* What a thread that is in an operation goes on with.
GoOn(t) == Notify(t) \/ Look(t) \/ Park(t)

StackNext ==
  \E t \in Threads :
    \/ PushSome(t) \/ CallNotify(t) \/ StopWaitings(t) \/ Pop(t) \/ BeginWait(t)
    \/ WakeAlone(t) \/ Empty(t) \/ Swap(t) \/ GoOn(t)

StackSpec == StackInit /\ [][StackNext]_stackVars

-----------------------------------------------------------------------------
(* What must hold. *)

\* Type invariant.
StackTypeOK ==
  /\ stack \in Seq(Values) /\ Len(stack) <= MaxLen
  /\ interrupt \in BOOLEAN /\ quiet \in BOOLEAN
  /\ mutex \in Threads \cup {NoThread}
  /\ pc \in [Threads -> {"idle", "one", "all", "enter", "woken", "expired", "park", "asleep"}]

\* Who has been notified, or is about to notify, and has not looked yet.
OnTheWay == {t \in Threads : pc[t] \in {"woken", "one"}}

\* While a thread sleeps, each value that a push announced has an awakened thread or a
\* notification under way: a push between wait_and_pop's test and its sleep, a stolen
\* wakeup or a deadline that passes meanwhile strand no value.
NoStrandedValue ==
  Sleepers # {} /\ ~quiet =>
    (\E t \in Threads : At(t, "all")) \/ Len(stack) <= Cardinality(OnTheWay)

\* After stop_waitings no thread sleeps or is about to: the flag reaches also those
\* that have tested it already.
InterruptedNobodySleeps ==
  interrupt => \A t \in Threads : pc[t] \notin {"park", "asleep"}

\* From its test until it sleeps a waiting thread has the mutex, and the stack is empty.
HeldToSleep ==
  \A t \in Threads :
    /\ mutex = t <=> At(t, "park")
    /\ At(t, "park") => stack = <<>>

StackIInv == StackTypeOK /\ HeldToSleep /\ InterruptedNobodySleeps /\ NoStrandedValue
=============================================================================
