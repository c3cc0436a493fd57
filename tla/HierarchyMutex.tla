---------------------------- MODULE HierarchyMutex ----------------------------
(* hierarchy_mutex: a mutex with a level.  A thread may only lock a mutex     *)
(* whose level is below that of every mutex it holds; the thread-local        *)
(* this_thread_h_ is the level of the last one it locked, and each mutex      *)
(* remembers in prev_h_ what that was before.                                *)
EXTENDS Naturals

CONSTANTS Threads, Mutexes,
          Level,    \* hierarchy_, the level each mutex was constructed with
          Top,      \* std::numeric_limits<size_type>::max()
          NoThread, NoMutex

ASSUME LevelAssumption == Top \in Nat /\ Level \in [Mutexes -> 0..Top]
ASSUME NamesAssumption == NoThread \notin Threads /\ NoMutex \notin Mutexes

VARIABLES owner,   \* the holder of each mut_
          prev,    \* prev_h_
          here,    \* this_thread_h_
          pc,      \* where a thread is in lock or try_lock
          target   \* the mutex it is called on

vars == <<owner, prev, here, pc, target>>

Init ==
  /\ owner = [m \in Mutexes |-> NoThread]
  /\ prev = [m \in Mutexes |-> 0]
  /\ here = [t \in Threads |-> Top]
  /\ pc = [t \in Threads |-> "idle"]
  /\ target = [t \in Threads |-> NoMutex]

\* check() returns when this holds and throws otherwise; the fault admits a level
\* that is held already.
Admits(t, m) == Level[m] <= here[t]
Check(t, m) == Level[m] < here[t]

\* lock() and try_lock() first check; what is thrown changes nothing.
Call(t, m, place) ==
  /\ pc[t] = "idle"
  /\ Check(t, m)
  /\ pc' = [pc EXCEPT ![t] = place]
  /\ target' = [target EXCEPT ![t] = m]
  /\ UNCHANGED <<owner, prev, here>>
Lock(t, m) == Call(t, m, "lock")
TryLock(t, m) == Call(t, m, "try")

\* mut_.lock() returns, or mut_.try_lock() succeeds.
Acquire(t) ==
  /\ pc[t] \in {"lock", "try"}
  /\ owner[target[t]] = NoThread
  /\ owner' = [owner EXCEPT ![target[t]] = t]
  /\ pc' = [pc EXCEPT ![t] = "update"]
  /\ UNCHANGED <<prev, here, target>>

\* mut_.try_lock() fails, which it may do for no reason too.
TryFails(t) ==
  /\ pc[t] = "try"
  /\ pc' = [pc EXCEPT ![t] = "idle"]
  /\ target' = [target EXCEPT ![t] = NoMutex]
  /\ UNCHANGED <<owner, prev, here>>

\* update_hierarchy().  A fault forgets the level to go back to.
UpdateForgetting(t) ==
  /\ pc[t] = "update"
  /\ here' = [here EXCEPT ![t] = Level[target[t]]]
  /\ pc' = [pc EXCEPT ![t] = "idle"]
  /\ target' = [target EXCEPT ![t] = NoMutex]
  /\ UNCHANGED <<owner, prev>>
UpdateHierarchy(t) ==
  /\ pc[t] = "update"
  /\ prev' = [prev EXCEPT ![target[t]] = here[t]]
  /\ here' = [here EXCEPT ![t] = Level[target[t]]]
  /\ pc' = [pc EXCEPT ![t] = "idle"]
  /\ target' = [target EXCEPT ![t] = NoMutex]
  /\ UNCHANGED owner

\* unlock() of a mutex the thread holds: it throws, changing nothing, unless the
\* mutex is the last one locked.  The fault unlocks in any order.
UnlockAnyOrder(t, m) ==
  /\ pc[t] = "idle"
  /\ owner[m] = t
  /\ here' = [here EXCEPT ![t] = prev[m]]
  /\ owner' = [owner EXCEPT ![m] = NoThread]
  /\ UNCHANGED <<prev, pc, target>>
Unlock(t, m) ==
  /\ pc[t] = "idle"
  /\ owner[m] = t
  /\ here[t] = Level[m]
  /\ here' = [here EXCEPT ![t] = prev[m]]
  /\ owner' = [owner EXCEPT ![m] = NoThread]
  /\ UNCHANGED <<prev, pc, target>>

Next ==
  \E t \in Threads :
    \/ \E m \in Mutexes : Lock(t, m) \/ TryLock(t, m) \/ Unlock(t, m)
    \/ Acquire(t)
    \/ TryFails(t)
    \/ UpdateHierarchy(t)

Spec == Init /\ [][Next]_vars

-----------------------------------------------------------------------------
\* t holds m and has recorded its level.
Holds(t, m) == owner[m] = t /\ ~(pc[t] = "update" /\ target[t] = m)

\* Type invariant.
TypeOK ==
  /\ owner \in [Mutexes -> Threads \cup {NoThread}]
  /\ prev \in [Mutexes -> 0..Top]
  /\ here \in [Threads -> 0..Top]
  /\ pc \in [Threads -> {"idle", "lock", "try", "update"}]
  /\ target \in [Threads -> Mutexes \cup {NoMutex}]
  /\ \A t \in Threads : pc[t] # "idle" => target[t] \in Mutexes

\* The stack of levels that prev_h_ threads through the held mutexes
\* (hierarchy_mutex.h:16-19, 37-42): this_thread_h_ is the lowest level held, each
\* prev_h_ the next one up, and the last one the initial maximum.
LevelStack ==
  \A t \in Threads :
    /\ here[t] = Top \/ \E m \in Mutexes : Holds(t, m) /\ Level[m] = here[t]
    /\ \A m \in Mutexes : Holds(t, m) =>
         /\ here[t] <= Level[m]
         /\ Level[m] < prev[m]
         /\ prev[m] = Top \/ \E n \in Mutexes : Holds(t, n) /\ Level[n] = prev[m]
         /\ \A n \in Mutexes \ {m} :
              Holds(t, n) => Level[n] < Level[m] \/ prev[m] <= Level[n]

\* What a thread is about to lock is below all it holds, and is its own only once
\* it has been acquired.
BelowHeld ==
  \A t \in Threads :
    /\ pc[t] # "idle" => Level[target[t]] < here[t]
    /\ pc[t] = "update" => owner[target[t]] = t

\* The inductive invariant.
IInv == TypeOK /\ LevelStack /\ BelowHeld

\* No thread calls mut_.lock() or mut_.try_lock() on a mutex it holds, which for
\* a std::mutex is undefined behaviour.
NoSelfLock == \A t \in Threads : pc[t] \in {"lock", "try"} => owner[target[t]] # t

\* A thread that holds nothing is back at the initial level, after any sequence of
\* locks, failed tries, unlocks and violations: it can lock any mutex again.
LevelRestored ==
  \A t \in Threads :
    pc[t] = "idle" /\ (\A m \in Mutexes : owner[m] # t) => here[t] = Top

Waits(t) == pc[t] = "lock" /\ owner[target[t]] # NoThread

\* The purpose of the class: threads never wait for each other in a circle.  If a
\* thread waits, then some holder does not.
NoCircularWait ==
  (\E t \in Threads : Waits(t)) =>
    \E t, u \in Threads : Waits(t) /\ owner[target[t]] = u /\ ~Waits(u)

\* A held mutex can be given back only in the reverse order of locking, so at any
\* time exactly one of the mutexes a thread holds can be unlocked.
OneToUnlock ==
  \A t \in Threads :
    pc[t] = "idle" /\ (\E m \in Mutexes : owner[m] = t) =>
      \E m \in Mutexes : \A n \in Mutexes :
        owner[n] = t /\ here[t] = Level[n] <=> n = m
=============================================================================
