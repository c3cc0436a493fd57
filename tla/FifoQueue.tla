------------------------------ MODULE FifoQueue ------------------------------
(* What ts_queue promises its callers: a FIFO queue shared by threads whose  *)
(* operations take effect one at a time, each as its caller's arguments say. *)
(* TsQueue implements it.                                                    *)
EXTENDS Naturals, Sequences, SequencesExt

CONSTANTS Threads,   \* the threads that share the queue
          Values,    \* what may be queued
          MaxBatch   \* bound: the longest push_range, the largest count of a pop_n

VARIABLES items,     \* the queued values, oldest first
          call,      \* call[t]: the operation t is in, until it has taken effect
          got,       \* got[t]: what t's current (or last) pop has taken
          status     \* status[t]: how t's last operation ended

vars == <<items, call, got, status>>

\* An operation and its arguments: push(batch), pop/wait of at most count values,
\* clear(), the assignment from a queue that holds batch, and the move to another
\* queue.  A thread whose operation can no longer change the items is Idle.
CallOf(op, batch, count) == [op |-> op, batch |-> batch, count |-> count]
Idle == CallOf("none", <<>>, 0)
Calls ==
  [op : {"push", "assign"}, batch : SeqOf(Values, MaxBatch), count : {0}]
    \cup [op : {"pop", "wait"}, batch : {<<>>}, count : 1..MaxBatch]
    \cup [op : {"clear", "move"}, batch : {<<>>}, count : {0}]

Init ==
  /\ items = <<>>
  /\ call = [t \in Threads |-> Idle]
  /\ got = [t \in Threads |-> <<>>]
  /\ status = [t \in Threads |-> "none"]

\* An operation starts: it has taken nothing and has no outcome yet.
Begin(t) ==
  /\ call[t] = Idle
  /\ \E c \in Calls \cup {Idle} : call' = [call EXCEPT ![t] = c]
  /\ got' = [got EXCEPT ![t] = <<>>]
  /\ status' = [status EXCEPT ![t] = "none"]
  /\ UNCHANGED items

\* An operation has taken its effect, with outcome s.
Return(t, s) ==
  /\ call' = [call EXCEPT ![t] = Idle]
  /\ status' = [status EXCEPT ![t] = s]

\* A push appends the batch its caller passed, all of it at once, and once.
Push(t) ==
  /\ call[t].op = "push"
  /\ items' = items \o call[t].batch
  /\ call' = [call EXCEPT ![t] = Idle]
  /\ UNCHANGED <<got, status>>

\* A pop takes the oldest value.  It reports success when it has as many values
\* as its caller asked for, or before.
Take(t) ==
  /\ call[t].op \in {"pop", "wait"}
  /\ Len(got[t]) < call[t].count
  /\ items # <<>>
  /\ got' = [got EXCEPT ![t] = Append(@, Head(items))]
  /\ items' = Tail(items)
  /\ \/ Len(got[t]) + 1 < call[t].count /\ UNCHANGED <<call, status>>
     \/ Return(t, "ready")

\* A pop that reports "empty", and a wait that reports "timeout", saw the queue
\* empty as it did.
FindEmpty(t) ==
  /\ items = <<>>
  /\ got[t] = <<>>
  /\ \/ call[t].op = "pop" /\ Return(t, "empty")
     \/ call[t].op = "wait" /\ Return(t, "timeout")
  /\ UNCHANGED <<items, got>>

\* A wait is interrupted, having taken nothing.
Interrupt(t) ==
  /\ call[t].op = "wait"
  /\ got[t] = <<>>
  /\ Return(t, "interrupted")
  /\ UNCHANGED <<items, got>>

\* The value's own constructor or move throws: the queue stays as it is.
Throw(t) ==
  /\ call[t].op \in {"push", "pop", "wait"}
  /\ Return(t, "threw")
  /\ UNCHANGED <<items, got>>

\* clear(), and the assignment, drop one value after the other.
DropOldest(t) ==
  /\ call[t].op \in {"clear", "assign"}
  /\ items # <<>>
  /\ items' = Tail(items)
  /\ UNCHANGED <<call, got, status>>

\* They end with the queue empty, or with the values of the other queue.
Replace(t) ==
  /\ call[t].op \in {"clear", "assign"}
  /\ items = <<>>
  /\ items' = call[t].batch
  /\ Return(t, "none")
  /\ UNCHANGED got

\* The values move to another queue, all at once.
MoveAway(t) ==
  /\ call[t].op = "move"
  /\ items' = <<>>
  /\ Return(t, "none")
  /\ UNCHANGED got

Next ==
  \E t \in Threads :
    \/ Begin(t) \/ Push(t) \/ Take(t) \/ FindEmpty(t) \/ Interrupt(t) \/ Throw(t)
    \/ DropOldest(t) \/ Replace(t) \/ MoveAway(t)

Spec == Init /\ [][Next]_vars
=============================================================================
