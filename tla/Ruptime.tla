------------------------------- MODULE Ruptime -------------------------------
(* ruptimed and its clients: a process that accepts, forks a child for each   *)
(* connection that becomes uptime, and waits for it; and connect_retry.       *)
EXTENDS Naturals, Sequences

CONSTANTS Procs,   \* bound: the processes there can be; they are numbers
          Server,  \* the first of them
          Clients, None,
          SizeRange, \* the numbers of size_t are those below it
          Patience \* the values of connect_retry's seconds

ASSUME ServerAssumption == Server \in Procs
ASSUME NoneAssumption == None \notin Clients \cup Procs
\* connect_retry's one caller gives it 120: nobody waits for half of the size_t numbers.
ASSUME PatienceAssumption ==
  /\ SizeRange \in Nat /\ SizeRange > 2
  /\ \A s \in Patience : s \in Nat /\ 2 * s < SizeRange

VARIABLES
  doing,   \* what each process does next
  clfd,    \* the connection it has from accept, or None
  std,     \* the connection its standard output is, or None
  parent,  \* its parent, while that waits for it
  backlog, \* connections not accepted yet
  client,  \* where each client is
  unserved,\* history: clients whose exec failed
  seconds, time, slept \* of each client's connect_retry, and what it has slept

ruptimeVars == <<doing, clfd, std, parent, backlog, client, unserved, seconds, time, slept>>
serverVars == <<doing, clfd, std, parent, backlog, unserved>>
clientVars == <<client, seconds, time, slept>>

RuptimeInit ==
  /\ doing = [p \in Procs |-> IF p = Server THEN "accept" ELSE "unborn"]
  /\ clfd = [p \in Procs |-> None] /\ std = [p \in Procs |-> None]
  /\ parent = [p \in Procs |-> None]
  /\ backlog = <<>> /\ unserved = {}
  /\ client = [c \in Clients |-> "connect"]
  /\ seconds \in [Clients -> Patience]
  /\ time = [c \in Clients |-> 1] /\ slept = [c \in Clients |-> 0]

Working(p) == doing[p] \notin {"unborn", "wait"}
Does(p, now, next) == doing[p] = now /\ doing' = [doing EXCEPT ![p] = next]

-----------------------------------------------------------------------------
(* serve() *)

Accept(p) ==
  /\ Does(p, "accept", "fork") /\ backlog # <<>>
  /\ clfd' = [clfd EXCEPT ![p] = Head(backlog)]
  /\ backlog' = Tail(backlog)
  /\ UNCHANGED <<std, parent, unserved, clientVars>>

\* fork(): the child has the parent's descriptors; the parent closes the connection and
\* waits.  The faults leave it open, and do not wait.
Child(p, child) ==
  /\ doing[p] = "fork" /\ doing[child] = "unborn"
  /\ std' = [std EXCEPT ![child] = std[p]]
  /\ parent' = [parent EXCEPT ![child] = p]
  /\ UNCHANGED <<backlog, unserved, clientVars>>
ForkChildKeeping(p, child) ==
  /\ Child(p, child)
  /\ doing' = [doing EXCEPT ![p] = "wait", ![child] = "dup"]
  /\ clfd' = [clfd EXCEPT ![child] = clfd[p]]
ForkChildUnwaited(p, child) ==
  /\ Child(p, child)
  /\ doing' = [doing EXCEPT ![p] = "accept", ![child] = "dup"]
  /\ clfd' = [clfd EXCEPT ![child] = clfd[p], ![p] = None]
ForkChild(p, child) ==
  /\ Child(p, child)
  /\ doing' = [doing EXCEPT ![p] = "wait", ![child] = "dup"]
  /\ clfd' = [clfd EXCEPT ![child] = clfd[p], ![p] = None]

\* dup2 and close in the child.
Dup(p) ==
  /\ Does(p, "dup", "exec")
  /\ std' = [std EXCEPT ![p] = clfd[p]]
  /\ clfd' = [clfd EXCEPT ![p] = None]
  /\ UNCHANGED <<parent, backlog, unserved, clientVars>>

\* execl returns: the child falls out of the if and accepts, as the parent did.
ExecFails(p) ==
  /\ Does(p, "exec", "accept")
  /\ unserved' = unserved \cup {std[p]}
  /\ UNCHANGED <<clfd, std, parent, backlog, clientVars>>

\* A process ends: its descriptors are closed, and a parent that waits accepts again.
Exit(p) ==
  /\ doing' = [q \in Procs |-> IF q = p THEN "unborn"
                               ELSE IF q = parent[p] THEN "accept" ELSE doing[q]]
  /\ clfd' = [clfd EXCEPT ![p] = None] /\ std' = [std EXCEPT ![p] = None]
  /\ parent' = [q \in Procs |-> IF p \in {q, parent[q]} THEN None ELSE parent[q]]
  /\ UNCHANGED <<unserved, clientVars>>

\* uptime writes and ends.
Uptime(p) == doing[p] = "exec" /\ Exit(p) /\ UNCHANGED backlog

\* accept, fork or dup2 fails.  The last process that listens takes the backlog with it.
Fails(p) ==
  /\ doing[p] \in {"accept", "fork", "dup"}
  /\ Exit(p)
  /\ backlog' = IF \A q \in Procs \ {p} : doing[q] = "unborn" THEN <<>> ELSE backlog

-----------------------------------------------------------------------------
(* The client *)

Listening == \E p \in Procs : doing[p] # "unborn"
Open(c) == (\E i \in DOMAIN backlog : backlog[i] = c) \/ \E p \in Procs : c \in {clfd[p], std[p]}

\* Time doubles in size_t.
Doubled(n) == (2 * n) % SizeRange

\* if(!seconds) seconds = 1.
AtLeastOne(s) == IF s = 0 THEN 1 ELSE s

\* Whether there is a sleep before the next attempt; the fault sleeps after the last.
SleepsAlways(c) == TRUE
SleepsBetween(c) == time[c] <= AtLeastOne(seconds[c]) \div 2

Connect(c) ==
  /\ client[c] = "connect" /\ Listening
  /\ client' = [client EXCEPT ![c] = "recv"]
  /\ backlog' = Append(backlog, c)
  /\ UNCHANGED <<doing, clfd, std, parent, unserved, seconds, time, slept>>

\* connect fails, also on the descriptor -1 of a socket() that failed; the test of the loop.
ConnectFails(c) ==
  /\ client[c] = "connect"
  /\ slept' = [slept EXCEPT ![c] = @ + IF SleepsBetween(c) THEN time[c] ELSE 0]
  /\ time' = [time EXCEPT ![c] = Doubled(@)]
  /\ client' = [client EXCEPT ![c] =
       IF Doubled(time[c]) <= AtLeastOne(seconds[c]) THEN "connect" ELSE "failed"]
  /\ UNCHANGED <<serverVars, seconds>>

\* recv returns 0, or an error when nobody has the connection.
PrintUptime(c) ==
  /\ client[c] = "recv" /\ ~Open(c)
  /\ client' = [client EXCEPT ![c] = "done"]
  /\ UNCHANGED <<serverVars, seconds, time, slept>>

ProcStep(p) ==
  Accept(p) \/ (\E child \in Procs : ForkChild(p, child)) \/ Dup(p) \/ Uptime(p)
ClientStep(c) == Connect(c) \/ PrintUptime(c)

RuptimeNext ==
  \/ \E p \in Procs : ProcStep(p) \/ ExecFails(p) \/ Fails(p)
  \/ \E c \in Clients : ClientStep(c) \/ ConnectFails(c)

\* Processes and clients go on; a call need not ever fail.
RuptimeSpec ==
  /\ RuptimeInit /\ [][RuptimeNext]_ruptimeVars
  /\ \A p \in Procs : WF_ruptimeVars(ProcStep(p))
  /\ \A c \in Clients : WF_ruptimeVars(ClientStep(c))

-----------------------------------------------------------------------------
(* What must hold. *)

\* Type invariant.
RuptimeTypeOK ==
  /\ doing \in [Procs -> {"unborn", "accept", "fork", "wait", "dup", "exec"}]
  /\ clfd \in [Procs -> Clients \cup {None}] /\ std \in [Procs -> Clients \cup {None}]
  /\ parent \in [Procs -> Procs \cup {None}]
  /\ backlog \in Seq(Clients)
  /\ client \in [Clients -> {"connect", "recv", "done", "failed"}]

\* Of the processes that failures of exec make servers one works and the others wait for
\* a child that is there, in a chain: connections are served one at a time, and none is
\* kept open by a process that waits.
OneServes ==
  /\ \A p, q \in Procs : Working(p) /\ Working(q) => p = q
  /\ \A p \in Procs :
       /\ doing[p] = "wait" <=> \E q \in Procs : parent[q] = p /\ doing[q] # "unborn"
       /\ clfd[p] # None => doing[p] \in {"fork", "dup"}

\* A client that got its connection gets to the end of it, unless exec failed for itself:
\* failures of accept, fork, dup2 and of other clients' exec leave a process that serves
\* it or close its connection.
ClientEnds ==
  \A c \in Clients : (client[c] = "recv") ~> (client[c] = "done" \/ c \in unserved)

\* connect_retry sleeps no longer than its seconds in all, and ends.
RetryBounded ==
  \A c \in Clients : slept[c] <= seconds[c] /\ time[c] # 0
=============================================================================
