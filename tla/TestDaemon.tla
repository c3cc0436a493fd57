------------------------------ MODULE TestDaemon ------------------------------
(* daemonize() and test_daemon: instances of the daemon that are started,     *)
(* signalled and killed on one machine, and the lock file between them.       *)
EXTENDS FiniteSets

CONSTANTS Instances, \* the processes that ever start it
          Nobody

ASSUME NobodyAssumption == Nobody \notin Instances

VARIABLES
  place,   \* what each instance does next
  hup,     \* its disposition of SIGHUP: default, ignored or blocked
  pending, \* blocked signals sent and not taken
  owner,   \* who holds the flock
  pidFile, \* whose pid LOCKFILE holds, Nobody when it is empty or missing
  unwritten \* history: the instances whose write of the pid failed

daemonVars == <<place, hup, pending, owner, pidFile, unwritten>>

Alive(p) == place[p] \notin {"absent", "ended"}
Steps == {"fork", "ignore", "close", "lock", "truncate", "write", "default", "mask", "create", "run"}

DaemonInit ==
  /\ place = [p \in Instances |-> "absent"]
  /\ hup = [p \in Instances |-> "default"]
  /\ pending = [p \in Instances |-> {}]
  /\ owner = Nobody /\ pidFile = Nobody /\ unwritten = {}

Goes(p, from, to) == place[p] = from /\ place' = [place EXCEPT ![p] = to]

\* The end of a process lets go of its lock and leaves the file.
Ends(p) ==
  /\ Alive(p)
  /\ place' = [place EXCEPT ![p] = "ended"]
  /\ owner' = IF owner = p THEN Nobody ELSE owner
  /\ pending' = [pending EXCEPT ![p] = {}]
  /\ UNCHANGED <<hup, pidFile, unwritten>>

-----------------------------------------------------------------------------
(* The start *)

Start(p) == Goes(p, "absent", "fork") /\ UNCHANGED <<hup, pending, owner, pidFile, unwritten>>

\* First fork and setsid; p is the process that goes on.
Fork(p) == Goes(p, "fork", "ignore") /\ UNCHANGED <<hup, pending, owner, pidFile, unwritten>>

\* sigaction(SIGHUP) to ignore, second fork, chdir.
Ignore(p) ==
  /\ Goes(p, "ignore", "close")
  /\ hup' = [hup EXCEPT ![p] = "ignored"]
  /\ UNCHANGED <<pending, owner, pidFile, unwritten>>

\* Every descriptor is closed: a lock taken before would go.
CloseAll(p) ==
  /\ Goes(p, "close", "lock")
  /\ owner' = IF owner = p THEN Nobody ELSE owner
  /\ UNCHANGED <<hup, pending, pidFile, unwritten>>

\* open and flock in already_running: another instance ends this one.  The fault
\* empties the file when it is opened.
FlockTruncating(p) ==
  /\ place[p] = "lock" /\ pidFile' = Nobody
  /\ place' = [place EXCEPT ![p] = IF owner = Nobody THEN "truncate" ELSE "ended"]
  /\ owner' = IF owner = Nobody THEN p ELSE owner
  /\ UNCHANGED <<hup, pending, unwritten>>
Flock(p) ==
  /\ place[p] = "lock"
  /\ place' = [place EXCEPT ![p] = IF owner = Nobody THEN "truncate" ELSE "ended"]
  /\ owner' = IF owner = Nobody THEN p ELSE owner
  /\ UNCHANGED <<hup, pending, pidFile, unwritten>>

\* ftruncate and write may fail, which nobody looks at: the file stays as it is, and
\* the daemon goes on.
Truncate(p) ==
  /\ Goes(p, "truncate", "write")
  /\ pidFile' \in {Nobody, pidFile}
  /\ UNCHANGED <<hup, pending, owner, unwritten>>
WritePid(p) ==
  /\ Goes(p, "write", "default")
  /\ \/ pidFile' = p /\ UNCHANGED unwritten
     \/ unwritten' = unwritten \cup {p} /\ UNCHANGED pidFile
  /\ UNCHANGED <<hup, pending, owner>>

Default(p) ==
  /\ Goes(p, "default", "mask")
  /\ hup' = [hup EXCEPT ![p] = "default"]
  /\ UNCHANGED <<pending, owner, pidFile, unwritten>>
Mask(p) ==
  /\ Goes(p, "mask", "create")
  /\ hup' = [hup EXCEPT ![p] = "blocked"]
  /\ UNCHANGED <<pending, owner, pidFile, unwritten>>
CreateThread(p) == Goes(p, "create", "run") /\ UNCHANGED <<hup, pending, owner, pidFile, unwritten>>

-----------------------------------------------------------------------------
(* Signals and failures *)

\* thrfun: SIGHUP rereads the configuration, SIGTERM ends the daemon.  The fault waits
\* for SIGTERM alone.
SigwaitTerm(p) == place[p] = "run" /\ "TERM" \in pending[p] /\ Ends(p)
Sigwait(p) ==
  /\ place[p] = "run"
  /\ \/ "TERM" \in pending[p] /\ Ends(p)
     \/ /\ "HUP" \in pending[p]
        /\ pending' = [pending EXCEPT ![p] = @ \ {"HUP"}]
        /\ UNCHANGED <<place, hup, owner, pidFile, unwritten>>

\* Signals that are not blocked kill, but an ignored SIGHUP does nothing.
Signal(p) ==
  \E sig \in {"HUP", "TERM"} :
    \/ /\ hup[p] = "blocked" /\ Alive(p)
       /\ pending' = [pending EXCEPT ![p] = @ \cup {sig}]
       /\ UNCHANGED <<place, hup, owner, pidFile, unwritten>>
    \/ hup[p] = "default" /\ Ends(p)
    \/ hup[p] = "ignored" /\ sig = "TERM" /\ Ends(p)

\* A crash, kill -9, or a call of the start that fails.
Crash(p) == Ends(p)

DaemonStep(p) ==
  \/ Fork(p) \/ Ignore(p) \/ CloseAll(p) \/ Flock(p) \/ Truncate(p) \/ WritePid(p)
  \/ Default(p) \/ Mask(p) \/ CreateThread(p) \/ Sigwait(p)

DaemonNext == \E p \in Instances : Start(p) \/ DaemonStep(p) \/ Signal(p) \/ Crash(p)

\* An instance that is not stopped goes on.
DaemonSpec ==
  /\ DaemonInit /\ [][DaemonNext]_daemonVars
  /\ \A p \in Instances : WF_daemonVars(DaemonStep(p))

-----------------------------------------------------------------------------
(* What must hold. *)

\* Type invariant.
DaemonTypeOK ==
  /\ place \in [Instances -> Steps \cup {"absent", "ended"}]
  /\ hup \in [Instances -> {"default", "ignored", "blocked"}]
  /\ pending \in [Instances -> SUBSET {"HUP", "TERM"}]
  /\ owner \in Instances \cup {Nobody} /\ pidFile \in Instances \cup {Nobody}
  /\ unwritten \subseteq Instances

\* One instance has got past already_running, and from the end of that function the file
\* holds its pid, if that could be written, whatever instances start beside it, lose,
\* crash or left behind.  A living instance that the file names is the one that runs,
\* also when writes failed; the lock of a dead one never keeps a new one out.
OneInstance ==
  /\ \A p \in Instances :
       /\ Alive(p) /\ place[p] \notin {"fork", "ignore", "close", "lock"} => owner = p
       /\ place[p] \in {"default", "mask", "create", "run"} /\ p \notin unwritten => pidFile = p
       /\ pidFile = p /\ Alive(p) => owner = p
  /\ owner # Nobody => Alive(owner)

\* Once all signals are blocked none is forgotten: SIGHUP is taken, and SIGTERM too
\* unless SIGHUPs keep coming, since sigwait may take those first.
SignalsAreTaken ==
  \A p \in Instances :
    /\ ("HUP" \in pending[p]) ~> ("HUP" \notin pending[p])
    /\ ("TERM" \in pending[p]) ~> ("TERM" \notin pending[p] \/ "HUP" \in pending[p])
=============================================================================
