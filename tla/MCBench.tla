-------------------------------- MODULE MCBench --------------------------------
(* Five components that share nothing, side by side: the initial state        *)
(* chooses which of them moves, so that the states TLC explores are the union *)
(* of theirs and no product.                                                  *)
EXTENDS TsStack, FdPassing, TestDaemon, Ruptime, Hashmap

CONSTANTS key1, key2, key3

VARIABLE bench \* which one moves

vars == <<bench, stackVars, fdVars, daemonVars, ruptimeVars, hashmapVars>>

\* Two of the three keys share a bucket.
MCHashOf == [k \in {key1, key2, key3} |-> IF k = key1 THEN 0 ELSE IF k = key2 THEN 1 ELSE 2]

\* The choice of seconds is the clients' alone.
Init ==
  /\ bench \in {"stack", "fds", "daemon", "ruptime", "hashmap"}
  /\ StackInit /\ FdInit /\ DaemonInit /\ RuptimeInit /\ HashmapInit
  /\ bench # "ruptime" => \A c \in Clients : seconds[c] = 0

-----------------------------------------------------------------------------
InStack == bench = "stack" /\ UNCHANGED <<bench, fdVars, daemonVars, ruptimeVars, hashmapVars>>
InFds == bench = "fds" /\ UNCHANGED <<bench, stackVars, daemonVars, ruptimeVars, hashmapVars>>
InDaemon == bench = "daemon" /\ UNCHANGED <<bench, stackVars, fdVars, ruptimeVars, hashmapVars>>
InRuptime == bench = "ruptime" /\ UNCHANGED <<bench, stackVars, fdVars, daemonVars, hashmapVars>>
InHashmap == bench = "hashmap" /\ UNCHANGED <<bench, stackVars, fdVars, daemonVars, ruptimeVars>>

Next ==
  \/ StackNext /\ InStack
  \/ FdNext /\ InFds
  \/ DaemonNext /\ InDaemon
  \/ RuptimeNext /\ InRuptime
  \/ HashmapNext /\ InHashmap

\* The processes that are in a step of their own go on: the system schedules them.
Spec ==
  /\ Init /\ [][Next]_vars
  /\ \A p \in Instances : WF_vars(DaemonStep(p) /\ InDaemon)
  /\ \A p \in Procs : WF_vars(ProcStep(p) /\ InRuptime)
  /\ \A c \in Clients : WF_vars(ClientStep(c) /\ InRuptime)

-----------------------------------------------------------------------------
(* The other properties are those of the components. *)

\* The types of every component, and who has the mutex of a ts_stack.
TypeOK ==
  StackTypeOK /\ HeldToSleep /\ FdTypeOK /\ DaemonTypeOK /\ RuptimeTypeOK /\ HashmapTypeOK
=============================================================================
