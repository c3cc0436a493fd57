----------------------------- MODULE BenchProofs -----------------------------
(* That one instance of test_daemon runs, that ruptime's server works in one  *)
(* process and its clients' retries are bounded, that a copy of a ts_hashmap  *)
(* keeps up with it, and that the components of MCBench keep their invariants *)
(* side by side; for any numbers of processes, clients, keys and buckets.     *)
EXTENDS MCBench, TsStackProofs, FdPassingProofs, WellFoundedInduction, TLAPS

-----------------------------------------------------------------------------
(* test_daemon *)

\* Where an instance is once already_running has given it the lock.
Locked == {"truncate", "write", "default", "mask", "create", "run"}

\* The lock belongs to an instance that has got past flock.
OwnerGotPast == owner # Nobody => place[owner] \in Locked

\* The file names no instance that has not had the lock.
FileNamesPast == pidFile # Nobody => place[pidFile] \in Locked \cup {"ended"}

DaemonIInv == DaemonTypeOK /\ OneInstance /\ OwnerGotPast /\ FileNamesPast

\* No instance is there at first.
LEMMA DaemonInitInvariant == DaemonInit => DaemonIInv
  BY DEF DaemonInit, DaemonIInv, DaemonTypeOK, Steps, OneInstance, OwnerGotPast, FileNamesPast, Alive

\* An instance that ends, wherever it is, takes nothing with it but its own lock.
LEMMA EndsKeeps ==
  ASSUME DaemonIInv, NEW p \in Instances, Ends(p)
  PROVE  DaemonIInv'
<1> USE NobodyAssumption DEF DaemonIInv, Ends, Alive
<1>1. DaemonTypeOK'
  BY DEF DaemonTypeOK, Steps
<1>2. OwnerGotPast'
  BY DEF DaemonTypeOK, OwnerGotPast, Locked
<1>3. OneInstance'
  BY <1>2 DEF DaemonTypeOK, OneInstance, OwnerGotPast, FileNamesPast, Locked
<1>4. FileNamesPast'
  BY DEF DaemonTypeOK, FileNamesPast, OneInstance, Locked
<1> QED BY <1>1, <1>2, <1>3, <1>4

\* The first instance at flock gets the lock; the others end and change nothing else.
LEMMA FlockKeeps ==
  ASSUME DaemonIInv, NEW p \in Instances, Flock(p)
  PROVE  DaemonIInv'
<1> USE NobodyAssumption DEF DaemonIInv, Flock
<1>1. DaemonTypeOK'
  BY DEF DaemonTypeOK, Steps
<1>2. OwnerGotPast'
  BY DEF DaemonTypeOK, OwnerGotPast, Locked
<1>3. OneInstance'
  BY <1>2 DEF DaemonTypeOK, OneInstance, OwnerGotPast, FileNamesPast, Locked, Alive
<1>4. FileNamesPast'
  BY DEF DaemonTypeOK, FileNamesPast, OneInstance, Locked
<1> QED BY <1>1, <1>2, <1>3, <1>4

\* The file is written by the owner of the lock alone.
LEMMA FileKeeps ==
  ASSUME DaemonIInv, NEW p \in Instances, Truncate(p) \/ WritePid(p)
  PROVE  DaemonIInv'
<1> USE NobodyAssumption DEF DaemonIInv, Truncate, WritePid, Goes
<1>1. DaemonTypeOK'
  BY DEF DaemonTypeOK, Steps
<1>2. OwnerGotPast'
  BY DEF DaemonTypeOK, OwnerGotPast, Locked
<1>3. owner = p
  BY DEF OneInstance, Alive
<1>4. OneInstance'
  BY <1>2, <1>3 DEF DaemonTypeOK, OneInstance, OwnerGotPast, FileNamesPast, Locked, Alive
<1>5. FileNamesPast'
  BY <1>3 DEF DaemonTypeOK, FileNamesPast, Locked
<1> QED BY <1>1, <1>2, <1>4, <1>5

\* The other steps of the start.
LEMMA StartKeeps ==
  ASSUME DaemonIInv, NEW p \in Instances,
         Start(p) \/ Fork(p) \/ Ignore(p) \/ CloseAll(p) \/ Default(p) \/ Mask(p) \/ CreateThread(p)
  PROVE  DaemonIInv'
<1> USE NobodyAssumption
    DEF DaemonIInv, Start, Fork, Ignore, CloseAll, Default, Mask, CreateThread, Goes
<1>1. DaemonTypeOK'
  BY DEF DaemonTypeOK, Steps
<1>2. OwnerGotPast'
  BY DEF DaemonTypeOK, OwnerGotPast, Locked
<1>3. OneInstance'
  BY <1>2 DEF DaemonTypeOK, OneInstance, OwnerGotPast, FileNamesPast, Locked, Alive
<1>4. FileNamesPast'
  BY DEF DaemonTypeOK, FileNamesPast, OneInstance, Locked
<1> QED BY <1>1, <1>2, <1>3, <1>4

\* A step that changes neither places nor lock nor file.
LEMMA SignalKeeps ==
  ASSUME DaemonIInv, UNCHANGED <<place, hup, owner, pidFile, unwritten>>,
         pending' \in [Instances -> SUBSET {"HUP", "TERM"}]
  PROVE  DaemonIInv'
  BY DEF DaemonIInv, DaemonTypeOK, OneInstance, OwnerGotPast, FileNamesPast, Alive

\* Every step keeps the invariant.
LEMMA DaemonNextInvariant ==
  ASSUME DaemonIInv, [DaemonNext]_daemonVars
  PROVE  DaemonIInv'
<1>1. CASE UNCHANGED daemonVars
  BY <1>1, SignalKeeps DEF daemonVars, DaemonIInv, DaemonTypeOK
<1>2. ASSUME NEW p \in Instances, Start(p) \/ DaemonStep(p) \/ Signal(p) \/ Crash(p)
      PROVE  DaemonIInv'
  <2>1. CASE \/ Start(p) \/ Fork(p) \/ Ignore(p) \/ CloseAll(p)
             \/ Default(p) \/ Mask(p) \/ CreateThread(p)
    BY <2>1, StartKeeps
  <2>2. CASE Truncate(p) \/ WritePid(p)
    BY <2>2, FileKeeps
  <2>3. CASE Flock(p)
    BY <2>3, FlockKeeps
  <2>4. CASE Ends(p)
    BY <2>4, EndsKeeps
  <2>5. CASE Sigwait(p)
    <3>1. CASE Ends(p)
      BY <3>1, EndsKeeps
    <3>2. CASE /\ pending' = [pending EXCEPT ![p] = @ \ {"HUP"}]
               /\ UNCHANGED <<place, hup, owner, pidFile, unwritten>>
      BY <3>2, SignalKeeps DEF DaemonIInv, DaemonTypeOK
    <3> QED BY <2>5, <3>1, <3>2 DEF Sigwait
  <2>6. CASE Signal(p)
    <3>1. CASE Ends(p)
      BY <3>1, EndsKeeps
    <3>2. ASSUME NEW sig \in {"HUP", "TERM"}, pending' = [pending EXCEPT ![p] = @ \cup {sig}],
                 UNCHANGED <<place, hup, owner, pidFile, unwritten>>
          PROVE  DaemonIInv'
      BY <3>2, SignalKeeps DEF DaemonIInv, DaemonTypeOK
    <3> QED BY <2>6, <3>1, <3>2 DEF Signal
  <2> QED BY <1>2, <2>1, <2>2, <2>3, <2>4, <2>5, <2>6 DEF DaemonStep, Crash
<1> QED BY <1>1, <1>2 DEF DaemonNext

\* Past already_running there is one instance, its pid is in the file if it could be
\* written, the file names no other that lives, and the lock of an instance that crashed
\* is free, for any number of starts.
THEOREM OneInstanceRuns == DaemonSpec => []OneInstance
<1>1. DaemonInit => DaemonIInv
  BY DaemonInitInvariant
<1>2. DaemonIInv /\ [DaemonNext]_daemonVars => DaemonIInv'
  BY DaemonNextInvariant
<1>3. DaemonIInv => OneInstance
  BY DEF DaemonIInv
<1> QED BY <1>1, <1>2, <1>3, PTL DEF DaemonSpec

-----------------------------------------------------------------------------
(* ruptime *)

\* A client that tries again has slept one second less than it would sleep next.
RetryInv ==
  /\ seconds \in [Clients -> Patience]
  /\ time \in [Clients -> Nat \ {0}] /\ slept \in [Clients -> Nat]
  /\ \A c \in Clients : slept[c] <= seconds[c]
  /\ \A c \in Clients : client[c] = "connect" =>
       time[c] <= AtLeastOne(seconds[c]) /\ slept[c] = time[c] - 1

\* Who waits for whom: a child that is there for every process that waits, and one only.
ChainInv ==
  /\ \A p \in Procs : parent[p] # None => doing[p] # "unborn" /\ doing[parent[p]] = "wait"
  /\ \A p, q \in Procs : parent[p] # None /\ parent[p] = parent[q] => p = q
  /\ \A p \in Procs : doing[p] \in {"fork", "dup"} <=> clfd[p] # None
  /\ \A p \in Procs : doing[p] = "exec" => std[p] # None

RuptimeIInv == RuptimeTypeOK /\ RetryInv /\ ChainInv /\ OneServes

\* The server's side of the invariant.
ServerInv ==
  /\ doing \in [Procs -> {"unborn", "accept", "fork", "wait", "dup", "exec"}]
  /\ clfd \in [Procs -> Clients \cup {None}] /\ std \in [Procs -> Clients \cup {None}]
  /\ parent \in [Procs -> Procs \cup {None}]
  /\ ChainInv /\ OneServes

\* The server and the clients' retries have nothing in common.
LEMMA RuptimeParts ==
  RuptimeIInv <=> /\ ServerInv /\ RetryInv /\ backlog \in Seq(Clients)
                  /\ client \in [Clients -> {"connect", "recv", "done", "failed"}]
  BY DEF RuptimeIInv, RuptimeTypeOK, ServerInv

\* The server accepts and every client begins, at first.
LEMMA RuptimeInitInvariant == RuptimeInit => RuptimeIInv
<1> SUFFICES ASSUME RuptimeInit PROVE RuptimeIInv
  OBVIOUS
<1> USE ServerAssumption, NoneAssumption, PatienceAssumption DEF RuptimeInit
<1>1. RuptimeTypeOK
  <2>1. backlog \in Seq(Clients)
    BY EmptySeq
  <2> QED BY <2>1 DEF RuptimeTypeOK
<1>2. RetryInv
  BY DEF RetryInv, AtLeastOne
<1>3. ChainInv
  BY DEF ChainInv
<1>4. OneServes
  BY DEF OneServes, Working
<1> QED BY <1>1, <1>2, <1>3, <1>4 DEF RuptimeIInv

-----------------------------------------------------------------------------
(* ruptime: the server *)

\* A process has the connection it accepts until its child has it.
LEMMA AcceptKeeps ==
  ASSUME ServerInv, backlog \in Seq(Clients), NEW p \in Procs, Accept(p)
  PROVE  ServerInv' /\ backlog' \in Seq(Clients)
<1> USE NoneAssumption DEF ServerInv, Accept, Does
<1>1. Head(backlog) \in Clients /\ backlog' \in Seq(Clients)
  BY HeadTailProperties
<1>2. ChainInv'
  BY <1>1 DEF ChainInv
<1>3. OneServes'
  BY <1>1 DEF ChainInv, OneServes, Working
<1> QED BY <1>1, <1>2, <1>3

\* The child becomes the one that works; nobody else has the parent it gets.
LEMMA ForkKeeps ==
  ASSUME ServerInv, NEW p \in Procs, NEW child \in Procs, ForkChild(p, child)
  PROVE  ServerInv'
<1> USE NoneAssumption DEF ServerInv, ForkChild, Child
<1>1. p # child /\ clfd[p] \in Clients /\ clfd[p] # None /\ p # None
  BY DEF ChainInv
<1>2. \A q \in Procs : parent[q] # p
  BY DEF ChainInv
<1>3. ChainInv'
  BY <1>1, <1>2 DEF ChainInv
<1>4. OneServes'
  BY <1>1, <1>2 DEF ChainInv, OneServes, Working
<1> QED BY <1>1, <1>3, <1>4

\* The connection becomes the standard output.
LEMMA DupKeeps ==
  ASSUME ServerInv, NEW p \in Procs, Dup(p)
  PROVE  ServerInv'
<1> USE NoneAssumption DEF ServerInv, Dup, Does
<1>1. ChainInv'
  BY DEF ChainInv
<1>2. OneServes'
  BY DEF ChainInv, OneServes, Working
<1> QED BY <1>1, <1>2

\* A child that goes on to accept is still the one its parent waits for.
LEMMA ExecFailsKeeps ==
  ASSUME ServerInv, NEW p \in Procs, ExecFails(p)
  PROVE  ServerInv'
<1> USE NoneAssumption DEF ServerInv, ExecFails, Does
<1>1. ChainInv'
  BY DEF ChainInv
<1>2. OneServes'
  BY DEF ChainInv, OneServes, Working
<1> QED BY <1>1, <1>2

\* A process that works has no child, and its end lets its parent alone go on.
LEMMA ExitKeeps ==
  ASSUME ServerInv, NEW p \in Procs, Working(p), Exit(p)
  PROVE  ServerInv'
<1> USE NoneAssumption DEF ServerInv, Exit
<1>1. \A q \in Procs : parent[q] # p
  BY DEF ChainInv, Working
<1>2. ChainInv'
  BY <1>1 DEF ChainInv
<1>3. OneServes'
  BY <1>1 DEF ChainInv, OneServes, Working
<1> QED BY <1>2, <1>3

-----------------------------------------------------------------------------
(* ruptime: the clients *)

\* A step that starts no attempt.
LEMMA RetryKept ==
  ASSUME RetryInv, UNCHANGED <<seconds, time, slept>>,
         \A c \in Clients : client'[c] = "connect" => client[c] = "connect"
  PROVE  RetryInv'
  BY DEF RetryInv

\* Half of the seconds is enough for the sleep exactly when another attempt comes.
LEMMA HalfIsEnough ==
  ASSUME NEW s \in Nat, NEW n \in Nat \ {0}, n <= AtLeastOne(s)
  PROVE  /\ n <= AtLeastOne(s) \div 2 <=> 2 * n <= AtLeastOne(s)
         /\ s # 0 => n <= s
  BY DEF AtLeastOne

\* The time doubles as long as it is not above the seconds, far from the last number of
\* size_t, and what was slept is less than it.
LEMMA ConnectFailsKeeps ==
  ASSUME RetryInv, NEW c \in Clients, ConnectFails(c),
         client \in [Clients -> {"connect", "recv", "done", "failed"}]
  PROVE  RetryInv'
<1> DEFINE s == seconds[c]
           n == time[c]
<1>1. s \in Nat /\ 2 * s < SizeRange /\ SizeRange \in Nat /\ SizeRange > 2
  BY PatienceAssumption DEF RetryInv
<1>2. n \in Nat \ {0} /\ n <= AtLeastOne(s) /\ slept[c] = n - 1 /\ slept[c] \in Nat /\ slept[c] <= s
  BY DEF RetryInv, ConnectFails
<1>3. Doubled(n) = 2 * n /\ 2 * n \in Nat \ {0}
  <2>1. 2 * n < SizeRange
    BY <1>1, <1>2 DEF AtLeastOne
  <2> QED BY <1>1, <1>2, <2>1 DEF Doubled
<1>4. n <= AtLeastOne(s) \div 2 <=> 2 * n <= AtLeastOne(s)
  BY <1>1, <1>2, HalfIsEnough
<1>5. 2 * n <= AtLeastOne(s) => 2 * n <= s
  BY <1>1, <1>2 DEF AtLeastOne
<1>6. /\ time' = [time EXCEPT ![c] = 2 * n] /\ seconds' = seconds
      /\ slept' = [slept EXCEPT ![c] = IF 2 * n <= AtLeastOne(s) THEN 2 * n - 1 ELSE n - 1]
      /\ client' = [client EXCEPT ![c] = IF 2 * n <= AtLeastOne(s) THEN "connect" ELSE "failed"]
  <2>1. time' = [time EXCEPT ![c] = 2 * n] /\ seconds' = seconds
    BY <1>3 DEF ConnectFails, RetryInv
  <2>2. slept' = [slept EXCEPT ![c] = slept[c] + IF n <= AtLeastOne(s) \div 2 THEN n ELSE 0]
    BY DEF ConnectFails, SleepsBetween
  <2>3. slept[c] + (IF n <= AtLeastOne(s) \div 2 THEN n ELSE 0)
          = IF 2 * n <= AtLeastOne(s) THEN 2 * n - 1 ELSE n - 1
    BY <1>2, <1>4
  <2>4. client' = [client EXCEPT ![c] = IF 2 * n <= AtLeastOne(s) THEN "connect" ELSE "failed"]
    BY <1>3 DEF ConnectFails, AtLeastOne
  <2> QED BY <2>1, <2>2, <2>3, <2>4
<1> HIDE DEF s, n
<1>7. /\ seconds' \in [Clients -> Patience]
      /\ time' \in [Clients -> Nat \ {0}] /\ slept' \in [Clients -> Nat]
  BY <1>2, <1>3, <1>6 DEF RetryInv
<1>8. \A d \in Clients : slept'[d] <= seconds'[d]
  BY <1>1, <1>2, <1>3, <1>5, <1>6 DEF RetryInv, s
<1>9. ASSUME NEW d \in Clients, client'[d] = "connect"
      PROVE  time'[d] <= AtLeastOne(seconds'[d]) /\ slept'[d] = time'[d] - 1
  BY <1>1, <1>2, <1>3, <1>6, <1>9 DEF RetryInv, s
<1> QED BY <1>7, <1>8, <1>9 DEF RetryInv

-----------------------------------------------------------------------------
(* ruptime: all steps *)

\* Every step keeps the invariant.
LEMMA RuptimeNextInvariant ==
  ASSUME RuptimeIInv, [RuptimeNext]_ruptimeVars
  PROVE  RuptimeIInv'
<1> USE DEF clientVars, serverVars
<1>0. /\ ServerInv /\ RetryInv /\ backlog \in Seq(Clients)
      /\ client \in [Clients -> {"connect", "recv", "done", "failed"}]
  BY RuptimeParts
<1>a. SUFFICES /\ ServerInv' /\ RetryInv' /\ backlog' \in Seq(Clients)
               /\ client' \in [Clients -> {"connect", "recv", "done", "failed"}]
  BY DEF RuptimeIInv, RuptimeTypeOK, ServerInv
<1>1. CASE UNCHANGED ruptimeVars
  BY <1>0, <1>1 DEF ruptimeVars, ServerInv, RetryInv, ChainInv, OneServes, Working
<1>2. ASSUME NEW p \in Procs, ProcStep(p) \/ ExecFails(p) \/ Fails(p)
      PROVE  ServerInv' /\ backlog' \in Seq(Clients) /\ UNCHANGED clientVars
  <2>1. CASE Accept(p)
    BY <1>0, <2>1, AcceptKeeps DEF Accept
  <2>2. ASSUME NEW child \in Procs, ForkChild(p, child)
        PROVE  ServerInv' /\ UNCHANGED <<backlog, clientVars>>
    BY <1>0, <2>2, ForkKeeps DEF ForkChild, Child
  <2>3. CASE Dup(p)
    BY <1>0, <2>3, DupKeeps DEF Dup
  <2>4. CASE Uptime(p)
    BY <1>0, <2>4, ExitKeeps DEF Uptime, Exit, Working
  <2>5. CASE ExecFails(p)
    BY <1>0, <2>5, ExecFailsKeeps DEF ExecFails
  <2>6. CASE Fails(p)
    <3>1. <<>> \in Seq(Clients)
      BY EmptySeq
    <3> QED BY <1>0, <2>6, <3>1, ExitKeeps DEF Fails, Exit, Working
  <2> QED BY <1>0, <1>2, <2>1, <2>2, <2>3, <2>4, <2>5, <2>6 DEF ProcStep
<1>3. ASSUME NEW c \in Clients, ClientStep(c) \/ ConnectFails(c)
      PROVE  /\ UNCHANGED <<doing, clfd, std, parent>>
             /\ RetryInv' /\ backlog' \in Seq(Clients)
             /\ client' \in [Clients -> {"connect", "recv", "done", "failed"}]
  <2>1. CASE Connect(c)
    <3>1. backlog' \in Seq(Clients)
      BY <1>0, <2>1, AppendProperties DEF Connect
    <3> QED BY <1>0, <2>1, <3>1, RetryKept DEF Connect
  <2>2. CASE PrintUptime(c)
    BY <1>0, <2>2, RetryKept DEF PrintUptime
  <2>3. CASE ConnectFails(c)
    BY <1>0, <2>3, ConnectFailsKeeps DEF ConnectFails
  <2> QED BY <1>3, <2>1, <2>2, <2>3 DEF ClientStep
<1>4. UNCHANGED <<doing, clfd, std, parent>> => ServerInv'
  BY <1>0 DEF ServerInv, ChainInv, OneServes, Working
<1>5. UNCHANGED clientVars => RetryInv' /\ client' = client
  BY <1>0, RetryKept
<1> QED BY <1>0, <1>1, <1>2, <1>3, <1>4, <1>5 DEF RuptimeNext

\* The invariant holds in every state of the server and its clients.
THEOREM RuptimeInvariantHolds == RuptimeSpec => []RuptimeIInv
<1>1. RuptimeIInv /\ [RuptimeNext]_ruptimeVars => RuptimeIInv'
  BY RuptimeNextInvariant
<1> QED BY RuptimeInitInvariant, <1>1, PTL DEF RuptimeSpec

\* connect_retry sleeps no longer in all than it was told, and its time never becomes zero,
\* for any number of clients and any seconds below half of the size_t numbers.
THEOREM RetriesAreBounded == RuptimeSpec => []RetryBounded
<1>1. RuptimeIInv => RetryBounded
  BY DEF RuptimeIInv, RetryInv, RetryBounded
<1> QED BY RuptimeInvariantHolds, <1>1, PTL

\* However often exec fails, one process of the server works, each of the others waits for a
\* child that is there, and no connection is kept open by one that waits.
THEOREM OneProcessServes == RuptimeSpec => []OneServes
<1>1. RuptimeIInv => OneServes
  BY DEF RuptimeIInv
<1> QED BY RuptimeInvariantHolds, <1>1, PTL

-----------------------------------------------------------------------------
(* ts_hashmap *)

\* No key is in the list twice.
EachKeyOnce(list) == \A i, j \in DOMAIN list : list[i][1] = list[j][1] => i = j

\* Every pair is in the bucket of its key, and no key twice.
Placed ==
  \A b \in 0..Buckets - 1 :
    EachKeyOnce(lists[b]) /\ \A pair \in ToSet(lists[b]) : BucketFor(pair[1]) = b

\* A copy has been through the buckets below its cursor: what it has is of these, it has
\* what stayed there, and what is in the map is known to have been there.
CopiedSoFar ==
  \A t \in Copiers :
    /\ EachKeyOnce(out[t])
    /\ \A pair \in ToSet(out[t]) : BucketFor(pair[1]) < cursor[t]
    /\ ToSet(out[t]) \subseteq met[t]
    /\ stayed[t] \subseteq Contents(lists) /\ Contents(lists) \subseteq met[t]
    /\ \A pair \in stayed[t] : BucketFor(pair[1]) < cursor[t] => pair \in ToSet(out[t])

HashmapIInv == HashmapTypeOK /\ Placed /\ CopiedSoFar

-----------------------------------------------------------------------------
(* ts_hashmap: remove_if *)

\* What remove_if has kept after the pair at i, from what it had kept before.
Keeps(list, k, i, before) == IF list[i][1] = k THEN before ELSE Append(before, list[i])

\* The lists that remove_if has after each pair.
Walk(f, list, k) ==
  f = [i \in 0..Len(list) |-> IF i = 0 THEN <<>> ELSE Keeps(list, k, i, f[i - 1])]

\* Pairs are kept.
LEMMA KeepsType ==
  ASSUME NEW list \in Seq(Pairs), NEW k, NEW i \in 1..Len(list), NEW before \in Seq(Pairs)
  PROVE  Keeps(list, k, i, before) \in Seq(Pairs)
<1>1. list[i] \in Pairs
  BY ElementOfSeq
<1> QED BY <1>1, AppendProperties DEF Keeps

\* The definition by recursion along the list has a solution: the first place where it had
\* none would be one step after a solution.
LEMMA WalkExists ==
  ASSUME NEW list \in Seq(Pairs), NEW k
  PROVE  \E f : Walk(f, list, k)
<1> DEFINE Up(f, m) == f[0] = <<>> /\ \A i \in 1..m : f[i] = Keeps(list, k, i, f[i - 1])
           None0 == {m \in 0..Len(list) : ~ \E f \in [0..m -> Seq(Pairs)] : Up(f, m)}
<1>1. Len(list) \in Nat /\ <<>> \in Seq(Pairs)
  BY LenProperties, EmptySeq
<1>2. None0 = {}
  <2>1. SUFFICES ASSUME None0 # {} PROVE FALSE
    OBVIOUS
  <2>2. None0 \in SUBSET Nat
    <3>1. \A m \in 0..Len(list) : m \in Nat
      BY <1>1
    <3>2. \A m \in None0 : m \in 0..Len(list)
      OBVIOUS
    <3> HIDE DEF None0
    <3> QED BY <3>1, <3>2
  <2>3. PICK m \in None0 : \A n \in None0 : m <= n
    BY <2>1, <2>2, Least
  <2>4. m \in 0..Len(list) /\ m \in Nat /\ ~ \E f \in [0..m -> Seq(Pairs)] : Up(f, m)
    <3>1. m \in 0..Len(list) /\ ~ \E f \in [0..m -> Seq(Pairs)] : Up(f, m)
      OBVIOUS
    <3>2. m \in Nat
      BY <2>2
    <3> QED BY <3>1, <3>2
  <2>5. m # 0
    <3>1. SUFFICES ASSUME m = 0 PROVE FALSE
      OBVIOUS
    <3>2. [i \in 0..0 |-> <<>>] \in [0..m -> Seq(Pairs)] /\ Up([i \in 0..0 |-> <<>>], m)
      BY <1>1, <3>1
    <3> QED BY <2>4, <3>2
  <2>6. m - 1 \in 0..Len(list) /\ m - 1 \notin None0 /\ m \in 1..Len(list)
    <3> HIDE DEF None0
    <3> QED BY <1>1, <2>3, <2>4, <2>5
  <2>7. PICK f \in [0..m - 1 -> Seq(Pairs)] : Up(f, m - 1)
    BY <2>6
  <2> DEFINE last == Keeps(list, k, m, f[m - 1])
             g == [i \in 0..m |-> IF i = m THEN last ELSE f[i]]
  <2>8. last \in Seq(Pairs)
    <3>1. f[m - 1] \in Seq(Pairs)
      BY <2>4, <2>6
    <3> QED BY <2>6, <3>1, KeepsType
  <2>9. g \in [0..m -> Seq(Pairs)]
    BY <2>4, <2>8
  <2>10. Up(g, m)
    <3>1. g[0] = <<>>
      BY <2>4, <2>5, <2>7
    <3>2. ASSUME NEW i \in 1..m PROVE g[i] = Keeps(list, k, i, g[i - 1])
      <4>1. CASE i = m
        <5>1. g[i] = last /\ g[i - 1] = f[m - 1]
          BY <4>1, <2>4, <2>6
        <5> QED BY <4>1, <5>1
      <4>2. CASE i # m
        <5>1. i \in 1..m - 1 /\ g[i] = f[i] /\ g[i - 1] = f[i - 1]
          BY <4>2, <2>4
        <5> QED BY <5>1, <2>7
      <4> QED BY <4>1, <4>2
    <3> QED BY <3>1, <3>2
  <2> QED BY <2>4, <2>9, <2>10
<1>3. PICK f \in [0..Len(list) -> Seq(Pairs)] : Up(f, Len(list))
  <2>1. Len(list) \in 0..Len(list)
    BY <1>1
  <2> QED BY <1>2, <2>1
<1>4. f = [i \in 0..Len(list) |-> IF i = 0 THEN <<>> ELSE Keeps(list, k, i, f[i - 1])]
  <2>1. \A i \in 0..Len(list) : f[i] = IF i = 0 THEN <<>> ELSE Keeps(list, k, i, f[i - 1])
    BY <1>1, <1>3
  <2> HIDE DEF Up, None0
  <2> QED BY <2>1
<1> QED BY <1>4 DEF Walk

\* What the walk has after m pairs: those of them without the key, in a list that has no
\* key twice if the list had none.
LEMMA WalkFacts ==
  ASSUME NEW list \in Seq(Pairs), NEW k, NEW f, Walk(f, list, k), NEW m \in 0..Len(list)
  PROVE  /\ f[m] \in Seq(Pairs)
         /\ \A pair : pair \in ToSet(f[m]) <=>
                      \E i \in 1..m : list[i] = pair /\ list[i][1] # k
         /\ EachKeyOnce(list) => EachKeyOnce(f[m])
<1> DEFINE Fits(n) ==
             /\ f[n] \in Seq(Pairs)
             /\ \A pair : pair \in ToSet(f[n]) <=>
                          \E i \in 1..n : list[i] = pair /\ list[i][1] # k
             /\ EachKeyOnce(list) => EachKeyOnce(f[n])
           Bad == {n \in 0..Len(list) : ~ Fits(n)}
<1>1. Len(list) \in Nat
  BY LenProperties
<1>2. f[0] = <<>> /\ \A i \in 1..Len(list) : f[i] = Keeps(list, k, i, f[i - 1])
  BY <1>1 DEF Walk
<1>3. Fits(0)
  <2>1. f[0] \in Seq(Pairs) /\ DOMAIN f[0] = {}
    BY <1>2, EmptySeq
  <2> QED BY <2>1 DEF ToSet, EachKeyOnce
<1>4. ASSUME NEW n \in 1..Len(list), Fits(n - 1) PROVE Fits(n)
  <2>1. n \in Nat /\ n - 1 \in Nat /\ 1..n = (1..n - 1) \cup {n} /\ DOMAIN list = 1..Len(list)
    BY <1>1, LenProperties
  <2>2. CASE list[n][1] = k
    <3>1. f[n] = f[n - 1]
      BY <1>2, <2>2 DEF Keeps
    <3> QED BY <1>4, <2>1, <2>2, <3>1
  <2>3. CASE list[n][1] # k
    <3> DEFINE old == f[n - 1]
    <3>1. f[n] = Append(old, list[n])
      BY <1>2, <2>3 DEF Keeps
    <3>2. list[n] \in Pairs /\ old \in Seq(Pairs)
      BY <1>4, ElementOfSeq
    <3>3. /\ f[n] \in Seq(Pairs) /\ Len(old) \in Nat
          /\ DOMAIN old = 1..Len(old) /\ DOMAIN f[n] = 1..Len(old) + 1
          /\ \A i \in 1..Len(old) : f[n][i] = old[i]
          /\ f[n][Len(old) + 1] = list[n]
      BY <3>1, <3>2, AppendProperties, LenProperties
    <3>4. ToSet(f[n]) = ToSet(old) \cup {list[n]}
      <4>1. 1..Len(old) + 1 = (1..Len(old)) \cup {Len(old) + 1}
        BY <3>3
      <4> HIDE DEF old
      <4> QED BY <3>3, <4>1 DEF ToSet
    <3>5. ASSUME NEW pair
          PROVE  pair \in ToSet(f[n]) <=> \E i \in 1..n : list[i] = pair /\ list[i][1] # k
      BY <1>4, <2>1, <2>3, <3>4
    <3>6. ASSUME EachKeyOnce(list) PROVE EachKeyOnce(f[n])
      <4>1. EachKeyOnce(old)
        BY <1>4, <3>6
      <4>2. ASSUME NEW i \in 1..Len(old) PROVE old[i][1] # list[n][1]
        <5>1. old[i] \in ToSet(old)
          BY <3>3 DEF ToSet
        <5>2. PICK j \in 1..n - 1 : list[j] = old[i]
          BY <1>4, <5>1
        <5>3. j \in DOMAIN list /\ n \in DOMAIN list /\ j # n
          BY <2>1, <1>1
        <5> QED BY <3>6, <5>2, <5>3 DEF EachKeyOnce
      <4> HIDE DEF old
      <4> QED BY <3>3, <4>1, <4>2 DEF EachKeyOnce
    <3> QED BY <3>3, <3>5, <3>6
  <2> QED BY <2>2, <2>3
<1> HIDE DEF Fits
<1>5. Bad = {}
  <2>1. SUFFICES ASSUME Bad # {} PROVE FALSE
    OBVIOUS
  <2>2. Bad \in SUBSET Nat
    BY <1>1
  <2>3. PICK n \in Bad : \A j \in Bad : n <= j
    BY <2>1, <2>2, Least
  <2>4. n \in 0..Len(list) /\ ~ Fits(n) /\ n # 0
    BY <1>3
  <2>5. n \in 1..Len(list) /\ n - 1 \in 0..Len(list) /\ n - 1 \notin Bad
    BY <1>1, <2>3, <2>4
  <2> QED BY <1>4, <2>4, <2>5
<1>6. Fits(m)
  BY <1>5
<1> QED BY <1>6 DEF Fits

\* remove_if keeps the pairs of the other keys, and those only.
LEMMA RemoveIfFacts ==
  ASSUME NEW list \in Seq(Pairs), NEW k
  PROVE  /\ RemoveIf(list, k) \in Seq(Pairs)
         /\ ToSet(RemoveIf(list, k)) = {pair \in ToSet(list) : pair[1] # k}
         /\ EachKeyOnce(list) => EachKeyOnce(RemoveIf(list, k))
<1> DEFINE f == CHOOSE f : Walk(f, list, k)
<1>1. Walk(f, list, k)
  BY WalkExists
<1>2. RemoveIf(list, k) = f[Len(list)]
  BY DEF RemoveIf, Walk, Keeps
<1>3. Len(list) \in Nat /\ DOMAIN list = 1..Len(list)
  BY LenProperties
<1> DEFINE n == Len(list)
<1>4. n \in 0..Len(list)
  BY <1>3
<1> HIDE DEF f, n
<1>5. /\ f[n] \in Seq(Pairs)
      /\ \A pair : pair \in ToSet(f[n]) <=> \E i \in 1..n : list[i] = pair /\ list[i][1] # k
      /\ EachKeyOnce(list) => EachKeyOnce(f[n])
  BY ONLY list \in Seq(Pairs), <1>1, <1>4, WalkFacts
<1>6. ToSet(list) = {list[i] : i \in 1..n}
  BY <1>3 DEF ToSet, n
<1>7. ASSUME NEW pair
      PROVE  pair \in ToSet(f[n]) <=> pair \in {x \in ToSet(list) : x[1] # k}
  BY <1>5, <1>6
<1>8. ToSet(f[n]) = {pair \in ToSet(list) : pair[1] # k}
  BY <1>7
<1> QED BY <1>2, <1>5, <1>8 DEF n

-----------------------------------------------------------------------------
(* ts_hashmap: lists and buckets *)

\* A key has a bucket.
LEMMA BucketForType == \A k \in Keys : BucketFor(k) \in 0..Buckets - 1
  BY BucketsAssumption, HashOfAssumption DEF BucketFor

\* What a list of pairs has.
LEMMA ToSetType ==
  ASSUME NEW list \in Seq(Pairs)
  PROVE  ToSet(list) \subseteq Pairs
<1>1. \A i \in 1..Len(list) : list[i] \in Pairs
  BY ElementOfSeq
<1>2. DOMAIN list = 1..Len(list)
  BY LenProperties
<1> QED BY <1>1, <1>2 DEF ToSet

\* Everything in a map is a pair.
LEMMA ContentsType ==
  ASSUME NEW l \in [0..Buckets - 1 -> Seq(Pairs)]
  PROVE  Contents(l) \subseteq Pairs
  BY ToSetType DEF Contents

\* The empty list.
LEMMA EmptyFacts == <<>> \in Seq(Pairs) /\ ToSet(<<>>) = {} /\ EachKeyOnce(<<>>)
<1>1. <<>> \in Seq(Pairs) /\ DOMAIN <<>> = {}
  BY EmptySeq
<1> QED BY <1>1 DEF ToSet, EachKeyOnce

\* One list after another whose keys are others.
LEMMA Joined ==
  ASSUME NEW a \in Seq(Pairs), NEW b \in Seq(Pairs)
  PROVE  /\ a \o b \in Seq(Pairs)
         /\ ToSet(a \o b) = ToSet(a) \cup ToSet(b)
         /\ EachKeyOnce(a) /\ EachKeyOnce(b)
              /\ (\A x \in ToSet(a), y \in ToSet(b) : x[1] # y[1]) => EachKeyOnce(a \o b)
<1> DEFINE c == a \o b
           m == Len(a)
           n == Len(b)
<1>1. /\ m \in Nat /\ n \in Nat /\ c \in Seq(Pairs) /\ Len(c) = m + n
      /\ DOMAIN a = 1..m /\ DOMAIN b = 1..n /\ DOMAIN c = 1..m + n
      /\ \A i \in 1..m + n : c[i] = IF i <= m THEN a[i] ELSE b[i - m]
  BY ConcatProperties, LenProperties
<1> HIDE DEF c, m, n
<1>2. ToSet(c) = ToSet(a) \cup ToSet(b)
  <2>1. ASSUME NEW i \in DOMAIN c PROVE c[i] \in ToSet(a) \cup ToSet(b)
    <3>1. CASE i <= m
      BY <1>1, <3>1 DEF ToSet
    <3>2. CASE ~ i <= m
      <4>1. i - m \in DOMAIN b /\ c[i] = b[i - m]
        BY <1>1, <3>2
      <4> QED BY <4>1 DEF ToSet
    <3> QED BY <3>1, <3>2
  <2>2. ASSUME NEW i \in DOMAIN a PROVE a[i] \in ToSet(c)
    <3>1. i \in DOMAIN c /\ c[i] = a[i]
      BY <1>1
    <3> QED BY <3>1 DEF ToSet
  <2>3. ASSUME NEW i \in DOMAIN b PROVE b[i] \in ToSet(c)
    <3>1. i + m \in DOMAIN c /\ c[i + m] = b[i]
      BY <1>1
    <3> QED BY <3>1 DEF ToSet
  <2> QED BY <2>1, <2>2, <2>3 DEF ToSet
<1>3. ASSUME EachKeyOnce(a), EachKeyOnce(b), \A x \in ToSet(a), y \in ToSet(b) : x[1] # y[1]
      PROVE  EachKeyOnce(c)
  <2>1. ASSUME NEW i \in DOMAIN a, NEW j \in DOMAIN b PROVE a[i][1] # b[j][1]
    BY <1>3 DEF ToSet
  <2>2. ASSUME NEW i \in DOMAIN c, NEW j \in DOMAIN c, c[i][1] = c[j][1] PROVE i = j
    <3>1. CASE i <= m /\ j <= m
      <4>1. i \in DOMAIN a /\ j \in DOMAIN a /\ c[i] = a[i] /\ c[j] = a[j]
        BY <1>1, <3>1
      <4> QED BY <1>3, <2>2, <4>1 DEF EachKeyOnce
    <3>2. CASE i <= m /\ ~ j <= m
      <4>1. i \in DOMAIN a /\ j - m \in DOMAIN b /\ c[i] = a[i] /\ c[j] = b[j - m]
        BY <1>1, <3>2
      <4> QED BY <2>1, <2>2, <4>1
    <3>3. CASE ~ i <= m /\ j <= m
      <4>1. i - m \in DOMAIN b /\ j \in DOMAIN a /\ c[i] = b[i - m] /\ c[j] = a[j]
        BY <1>1, <3>3
      <4> QED BY <2>1, <2>2, <4>1
    <3>4. CASE ~ i <= m /\ ~ j <= m
      <4>1. i - m \in DOMAIN b /\ j - m \in DOMAIN b /\ c[i] = b[i - m] /\ c[j] = b[j - m]
        BY <1>1, <3>4
      <4>2. i - m = j - m
        BY <1>3, <2>2, <4>1 DEF EachKeyOnce
      <4> QED BY <1>1, <4>2
    <3> QED BY <3>1, <3>2, <3>3, <3>4
  <2> QED BY <2>2 DEF EachKeyOnce
<1> QED BY <1>1, <1>2, <1>3 DEF c

-----------------------------------------------------------------------------
(* ts_hashmap: the steps *)

\* An empty map and no copy, at first.
LEMMA HashmapInitInvariant == HashmapInit => HashmapIInv
<1> SUFFICES ASSUME HashmapInit PROVE HashmapIInv
  OBVIOUS
<1> USE DEF HashmapInit
<1>1. Buckets \in 0..Buckets /\ Contents(lists) = {}
  BY BucketsAssumption, EmptyFacts DEF Contents
<1>2. HashmapTypeOK
  BY <1>1, EmptyFacts DEF HashmapTypeOK
<1>3. Placed
  BY EmptyFacts DEF Placed
<1>4. CopiedSoFar
  BY <1>1, EmptyFacts DEF CopiedSoFar
<1> QED BY <1>2, <1>3, <1>4 DEF HashmapIInv

\* A call that leaves a proper list in the bucket of its key: copies know what of the map
\* they may have missed.
LEMMA SetBucketKeeps ==
  ASSUME HashmapIInv, NEW k \in Keys, NEW list \in Seq(Pairs), SetBucket(k, list),
         EachKeyOnce(list), \A pair \in ToSet(list) : BucketFor(pair[1]) = BucketFor(k)
  PROVE  HashmapIInv'
<1>0. /\ HashmapTypeOK /\ Placed /\ CopiedSoFar
      /\ lists' = [lists EXCEPT ![BucketFor(k)] = list]
      /\ stayed' = [t \in Copiers |-> stayed[t] \cap Contents(lists')]
      /\ met' = [t \in Copiers |-> met[t] \cup Contents(lists')]
      /\ UNCHANGED <<cursor, out>>
  BY DEF HashmapIInv, SetBucket
<1>1. lists' \in [0..Buckets - 1 -> Seq(Pairs)]
  BY <1>0, BucketForType DEF HashmapTypeOK
<1>2. Contents(lists') \subseteq Pairs
  BY <1>1, ContentsType
<1>3. HashmapTypeOK'
  BY <1>0, <1>1, <1>2 DEF HashmapTypeOK
<1>4. \A b \in 0..Buckets - 1 : lists'[b] = IF b = BucketFor(k) THEN list ELSE lists[b]
  BY <1>0 DEF HashmapTypeOK
<1>5. \A b \in 0..Buckets - 1 :
        EachKeyOnce(lists'[b]) /\ \A pair \in ToSet(lists'[b]) : BucketFor(pair[1]) = b
  BY <1>0, <1>4 DEF Placed
<1>6. Placed'
  BY <1>5 DEF Placed
<1>7. CopiedSoFar'
  BY <1>0 DEF CopiedSoFar
<1> QED BY <1>3, <1>6, <1>7 DEF HashmapIInv

\* What the lists of the buckets are.
LEMMA ListAt ==
  ASSUME HashmapIInv, NEW b \in 0..Buckets - 1
  PROVE  /\ lists[b] \in Seq(Pairs) /\ EachKeyOnce(lists[b])
         /\ \A pair \in ToSet(lists[b]) : BucketFor(pair[1]) = b
         /\ ToSet(lists[b]) \subseteq Contents(lists)
  BY DEF HashmapIInv, HashmapTypeOK, Placed, Contents

\* A pair in front whose key is not in the list.
LEMMA PushFrontKeeps ==
  ASSUME HashmapIInv, NEW k \in Keys, NEW v \in Vals, PushFront(k, v)
  PROVE  HashmapIInv'
<1> DEFINE old == lists[BucketFor(k)]
           front == <<<<k, v>>>>
<1>1. old \in Seq(Pairs) /\ EachKeyOnce(old)
      /\ \A pair \in ToSet(old) : BucketFor(pair[1]) = BucketFor(k)
  BY BucketForType, ListAt
<1>2. \A i \in DOMAIN old : old[i][1] # k
  BY DEF PushFront, FindEntry
<1>3. front \in Seq(Pairs) /\ ToSet(front) = {<<k, v>>} /\ EachKeyOnce(front)
  BY DEF ToSet, EachKeyOnce, Pairs
<1>4. SetBucket(k, front \o old)
  BY DEF PushFront
<1> HIDE DEF old, front
<1>5. \A x \in ToSet(front), y \in ToSet(old) : x[1] # y[1]
  BY <1>2, <1>3 DEF ToSet
<1>6. front \o old \in Seq(Pairs) /\ ToSet(front \o old) = ToSet(front) \cup ToSet(old)
      /\ EachKeyOnce(front \o old)
  BY <1>1, <1>3, <1>5, Joined
<1>7. \A pair \in ToSet(front \o old) : BucketFor(pair[1]) = BucketFor(k)
  BY <1>1, <1>3, <1>6
<1> QED BY <1>4, <1>6, <1>7, SetBucketKeeps

\* The value of a key that is there.
LEMMA AssignKeeps ==
  ASSUME HashmapIInv, NEW k \in Keys, NEW v \in Vals, NEW i \in FindEntry(k),
         SetBucket(k, [lists[BucketFor(k)] EXCEPT ![i] = <<k, v>>])
  PROVE  HashmapIInv'
<1> DEFINE old == lists[BucketFor(k)]
           new == [old EXCEPT ![i] = <<k, v>>]
<1>1. old \in Seq(Pairs) /\ EachKeyOnce(old)
      /\ \A pair \in ToSet(old) : BucketFor(pair[1]) = BucketFor(k)
  BY BucketForType, ListAt
<1>2. i \in DOMAIN old /\ old[i][1] = k
  BY DEF FindEntry
<1>3. SetBucket(k, new)
  OBVIOUS
<1> HIDE DEF old
<1>4. DOMAIN new = DOMAIN old /\ \A j \in DOMAIN old : new[j] = IF j = i THEN <<k, v>> ELSE old[j]
  OBVIOUS
<1>5. new \in Seq(Pairs)
  BY <1>1, <1>2, ExceptSeq DEF Pairs
<1> HIDE DEF new
<1>6. \A j \in DOMAIN old : new[j][1] = old[j][1]
  BY <1>2, <1>4
<1>7. EachKeyOnce(new)
  BY <1>1, <1>4, <1>6 DEF EachKeyOnce
<1>8. \A pair \in ToSet(new) : BucketFor(pair[1]) = BucketFor(k)
  <2>1. \A j \in DOMAIN old : BucketFor(old[j][1]) = BucketFor(k)
    BY <1>1 DEF ToSet
  <2> QED BY <1>4, <1>6, <2>1 DEF ToSet
<1> QED BY <1>3, <1>5, <1>7, <1>8, SetBucketKeeps

\* The list without a key.
LEMMA RemoveKeyKeeps ==
  ASSUME HashmapIInv, NEW k \in Keys, RemoveKey(k)
  PROVE  HashmapIInv'
<1> DEFINE old == lists[BucketFor(k)]
           new == RemoveIf(old, k)
<1>1. old \in Seq(Pairs) /\ EachKeyOnce(old)
      /\ \A pair \in ToSet(old) : BucketFor(pair[1]) = BucketFor(k)
  BY BucketForType, ListAt
<1>2. SetBucket(k, new)
  BY DEF RemoveKey
<1> HIDE DEF old
<1>3. new \in Seq(Pairs) /\ EachKeyOnce(new) /\ ToSet(new) \subseteq ToSet(old)
  BY <1>1, RemoveIfFacts
<1> HIDE DEF new
<1>4. \A pair \in ToSet(new) : BucketFor(pair[1]) = BucketFor(k)
  BY <1>1, <1>3
<1> QED BY <1>2, <1>3, <1>4, SetBucketKeeps

\* A copy begins with nothing and has been through no bucket.
LEMMA BeginCopyKeeps ==
  ASSUME HashmapIInv, NEW t \in Copiers, BeginCopy(t)
  PROVE  HashmapIInv'
<1> USE DEF HashmapIInv, BeginCopy
<1>1. HashmapTypeOK'
  <2>1. Contents(lists) \subseteq Pairs
    BY ContentsType DEF HashmapTypeOK
  <2>2. 0 \in 0..Buckets
    BY BucketsAssumption
  <2> QED BY <2>1, <2>2, EmptyFacts DEF HashmapTypeOK
<1>2. Placed'
  BY DEF Placed
<1>3. \A pair \in Contents(lists) : BucketFor(pair[1]) \in Nat
  BY DEF Contents, Placed
<1>4. CopiedSoFar'
  BY <1>3, EmptyFacts DEF HashmapTypeOK, CopiedSoFar
<1> QED BY <1>1, <1>2, <1>4

\* The keys of the next bucket are not those of the buckets before it.
LEMMA CopyValuesKeeps ==
  ASSUME HashmapIInv, NEW t \in Copiers, CopyValues(t)
  PROVE  HashmapIInv'
<1> DEFINE b == cursor[t]
           a == out[t]
           l == lists[b]
<1>1. b \in 0..Buckets - 1 /\ a \in Seq(Pairs) /\ b \in Nat
  BY BucketsAssumption DEF HashmapIInv, HashmapTypeOK, CopyValues
<1>2. /\ l \in Seq(Pairs) /\ EachKeyOnce(l) /\ ToSet(l) \subseteq Contents(lists)
      /\ \A pair \in ToSet(l) : BucketFor(pair[1]) = b
  BY <1>1, ListAt
<1>3. /\ EachKeyOnce(a) /\ ToSet(a) \subseteq met[t]
      /\ stayed[t] \subseteq Contents(lists) /\ Contents(lists) \subseteq met[t]
      /\ \A pair \in ToSet(a) : BucketFor(pair[1]) < b
      /\ \A pair \in stayed[t] : BucketFor(pair[1]) < b => pair \in ToSet(a)
  BY DEF HashmapIInv, CopiedSoFar
<1>4. /\ out' = [out EXCEPT ![t] = a \o l] /\ cursor' = [cursor EXCEPT ![t] = b + 1]
      /\ UNCHANGED <<lists, stayed, met>>
  BY DEF CopyValues
<1>5. \A pair \in Contents(lists) :
        BucketFor(pair[1]) \in Nat /\ (BucketFor(pair[1]) = b => pair \in ToSet(l))
  BY DEF Contents, Placed, HashmapIInv
<1>6. HashmapTypeOK /\ Placed /\ CopiedSoFar
  BY DEF HashmapIInv
<1> HIDE DEF a, l, b
<1>7. \A x \in ToSet(a), y \in ToSet(l) : x[1] # y[1]
  BY <1>1, <1>2, <1>3
<1>8. a \o l \in Seq(Pairs) /\ ToSet(a \o l) = ToSet(a) \cup ToSet(l) /\ EachKeyOnce(a \o l)
  BY <1>1, <1>2, <1>3, <1>7, Joined
<1>9. HashmapTypeOK'
  <2>1. b + 1 \in 0..Buckets
    BY <1>1, BucketsAssumption
  <2> QED BY <1>4, <1>6, <1>8, <2>1 DEF HashmapTypeOK
<1>10. Placed'
  BY <1>4, <1>6 DEF Placed
<1>11. \A pair \in ToSet(a \o l) : BucketFor(pair[1]) < b + 1
  <2>1. \A pair \in Pairs : BucketFor(pair[1]) \in Nat
    BY BucketForType, BucketsAssumption DEF Pairs
  <2>2. \A pair \in ToSet(a) : pair \in Pairs
    BY <1>1, ToSetType
  <2> QED BY <1>1, <1>2, <1>3, <1>8, <2>1, <2>2
<1>12. \A pair \in stayed[t] : BucketFor(pair[1]) < b + 1 => pair \in ToSet(a \o l)
  BY <1>1, <1>3, <1>5, <1>8
<1>13. ToSet(a \o l) \subseteq met[t]
  BY <1>2, <1>3, <1>8
<1>14. out'[t] = a \o l /\ cursor'[t] = b + 1
       /\ \A u \in Copiers \ {t} : out'[u] = out[u] /\ cursor'[u] = cursor[u]
  BY <1>4, <1>6 DEF HashmapTypeOK
<1>15. CopiedSoFar'
  BY <1>3, <1>4, <1>6, <1>8, <1>11, <1>12, <1>13, <1>14 DEF CopiedSoFar
<1> QED BY <1>9, <1>10, <1>15 DEF HashmapIInv

\* Every step keeps the invariant.
LEMMA HashmapNextInvariant ==
  ASSUME HashmapIInv, [HashmapNext]_hashmapVars
  PROVE  HashmapIInv'
<1>1. CASE UNCHANGED hashmapVars
  BY <1>1 DEF hashmapVars, HashmapIInv, HashmapTypeOK, Placed, CopiedSoFar
<1>2. ASSUME NEW k \in Keys, NEW v \in Vals, Insert(k, v) \/ InsertOrAssign(k, v)
      PROVE  HashmapIInv'
  <2>1. CASE PushFront(k, v)
    BY <2>1, PushFrontKeeps
  <2>2. ASSUME NEW i \in FindEntry(k),
               SetBucket(k, [lists[BucketFor(k)] EXCEPT ![i] = <<k, v>>])
        PROVE  HashmapIInv'
    BY <2>2, AssignKeeps
  <2> QED BY <1>2, <2>1, <2>2 DEF Insert, InsertOrAssign
<1>3. ASSUME NEW k \in Keys, RemoveKey(k) PROVE HashmapIInv'
  BY <1>3, RemoveKeyKeeps
<1>4. ASSUME NEW t \in Copiers, BeginCopy(t) \/ CopyValues(t) PROVE HashmapIInv'
  BY <1>4, BeginCopyKeeps, CopyValuesKeeps
<1> QED BY <1>1, <1>2, <1>3, <1>4 DEF HashmapNext

\* The invariant holds in every state of the map and its copies.
THEOREM HashmapInvariantHolds == HashmapSpec => []HashmapIInv
<1>1. HashmapIInv /\ [HashmapNext]_hashmapVars => HashmapIInv'
  BY HashmapNextInvariant
<1> QED BY HashmapInitInvariant, <1>1, PTL DEF HashmapSpec

\* A copy that has ended has each key once, every pair that stayed while it ran, and no
\* pair that was never there, for any keys, values, number of buckets, hash and copies.
THEOREM CopiesKeepUp == HashmapSpec => []CopyKeepsUp
<1>1. HashmapIInv => CopyKeepsUp
  <2> SUFFICES ASSUME HashmapIInv, NEW t \in Copiers, cursor[t] = Buckets
               PROVE  /\ \A i, j \in DOMAIN out[t] : out[t][i][1] = out[t][j][1] => i = j
                      /\ ToSet(out[t]) \subseteq met[t] /\ stayed[t] \subseteq ToSet(out[t])
    BY DEF CopyKeepsUp
  <2>1. /\ EachKeyOnce(out[t]) /\ ToSet(out[t]) \subseteq met[t]
        /\ stayed[t] \subseteq Contents(lists)
        /\ \A pair \in stayed[t] : BucketFor(pair[1]) < Buckets => pair \in ToSet(out[t])
    BY DEF HashmapIInv, CopiedSoFar
  <2>2. \A pair \in Contents(lists) : BucketFor(pair[1]) < Buckets
    BY BucketsAssumption DEF Contents, Placed, HashmapIInv
  <2> QED BY <2>1, <2>2 DEF EachKeyOnce
<1> QED BY HashmapInvariantHolds, <1>1, PTL

-----------------------------------------------------------------------------
(* The components side by side *)

\* Every component's invariant, whichever of them moves.
BenchIInv == StackIInv /\ FdIInv /\ DaemonIInv /\ RuptimeIInv /\ HashmapIInv

\* Each component starts as by itself.
LEMMA BenchInit == Init => BenchIInv
  BY StackInitInvariant, FdInitInvariant, DaemonInitInvariant, RuptimeInitInvariant,
     HashmapInitInvariant DEF Init, BenchIInv

\* A step is one of a component, and leaves the others' variables.
LEMMA BenchNext ==
  ASSUME BenchIInv, [Next]_vars
  PROVE  BenchIInv'
<1>1. /\ [StackNext]_stackVars /\ [FdNext]_fdVars /\ [DaemonNext]_daemonVars
      /\ [RuptimeNext]_ruptimeVars /\ [HashmapNext]_hashmapVars
  BY DEF Next, vars, InStack, InFds, InDaemon, InRuptime, InHashmap
<1>2. StackIInv'
  BY <1>1, StackNextInvariant DEF BenchIInv
<1>3. FdIInv'
  BY <1>1, FdNextInvariant DEF BenchIInv
<1>4. DaemonIInv'
  BY <1>1, DaemonNextInvariant DEF BenchIInv
<1>5. RuptimeIInv'
  BY <1>1, RuptimeNextInvariant DEF BenchIInv
<1>6. HashmapIInv'
  BY <1>1, HashmapNextInvariant DEF BenchIInv
<1> QED BY <1>2, <1>3, <1>4, <1>5, <1>6 DEF BenchIInv

\* The components keep their invariants side by side.
THEOREM BenchInvariantHolds == Spec => []BenchIInv
<1>1. BenchIInv /\ [Next]_vars => BenchIInv'
  BY BenchNext
<1> QED BY BenchInit, <1>1, PTL DEF Spec

\* The types of all components, whichever of them moves: the state of threads, sockets,
\* processes, clients and buckets, and that a waiter of ts_stack has the mutex from its
\* predicate to its sleep.
THEOREM TypesHold == Spec => []TypeOK
<1>1. StackIInv => StackTypeOK /\ HeldToSleep
  BY DEF StackIInv
<1>2. FdIInv => FdTypeOK
  BY FdInvariantTyped
<1>3. DaemonIInv => DaemonTypeOK
  BY DEF DaemonIInv
<1>4. RuptimeIInv => RuptimeTypeOK
  BY DEF RuptimeIInv
<1>5. HashmapIInv => HashmapTypeOK
  BY DEF HashmapIInv
<1>6. BenchIInv => TypeOK
  BY <1>1, <1>2, <1>3, <1>4, <1>5 DEF BenchIInv, TypeOK
<1> QED BY BenchInvariantHolds, <1>6, PTL
=============================================================================
