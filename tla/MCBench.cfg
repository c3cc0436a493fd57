SPECIFICATION Spec
CONSTANTS
  Threads = {t1, t2, t3}
  Values = {v}
  NoThread = NoThread
  Notifies = {"none", "one", "all"}
  MaxLen = 3
  MaxBatch = 2
  Throws = TRUE
  Fds = {f1}
  NoFd = NoFd
  BufLen = 3
  Bytes = 3
  MaxText = 2
  MaxUnread = 5
  MaxSent = 2
  Instances = {d1, d2, d3}
  Nobody = Nobody
  Procs = {1, 2, 3}
  Server = 1
  Clients = {c1, c2}
  None = None
  SizeRange = 16
  Patience = {0, 5, 7}
  Copiers = {copier}
  key1 = key1
  key2 = key2
  key3 = key3
  Keys = {key1, key2, key3}
  Vals = {v1, v2}
  Buckets = 2
  HashOf <- MCHashOf
CHECK_DEADLOCK FALSE
INVARIANTS TypeOK NoStrandedValue InterruptedNobodySleeps AnswersAsSent AbortsOnlyIfRisky OneInstance OneServes RetryBounded CopyKeepsUp
PROPERTIES SignalsAreTaken ClientEnds
