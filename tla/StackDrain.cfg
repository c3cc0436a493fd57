SPECIFICATION Spec
CONSTANTS
  NoThread = NoThread
  Pusher = pusher
  Threads = {pusher, tpop1, tpop2}
  Values = {v}
  Notifies = {"one"}
  Items = 3
  MaxLen = 3
  MaxBatch = 1
  Throws = FALSE
CHECK_DEADLOCK FALSE
PROPERTY DrainEnds
