SPECIFICATION FairSpec
CONSTANTS
  NoNode = NoNode
  NoThread = NoThread
  NoValue = NoValue
  Producers = {pusher}
  Consumers = {poper}
  Managers = {}
  Nodes = {n1, n2, n3}
  Values = {a}
  MaxBatch = 1
  Notifies = {"one"}
PROPERTY PushWakesWaiter
