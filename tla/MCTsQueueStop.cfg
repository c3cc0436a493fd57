SPECIFICATION FairSpec
CONSTANTS
  NoNode = NoNode
  NoThread = NoThread
  NoValue = NoValue
  Producers = {x}
  Consumers = {y, z}
  Managers = {z}
  Nodes = {n1, n2, n3}
  Values = {a}
  MaxBatch = 1
  Notifies = {"one", "none"}
PROPERTY StopReleasesWaiters
