SPECIFICATION Spec
CONSTANTS
  NoNode = NoNode
  NoThread = NoThread
  NoValue = NoValue
  Producers = {x, y}
  Consumers = {y, z}
  Managers = {z}
  Nodes = {n1, n2, n3}
  Values = {a, b}
  MaxBatch = 2
  Notifies = {"one"}
SYMMETRY Symmetry
INVARIANTS ListShape QueueIsntEmptyHere NoLockDeadlock IInv
PROPERTY ImplementsFifo
