SPECIFICATION FairSpec
CONSTANTS
  BeforeBegin = BeforeBegin
  NoNode = NoNode
  NoThread = NoThread
  Pushers = {x}
  Walkers = {y, z}
  Nodes = {n1, n2}
  Values = {a, b}
  Ops = {"for_each", "for_first_of", "remove_if", "remove_first_if"}
PROPERTY TraversalEnds
