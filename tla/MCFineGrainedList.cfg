SPECIFICATION Spec
CONSTANTS
  BeforeBegin = BeforeBegin
  NoNode = NoNode
  NoThread = NoThread
  Pushers = {x, y}
  Walkers = {y, z}
  Nodes = {n1, n2, n3}
  Values = {a, b}
  Ops = {"for_each", "for_first_of", "remove_if", "remove_first_if"}
SYMMETRY Symmetry
INVARIANTS IInv EachOnce NoOvertaking
PROPERTY OneAtATime
