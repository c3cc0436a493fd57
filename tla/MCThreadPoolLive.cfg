SPECIFICATION FairSpec
CONSTANTS
  NumWorkers = 2
  Main = Main
  Root = Root
  NoTask = NoTask
  Outside = Outside
  Tasks = {k1, k2, k3}
PROPERTIES DestructionEnds WaitedForRuns
