SPECIFICATION Spec
CONSTANTS
  NumWorkers = 2
  Main = Main
  Root = Root
  NoTask = NoTask
  Outside = Outside
  Tasks = {k1, k2, k3, k4}
SYMMETRY Symmetry
INVARIANTS TypeOK RunsOnce NoHelpingCircle NothingDangles OnlyOutsideLeft
