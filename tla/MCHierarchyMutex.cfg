SPECIFICATION Spec
CONSTANTS
  a = a
  b = b
  c = c
  d = d
  top = top
  Threads = {t1, t2, t3}
  Mutexes = {a, b, c, d, top}
  Level <- MCLevel
  Top = 3
  NoThread = NoThread
  NoMutex = NoMutex
SYMMETRY Symmetry
INVARIANTS IInv LevelRestored NoCircularWait OneToUnlock
