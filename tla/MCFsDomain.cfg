SPECIFICATION Spec
CONSTANTS
  t1 = t1
  t2 = t2
  a = a
  b = b
  f0 = f0
  f1 = f1
  f2 = f2
  None = None
  Tasks <- MCTasks
  Names <- MCNames
  Files <- MCFiles
  RootFile = f0
  MaxId = 5
  MaxNode = 4
  MaxLen = 2
  MaxUpdates = 1
  Worlds <- MCWorlds
SYMMETRY MCSymmetry
INVARIANTS IdsAreExact CachesAreExact NoHole
PROPERTY WriteNeedsRight
