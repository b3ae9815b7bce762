SPECIFICATION Spec
CONSTANTS
  t1 = t1
  t2 = t2
  t3 = t3
  t4 = t4
  s1 = s1
  s2 = s2
  Tasks <- MCTasks
  FirstTask = t1
  Spaces <- MCSpaces
  None = None
  ImageStart = 8
  HeapStart = 10
  HeapLimit = 11
  HeapMax = 12
  Top = 18
  Lens = {1, 5}
  Starts = {2, 4, 10}
  MaxThreads = 2
  MapProts = {{"r"}}
  NewProts = {{"r"}}
  Worlds <- MCWorlds
INVARIANTS AddressSpaceHolds 
PROPERTY CutKeepsTheTiling
SYMMETRY Symmetry
