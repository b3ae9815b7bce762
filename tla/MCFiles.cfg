SPECIFICATION Spec
CONSTANTS
  t1 = t1
  t2 = t2
  b1 = b1
  b2 = b2
  Tasks <- MCTasks
  FirstTask = t1
  Tables <- MCTables
  None = None
  MaxId = 5
  MaxFds = 4
  NewFds = {0, 3}
  MaxAlias = 1
  Closed = {{1, 2, 3}}
  Worlds <- MCWorlds
INVARIANTS TableIsSound OpenFilesAreExact CallFindsItsFile
PROPERTY IdIsNeverReissued
