\* Two tasks, a cache of two of the three frames, three devices.
SPECIFICATION Spec
CONSTANTS
  Tasks = {t1, t2}
  Bytes = {0, 1}
  SECTOR = 2
  FRAME_SIZE = 4
  Frames = 3
  MAX_FRAMES = 2
  Requests <- Calls
  Machines <- Disks
SYMMETRY TaskSymmetry
INVARIANTS CacheIsSound OneCrashIsSurvived
PROPERTY ImplementsDisk
CHECK_DEADLOCK FALSE
