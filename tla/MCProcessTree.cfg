\* Processes, threads, groups and sessions on one CPU and on several.
SPECIFICATION FairGroupsSpec
CONSTANTS
  Tids <- Four
  InitTid = 1
  Worlds <- Programs
INVARIANTS FamilyIsComplete ReleaseIsSafe GroupsHoldTogether
PROPERTY OrphansAreReleased
CHECK_DEADLOCK FALSE
