\* Three tasks, all modes, one CPU or several.
SPECIFICATION Spec
CONSTANTS
  Tasks = {t1, t2, t3}
  MAX = 3
  Values = {0, 1, 2, 3}
  InitVal = 1
  Modes <- AllModes
  Machines = {TRUE, FALSE}
  StickyWake = TRUE
SYMMETRY TaskSymmetry
INVARIANT SleepersAreFound
PROPERTY ExactCounting
CHECK_DEADLOCK FALSE
