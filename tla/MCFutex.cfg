\* Three threads, waiters moved from one futex to another.
SPECIFICATION Spec
CONSTANTS
  a1 = a1
  a2 = a2
  b1 = b1
  b2 = b2
  Threads = {t1, t2, t3}
  Addrs = {a1, a2}
  Vals = {0, 1}
  Bits = {b1, b2}
  Masks <- OneBit
  Nums = {0, 1, 3}
  Targets <- Forward
  StickyWake = TRUE
SYMMETRY ThreadSymmetry
INVARIANT NoWaiterIsLost
PROPERTY NoOvertaking
CHECK_DEADLOCK FALSE
