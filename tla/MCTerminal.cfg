SPECIFICATION Spec
CONSTANTS
  t1 = t1
  t2 = t2
  c1 = c1
  c2 = c2
  Tids <- MCTids
  Cpus <- MCCpus
  BootCpu = c1
  InitTask = t1
  Nobody = Nobody
  I8_MAX = 3
  NiceMin <- MCNiceMin
  NiceMax = 1
  max_events = 2
  Irqs = {"irq1", "irq2"}
  Second = 100
  Width = 2
  Lengths = {1, 2}
  Worlds <- MCWorlds
INVARIANTS TasksAreFound ReadersSleepRight ClaimsAreSound
PROPERTIES InputAndEchoAreExact FifoServesAll DataReachesReaders
