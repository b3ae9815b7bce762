SPECIFICATION Spec
CONSTANTS
  t1 = t1
  t2 = t2
  Tasks <- MCTasks
  MaxFd = 2
  Ports = {80}
  MaxSockets = 3
  MaxFrames = 2
  MaxLength = 2
  PairLimit = 1
  Worlds <- MCWorlds
  Wants <- MCWants
  FdCounts = {1, 2}
INVARIANTS StreamIsExact SocketsAreExact
PROPERTIES PollsAnswerRight CallsReturn
