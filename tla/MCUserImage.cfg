SPECIFICATION ImageSpec
CONSTANTS
  Nil = Nil
  FRAME_SIZE = 2
  CHUNK = 2
  BIAS = 8
  Space = 18
  ElfKeys = {3, 6}
  StackKeys = {15, 25, 31}
  MaxEdits = 1
  Libc <- MCLibc
  Exes <- MCExes
INVARIANTS ImageIsReady StackIsReady FailureIsContained
PROPERTY ExecveEndsRight
