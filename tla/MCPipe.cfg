\* Two tasks, every call through either end, a ring of one free byte that
\* wraps at every transfer, several CPUs.
SPECIFICATION FairSpec
CONSTANTS
  Tasks = {t1, t2}
  PIPE_BUF = 2
  Bytes = {0, 1}
  MaxLen = 2
  Uses <- AllUses
  SMP = TRUE
  NoTask = NoTask
INVARIANT PipeInv
PROPERTIES EndIsFinal ImplementsChannel CallsReturnUnlessStuck
CHECK_DEADLOCK FALSE
