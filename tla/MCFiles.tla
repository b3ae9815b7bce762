------------------------------- MODULE MCFiles -------------------------------
EXTENDS Files, TLC
CONSTANTS t1, t2, b1, b2

MCTasks == {t1, t2}
MCTables == {b1, b2}

World(share, smp, lastId, fds, tasks) ==
  [share |-> share, smp |-> smp, lastId |-> lastId, fds |-> fds, tasks |-> tasks]

\* Threads, then processes, on several CPUs with one file; threads on one CPU with a table
\* that grows; one task with room for a pipe or two files.
OneTask == World(FALSE, FALSE, 5, 4, 1)
MCWorlds ==
  {World(TRUE, TRUE, 4, 3, 2), World(FALSE, TRUE, 4, 3, 2), World(TRUE, FALSE, 4, 4, 2), OneTask}
OneTaskOnly == {OneTask}
=============================================================================
