---------------------------- MODULE MCUserMemory ----------------------------
EXTENDS UserMemory
CONSTANTS t1, t2, t3, t4, s1, s2

MCTasks == {t1, t2, t3, t4}
Symmetry == Permutations({t2, t3, t4})
MCSpaces == {s1, s2}
World(thread, fork, exec, fixed, top, tasks, n) ==
  [thread |-> thread, fork |-> fork, exec |-> exec, fixed |-> fixed, top |-> top, tasks |-> tasks, regions |-> n]

\* Two threads; processes that fork and execute a program; a process with threads that forks, its
\* child starting threads too; one task with MAP_FIXED and PROT_EXEC below the heap, with mappings
\* that overlap, and at its start; a process that uses them below the heap and forks.
MCWorlds ==
  {World(TRUE, FALSE, FALSE, {}, 18, 2, 3), World(FALSE, TRUE, TRUE, {}, 16, 2, 3),
   World(TRUE, TRUE, FALSE, {}, 12, 4, 3), World(FALSE, FALSE, FALSE, {2, 4}, 12, 1, 4),
   World(FALSE, FALSE, FALSE, {4, 10}, 12, 1, 4), World(FALSE, TRUE, FALSE, {4}, 12, 2, 4)}
=============================================================================
