----------------------------- MODULE MCFsDomain -----------------------------
EXTENDS FsDomain, TLC
CONSTANTS t1, t2, a, b, f0, f1, f2

MCTasks == {t1, t2}
MCNames == {a, b}
MCFiles == {f0, f1, f2}
World(calls, smp, ids, flags) == [calls |-> calls, smp |-> smp, ids |-> ids, flags |-> flags]

\* Names on one CPU, without and with rename and mount, and on several; updates with files
\* open; reading and writing through two files on one CPU and on several; changing flags.
MCWorlds ==
  {World({"query", "open", "creat", "symlink", "link", "unlink"}, FALSE, 5, {{}}),
   World({"query", "open", "creat", "unlink", "rename", "mount"}, FALSE, 4, {{}}),
   World({"query", "open", "creat", "unlink", "parent"}, TRUE, 5, {{}}),
   World({"open", "unlink", "mount", "update", "query", "attr", "statfs", "parent"}, FALSE, 5, {{}}),
   World({"query", "open", "read", "write", "seek", "truncate", "update"}, FALSE, 3, {{}, {"rdwr", "append"}}),
   World({"query", "open", "read", "write"}, TRUE, 3, {{}, {"wr"}}),
   World({"query", "open", "write", "setfl", "setfd", "readdir"}, FALSE, 3, {{}, {"cloexec", "rdwr"}})}
MCSymmetry == Permutations(MCTasks) \cup Permutations(MCNames) \cup Permutations({f1, f2})
=============================================================================
