---------------------------- MODULE MCProcessTree ----------------------------
(* Instances of ProcessTree and ProcessGroups for TLC. *)
EXTENDS ProcessGroups

Fork == {}
Thread == {"CLONE_VM", "CLONE_THREAD"}
OneByOne == {{}, {"WNOHANG"}, {"WNOWAIT"}}

World(flags, waits, smp, grps, n) ==
  [flags |-> flags, waits |-> waits, smp |-> smp, groups |-> grps, max_clones |-> n]

\* processes alone and with threads on one CPU and on several, and a program
\* that moves its processes between groups and sessions
Programs ==
  {World({Fork}, OneByOne, FALSE, FALSE, 3), World({Fork}, {{}}, TRUE, FALSE, 3)}
    \cup {World({Fork, Thread}, {{}}, smp, FALSE, 3) : smp \in BOOLEAN}
    \cup {World({Fork}, {{}}, FALSE, TRUE, 2), World({Fork, Thread}, {{}}, FALSE, TRUE, 2)}

Four == 1..4
=============================================================================
