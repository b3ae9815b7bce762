---------------------------- MODULE ProcessGroups ----------------------------
(***************************************************************************)
(* Process groups and sessions on top of the life cycle of tasks:          *)
(* do_set_pgid and do_set_sid of common/task/task/src/lib.rs.              *)
(* do_get_pgid and do_get_sid only read.                                   *)
(*                                                                         *)
(* process_group and session_id are two numbers in TaskInner, copied by    *)
(* do_clone; there is no object for a group or a session.  A thread has    *)
(* its own copy, and a pid is looked up in the task manager, in order of   *)
(* tid: a thread with a smaller tid hides the leader.                      *)
(***************************************************************************)
EXTENDS ProcessTree

VARIABLES
  pgid,     \* TaskInner.process_group
  sid,      \* TaskInner.session_id
  recycled, \* history: a tid was handed out that still names a group or session
  headless  \* history: groups without the process they are named after, which
            \* left them or never was a member

history == <<recycled, headless>>
gvars == <<vars, pgid, sid, history>>

-----------------------------------------------------------------------------

\* tasks of the task manager, the ones the calls below can see
Listed == {t \in Tids : t \in global /\ pc[t] # "none"}

\* find_task_by_pid, as a set with at most one member
find_task_by_pid(n) ==
  {t \in global : pid[t] = n /\ \A o \in global : pid[o] = n => t <= o}

GroupsInit ==
  /\ Init
  /\ pgid = [t \in Tids |-> t] /\ sid = [t \in Tids |-> t]
  /\ recycled = FALSE /\ headless = {}

\* do_clone: the child gets its parent's group and session
Inherit(p) ==
  LET born == global' \ global IN
    /\ pgid' = [t \in Tids |-> IF t \in born THEN pgid[p] ELSE pgid[t]]
    /\ sid' = [t \in Tids |-> IF t \in born THEN sid[p] ELSE sid[t]]
    /\ recycled' = (recycled \/ \E n \in born, t \in Listed : n \in {pgid[t], sid[t]})
    /\ UNCHANGED headless

-----------------------------------------------------------------------------
(* setpgid *)

\* the task a pid argument of task p means
Meant(p, n) == IF n \in {0, pid[p]} THEN {p} ELSE find_task_by_pid(n)

\* mutant: a session leader may change its group
MayMove_Leader(t, g) == \E l \in find_task_by_pid(g) : sid[l] = sid[t]

\* a session leader stays; the group is any process of the same session
MayMove(t, g) ==
  /\ sid[t] # pid[t]
  /\ \E l \in find_task_by_pid(g) : sid[l] = sid[t]

\* only the caller and its own children can be moved
Targets(p, n) == {t \in Meant(p, n) : n \in {0, pid[p]} \/ parent[t] = p}

\* do_set_pgid; a refused call changes nothing
SetPgid(p) ==
  /\ pc[p] = "run" /\ world.groups
  /\ \E n, g \in Tids \cup {0} : \E t \in Targets(p, n) :
       LET new == IF g = 0 THEN pid[t] ELSE g IN
         /\ pgid[t] # new /\ MayMove(t, new)
         /\ pgid' = [pgid EXCEPT ![t] = new]
         /\ headless' = headless \cup ({pid[t]} \cap {pgid[t]})
              \cup {new : l \in {x \in find_task_by_pid(new) : x # t /\ pgid[x] # new}}
  /\ UNCHANGED <<vars, sid, recycled>>

-----------------------------------------------------------------------------
(* setsid *)

\* mutant: a group leader may start a session
MayLead_Anyone(p) == TRUE

\* refused while the caller's group has its number
MayLead(p) == pgid[p] # pid[p]

\* do_set_sid
SetSid(p) ==
  /\ pc[p] = "run" /\ world.groups /\ MayLead(p)
  /\ sid' = [sid EXCEPT ![p] = pid[p]]
  /\ pgid' = [pgid EXCEPT ![p] = pid[p]]
  /\ UNCHANGED <<vars, history>>

-----------------------------------------------------------------------------

GroupsNext ==
  \/ \E p \in Tids : /\ Undisturbed(p)
                     /\ \/ Clone(p) /\ Inherit(p)
                        \/ /\ Exit(p) \/ WaitCall(p) \/ Leave(p) \/ Waiting(p)
                           /\ UNCHANGED <<pgid, sid, history>>
                        \/ SetPgid(p)
                        \/ SetSid(p)

GroupsSpec == GroupsInit /\ [][GroupsNext]_gvars

\* the fairness of ProcessTree: group calls never disable a step of another task
FairGroupsSpec ==
  /\ GroupsSpec
  /\ \A p \in Tids : SF_vars(Undisturbed(p) /\ (Leave(p) \/ Waiting(p)))
  /\ SF_vars(Undisturbed(InitTid) /\ WaitCall(InitTid) /\ wopt'[InitTid] = {})

-----------------------------------------------------------------------------
(* Properties *)

\* A session leader is the leader of its own group, so nobody can move it into
\* another session's group.  The number of a session outlives its leader: a tid
\* handed out again while it names a session makes its new owner a leader
\* without a group.
SessionLeaderLeads ==
  ~recycled => \A t \in Listed : sid[t] = pid[t] => pgid[t] = pid[t]

\* The members of a process group are in one session.  do_set_pgid takes any
\* process of the session for the leader of a group with its number, and
\* do_set_sid looks at the caller's own group only: a process outside the group
\* with its number may start a session whose first group already has members
\* elsewhere, and so may a thread, whose copy of the numbers nobody updates when
\* its process moves.  Every other way keeps a group together.
GroupInOneSession ==
  ~recycled /\ ProcessesOnly =>
    \A t, u \in Listed :
      pgid[t] = pgid[u] /\ pgid[t] \notin headless => sid[t] = sid[u]

\* setpgid and setsid keep groups and sessions nested.
GroupsHoldTogether == SessionLeaderLeads /\ GroupInOneSession
=============================================================================
