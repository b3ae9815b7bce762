----------------------------- MODULE ProcessTree -----------------------------
(***************************************************************************)
(* Life and death of tasks in the task domain: Task::do_clone, do_exit and *)
(* do_wait4 (common/task/task/src/task.rs, syscall/{clone,exit,wait}.rs).  *)
(*                                                                         *)
(* A Task object is named by its tid.  It exists while an Arc<Task> to it  *)
(* does: in GLOBAL_TASK_MANAGER, in the children map of its parent (keyed  *)
(* by PID, not by tid), in the frame of a system call of its own, or in    *)
(* the frame of the task waiting for it.  Its tid is allocated while the   *)
(* object, or a thread that shares it as pid, exists (Arc<TidHandle>).     *)
(* `kernel` is the scheduler's own table (crate basic, external): a task   *)
(* is added by add_one_task, becomes "exited" in exit_now and is dropped   *)
(* by basic::remove_task.                                                  *)
(***************************************************************************)
EXTENDS Integers, FiniteSets

CONSTANTS
  Tids,      \* task identifiers, a set of numbers
  InitTid,   \* tid of the init process
  Worlds     \* records [flags, waits, smp, groups, max_clones]: what a program
             \* passes to clone and to wait4, whether several CPUs run it and one
             \* may work inside another's do_exit, whether it changes process
             \* groups, and the bound on the tasks it creates

CloneFlags == SUBSET {"CLONE_VM", "CLONE_THREAD", "CLONE_PARENT"}

ASSUME TreeAssumption ==
  /\ Tids \subseteq Nat /\ IsFiniteSet(Tids) /\ 0 \notin Tids /\ InitTid \in Tids
  /\ \A w \in Worlds : /\ w.flags \subseteq CloneFlags
                        /\ w.waits \subseteq SUBSET {"WNOHANG", "WNOWAIT"}
                        /\ w.smp \in BOOLEAN /\ w.groups \in BOOLEAN
                        /\ w.max_clones \in Nat

NoTid == 0       \* no task, no parent
Gone == -1       \* a Weak<Task> whose number belongs to a later task
Any == 0         \* wait4(-1)

VARIABLES
  world,      \* the program and the machine, never changes
  pid,        \* pid[t]: thread group of t
  thread,     \* thread[t]: thread_number of t is not 0
  parent,     \* parent[t]: Option<Weak<Task>>
  children,   \* children[t][key]: BTreeMap<pid, Arc<Task>>
  status,     \* TaskInner.status
  global,     \* GLOBAL_TASK_MANAGER
  kernel,     \* the scheduler's table: "none", "live", "exited"
  pc,         \* where each task is
  todo,       \* children still to re-parent in do_exit
  warg, wopt, \* arguments of wait4
  wtask,      \* wait_task: the Arc held in the frame of do_wait4
  clash,      \* a tid was handed out that the scheduler still uses
  clones      \* tasks created so far

vars == <<world, pid, thread, parent, children, status, global, kernel, pc, todo,
          warg, wopt, wtask, clash, clones>>
frame == <<todo, warg, wopt, wtask>>
made == <<clash, clones, world>>

NoChildren == [k \in Tids |-> NoTid]
Keys(p) == {k \in Tids : children[p][k] # NoTid}

-----------------------------------------------------------------------------
(* References *)

ChildRefs(t) == {r \in Tids \X Tids : children[r[1]][r[2]] = t}
WaitRefs(t) == {p \in Tids : wtask[p] = t}
InSyscall == {"reparent", "clear", "zombie", "terminate", "wait", "found"}

\* Arc::strong_count
StrongCount(t) ==
  Cardinality(ChildRefs(t)) + Cardinality(WaitRefs(t))
    + (IF t \in global THEN 1 ELSE 0)
    + (IF pc[t] \in InSyscall THEN 1 ELSE 0)
    + (IF t = InitTid THEN 1 ELSE 0)   \* the static INIT_PROCESS

Exists(t) == StrongCount(t) > 0

\* TID_MANAGER: no TidHandle with this number
TidFree(t) == ~Exists(t) /\ \A o \in Tids : Exists(o) => pid[o] # t

\* IndexAllocator::allocate: the smallest free number, if there is one
FirstFree == {t \in Tids : TidFree(t) /\ \A o \in Tids : TidFree(o) => t <= o}

-----------------------------------------------------------------------------
(* init_task: the init process alone *)

Init ==
  /\ world \in Worlds
  /\ pid = [t \in Tids |-> t]
  /\ thread = [t \in Tids |-> FALSE]
  /\ parent = [t \in Tids |-> NoTid]
  /\ children = [t \in Tids |-> NoChildren]
  /\ status = [t \in Tids |-> "Ready"]
  /\ global = {InitTid}
  /\ kernel = [t \in Tids |-> IF t = InitTid THEN "live" ELSE "none"]
  /\ pc = [t \in Tids |-> IF t = InitTid THEN "run" ELSE "none"]
  /\ todo = [t \in Tids |-> {}]
  /\ warg = [t \in Tids |-> Any]
  /\ wopt = [t \in Tids |-> {}]
  /\ wtask = [t \in Tids |-> NoTid]
  /\ clash = FALSE /\ clones = 0

-----------------------------------------------------------------------------
(* clone *)

\* assert_eq!(inner.thread_number, 0): only a task with thread number 0 may
\* create a process
ForkAssertion(p, f) == "CLONE_VM" \in f \/ ~thread[p]

CloneFails(p, f) ==
  /\ ~ForkAssertion(p, f)
  /\ pc' = [pc EXCEPT ![p] = "fork_panic"]
  /\ UNCHANGED <<pid, thread, parent, children, status, global, kernel, frame, made>>

\* Task::do_clone, then add_task.  Weak pointers to an earlier owner of the
\* number stay dead.
CloneSucceeds(p, f, n) ==
  /\ ForkAssertion(p, f)
  /\ LET newpid == IF "CLONE_THREAD" \in f THEN pid[p] ELSE n IN
       /\ pid' = [pid EXCEPT ![n] = newpid]
       /\ thread' = [thread EXCEPT ![n] = "CLONE_VM" \in f]
       /\ parent' = [t \in Tids |->
            IF t = n THEN IF "CLONE_PARENT" \in f THEN parent[p] ELSE p
            ELSE IF parent[t] = n THEN Gone ELSE parent[t]]
       /\ children' = IF "CLONE_PARENT" \in f THEN children
                      ELSE [children EXCEPT ![p][newpid] = n]
       /\ status' = [status EXCEPT ![n] = "Ready"]
  /\ global' = global \cup {n}
  /\ clash' = (clash \/ kernel[n] # "none")
  /\ clones' = clones + 1 /\ UNCHANGED world
  /\ kernel' = [kernel EXCEPT ![n] = "live"]
  /\ pc' = [pc EXCEPT ![n] = "run"]
  /\ UNCHANGED frame

Clone(p) ==
  /\ pc[p] = "run" /\ ~clash /\ clones < world.max_clones
  /\ \E f \in world.flags, n \in FirstFree : CloneFails(p, f) \/ CloneSucceeds(p, f, n)

-----------------------------------------------------------------------------
(* exit *)

\* do_exit begins: a task of init's thread group brings the kernel down, any
\* other walks its children map
Exit(p) ==
  /\ pc[p] = "run" /\ p # InitTid
  /\ IF pid[p] = InitTid
     THEN pc' = [pc EXCEPT ![p] = "init_panic"] /\ UNCHANGED todo
     ELSE pc' = [pc EXCEPT ![p] = "reparent"] /\ todo' = [todo EXCEPT ![p] = Keys(p)]
  /\ UNCHANGED <<pid, thread, parent, children, status, global, kernel,
                 warg, wopt, wtask, made>>

\* mutant: init does not get the child
Reparent_NoInsert(p) ==
  /\ pc[p] = "reparent" /\ todo[p] # {}
  /\ LET k == CHOOSE x \in todo[p] : \A y \in todo[p] : x <= y IN
       /\ parent' = [parent EXCEPT ![children[p][k]] = InitTid]
       /\ todo' = [todo EXCEPT ![p] = @ \ {k}]
  /\ UNCHANGED <<pid, thread, children, status, global, kernel, pc, warg, wopt, wtask, made>>

\* mutant: the child keeps its old parent pointer
Reparent_KeepParent(p) ==
  /\ pc[p] = "reparent" /\ todo[p] # {}
  /\ LET k == CHOOSE x \in todo[p] : \A y \in todo[p] : x <= y IN
       /\ children' = [children EXCEPT ![InitTid][k] = children[p][k]]
       /\ todo' = [todo EXCEPT ![p] = @ \ {k}]
  /\ UNCHANGED <<pid, thread, parent, status, global, kernel, pc, warg, wopt, wtask, made>>

\* one round of for_each: the child gets init as parent and init a second Arc
Reparent(p) ==
  /\ pc[p] = "reparent" /\ todo[p] # {}
  /\ LET k == CHOOSE x \in todo[p] : \A y \in todo[p] : x <= y
         c == children[p][k] IN
       /\ parent' = [parent EXCEPT ![c] = InitTid]
       /\ children' = [children EXCEPT ![InitTid][k] = c]
       /\ todo' = [todo EXCEPT ![p] = @ \ {k}]
  /\ UNCHANGED <<pid, thread, status, global, kernel, pc, warg, wopt, wtask, made>>

\* mutant: children.clear() is missing
ClearChildren_Missing(p) ==
  /\ pc[p] = "reparent" /\ todo[p] = {}
  /\ pc' = [pc EXCEPT ![p] = "zombie"]
  /\ UNCHANGED <<pid, thread, parent, children, status, global, kernel, frame, made>>

\* children.clear()
ClearChildren(p) ==
  /\ pc[p] = "reparent" /\ todo[p] = {}
  /\ children' = [children EXCEPT ![p] = NoChildren]
  /\ pc' = [pc EXCEPT ![p] = "zombie"]
  /\ UNCHANGED <<pid, thread, parent, status, global, kernel, frame, made>>

\* the status and the exit code become visible, clear_child_tid is woken
Zombie(p) ==
  /\ pc[p] = "zombie"
  /\ status' = [status EXCEPT ![p] = "Zombie"]
  /\ pc' = [pc EXCEPT ![p] = "terminate"]
  /\ UNCHANGED <<pid, thread, parent, children, global, kernel, frame, made>>

\* mutant: the task stays a Zombie
Terminate_StaysZombie(p) ==
  /\ pc[p] = "terminate"
  /\ global' = global \ {p}
  /\ pc' = [pc EXCEPT ![p] = "leaving"]
  /\ UNCHANGED <<pid, thread, parent, children, status, kernel, frame, made>>

\* remove_task, Terminated, drop(task)
Terminate(p) ==
  /\ pc[p] = "terminate"
  /\ global' = global \ {p}
  /\ status' = [status EXCEPT ![p] = "Terminated"]
  /\ pc' = [pc EXCEPT ![p] = "leaving"]
  /\ UNCHANGED <<pid, thread, parent, children, kernel, frame, made>>

\* basic::exit_now
ExitNow(p) ==
  /\ pc[p] = "leaving"
  /\ kernel' = [kernel EXCEPT ![p] = "exited"]
  /\ pc' = [pc EXCEPT ![p] = "none"]
  /\ UNCHANGED <<pid, thread, parent, children, status, global, frame, made>>

-----------------------------------------------------------------------------
(* wait4 *)

\* sys_waitid: WEXITED is required, only P_ALL and P_PID are known; the rest is
\* handed to do_wait4
sys_waitid(which, n, options) ==
  IF "WEXITED" \in options /\ which \in {"P_ALL", "P_PID"}
  THEN {<<IF which = "P_ALL" THEN Any ELSE n, options \ {"WEXITED"}>>} ELSE {}

\* the pids of the children
Pids(p) == {pid[children[p][k]] : k \in Keys(p)}

\* the arguments a program may get to do_wait4 with
WaitArgs(p) ==
  {a \in ({Any} \cup Pids(p)) \X (SUBSET {"WNOHANG", "WNOWAIT"}) :
     \/ a[2] \in world.waits
     \/ \E w \in {"P_ALL", "P_PID", "P_PGID"}, n \in Pids(p), o \in world.waits :
          a \in sys_waitid(w, n, o \cup {"WEXITED"})}

WaitCall(p) ==
  /\ pc[p] = "run"
  /\ \E a \in WaitArgs(p) :
       /\ p = InitTid => a[1] = Any
       /\ warg' = [warg EXCEPT ![p] = a[1]]
       /\ wopt' = [wopt EXCEPT ![p] = a[2]]
  /\ pc' = [pc EXCEPT ![p] = "wait"]
  /\ UNCHANGED <<pid, thread, parent, children, status, global, kernel, todo, wtask, made>>

\* the arguments go away with the frame of the call
Forget(p) == warg' = [warg EXCEPT ![p] = Any] /\ wopt' = [wopt EXCEPT ![p] = {}]

Matching(p) == {k \in Keys(p) : warg[p] = Any \/ pid[children[p][k]] = warg[p]}
Finished(p) == {k \in Matching(p) : status[children[p][k]] = "Terminated"}

\* filter_exit_task: ECHILD without a matching child, else the first of them
\* that has terminated; nothing found and WNOHANG returns 0, else yield
Filter(p) ==
  /\ pc[p] = "wait"
  /\ \/ /\ Matching(p) = {} \/ (Finished(p) = {} /\ "WNOHANG" \in wopt[p])
        /\ pc' = [pc EXCEPT ![p] = "run"]
        /\ Forget(p)
        /\ UNCHANGED wtask
     \/ /\ Finished(p) # {}
        /\ LET k == CHOOSE x \in Finished(p) : \A y \in Finished(p) : x <= y IN
             wtask' = [wtask EXCEPT ![p] = children[p][k]]
        /\ pc' = [pc EXCEPT ![p] = "found"]
        /\ UNCHANGED <<warg, wopt>>
  /\ UNCHANGED <<pid, thread, parent, children, status, global, kernel, todo, made>>

\* assert_eq!(Arc::strong_count(&wait_task), 1) once the entry is removed
SoleOwner(p, c) ==
  /\ c \notin global /\ pc[c] \notin InSyscall
  /\ WaitRefs(c) = {p}
  /\ ChildRefs(c) \subseteq {<<p, pid[c]>>}

\* mutant: basic::remove_task is missing
Reap_KernelKeeps(p) ==
  /\ pc[p] = "found" /\ kernel[wtask[p]] = "exited"
  /\ children' = [children EXCEPT ![p][pid[wtask[p]]] = NoTid]
  /\ pc' = [pc EXCEPT ![p] = "run"]
  /\ wtask' = [wtask EXCEPT ![p] = NoTid]
  /\ Forget(p)
  /\ UNCHANGED <<pid, thread, parent, status, global, kernel, todo, made>>

\* mutant: the entry is not taken out of the children map
Reap_EntryStays(p) ==
  /\ pc[p] = "found" /\ kernel[wtask[p]] = "exited"
  /\ kernel' = [kernel EXCEPT ![wtask[p]] = "none"]
  /\ pc' = [pc EXCEPT ![p] = "run"]
  /\ wtask' = [wtask EXCEPT ![p] = NoTid]
  /\ Forget(p)
  /\ UNCHANGED <<pid, thread, parent, children, status, global, todo, made>>

\* the found task has left its kernel stack: keep it (WNOWAIT) or release it
Reap(p) ==
  /\ pc[p] = "found"
  /\ LET c == wtask[p] IN
       /\ kernel[c] = "exited"
       /\ IF "WNOWAIT" \in wopt[p]
          THEN /\ pc' = [pc EXCEPT ![p] = IF pid[c] = c THEN "run" ELSE "reap_panic"]
               /\ UNCHANGED <<children, kernel>>
          ELSE /\ children' = [children EXCEPT ![p][pid[c]] = NoTid]
               /\ kernel' = [kernel EXCEPT ![c] = "none"]
               /\ pc' = [pc EXCEPT ![p] = IF SoleOwner(p, c) THEN "run" ELSE "reap_panic"]
  /\ wtask' = [wtask EXCEPT ![p] = NoTid]
  /\ Forget(p)
  /\ UNCHANGED <<pid, thread, parent, status, global, todo, made>>

\* mutant: the Arc is held across yield_now
NotYet_KeepsArc(p) ==
  /\ pc[p] = "found" /\ kernel[wtask[p]] # "exited"
  /\ pc' = [pc EXCEPT ![p] = "wait"]
  /\ UNCHANGED <<pid, thread, parent, children, status, global, kernel, frame, made>>

\* it has not: drop the Arc and look again, or give up
NotYet(p) ==
  /\ pc[p] = "found" /\ kernel[wtask[p]] # "exited"
  /\ wtask' = [wtask EXCEPT ![p] = NoTid]
  /\ IF "WNOHANG" \in wopt[p]
     THEN pc' = [pc EXCEPT ![p] = "run"] /\ Forget(p)
     ELSE pc' = [pc EXCEPT ![p] = "wait"] /\ UNCHANGED <<warg, wopt>>
  /\ UNCHANGED <<pid, thread, parent, children, status, global, kernel, todo, made>>

-----------------------------------------------------------------------------

Leave(p) == Reparent(p) \/ ClearChildren(p) \/ Zombie(p)
              \/ Terminate(p) \/ ExitNow(p)
Waiting(p) == Filter(p) \/ Reap(p) \/ NotYet(p)

\* one CPU: the kernel is not preempted, do_exit walks the children in one go
Undisturbed(p) == world.smp \/ \A q \in Tids \ {p} : pc[q] # "reparent"

Next == \E p \in Tids :
  Undisturbed(p) /\ (Clone(p) \/ Exit(p) \/ WaitCall(p) \/ Leave(p) \/ Waiting(p))

Spec == Init /\ [][Next]_vars

\* a task in the kernel keeps running, and init keeps calling
\* wait4(-1) without options
FairSpec ==
  /\ Spec
  /\ \A p \in Tids : SF_vars(Undisturbed(p) /\ (Leave(p) \/ Waiting(p)))
  /\ SF_vars(Undisturbed(InitTid) /\ WaitCall(InitTid) /\ wopt'[InitTid] = {})

-----------------------------------------------------------------------------
(* Properties *)

\* Types of the task tables; an Arc of a child is held in the frame of do_wait4
\* only while that child is looked at.
TypeOK ==
  /\ pid \in [Tids -> Tids] /\ thread \in [Tids -> BOOLEAN]
  /\ parent \in [Tids -> Tids \cup {NoTid, Gone}]
  /\ children \in [Tids -> [Tids -> Tids \cup {NoTid}]]
  /\ status \in [Tids -> {"Ready", "Zombie", "Terminated"}]
  /\ global \subseteq Tids
  /\ kernel \in [Tids -> {"none", "live", "exited"}]
  /\ pc \in [Tids -> {"none", "run", "reparent", "zombie", "terminate",
                      "leaving", "wait", "found",
                      "fork_panic", "init_panic", "reap_panic"}]
  /\ todo \in [Tids -> SUBSET Tids]
  /\ warg \in [Tids -> Tids \cup {Any}]
  /\ wtask \in [Tids -> Tids \cup {NoTid}]
  /\ \A p \in Tids : wtask[p] # NoTid <=> pc[p] = "found"

\* the program makes processes only, no thread and no CLONE_PARENT child
ProcessesOnly == world.flags = {{}}

\* Every process the scheduler knows, except init, is in the children map of
\* some task, so a wait4 can still release it: re-parenting in do_exit loses
\* none, whatever runs next to it.
EveryTaskIsReapable ==
  ProcessesOnly =>
    \A t \in Tids \ {InitTid} :
      kernel[t] # "none" => \E p \in Tids : children[p][pid[t]] = t /\ Exists(p)

\* The parent of a task that still runs exists: getppid (current_ppid unwraps
\* the upgraded Weak) cannot fail.
ParentAlive ==
  \A t \in Tids \ {InitTid} :
    pc[t] \in {"run", "wait", "found"} =>
      parent[t] # Gone /\ (parent[t] # NoTid => Exists(parent[t]))

\* ParentAlive holds of every program that makes processes only.
ProcessParentAlive == ProcessesOnly => ParentAlive

\* A task's parent pointer and the children maps tell the same story, except
\* while the old parent is on its way out.
ParentAgrees ==
  \A p, k \in Tids :
    LET c == children[p][k] IN
      c # NoTid => \/ parent[c] = p
                   \/ parent[c] = InitTid /\ pc[p] = "reparent" /\ k \notin todo[p]

\* A tid is the unique identifier of a task (task.rs:49): do_clone never hands out one that the
\* scheduler still uses for a task that has not been released.
TidIsUnique == ~clash

\* Programs that make processes only have unique tids.  A second thread replaces the first in the
\* children map and lets its tid go too early.
ProcessTidIsUnique == ProcessesOnly => TidIsUnique

\* A task is released by exactly one waiter: once wait4 took its entry out of
\* the scheduler's table no second wait4 can find it.
ReleasedOnce ==
  \A p \in Tids : wtask[p] # NoTid => kernel[wtask[p]] # "none"

\* assert_eq!(Arc::strong_count(&wait_task), 1) in do_wait4 never fails.
ReaperIsSoleOwner ==
  \A p \in Tids : pc[p] = "found" /\ kernel[wtask[p]] = "exited" /\ wopt[p] = {}
                    => SoleOwner(p, wtask[p])

\* On one CPU the assertion in do_wait4 holds, threads or not.
OneCpuReaperIsSoleOwner == ~world.smp => ReaperIsSoleOwner

\* On one CPU, a process whose parent died before it is released by init once
\* it has left.
OrphansAreReleased ==
  \A t \in Tids \ {InitTid} :
    (~world.smp /\ ProcessesOnly /\ kernel[t] = "exited" /\ parent[t] = InitTid)
      ~> (kernel[t] = "none")

\* do_exit and do_clone keep the family together: every process can be waited for, has a
\* parent that exists, and parents and children agree.
FamilyIsComplete == TypeOK /\ EveryTaskIsReapable /\ ProcessParentAlive /\ ParentAgrees

\* do_wait4 releases a task once, when nobody else holds it, and only then is its tid free.
ReleaseIsSafe == ProcessTidIsUnique /\ ReleasedOnce /\ OneCpuReaperIsSoleOwner
=============================================================================
