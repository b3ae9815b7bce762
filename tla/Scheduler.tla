------------------------------ MODULE Scheduler ------------------------------
(***************************************************************************)
(* The run queue: common_scheduler, fifo_scheduler, random_scheduler, and  *)
(* the priority calls of the task domain.  The kernel, which is not in     *)
(* this repository, runs tasks on CPUs: a task that yields goes to the end *)
(* of the queue, one that calls wait_now leaves it until it is woken.      *)
(***************************************************************************)
EXTENDS Integers, FiniteSets, SequencesExt

CONSTANTS
  Cpus, BootCpu,
  Tids,
  InitTask,          \* the first task, which may run on the boot CPU only
  I8_MAX,            \* i8::MAX
  NiceMin, NiceMax,  \* -20 and 19
  Nobody,
  Worlds             \* the settings to check

ASSUME SchedulerAssumption ==
  /\ BootCpu \in Cpus /\ InitTask \in Tids /\ Nobody \notin Tids
  /\ NiceMin \in Int /\ NiceMax \in Int /\ NiceMin <= 0 /\ 0 <= NiceMax /\ NiceMax < I8_MAX

VARIABLES
  world,    \* never changes: cpus, the CPUs that run; policies, the scheduler domains that may be
            \* loaded; prios, the priorities that programs ask for; see also BufferedDevices
  policy,   \* the scheduler domain: "fifo" or "nice" (RandomScheduler)
  sched,    \* queue: "tasks", the list in storage; asleep: tasks in wait_now; woken: tasks woken
            \* before their wait_now, which then returns at once
  running,  \* the task of each CPU
  nice      \* TaskSchedulingInfo.nice

schedVars == <<policy, sched, running, nice>>

SchedInit ==
  /\ policy \in world.policies
  /\ sched = [queue |-> SetToSeq(Tids), asleep |-> {}, woken |-> {}]
  /\ running = [cpu \in Cpus |-> Nobody]
  /\ nice = [t \in Tids |-> 0]

\* cpus_allowed & (1 << cpu_id)
Allowed(t, cpu) == t = InitTask => cpu = BootCpu

\* Scheduler::add_task
add_task(s, t) == [s EXCEPT !.queue = Append(@, t)]

\* wake_up_wait_task
wake_up_wait_task(s, t) ==
  IF t \in s.asleep THEN add_task([s EXCEPT !.asleep = @ \ {t}], t)
  ELSE [s EXCEPT !.woken = @ \cup {t}]

\* positions of the tasks that cpu may run
Candidates(cpu) == {i \in DOMAIN sched.queue : Allowed(sched.queue[i], cpu)}

\* mutant: the newest
FifoChoice_Last(cpu) == {i \in Candidates(cpu) : \A j \in Candidates(cpu) : i >= j}

\* CustomFiFoScheduler: the first
FifoChoice(cpu) == {i \in Candidates(cpu) : \A j \in Candidates(cpu) : i <= j}

\* RandomScheduler: the first of those with the lowest nice, which must be below i8::MAX
NiceChoice(cpu) ==
  LET N(i) == nice[sched.queue[i]]
      low == {i \in Candidates(cpu) : N(i) < I8_MAX}
  IN  {i \in low : \A j \in low : N(i) < N(j) \/ (N(i) = N(j) /\ i <= j)}

Choice(cpu) == IF policy = "fifo" THEN FifoChoice(cpu) ELSE NiceChoice(cpu)

\* fetch_task; tid usize::MAX, for no task, leaves the CPU idle
fetch_task(cpu) ==
  /\ running[cpu] = Nobody
  /\ \E i \in Choice(cpu) : /\ running' = [running EXCEPT ![cpu] = sched.queue[i]]
                            /\ sched' = [sched EXCEPT !.queue = RemoveAt(@, i)]
  /\ UNCHANGED <<policy, nice>>

\* yield_now on cpu
Yield(cpu) ==
  /\ sched' = IF running[cpu] = Nobody THEN sched ELSE add_task(sched, running[cpu])
  /\ running' = [running EXCEPT ![cpu] = Nobody]

\* mutant: begins with an empty list
Update_Fresh(new) ==
  /\ new \in world.policies \ {policy}
  /\ policy' = new
  /\ sched' = [sched EXCEPT !.queue = <<>>]
  /\ UNCHANGED <<running, nice>>

\* a scheduler domain replaces the other: "tasks" is found in storage
Update(new) ==
  /\ new \in world.policies \ {policy}
  /\ policy' = new
  /\ UNCHANGED <<sched, running, nice>>

\* mutant: takes the priority as it comes
Clamp_None(prio) == prio

\* prio.clamp(-20, 19)
Clamp(prio) == IF prio < NiceMin THEN NiceMin ELSE IF prio > NiceMax THEN NiceMax ELSE prio

\* setpriority on the caller; any other task fails an assertion
do_set_priority(t, prio) ==
  /\ prio \in world.prios
  /\ nice' = [nice EXCEPT ![t] = Clamp(prio)]
  /\ UNCHANGED <<policy, sched, running>>

-----------------------------------------------------------------------------
\* Every task is in exactly one place - once in the queue, on one CPU or asleep - through wake-ups
\* by interrupts of any CPU and replacements of the scheduler (storage::get of "tasks").
TaskIsInOnePlace ==
  \A t \in Tids :
    Cardinality({i \in DOMAIN sched.queue : sched.queue[i] = t})
      + Cardinality({cpu \in Cpus : running[cpu] = t}) + (IF t \in sched.asleep THEN 1 ELSE 0) = 1

\* A CPU that asks for work gets it whenever a task in the queue may run there, whatever priorities
\* programs set and whichever scheduler is loaded (fetch_task, do_set_priority).
WorkIsFound == \A cpu \in world.cpus : Candidates(cpu) # {} => Choice(cpu) # {}
=============================================================================
