------------------------------ MODULE EventFd ------------------------------
(***************************************************************************)
(* Event counters of the VFS domain, common/vfs/vfs/src/eventfd.rs.        *)
(*                                                                         *)
(* read and write look at the counter under its lock, release the lock and *)
(* either block (enter wait_queue, then basic::wait_now) or lock again to  *)
(* change it.  write wakes every task in wait_queue; read wakes nobody.    *)
(* On one CPU the kernel is not preempted between those points (~smp):     *)
(* only wait_now lets another task run.                                    *)
(***************************************************************************)
EXTENDS Integers, Sequences

CONSTANTS
  Tasks,
  MAX,        \* stands for u64::MAX
  Values,     \* values written
  InitVal,    \* first argument of eventfd
  Modes,      \* flags passed to eventfd: sets of "EFD_SEMAPHORE", "EFD_NONBLOCK"
  Machines,   \* a subset of BOOLEAN: TRUE stands for several CPUs, FALSE for one
  StickyWake  \* TRUE: wake_up_wait_task before wait_now makes wait_now return

ASSUME EventAssumption ==
  /\ MAX \in Nat \ {0} /\ Values \subseteq 0..MAX /\ InitVal \in 0..MAX
  /\ Machines \subseteq BOOLEAN /\ StickyWake \in BOOLEAN
  /\ Modes \subseteq SUBSET {"EFD_SEMAPHORE", "EFD_NONBLOCK"}

VARIABLES
  count,       \* EventFd.count
  wait_queue,  \* tids of blocked tasks
  pc, op,      \* the call of each task
  val,         \* the value written, seen or returned
  flags,       \* EventFd.flags
  stale,       \* history: tasks between Look and Take or Add whose counter another task has changed
  smp          \* the machine has several CPUs; never changes

vars == <<count, wait_queue, pc, op, val, flags, stale, smp>>
fixed == <<flags, smp>>

\* between two points where the CPU may be given away
Mid == {"take", "add", "push", "sleep"}
Alone(t) == smp \/ \A u \in Tasks \ {t} : pc[u] \notin Mid

\* eventfd
Init ==
  /\ count = InitVal
  /\ wait_queue = <<>>
  /\ pc = [t \in Tasks |-> "idle"]
  /\ op = [t \in Tasks |-> "read"]
  /\ val = [t \in Tasks |-> 0]
  /\ flags \in Modes /\ smp \in Machines /\ stale = {}

Read(t) ==
  /\ pc[t] = "idle"
  /\ pc' = [pc EXCEPT ![t] = "look"] /\ op' = [op EXCEPT ![t] = "read"]
  /\ val' = [val EXCEPT ![t] = 0]
  /\ UNCHANGED <<count, wait_queue, stale, fixed>>

\* u64::MAX is refused with EINVAL
Write(t) ==
  /\ pc[t] = "idle"
  /\ \E v \in Values \ {MAX} : val' = [val EXCEPT ![t] = v]
  /\ pc' = [pc EXCEPT ![t] = "look"] /\ op' = [op EXCEPT ![t] = "write"]
  /\ UNCHANGED <<count, wait_queue, stale, fixed>>

\* mutant: a write that fills the counter is let through
Ready_FullToo(t) == IF op[t] = "read" THEN count # 0 ELSE MAX - count + 1 >= val[t]

\* what the loops of read and write wait for
Ready(t) == IF op[t] = "read" THEN count # 0 ELSE MAX - count > val[t]

\* one round of the loop: leave it, fail with EAGAIN, or block
Look(t) ==
  /\ pc[t] = "look" /\ Alone(t)
  /\ pc' = [pc EXCEPT ![t] =
       IF Ready(t) THEN IF op[t] = "read" THEN "take" ELSE "add"
       ELSE IF "EFD_NONBLOCK" \in flags THEN "idle" ELSE "push"]
  /\ val' = [val EXCEPT ![t] = IF op[t] = "read" THEN count ELSE @]
  /\ stale' = stale \ {t}
  /\ UNCHANGED <<count, wait_queue, op, fixed>>

\* wait_queue.lock().push_back(tid)
Push(t) ==
  /\ pc[t] = "push" /\ Alone(t)
  /\ wait_queue' = Append(wait_queue, t)
  /\ pc' = [pc EXCEPT ![t] = "sleep"]
  /\ UNCHANGED <<count, op, val, stale, fixed>>

\* basic::wait_now
WaitNow(t) ==
  /\ pc[t] = "sleep" /\ Alone(t)
  /\ pc' = [pc EXCEPT ![t] = "asleep"]
  /\ UNCHANGED <<count, wait_queue, op, val, stale, fixed>>

\* t changes the counter under everybody who has looked at it
Overtake(t) == stale' = (stale \ {t}) \cup {u \in Tasks \ {t} : pc[u] \in {"take", "add"}}

\* mutant: the counter is not a u64 but goes below zero
Take_NoWrap(t) ==
  /\ pc[t] = "take" /\ Alone(t)
  /\ count' = IF "EFD_SEMAPHORE" \in flags THEN count - 1 ELSE 0
  /\ val' = [val EXCEPT ![t] = IF "EFD_SEMAPHORE" \in flags THEN 1 ELSE @]
  /\ pc' = [pc EXCEPT ![t] = "idle"]
  /\ Overtake(t) /\ UNCHANGED <<wait_queue, op, fixed>>

\* end of read: the counter is a u64 and wraps
Take(t) ==
  /\ pc[t] = "take" /\ Alone(t)
  /\ count' = IF "EFD_SEMAPHORE" \in flags THEN (count - 1) % (MAX + 1) ELSE 0
  /\ val' = [val EXCEPT ![t] = IF "EFD_SEMAPHORE" \in flags THEN 1 ELSE @]
  /\ pc' = [pc EXCEPT ![t] = "idle"]
  /\ Overtake(t) /\ UNCHANGED <<wait_queue, op, fixed>>

\* mutant: only the first task of the queue is woken
Woken_First(t) == wait_queue # <<>> /\ Head(wait_queue) = t /\ pc[t] \in {"sleep", "asleep"}

\* wake_up_wait_task for an entry of the queue
Woken(t) ==
  /\ \E i \in DOMAIN wait_queue : wait_queue[i] = t
  /\ pc[t] = "asleep" \/ (pc[t] = "sleep" /\ StickyWake)

\* mutant: nobody is woken
Add_Silent(t) ==
  /\ pc[t] = "add" /\ Alone(t)
  /\ count' = (count + val[t]) % (MAX + 1)
  /\ pc' = [pc EXCEPT ![t] = "idle"]
  /\ Overtake(t) /\ UNCHANGED <<wait_queue, op, val, fixed>>

\* end of write: add, then wake every task in the queue
Add(t) ==
  /\ pc[t] = "add" /\ Alone(t)
  /\ count' = (count + val[t]) % (MAX + 1)
  /\ wait_queue' = <<>>
  /\ pc' = [u \in Tasks |-> IF u = t THEN "idle" ELSE IF Woken(u) THEN "look" ELSE pc[u]]
  /\ Overtake(t) /\ UNCHANGED <<op, val, fixed>>

Step(t) == Look(t) \/ Push(t) \/ WaitNow(t) \/ Take(t) \/ Add(t)

Next == \E t \in Tasks : Read(t) \/ Write(t) \/ Step(t)

Spec == Init /\ [][Next]_vars

-----------------------------------------------------------------------------
(* Properties *)

\* Types; the counter stays a u64.
TypeOK ==
  /\ count \in 0..MAX
  /\ wait_queue \in Seq(Tasks)
  /\ pc \in [Tasks -> {"idle", "look", "asleep"} \cup Mid]
  /\ op \in [Tasks -> {"read", "write"}]
  /\ val \in [Tasks -> 0..MAX]
  /\ flags \in Modes /\ smp \in Machines /\ stale \subseteq Tasks

\* A read takes from the counter exactly what it returns and a write adds exactly its value: no event
\* is lost, counted twice or wrapped away.  On several CPUs this fails only for a call that another
\* task overtakes between the two locks (eventfd.rs:60 and :76, :99 and :113); on one CPU for none.
ExactCounting ==
  [][\A t \in Tasks : (t \notin stale \/ ~smp) /\ pc'[t] = "idle" =>
       /\ pc[t] = "take" => count - count' = val'[t] /\ val'[t] > 0
       /\ pc[t] = "add" => count' - count = val[t]]_vars

\* On one CPU no reader sleeps while the counter is not zero.
NoReaderSleepsOnEvents ==
  \A t \in Tasks : ~smp /\ pc[t] = "asleep" /\ op[t] = "read" => count = 0

\* With any number of CPUs a sleeping task is in wait_queue, so the next write
\* wakes it.
SleepersAreQueued ==
  \A t \in Tasks : pc[t] = "asleep" => \E i \in DOMAIN wait_queue : wait_queue[i] = t

\* Whoever sleeps in read or write sleeps for a reason and can be found by the next write.
SleepersAreFound == TypeOK /\ NoReaderSleepsOnEvents /\ SleepersAreQueued
=============================================================================
