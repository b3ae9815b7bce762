---------------------------- MODULE EventFdProofs ----------------------------
(***************************************************************************)
(* Proofs about EventFd for any number of tasks, any width of the counter, *)
(* all flags, one CPU and several.                                         *)
(***************************************************************************)
EXTENDS EventFd, TLAPS

\* On one CPU at most one task is between two points where it may lose the CPU.
OneInside ==
  ~smp => \A t, u \in Tasks : pc[t] \in Mid /\ pc[u] \in Mid => t = u

\* What a task decided on while it looked at the counter still holds when it acts on the
\* decision, unless it was overtaken; on one CPU nobody is, and sleepers are not either.
DecisionHolds ==
  /\ \A t \in Tasks \ stale :
       /\ pc[t] = "take" => count # 0 /\ val[t] = count
       /\ pc[t] = "add" => MAX - count > val[t]
  /\ ~smp => stale = {}
  /\ ~smp => \A t \in Tasks : pc[t] \in {"push", "sleep", "asleep"} /\ op[t] = "read" => count = 0

\* A task that sleeps or is about to is in the queue that the next write empties,
\* if a wake that comes before wait_now is kept or cannot happen.
SleepersWait ==
  StickyWake \/ ~smp =>
    \A t \in Tasks :
      pc[t] \in {"sleep", "asleep"} => \E i \in DOMAIN wait_queue : wait_queue[i] = t

EventInv == TypeOK /\ OneInside /\ DecisionHolds /\ SleepersWait

\* What the scheduler has to promise on a machine with several CPUs: a wake that
\* comes before wait_now is not forgotten.
WakesAreKept == StickyWake \/ Machines \subseteq {FALSE}

\* eventfd makes a counter that nobody has called.
LEMMA InitEventInv == Init => EventInv
BY EventAssumption DEF Init, EventInv, TypeOK, OneInside, DecisionHolds, SleepersWait, Mid

\* The counter stays a u64: what Take and Add compute wraps.
LEMMA CounterWraps ==
  ASSUME NEW n \in Int
  PROVE  /\ n % (MAX + 1) \in 0..MAX
         /\ n \in 0..MAX => n % (MAX + 1) = n
<1>1. ASSUME NEW m \in Nat, m > 0
      PROVE  n % m \in 0..m - 1 /\ (n \in 0..m - 1 => n % m = n)
  BY <1>1, SMT
<1> QED
  BY <1>1, EventAssumption

\* No step changes the machine.
LEMMA MachineStays == [Next]_vars => smp' = smp
BY DEF Next, Step, Read, Write, Look, Push, WaitNow, Take, Add, fixed, vars

\* Every step keeps the types.
LEMMA StepType == TypeOK /\ [Next]_vars => TypeOK'
<1> SUFFICES ASSUME TypeOK, [Next]_vars PROVE TypeOK'
  OBVIOUS
<1> USE EventAssumption DEF TypeOK, Mid, fixed
<1>1. ASSUME NEW t \in Tasks, Read(t) PROVE TypeOK'
  BY <1>1 DEF Read
<1>2. ASSUME NEW t \in Tasks, Write(t) PROVE TypeOK'
  BY <1>2 DEF Write
<1>3. ASSUME NEW t \in Tasks, Look(t) PROVE TypeOK'
  BY <1>3 DEF Look
<1>4. ASSUME NEW t \in Tasks, Push(t) PROVE TypeOK'
  BY <1>4 DEF Push
<1>5. ASSUME NEW t \in Tasks, WaitNow(t) PROVE TypeOK'
  BY <1>5 DEF WaitNow
<1>6. ASSUME NEW t \in Tasks, Take(t) PROVE TypeOK'
  BY <1>6, CounterWraps DEF Take, Overtake
<1>7. ASSUME NEW t \in Tasks, Add(t) PROVE TypeOK'
  BY <1>7, CounterWraps, SMTT(40) DEF Add, Overtake
<1>8. CASE UNCHANGED vars
  BY <1>8 DEF vars
<1> QED
  BY <1>1, <1>2, <1>3, <1>4, <1>5, <1>6, <1>7, <1>8 DEF Next, Step

\* On one CPU a step of one task needs every other task outside the stretch.
LEMMA StepOneInside == EventInv /\ [Next]_vars => OneInside'
<1> SUFFICES ASSUME EventInv, [Next]_vars PROVE OneInside'
  OBVIOUS
<1> USE DEF EventInv, TypeOK, OneInside, Mid, fixed
<1>1. ASSUME NEW t \in Tasks, Read(t) PROVE OneInside'
  BY <1>1 DEF Read
<1>2. ASSUME NEW t \in Tasks, Write(t) PROVE OneInside'
  BY <1>2 DEF Write
<1>3. ASSUME NEW t \in Tasks, Look(t) PROVE OneInside'
  BY <1>3 DEF Look, Alone
<1>4. ASSUME NEW t \in Tasks, Push(t) PROVE OneInside'
  BY <1>4 DEF Push
<1>5. ASSUME NEW t \in Tasks, WaitNow(t) PROVE OneInside'
  BY <1>5 DEF WaitNow
<1>6. ASSUME NEW t \in Tasks, Take(t) PROVE OneInside'
  BY <1>6 DEF Take
<1>7. ASSUME NEW t \in Tasks, Add(t) PROVE OneInside'
  BY <1>7 DEF Add
<1>8. CASE UNCHANGED vars
  BY <1>8 DEF vars
<1> QED
  BY <1>1, <1>2, <1>3, <1>4, <1>5, <1>6, <1>7, <1>8 DEF Next, Step

\* What DecisionHolds says of one task.
LEMMA DecisionOf ==
  EventInv => \A t \in Tasks :
    /\ (t \notin stale \/ ~smp) /\ pc[t] = "take" => count # 0 /\ val[t] = count
    /\ (t \notin stale \/ ~smp) /\ pc[t] = "add" => MAX - count > val[t]
    /\ ~smp /\ pc[t] \in {"push", "sleep", "asleep"} /\ op[t] = "read" => count = 0
<1> SUFFICES ASSUME EventInv, NEW t \in Tasks
             PROVE  /\ (t \notin stale \/ ~smp) /\ pc[t] = "take" => count # 0 /\ val[t] = count
                    /\ (t \notin stale \/ ~smp) /\ pc[t] = "add" => MAX - count > val[t]
                    /\ ~smp /\ pc[t] \in {"push", "sleep", "asleep"} /\ op[t] = "read" => count = 0
  OBVIOUS
<1>1. DecisionHolds
  BY DEF EventInv
<1>2. t \notin stale \/ ~smp => t \in Tasks \ stale
  BY <1>1 DEF DecisionHolds
<1>3. t \in Tasks \ stale =>
        /\ pc[t] = "take" => count # 0 /\ val[t] = count
        /\ pc[t] = "add" => MAX - count > val[t]
  BY <1>1, Zenon DEF DecisionHolds
<1>4. ~smp /\ pc[t] \in {"push", "sleep", "asleep"} /\ op[t] = "read" => count = 0
  BY <1>1, Zenon DEF DecisionHolds
<1>5. ASSUME t \notin stale \/ ~smp, pc[t] = "take" PROVE count # 0 /\ val[t] = count
  <2>1. t \in Tasks \ stale
    BY <1>2, <1>5, Zenon
  <2> QED
    BY <1>3, <1>5, <2>1, Zenon
<1>6. (t \notin stale \/ ~smp) /\ pc[t] = "add" => MAX - count > val[t]
  BY <1>2, <1>3, Zenon
<1> QED
  BY <1>4, <1>5, <1>6, Zenon

\* A decision outlives the steps of the others, or they make it stale.  On one CPU Take and Add are
\* only made while nobody else has decided, and no reader sleeps while a read can be served.
LEMMA StepDecisionHolds == EventInv /\ [Next]_vars => DecisionHolds'
<1> SUFFICES ASSUME EventInv, [Next]_vars PROVE DecisionHolds'
  OBVIOUS
<1>0. smp' = smp
  BY MachineStays
<1>a. \A t \in Tasks : ~smp /\ pc[t] = "take" => count # 0
  BY DecisionOf
<1>b. \A t \in Tasks : ~smp /\ count # 0 => ~(pc[t] \in {"push", "sleep", "asleep"} /\ op[t] = "read")
  BY DecisionOf
<1> USE EventAssumption DEF EventInv, TypeOK, DecisionHolds, Mid, fixed
<1>1. ASSUME NEW t \in Tasks, Read(t) PROVE DecisionHolds'
  BY <1>0, <1>1 DEF Read
<1>2. ASSUME NEW t \in Tasks, Write(t) PROVE DecisionHolds'
  BY <1>0, <1>2 DEF Write
<1>3. ASSUME NEW t \in Tasks, Look(t) PROVE DecisionHolds'
  BY <1>0, <1>3 DEF Look, Ready
<1>4. ASSUME NEW t \in Tasks, Push(t) PROVE DecisionHolds'
  BY <1>0, <1>4 DEF Push
<1>5. ASSUME NEW t \in Tasks, WaitNow(t) PROVE DecisionHolds'
  BY <1>0, <1>5 DEF WaitNow
<1>6. ASSUME NEW t \in Tasks, Take(t) PROVE DecisionHolds'
  <2>1. \A u \in Tasks : u # t => (~smp => pc[u] \notin Mid)
    BY <1>6 DEF Take, Alone
  <2>2. \A u \in Tasks \ stale' : pc'[u] \notin {"take", "add"}
    BY <1>6 DEF Take, Overtake
  <2>3. ~smp => stale' = {}
    BY <1>6, <2>1 DEF Take, Overtake
  <2>4. ASSUME ~smp, NEW u \in Tasks PROVE ~(pc'[u] \in {"push", "sleep", "asleep"} /\ op'[u] = "read")
    <3>0. pc[t] = "take"
      BY <1>6 DEF Take
    <3>1. count # 0
      BY <1>a, <2>4, <3>0, Zenon
    <3>2. ~(pc[u] \in {"push", "sleep", "asleep"} /\ op[u] = "read")
      BY <1>b, <2>4, <3>1, Zenon
    <3>3. op' = op /\ (pc'[u] = pc[u] \/ pc'[u] = "idle")
      BY <1>6, <2>4 DEF Take
    <3> QED
      BY <3>2, <3>3
  <2> QED
    BY <1>0, <2>2, <2>3, <2>4
<1>7. ASSUME NEW t \in Tasks, Add(t) PROVE DecisionHolds'
  <2>1. \A u \in Tasks : u # t => (~smp => pc[u] \notin Mid)
    BY <1>7 DEF Add, Alone
  <2>2. \A u \in Tasks \ stale' : pc'[u] \notin {"take", "add"}
    BY <1>7 DEF Add, Overtake
  <2>3. ~smp => stale' = {}
    BY <1>7, <2>1 DEF Add, Overtake
  <2>4. ~smp => \A u \in Tasks : pc'[u] \notin Mid \cup {"asleep"}
    BY <1>7, <2>1 DEF Add, Woken, SleepersWait
  <2> QED
    BY <1>0, <2>2, <2>3, <2>4
<1>8. CASE UNCHANGED vars
  BY <1>8 DEF vars
<1> QED
  BY <1>1, <1>2, <1>3, <1>4, <1>5, <1>6, <1>7, <1>8 DEF Next, Step

\* The queue only loses tasks that are woken.
LEMMA StepSleepersWait == EventInv /\ [Next]_vars => SleepersWait'
<1> SUFFICES ASSUME EventInv, [Next]_vars, StickyWake \/ ~smp PROVE SleepersWait'
  BY MachineStays DEF SleepersWait
<1> USE DEF EventInv, TypeOK, SleepersWait, fixed
<1>1. ASSUME NEW t \in Tasks, Read(t) PROVE SleepersWait'
  BY <1>1 DEF Read
<1>2. ASSUME NEW t \in Tasks, Write(t) PROVE SleepersWait'
  BY <1>2 DEF Write
<1>3. ASSUME NEW t \in Tasks, Look(t) PROVE SleepersWait'
  BY <1>3 DEF Look
<1>4. ASSUME NEW t \in Tasks, Push(t) PROVE SleepersWait'
  <2>1. /\ DOMAIN wait_queue' = 1 .. Len(wait_queue) + 1
        /\ wait_queue'[Len(wait_queue) + 1] = t
        /\ \A i \in DOMAIN wait_queue : i \in DOMAIN wait_queue' /\ wait_queue'[i] = wait_queue[i]
    BY <1>4 DEF Push
  <2> QED
    BY <1>4, <2>1 DEF Push
<1>5. ASSUME NEW t \in Tasks, WaitNow(t) PROVE SleepersWait'
  BY <1>5 DEF WaitNow
<1>6. ASSUME NEW t \in Tasks, Take(t) PROVE SleepersWait'
  BY <1>6 DEF Take
<1>7. ASSUME NEW t \in Tasks, Add(t) PROVE SleepersWait'
  <2>1. \A u \in Tasks : u # t /\ pc[u] = "sleep" => StickyWake
    BY <1>7 DEF Add, Alone, Mid
  <2> QED
    BY <1>7, <2>1 DEF Add, Woken
<1>8. CASE UNCHANGED vars
  BY <1>8 DEF vars
<1> QED
  BY <1>1, <1>2, <1>3, <1>4, <1>5, <1>6, <1>7, <1>8 DEF Next, Step

\* The inductive invariant holds in every state.
THEOREM InvariantHolds == Spec => []EventInv
<1>1. EventInv /\ [Next]_vars => EventInv'
  BY StepType, StepOneInside, StepDecisionHolds, StepSleepersWait DEF EventInv
<1> QED
  BY <1>1, InitEventInv, PTL DEF Spec

\* Nobody sleeps in read or write without a reason or where the next write does not
\* find it: for any number of tasks and any width of the counter.
THEOREM SleepersHold == ASSUME WakesAreKept PROVE Spec => []SleepersAreFound
<1>1. EventInv => SleepersAreFound
  BY EventAssumption DEF WakesAreKept, TypeOK, EventInv, DecisionHolds, SleepersWait, SleepersAreFound, NoReaderSleepsOnEvents,
         SleepersAreQueued
<1> QED
  BY <1>1, InvariantHolds, PTL

\* No event is lost, counted twice or wrapped away by a call that is not overtaken between its two
\* locks; on one CPU no call is.
THEOREM CountingIsExact == Spec => ExactCounting
<1> DEFINE Exact(t) == (t \notin stale \/ ~smp) /\ pc'[t] = "idle" =>
                         /\ pc[t] = "take" => count - count' = val'[t] /\ val'[t] > 0
                         /\ pc[t] = "add" => count' - count = val[t]
<1>1. ASSUME EventInv, [Next]_vars, NEW t \in Tasks PROVE Exact(t)
  <2>a. Take(t) /\ (t \notin stale \/ ~smp) => count # 0 /\ val[t] = count
    BY <1>1, DecisionOf DEF Take
  <2>b. Add(t) /\ (t \notin stale \/ ~smp) => MAX - count > val[t]
    BY <1>1, DecisionOf DEF Add
  <2> USE EventAssumption DEF EventInv, TypeOK, DecisionHolds, fixed
  <2>0. count \in 0..MAX /\ val[t] \in 0..MAX /\ MAX \in Nat
    BY <1>1
  <2>1. CASE Take(t)
    <3>1. t \notin stale \/ ~smp => count # 0 /\ val[t] = count
      BY <2>a, <2>1
    <3>2. count # 0 => (count - 1) % (MAX + 1) = count - 1
      BY <2>0, CounterWraps
    <3> QED
      BY <1>1, <2>0, <2>1, <3>1, <3>2 DEF Take
  <2>2. CASE Add(t)
    <3>1. t \notin stale \/ ~smp => MAX - count > val[t]
      BY <2>b, <2>2
    <3>2. MAX - count > val[t] => count + val[t] \in 0..MAX /\ count + val[t] \in Int
      BY <2>0, SMT
    <3>3. MAX - count > val[t] => (count + val[t]) % (MAX + 1) = count + val[t]
      <4> DEFINE n == count + val[t]
      <4> HIDE DEF n
      <4> SUFFICES n \in 0..MAX /\ n \in Int => n % (MAX + 1) = n
        BY <3>2 DEF n
      <4> QED
        BY CounterWraps
    <3> QED
      BY <1>1, <2>0, <2>2, <3>1, <3>3 DEF Add
  <2>3. CASE ~Take(t) /\ ~Add(t)
    <3>1. ASSUME NEW u \in Tasks, Read(u) \/ Write(u) \/ Step(u), pc[t] \in {"take", "add"}
          PROVE  pc'[t] = pc[t]
      BY <1>1, <2>3, <3>1 DEF Step, Read, Write, Look, Push, WaitNow, Take, Add, Woken
    <3>2. pc[t] \in {"take", "add"} => pc'[t] = pc[t]
      BY <1>1, <3>1 DEF Next, vars
    <3> QED
      BY <3>2
  <2> QED
    BY <2>1, <2>2, <2>3
<1>2. EventInv /\ [Next]_vars => [\A t \in Tasks : Exact(t)]_vars
  BY <1>1
<1> QED
  BY <1>2, InvariantHolds, PTL DEF Spec, ExactCounting
==============================================================================
