------------------------------- MODULE Terminal -------------------------------
(***************************************************************************)
(* From the key to the program: an interrupt controller, the buffered      *)
(* devices, the scheduler, and tasks that read the terminal and the input  *)
(* device.                                                                 *)
(***************************************************************************)
EXTENDS Interrupts

CONSTANT Lengths   \* lengths of reads

vars == <<world, schedVars, devVars, irqVars>>

Init == world \in Worlds /\ SchedInit /\ DevInit /\ IrqInit

\* t runs on cpu
Runs(t, cpu) == running[cpu] = t /\ trap[cpu] = "none"

\* what a program does
Program(t) ==
  /\ \/ ("uart" \in world.devices /\ \E len \in Lengths : read_uart(t, len))
     \/ ("input" \in world.devices /\ read_input(t))
     \/ (world.chats /\ \E b \in BOOLEAN : ioctl(t, b))
  /\ UNCHANGED <<world, schedVars, irqVars>>

SetPriority(t) ==
  /\ call[t] = User
  /\ \E prio \in world.prios : do_set_priority(t, prio)
  /\ UNCHANGED <<world, devVars, irqVars>>

\* what the kernel does for t
Kernel(t, cpu) ==
  /\ Runs(t, cpu)
  /\ \/ (getc(t) \/ event_block(t) \/ putc(t) \/ have_data_to_get(t)) /\ UNCHANGED schedVars
     \/ wait_now(t, cpu)
  /\ UNCHANGED <<world, irqVars>>

Fetch(cpu) ==
  /\ cpu \in world.cpus /\ trap[cpu] = "none" /\ fetch_task(cpu)
  /\ UNCHANGED <<world, devVars, irqVars>>

Tick(cpu) == (\E delta \in world.deltas : TimerTick(cpu, delta)) /\ UNCHANGED <<world, devVars>>

Trapped(cpu) == Trap(cpu) /\ UNCHANGED <<world, schedVars, devVars>>
Serving(cpu) == Claim(cpu) /\ UNCHANGED <<world, schedVars, devVars>>
Register(cpu) == (\E d \in world.devices : register_irq(cpu, d)) /\ UNCHANGED <<world, schedVars, devVars>>

Handle(cpu) ==
  /\ handle_irq(cpu)
  /\ UNCHANGED <<world, policy, running, nice, call, taken, silent, screen, io>>

Outside ==
  \/ \E d \in Devices : Arrive(d) /\ UNCHANGED <<world, schedVars, irqVars>>
  \/ \E d \in Devices : Load(d) /\ UNCHANGED <<world, schedVars, devVars>>
  \/ \E new \in {"fifo", "nice"} : Update(new) /\ UNCHANGED <<world, devVars, irqVars>>

Next ==
  \/ \E cpu \in Cpus :
       \/ Fetch(cpu) \/ Tick(cpu) \/ Trapped(cpu) \/ Serving(cpu) \/ Handle(cpu) \/ Register(cpu)
       \/ \E t \in Tids : Kernel(t, cpu) \/ (Runs(t, cpu) /\ (Program(t) \/ SetPriority(t)))
  \/ Outside

\* what a CPU does next unless it is in user mode
Work(cpu) == Fetch(cpu) \/ Handle(cpu) \/ Serving(cpu) \/ \E t \in Tids : Kernel(t, cpu)

\* A CPU goes on with its work.  An interrupt or a timer that waits while the kernel runs is taken
\* when the task is back in user mode.
Spec ==
  /\ Init /\ [][Next]_vars
  /\ \A cpu \in Cpus : WF_vars(Work(cpu)) /\ SF_vars(Tick(cpu)) /\ SF_vars(Trapped(cpu))

-----------------------------------------------------------------------------
(* Properties *)

\* Every variable keeps its type, and the buffer of the input device its limit.
TypeOK ==
  /\ \A d \in Devices : ToSet(dev[d].buf) \cup ToSet(dev[d].fifo) \subseteq 1..dev[d].arrived
  /\ Len(dev["input"].buf) <= max_events
  /\ sched.asleep \cup sched.woken \subseteq Tids
  /\ \A t \in Tids : nice[t] \in NiceMin..NiceMax
  /\ claimed \subseteq Irqs /\ loaded \subseteq world.devices

\* readers of d that look at the buffer before they sleep, or will when they are scheduled
Awake(d) ==
  {t \in Tids : /\ call[t].op = "read" /\ call[t].dev = d /\ call[t].at \in {"get", "queued"}
                /\ t \notin sched.asleep /\ t \notin ToSet(dev[d].waiters)}

\* No reader sleeps on data: while somebody is in the wait queue, there is a reader on its way for
\* every byte or event in the buffer.  A handler that fails half-way wakes nobody for the events it
\* has queued (buf_input handle_irq), which is the exception.
NoReaderSleepsOnData ==
  \A d \in world.devices :
    dev[d].waiters # <<>> /\ LineOf(d) \notin failed => Len(dev[d].buf) <= Cardinality(Awake(d))

\* What readers took and what is on its way to them is in the order of arrival.  Nothing is lost of
\* the serial line; of the input device only events older than any in the buffer (buf_uart, buf_input
\* handle_irq).
InputIsExact ==
  /\ taken["uart"] \o dev["uart"].buf \o dev["uart"].fifo = [i \in 1..dev["uart"].arrived |-> i]
  /\ LET rest == dev["input"].buf \o dev["input"].fifo
         all == taken["input"] \o rest
     IN  /\ \A i, j \in DOMAIN all : i < j => all[i] < all[j]
         /\ \A i \in DOMAIN rest : rest[i] = dev["input"].arrived - Len(rest) + i

\* events that no reader will see
Lost == dev["input"].arrived - Len(taken["input"]) - Len(dev["input"].buf) - Len(dev["input"].fifo)

\* An event is lost only where one too many came: a step that loses one leaves the buffer full
\* (buf_input handle_irq).
LossNeedsFullBuffer == Lost' > Lost => Len(dev'["input"].buf) = max_events

\* On one CPU a read that has a byte already returns it and does not sleep for the next: nobody
\* takes what have_data_to_get saw (devfs uart.rs read_at).  On several CPUs it may.
NoSleepHalfway ==
  Cardinality(world.cpus) = 1 =>
    \A t \in Tids : At(t, "uart", "queued") \/ t \in sched.asleep
                     => call[t].dev = "input" \/ call[t].got = <<>>

\* Exactly the bytes taken by reads that began with ECHO on are echoed, though other tasks set and
\* clear ECHO while the reader sleeps; on one CPU, in the order in which they were typed.
EchoIsExact ==
  LET due == {t \in Tids : At(t, "uart", "put") /\ call[t].echo}
  IN  /\ ToSet(screen) = ToSet(taken["uart"]) \ (silent \cup {Last(call[t].got) : t \in due})
      /\ Cardinality(world.cpus) = 1 => \A i, j \in DOMAIN screen : i < j => screen[i] < screen[j]

\* An interrupt that stays claimed is being served by some CPU, unless its handler failed, in which
\* case the PLIC never hears of it again (plic handle_irq).
ClaimsAreFinished ==
  \A irq \in claimed : irq \in failed \/ \E cpu \in Cpus : trap[cpu] = irq

\* A hart that is interrupted finds an interrupt to claim: it can only be too late if a second hart
\* has registered a device (register_irq enables for its own hart alone).
ClaimFindsDevice == spurious => asked \ {BootCpu} # {}

\* The timer of a CPU is never given a count of zero, which would stop it and with it the scheduler
\* (local_apic calibrate_apic_timer, set_timer).
TimerStaysArmed == \A cpu \in Cpus : timer[cpu] \in 1..(2 ^ Width - 1)

\* Under the first-in first-out scheduler every task in the queue gets a CPU, however many others
\* never sleep.  The scheduler by priority promises nothing of the kind, nor does any when a device
\* asserts a line that the IO APIC finds no domain for: that interrupt comes again and again.
FifoServesAll ==
  \A t \in Tids : t \in ToSet(sched.queue) ~>
    (\/ t \notin ToSet(sched.queue) \/ policy = "nice"
     \/ \E d \in world.devices \ loaded : dev[d].fifo # <<>>)

Reader(d) == {t \in Tids : call[t].op = "read" /\ call[t].dev = d}

\* Input that a device has reaches a program while one reads the device: through the interrupt, the
\* buffer, the wake-up and the scheduler.  Not so after a handler failed, before the domain of the
\* device is loaded, and under the scheduler by priority.
DataReachesReaders ==
  \A d \in Devices :
    (Reader(d) # {} /\ dev[d].buf \o dev[d].fifo # <<>>)
      ~> (\/ Reader(d) = {} \/ dev[d].buf \o dev[d].fifo = <<>>
          \/ LineOf(d) \in failed \/ d \notin loaded \/ policy = "nice")

\* No task gets lost between queue, CPU and sleep, and the timer that moves them goes on.
TasksAreFound == TypeOK /\ TaskIsInOnePlace /\ WorkIsFound /\ TimerStaysArmed

\* Readers sleep only where there is nothing to read.
ReadersSleepRight == NoReaderSleepsOnData /\ NoSleepHalfway

\* What is typed arrives in the program and on the screen once and in order, and no step loses an
\* event without need.
InputAndEchoAreExact == [][InputIsExact' /\ EchoIsExact' /\ LossNeedsFullBuffer]_vars

\* Every interrupt that is claimed belongs to a device and is being served.
ClaimsAreSound == ClaimsAreFinished /\ ClaimFindsDevice
=============================================================================
