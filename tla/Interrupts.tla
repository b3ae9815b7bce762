------------------------------ MODULE Interrupts ------------------------------
(***************************************************************************)
(* Interrupt controllers: plic, io_apic and local_apic.  A device asserts  *)
(* its line while it holds input.  The PLIC offers an interrupt to every   *)
(* hart that enabled it and hands it to the one that claims it first; it   *)
(* is masked from claim to complete.  The IO APIC sends it to one CPU,     *)
(* which ends it with eoi whatever the handlers answer.                    *)
(***************************************************************************)
EXTENDS BufferedDevices

CONSTANTS
  Irqs,
  Second,   \* 1_000_000_000
  Width     \* 32, the bits of the timer's counter

ASSUME TimerAssumption == Second \in Nat \ {0} /\ Width \in Nat

VARIABLES
  trap,      \* of each CPU: "none", "taken" (the PLIC has signalled) or the interrupt it serves
  table,     \* PLICDomainImpl.table, IoAPICDomainImpl.table: the devices of each interrupt, with
             \* found, whether DeviceDomain is Domain and no longer Name
  enabled,   \* the interrupts that each CPU gets
  claimed,   \* interrupts in service
  loaded,    \* devices whose domain get_domain finds
  timer,     \* initial count that the timer of each CPU was given last; 0 stops it
  faults,    \* bound: failures of drivers so far
  failed,    \* history: interrupts whose handler has failed
  asked,     \* history: the CPUs that called register_irq
  spurious   \* history: handle_irq found nothing to claim

irqVars == <<trap, table, enabled, claimed, loaded, timer, faults, failed, asked, spurious>>
Entry(d) == [dev |-> d, found |-> FALSE]
LineOf(d) == world.line[d]
Asserted(irq) == \E d \in world.devices : LineOf(d) = irq /\ dev[d].fifo # <<>>

\* calibrate_apic_timer over a hundredth of a second
Frequency == LET f == world.elapsed * 100 IN IF f > 1 THEN f ELSE 1

\* mutant: a count of zero is let through
set_timer_Zero(cpu, delta) ==
  LET ns == IF delta = 0 THEN 1 ELSE delta
  IN  timer' = [timer EXCEPT ![cpu] = (((ns * Frequency) \div Second) % (2 ^ Width))]

\* set_timer: the count is cut to the width of the counter and is at least one
set_timer(cpu, delta) ==
  LET ns == IF delta = 0 THEN 1 ELSE delta
      ticks == ((ns * Frequency) \div Second) % (2 ^ Width)
  IN  timer' = [timer EXCEPT ![cpu] = IF ticks > 1 THEN ticks ELSE 1]

\* the boot CPU has registered every device and started the timers
IrqInit ==
  /\ trap = [cpu \in Cpus |-> "none"]
  /\ table = [irq \in Irqs |-> LET ds == {d \in world.devices : LineOf(d) = irq}
                                IN  SetToSeq({Entry(d) : d \in ds})]
  /\ enabled = [cpu \in Cpus |-> IF cpu = BootCpu THEN Irqs ELSE {}]
  /\ claimed = {} /\ loaded = world.devices \ world.late
  /\ timer = [cpu \in Cpus |-> 1]
  /\ faults = 0 /\ failed = {} /\ asked = {} /\ spurious = FALSE

\* cpu takes interrupts: it is in user mode or idle
Open(cpu) ==
  trap[cpu] = "none" /\ cpu \in world.cpus /\ (running[cpu] # Nobody => call[running[cpu]] = User)

\* timer interrupt: the kernel sets the timer again and yields
TimerTick(cpu, delta) ==
  /\ Open(cpu) /\ timer[cpu] # 0
  /\ IF world.chip = "apic" THEN set_timer(cpu, delta) ELSE UNCHANGED timer
  /\ Yield(cpu)
  /\ UNCHANGED <<policy, nice, trap, table, enabled, claimed, loaded, faults, failed, asked, spurious>>

Offered(cpu) == {irq \in enabled[cpu] \ claimed : Asserted(irq)}

\* external interrupt: the PLIC only signals, the IO APIC says which
Trap(cpu) ==
  /\ Open(cpu)
  /\ \E irq \in Offered(cpu) :
       IF world.chip = "plic" THEN trap' = [trap EXCEPT ![cpu] = "taken"] /\ UNCHANGED claimed
       ELSE trap' = [trap EXCEPT ![cpu] = irq] /\ claimed' = claimed \cup {irq}
  /\ UNCHANGED <<table, enabled, loaded, timer, faults, failed, asked, spurious>>

\* plic.claim; it answers 0 when nothing is left, for which there is no device: panic
Claim(cpu) ==
  /\ trap[cpu] = "taken"
  /\ \/ \E irq \in Offered(cpu) : /\ trap' = [trap EXCEPT ![cpu] = irq]
                                  /\ claimed' = claimed \cup {irq}
                                  /\ UNCHANGED spurious
     \/ /\ Offered(cpu) = {}
        /\ trap' = [trap EXCEPT ![cpu] = "none"] /\ spurious' = TRUE
        /\ UNCHANGED claimed
  /\ UNCHANGED <<table, enabled, loaded, timer, faults, failed, asked>>

\* the devices of an interrupt in turn, until one fails.  bad is the device whose driver fails, after
\* bad.n items.  A domain that is not there fails on the PLIC and is passed over on the IO APIC.
Serve(s, e, bad) ==
  LET all == Len(s.dev[e.dev].fifo)
      fine == e.dev # bad.dev
      x == IF e.dev \notin loaded THEN [s EXCEPT !.ok = (world.chip = "apic")]
           ELSE DeviceIrq(s, e.dev, IF fine \/ all < bad.n THEN all ELSE bad.n, fine)
  IN  IF ~s.ok THEN s ELSE IF x.ok THEN [x EXCEPT !.done = @ + 1] ELSE x

Bad == {[dev |-> "none", n |-> 0]}
       \cup {b \in [dev : world.devices, n : 0..1] : faults < world.faults}

\* mutant: a device that had to be looked up is not completed
Complete_Known(irq, s) == s.ok /\ \A i \in DOMAIN table[irq] : table[irq][i].found

\* the PLIC is told only if every handler succeeded
Complete(irq, s) == world.chip = "apic" \/ s.ok

\* handle_irq under the lock of the table, and eoi for the IO APIC
handle_irq(cpu) ==
  LET irq == trap[cpu]
  IN  /\ irq \in Irqs
      /\ \E bad \in Bad :
           LET s == FoldLeft(LAMBDA x, e : Serve(x, e, bad), [dev |-> dev, sched |-> sched, ok |-> TRUE,
                                                            done |-> 0], table[irq])
           IN  /\ dev' = s.dev /\ sched' = s.sched
               /\ faults' = IF bad.dev = "none" THEN faults ELSE faults + 1
               /\ claimed' = IF Complete(irq, s) THEN claimed \ {irq} ELSE claimed
               /\ failed' = IF s.ok THEN failed ELSE failed \cup {irq}
               /\ table' = [table EXCEPT ![irq] = [i \in DOMAIN @ |->
                              [@[i] EXCEPT !.found = @ \/ (i <= s.done /\ table[irq][i].dev \in loaded)]]]
      /\ trap' = [trap EXCEPT ![cpu] = "none"]
      /\ UNCHANGED <<enabled, loaded, timer, asked, spurious>>

\* mutant: enables the interrupt everywhere
plic_register_All(cpu, irq, e) ==
  /\ table' = [table EXCEPT ![irq] = <<e>>]
  /\ enabled' = [c \in Cpus |-> enabled[c] \cup {irq}]
  /\ claimed' = claimed \ {irq}

\* the PLIC completes the interrupt, which counts on a hart that has enabled it, enables it for this
\* hart and forgets the old entry
plic_register(cpu, irq, e) ==
  /\ table' = [table EXCEPT ![irq] = <<e>>]
  /\ enabled' = [enabled EXCEPT ![cpu] = @ \cup {irq}]
  /\ claimed' = IF irq \in enabled[cpu] THEN claimed \ {irq} ELSE claimed

\* the IO APIC adds an entry unless one with that name was never looked up
apic_register(irq, e) ==
  /\ table' = [table EXCEPT ![irq] = IF e \in ToSet(@) THEN @ ELSE Append(@, e)]
  /\ UNCHANGED <<enabled, claimed>>

\* register_irq for a device that got a new domain
register_irq(cpu, d) ==
  /\ Open(cpu) /\ cpu \notin asked /\ world.again
  /\ IF world.chip = "plic" THEN plic_register(cpu, LineOf(d), Entry(d)) ELSE apic_register(LineOf(d), Entry(d))
  /\ asked' = asked \cup {cpu}
  /\ UNCHANGED <<trap, loaded, timer, faults, failed, spurious>>

\* the domain of a device is loaded after boot
Load(d) ==
  /\ loaded' = loaded \cup {d} /\ d \in world.late \ loaded
  /\ UNCHANGED <<trap, table, enabled, claimed, timer, faults, failed, asked, spurious>>
=============================================================================
