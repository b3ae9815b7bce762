----------------------------- MODULE MCTerminal -----------------------------
EXTENDS Terminal
CONSTANTS t1, t2, c1, c2

MCTids == {t1, t2}
MCNiceMin == -1
MCCpus == {c1, c2}
Lines(uart, input) == [d \in Devices |-> IF d = "uart" THEN uart ELSE input]
World(chip, cpus, devices, lines) ==
  [chip |-> chip, cpus |-> cpus, devices |-> devices, line |-> lines, policies |-> {"fifo"},
   prios |-> {}, chats |-> FALSE, newlines |-> {2}, faults |-> 0, late |-> {}, again |-> FALSE,
   elapsed |-> 1, deltas |-> {0}, input |-> 3]

\* A terminal with ECHO on and off; readers on two CPUs; a line that the devices share and a
\* driver that fails; the same on the PLIC; priorities and an update of the scheduler; a second
\* registration on another hart, and of a domain that is loaded late
MCWorlds ==
  {[World("plic", {c1}, {"uart"}, Lines("irq1", "irq2")) EXCEPT !.chats = TRUE],
   World("plic", {c1, c2}, {"uart"}, Lines("irq1", "irq2")),
   [World("apic", {c1}, {"uart", "input"}, Lines("irq1", "irq1")) EXCEPT !.faults = 1,
                                                                  !.elapsed = 0, !.input = 1],
   [World("plic", {c1}, {"input"}, Lines("irq2", "irq1")) EXCEPT !.faults = 1],
   [World("apic", {c1}, {"input"}, Lines("irq2", "irq1")) EXCEPT !.policies = {"fifo", "nice"},
                                                                  !.prios = {0, 3}, !.deltas = {0, 3, 4}],
   [World("plic", {c1, c2}, {"input"}, Lines("irq2", "irq1")) EXCEPT !.again = TRUE, !.input = 2],
   [World("apic", {c1}, {"uart"}, Lines("irq1", "irq2")) EXCEPT !.again = TRUE, !.late = {"uart"},
                                                                  !.input = 2]}
=============================================================================
