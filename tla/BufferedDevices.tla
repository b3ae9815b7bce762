--------------------------- MODULE BufferedDevices ---------------------------
(***************************************************************************)
(* The serial line and the input device behind their buffers: buf_uart and *)
(* buf_input over uart16550 and virtio_input.  Interrupts move what the    *)
(* device has into the buffer and wake readers, which sleep in a queue.    *)
(***************************************************************************)
EXTENDS Scheduler

CONSTANTS
  max_events  \* MAX_INPUT_EVENT_NUM

Devices == {"uart", "input"}

VARIABLES
  dev,      \* of each device: fifo, what the hardware holds; buf, rx_buf or events; waiters,
            \* wait_queue; arrived, how many bytes or events there were, which are numbered
  call,     \* the read of each task
  taken,    \* history: what readers took from each device, in order
  silent,   \* history: bytes of the serial line taken by reads that found ECHO off
  screen,   \* what was echoed
  io        \* IoData of the terminal: echo, whether ECHO is set

devVars == <<dev, call, taken, silent, screen, io>>
User == [op |-> "user"]

DevInit ==
  /\ dev = [d \in Devices |-> [fifo |-> <<>>, buf |-> <<>>, waiters |-> <<>>, arrived |-> 0]]
  /\ call = [t \in Tids |-> User]
  /\ taken = [d \in Devices |-> <<>>] /\ silent = {} /\ screen = <<>>
  /\ io = [echo |-> TRUE]

\* a key is pressed or moved
Arrive(d) ==
  /\ dev[d].arrived < world.input /\ d \in world.devices
  /\ dev' = [dev EXCEPT ![d].arrived = @ + 1, ![d].fifo = Append(@, dev[d].arrived + 1)]
  /\ UNCHANGED <<call, taken, silent, screen, io>>

-----------------------------------------------------------------------------
(* Interrupt handlers, on a state s with fields dev, sched and ok *)

\* wake the first waiter of d, if there is one
WakeOne(s, d) ==
  LET w == s.dev[d].waiters
  IN  IF w = <<>> THEN s
      ELSE [s EXCEPT !.dev[d].waiters = Tail(@), !.sched = wake_up_wait_task(@, Head(w))]

\* one byte moves, and wakes one reader
UartByte(s, i) ==
  LET c == Head(s.dev["uart"].fifo)
  IN  WakeOne([s EXCEPT !.dev["uart"].fifo = Tail(@), !.dev["uart"].buf = Append(@, c)], "uart")

\* Uart::handle_irq; when getc fails after n bytes the loop ends as if there were no more
UartIrq(s, n) == FoldLeft(UartByte, s, [i \in 1..n |-> i])

\* mutant: the newest event makes room
Pushed_Newest(q, e) == IF Len(q) >= max_events THEN Append(Front(q), e) ELSE Append(q, e)

\* mutant: no limit
Pushed_NoLimit(q, e) == Append(q, e)

\* mutant: the oldest makes room one event too early
Pushed_Early(q, e) == IF Len(q) + 1 >= max_events THEN Append(Tail(q), e) ELSE Append(q, e)

\* an event is queued; the oldest makes room
Pushed(q, e) == IF Len(q) >= max_events THEN Append(Tail(q), e) ELSE Append(q, e)

\* mutant: one reader per interrupt
InputIrq_WakeOne(s, n, ok) ==
  LET d == s.dev["input"]
      moved == [s EXCEPT !.dev["input"].fifo = SubSeq(@, n + 1, Len(@)), !.ok = ok,
                         !.dev["input"].buf = FoldLeft(Pushed, @, SubSeq(d.fifo, 1, n))]
  IN  IF ok /\ n > 0 THEN WakeOne(moved, "input") ELSE moved

\* BufInput::handle_irq: queue n events, then wake as many readers; when event_nonblock fails it
\* returns at once and wakes nobody
InputIrq(s, n, ok) ==
  LET d == s.dev["input"]
      moved == [s EXCEPT !.dev["input"].fifo = SubSeq(@, n + 1, Len(@)), !.ok = ok,
                         !.dev["input"].buf = FoldLeft(Pushed, @, SubSeq(d.fifo, 1, n))]
  IN  IF ok THEN FoldLeft(LAMBDA x, i : WakeOne(x, "input"), moved, [i \in 1..n |-> i]) ELSE moved

\* handle_irq of d, whose driver fails after n items if ~fine
DeviceIrq(s, d, n, fine) == IF d = "uart" THEN UartIrq(s, n) ELSE InputIrq(s, n, fine)

-----------------------------------------------------------------------------
(* Readers.  The kernel is not preempted: a task leaves its CPU in wait_now *)
(* or in user mode.                                                         *)

At(t, d, p) == call[t].op = "read" /\ call[t].dev = d /\ call[t].at = p
Done(t) == call' = [call EXCEPT ![t] = User]

\* mutant: goes to sleep without queueing
getc_Unqueued(t) ==
  /\ At(t, "uart", "get")
  /\ \/ /\ dev["uart"].buf # <<>>
        /\ LET c == Head(dev["uart"].buf)
           IN  /\ dev' = [dev EXCEPT !["uart"].buf = Tail(@)]
               /\ taken' = [taken EXCEPT !["uart"] = Append(@, c)]
               /\ silent' = IF call[t].echo THEN silent ELSE silent \cup {c}
               /\ call' = [call EXCEPT ![t].at = "put", ![t].got = Append(@, c)]
     \/ /\ dev["uart"].buf = <<>>
        /\ call' = [call EXCEPT ![t].at = "queued"]
        /\ UNCHANGED <<dev, taken, silent>>
  /\ UNCHANGED <<screen, io>>

\* Uart::getc under its lock: take a byte, or queue (once) to sleep
getc(t) ==
  /\ At(t, "uart", "get")
  /\ \/ /\ dev["uart"].buf # <<>>
        /\ LET c == Head(dev["uart"].buf)
           IN  /\ dev' = [dev EXCEPT !["uart"].buf = Tail(@)]
               /\ taken' = [taken EXCEPT !["uart"] = Append(@, c)]
               /\ silent' = IF call[t].echo THEN silent ELSE silent \cup {c}
               /\ call' = [call EXCEPT ![t].at = "put", ![t].got = Append(@, c)]
     \/ /\ dev["uart"].buf = <<>>
        /\ dev' = [dev EXCEPT !["uart"].waiters = IF t \in ToSet(@) THEN @ ELSE Append(@, t)]
        /\ call' = [call EXCEPT ![t].at = "queued"]
        /\ UNCHANGED <<taken, silent>>
  /\ UNCHANGED <<screen, io>>

\* BufInput::event_block under its lock
event_block(t) ==
  /\ At(t, "input", "get")
  /\ \/ /\ dev["input"].buf # <<>>
        /\ dev' = [dev EXCEPT !["input"].buf = Tail(@)]
        /\ taken' = [taken EXCEPT !["input"] = Append(@, Head(dev["input"].buf))]
        /\ Done(t)
     \/ /\ dev["input"].buf = <<>>
        /\ dev' = [dev EXCEPT !["input"].waiters = Append(@, t)]
        /\ call' = [call EXCEPT ![t].at = "queued"]
        /\ UNCHANGED taken
  /\ UNCHANGED <<silent, screen, io>>

\* wait_now, after which getc and event_block look again
wait_now(t, cpu) ==
  /\ call[t].op = "read" /\ call[t].at = "queued"
  /\ call' = [call EXCEPT ![t].at = "get"]
  /\ IF t \in sched.woken
     THEN sched' = [sched EXCEPT !.woken = @ \ {t}] /\ UNCHANGED running
     ELSE /\ sched' = [sched EXCEPT !.asleep = @ \cup {t}]
          /\ running' = [running EXCEPT ![cpu] = Nobody]
  /\ UNCHANGED <<policy, nice, dev, taken, silent, screen, io>>

-----------------------------------------------------------------------------
\* The device files (devfs uart.rs, input.rs)

\* UARTDevice::read_at looks at ECHO once.  A read of no bytes returns at once.
read_uart(t, len) ==
  /\ call[t] = User /\ len > 0
  /\ call' = [call EXCEPT ![t] = [op |-> "read", dev |-> "uart", at |-> "get", len |-> len, got |-> <<>>,
                                  echo |-> io.echo]]
  /\ UNCHANGED <<dev, taken, silent, screen, io>>

\* INPUTDevice::read_at, which refuses any length but 8
read_input(t) ==
  /\ call[t] = User
  /\ call' = [call EXCEPT ![t] = [op |-> "read", dev |-> "input", at |-> "get"]]
  /\ UNCHANGED <<dev, taken, silent, screen, io>>

\* mutant: looks at ECHO for every byte
putc_Fresh(t) ==
  /\ At(t, "uart", "put")
  /\ screen' = IF io.echo THEN Append(screen, Last(call[t].got)) ELSE screen
  /\ IF Last(call[t].got) \in world.newlines \/ Len(call[t].got) = call[t].len
     THEN Done(t) ELSE call' = [call EXCEPT ![t].at = "more"]
  /\ UNCHANGED <<dev, taken, silent, io>>

\* the byte is echoed; a newline or a full buffer ends the read
putc(t) ==
  /\ At(t, "uart", "put")
  /\ screen' = IF call[t].echo THEN Append(screen, Last(call[t].got)) ELSE screen
  /\ IF Last(call[t].got) \in world.newlines \/ Len(call[t].got) = call[t].len
     THEN Done(t) ELSE call' = [call EXCEPT ![t].at = "more"]
  /\ UNCHANGED <<dev, taken, silent, io>>

\* mutant: does not ask
have_data_to_get_Assumed(t) ==
  /\ At(t, "uart", "more")
  /\ call' = [call EXCEPT ![t].at = "get"]
  /\ UNCHANGED <<dev, taken, silent, screen, io>>

\* have_data_to_get, under a lock of its own: without data the read ends
have_data_to_get(t) ==
  /\ At(t, "uart", "more")
  /\ IF dev["uart"].buf = <<>> THEN Done(t) ELSE call' = [call EXCEPT ![t].at = "get"]
  /\ UNCHANGED <<dev, taken, silent, screen, io>>

\* UARTDevice::ioctl TCSETS; the other commands do not touch what is modelled
ioctl(t, echo) ==
  /\ call[t] = User
  /\ io' = [io EXCEPT !.echo = echo]
  /\ UNCHANGED <<dev, call, taken, silent, screen>>
=============================================================================
