------------------------------- MODULE Polling -------------------------------
(***************************************************************************)
(* select, pselect6, poll and ppoll (syscall/fs/basic.rs) over the         *)
(* descriptors of module Sockets: passes over the wanted descriptors with  *)
(* a yield between them, until one is ready or the time is over.           *)
(***************************************************************************)
EXTENDS Sockets

CONSTANTS
  Wants,     \* what programs wait for: sequences of [ev, fd], in the order of a pass
  FdCounts   \* values of nfds

VARIABLES
  mask,      \* user memory of each task: the entries set in its fd sets or with revents
  answer     \* the last result of each task: count, want, nfds and op; op is "none" before

pollVars == <<mask, answer>>
vars == <<sockVars, pollVars>>
Polls == {"select", "ppoll"}

PollInit ==
  /\ Init
  /\ mask = [t \in Tasks |-> {}]
  /\ answer = [t \in Tasks |-> [op |-> "none"]]

-----------------------------------------------------------------------------
\* SocketPair::poll looks at the queue
PairReady(i, ev) ==
  \/ ev = "out" /\ Len(socks[i].buf) <= PairLimit
  \/ ev = "in" /\ socks[i].buf # <<>>

\* Socket::poll asks the connection and not buf
SocketReady(i, ev) ==
  \/ ev = "out" /\ Conn(i).state # "closed" /\ Conn(i).remote
  \/ ev = "in" /\ (Conn(i).q # <<>> \/ Conn(i).backlog > 0)

\* NetStack::poll, which fails for an id that is gone
Ready(i, ev) ==
  i \in table /\ IF socks[i].kind = "pair" THEN PairReady(i, ev) ELSE SocketReady(i, ev)

Result(t, n) ==
  /\ Return(t)
  /\ answer' = [answer EXCEPT ![t] = [op |-> task[t].op, count |-> n, want |-> task[t].want,
                                      nfds |-> task[t].nfds]]
Failure(t) == Return(t) /\ answer' = [answer EXCEPT ![t] = [op |-> "none"]]

\* The call.  nfds bounds a select, whose sets are in the memory of the program; it is the length of
\* the array for ppoll.  A timeout of zero still makes one pass.
Poll(t, op, want, nfds, timer) ==
  /\ Calling(t, op)
  /\ task' = [task EXCEPT ![t] = [op |-> op, want |-> want, nfds |-> nfds, timer |-> timer,
                                  phase |-> "scan", next |-> 1, hits |-> {}, file |-> NoFile]]
  /\ mask' = [mask EXCEPT ![t] = IF op = "select" THEN ToSet(want) ELSE @]
  /\ answer' = [answer EXCEPT ![t] = [op |-> "none"]]
  /\ UNCHANGED <<world, netVars, fileVars, nic, frames, bytes, strays>>

sys_pselect6(t, want, nfds, timer) == Poll(t, "select", want, nfds, timer)
sys_ppoll(t, want, timer) == Poll(t, "ppoll", want, Len(want), timer)

\* t is in the middle of a pass, with an entry to go
Entry(t) == task[t].want[task[t].next]
Scanning(t, op) ==
  task[t].op = op /\ task[t].phase = "scan" /\ MayRun(t) /\ task[t].next <= Len(task[t].want)
Hit(t, b) == IF b THEN task[t].hits \cup {Entry(t)} ELSE task[t].hits
Advance(t, hits) ==
  /\ task' = [task EXCEPT ![t].phase = "scan", ![t].next = @ + 1, ![t].hits = hits, ![t].file = NoFile]
  /\ UNCHANGED answer

Beneath(t, e) == e.fd < task[t].nfds

\* the mask of a set goes to the program when its last entry is done; bits from nfds on stay
Written(t, hits) ==
  LET want == task[t].want
      e == Entry(t)
      last == task[t].next = Len(want) \/ want[task[t].next + 1].ev # e.ev
      group == {x \in ToSet(want) : x.ev = e.ev}
  IN  IF last THEN (mask[t] \ group) \cup {x \in group : x \in hits \/ ~Beneath(t, x)} ELSE mask[t]

\* the pass has the number of the file of its entry
Number(t) == task' = [task EXCEPT ![t].phase = "fd", ![t].file = files[Entry(t).fd]]

\* mutant: leaves out the last descriptor, whose bit stays as it was
ScanSelect_Short(t) ==
  LET e == Entry(t)
      last == e.fd + 1 = task[t].nfds
  IN  /\ Scanning(t, "select")
      /\ \/ ~Beneath(t, e) /\ Advance(t, task[t].hits) /\ mask' = [mask EXCEPT ![t] = Written(t, task[t].hits)]
         \/ Beneath(t, e) /\ last /\ Advance(t, task[t].hits)
            /\ mask' = [mask EXCEPT ![t] = Written(t, Hit(t, TRUE))]
         \/ Beneath(t, e) /\ ~last /\ Open(e.fd) /\ Number(t) /\ UNCHANGED pollVars
         \/ Beneath(t, e) /\ ~last /\ ~Open(e.fd) /\ Failure(t) /\ UNCHANGED mask
      /\ UNCHANGED <<world, netVars, fileVars, nic, frames, calls, bytes, strays>>

\* mutant: expects every descriptor to be open
ScanSelect_Expect(t) ==
  LET e == Entry(t)
  IN  /\ Scanning(t, "select")
      /\ \/ ~Beneath(t, e) /\ Advance(t, task[t].hits) /\ mask' = [mask EXCEPT ![t] = Written(t, task[t].hits)]
         \/ Beneath(t, e) /\ Open(e.fd) /\ Number(t) /\ UNCHANGED pollVars
         \/ Beneath(t, e) /\ ~Open(e.fd) /\ Panic(t) /\ UNCHANGED pollVars
      /\ UNCHANGED <<world, netVars, fileVars, nic, frames, calls, bytes, strays>>

\* one entry of a select, get_fd: a closed descriptor ends it with EBADF
ScanSelect(t) ==
  LET e == Entry(t)
  IN  /\ Scanning(t, "select")
      /\ \/ ~Beneath(t, e) /\ Advance(t, task[t].hits) /\ mask' = [mask EXCEPT ![t] = Written(t, task[t].hits)]
         \/ Beneath(t, e) /\ Open(e.fd) /\ Number(t) /\ UNCHANGED pollVars
         \/ Beneath(t, e) /\ ~Open(e.fd) /\ Failure(t) /\ UNCHANGED mask
      /\ UNCHANGED <<world, netVars, fileVars, nic, frames, calls, bytes, strays>>

\* one entry of a ppoll: a closed descriptor counts as an error event
ScanPpoll(t) ==
  /\ Scanning(t, "ppoll")
  /\ \/ ~Open(Entry(t).fd) /\ Advance(t, Hit(t, TRUE)) /\ UNCHANGED mask
     \/ Open(Entry(t).fd) /\ Number(t) /\ UNCHANGED pollVars
  /\ UNCHANGED <<world, netVars, fileVars, nic, frames, calls, bytes, strays>>

\* vfs_poll failed: select expects that it does not, ppoll returns the error
PollFails(t) == IF task[t].op = "select" THEN Panic(t) /\ UNCHANGED pollVars ELSE Failure(t) /\ UNCHANGED mask
InPoll(t, phase) == task[t].op \in Polls /\ task[t].phase = phase /\ MayRun(t)

\* vfs_poll begins with get_file, whose unwrap fails if the descriptor was closed since get_fd
PollFile(t) ==
  /\ InPoll(t, "fd")
  /\ IF InMap(task[t].file) THEN task' = [task EXCEPT ![t].phase = "file"] /\ UNCHANGED pollVars
                           ELSE PollFails(t)
  /\ UNCHANGED <<world, netVars, fileVars, nic, frames, calls, bytes, strays>>

\* SocketFile::poll: the net domain answers, or fails for a pair that lost its other end
PollSocket(t) ==
  LET hits == Hit(t, Ready(task[t].file.id, Entry(t).ev))
  IN  /\ InPoll(t, "file")
      /\ IF task[t].file.id \in table
         THEN /\ Advance(t, hits)
              /\ mask' = IF task[t].op = "select" THEN [mask EXCEPT ![t] = Written(t, hits)] ELSE mask
         ELSE PollFails(t)
      /\ Release(t)
      /\ UNCHANGED <<world, made, socks, fileVars, nic, frames, calls, bytes>>

AtEnd(t, op) ==
  task[t].op = op /\ task[t].phase = "scan" /\ MayRun(t) /\ task[t].next > Len(task[t].want)
Yield(t) == task' = [task EXCEPT ![t].phase = "yield"] /\ UNCHANGED answer

\* the end of a pass of select, which knows only a timeout of zero here
EndSelect(t) ==
  LET n == Cardinality(task[t].hits)
  IN  /\ AtEnd(t, "select")
      /\ IF n > 0 \/ task[t].timer = "zero" THEN Result(t, n) ELSE Yield(t)
      /\ UNCHANGED mask
      /\ UNCHANGED <<world, netVars, fileVars, nic, frames, calls, bytes, strays>>

\* mutant: the time is never looked at
EndPpoll_NoClock(t) ==
  LET n == Cardinality(task[t].hits)
  IN  /\ AtEnd(t, "ppoll")
      /\ IF n > 0 THEN Result(t, n) ELSE Yield(t)
      /\ mask' = IF n > 0 THEN [mask EXCEPT ![t] = task[t].hits] ELSE mask
      /\ UNCHANGED <<world, netVars, fileVars, nic, frames, calls, bytes, strays>>

\* the end of a pass of ppoll, which writes its array only if something was ready, and looks at the
\* time before it yields
EndPpoll(t) ==
  LET n == Cardinality(task[t].hits)
  IN  /\ AtEnd(t, "ppoll")
      /\ IF n > 0 \/ task[t].timer \in {"zero", "passed"} THEN Result(t, n) ELSE Yield(t)
      /\ mask' = IF n > 0 THEN [mask EXCEPT ![t] = task[t].hits] ELSE mask
      /\ UNCHANGED <<world, netVars, fileVars, nic, frames, calls, bytes, strays>>

\* after the yield
Resume(t) ==
  /\ task[t].op \in Polls /\ task[t].phase = "yield" /\ MayRun(t)
  /\ IF task[t].op = "select" /\ task[t].timer = "passed" THEN Result(t, 0)
     ELSE /\ task' = [task EXCEPT ![t].phase = "scan", ![t].next = 1, ![t].hits = {}]
          /\ UNCHANGED answer
  /\ UNCHANGED mask
  /\ UNCHANGED <<world, netVars, fileVars, nic, frames, calls, bytes, strays>>

\* the time a call waits for is over
Tick(t) ==
  /\ task[t].op \in Polls /\ task[t].timer = "armed"
  /\ task' = [task EXCEPT ![t].timer = "passed"]
  /\ UNCHANGED <<world, netVars, fileVars, nic, frames, calls, bytes, strays, pollVars>>

PollStep(t) ==
  ScanSelect(t) \/ ScanPpoll(t) \/ PollFile(t) \/ PollSocket(t) \/ EndSelect(t) \/ EndPpoll(t) \/ Resume(t)

Next ==
  \/ \E t \in Tasks :
       \/ Call(t) /\ UNCHANGED pollVars
       \/ Step(t) /\ UNCHANGED pollVars
       \/ \E want \in Wants, timer \in {"never", "zero", "armed"} :
            \/ \E n \in FdCounts : sys_pselect6(t, want, n, timer)
            \/ sys_ppoll(t, want, timer)
       \/ PollStep(t) \/ Tick(t)
  \/ Network /\ UNCHANGED pollVars

\* A task that yields is queued behind the others, so one that is able to run again and again gets
\* its turn; time passes and a pending interrupt is taken.
Spec ==
  /\ PollInit /\ [][Next]_vars
  /\ \A t \in Tasks : SF_vars(Step(t) /\ UNCHANGED pollVars) /\ SF_vars(PollStep(t)) /\ WF_vars(Tick(t))
  /\ WF_vars(handle_irq /\ UNCHANGED pollVars)

-----------------------------------------------------------------------------
(* Properties *)

\* Every variable keeps its type.
TypeOK ==
  /\ SocketsTypeOK
  /\ \A t \in Tasks : /\ answer[t].op \in Polls \cup {"none"}
                      /\ task[t].op \in Polls => /\ task[t].next \in 1..(Len(task[t].want) + 1)
                                                 /\ task[t].hits \subseteq ToSet(task[t].want)

\* The number a call returns is the number of entries it reports: bits below nfds in the masks of a
\* select, entries with revents for ppoll.  A ppoll that returns 0 has written nothing.
AnswerAddsUp ==
  \A t \in Tasks : answer[t].op \in Polls /\ task[t] = Idle =>
    LET reported == IF answer[t].op = "select" THEN {e \in mask[t] : e.fd < answer[t].nfds} ELSE mask[t]
    IN  \/ answer[t].op = "ppoll" /\ answer[t].count = 0
        \/ answer[t].count = Cardinality(reported)

\* what a call needs to return is there
Due(t) ==
  \/ task[t].op \in Polls /\ task[t].timer # "never"
  \/ task[t].op = "accept" /\ Conn(task[t].sid).backlog > 0 /\ Room(1)
  \/ task[t].op = "connect" /\ Conn(task[t].sid).state \in {"open", "closed"}
  \/ task[t].op = "recvfrom" /\ Conn(task[t].sid).q # <<>>
  \/ task[t].op \in {"read", "write"}

\* A call does not stay due: select and ppoll with a timeout return, and so does a call in accept
\* while a request waits, one in recvfrom while data waits and one in connect once the peer has
\* answered, unless another task takes what it waits for.
CallsReturn == \A t \in Tasks : Due(t) ~> ~Due(t)

\* A select panics for two reasons only.  Another thread on another CPU has closed the descriptor
\* between get_fd and get_file; or the file is one end of a pair whose other end is gone.  A closed
\* descriptor in the sets is EBADF, and once vfs_poll has the file its socket cannot go away.
SelectPanicHasCause ==
  [][\A t \in Tasks : task[t].op = "select" /\ task'[t].op = "panicked" =>
       \/ task[t].phase = "fd" /\ world.smp
       \/ task[t].phase = "file" /\ task[t].file.id \in strays.halves]_vars

\* select and ppoll tell the truth, and find every socket that is still open.
PollsAnswerRight == [](TypeOK /\ AnswerAddsUp) /\ SelectPanicHasCause
=============================================================================
