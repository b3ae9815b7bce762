-------------------------------- MODULE Pipe --------------------------------
(***************************************************************************)
(* The anonymous pipe of the VFS domain, common/vfs/vfs/src/pipe.rs: a     *)
(* ring buffer behind one spinlock (PipeInode::data), shared by two        *)
(* PipeFile objects, the reading end "r" and the writing end "w".          *)
(*                                                                         *)
(* An end is alive while some Arc<PipeFile> exists: the one in VFS_MAP     *)
(* until the end is closed, one per call in progress on it (get_file       *)
(* clones it), and the temporary one that Weak::upgrade makes inside       *)
(* is_read_wait/is_write_wait.  The temporary is dropped while the caller  *)
(* holds `data`, and dropping the LAST Arc runs PipeFile::drop, which      *)
(* locks `data`.  With another CPU (SMP) the Arc in VFS_MAP may go away    *)
(* between the two, so upgrade and drop are separate steps there.          *)
(***************************************************************************)
EXTENDS Naturals, Sequences, FiniteSets

CONSTANTS
  Tasks,     \* tasks using the pipe
  PIPE_BUF,  \* slots of the ring buffer (basic::config)
  Bytes,     \* values of a byte, with the 0 that fills a new ring
  MaxLen,    \* bound: length of a caller's buffer
  Uses,      \* the calls programs make, a set of <<operation, end>>
  SMP,       \* TRUE: another CPU may run inside a critical section
  NoTask     \* `data` is not locked

Ends == {"r", "w"}
Ops  == {"read", "write", "poll"}
Events == {"IN", "OUT", "HUP", "ERR"}

ASSUME PipeAssumption ==
  /\ PIPE_BUF \in Nat /\ PIPE_BUF >= 2
  /\ 0 \in Bytes /\ MaxLen \in Nat
  /\ Uses \subseteq Ops \X Ends
  /\ SMP \in BOOLEAN
  /\ NoTask \notin Tasks

VARIABLES
  buf, head, tail,  \* PipeInodeData
  lock,             \* holder of PipeInode::data
  map,              \* ends whose PipeFile is still in VFS_MAP
  pc,               \* where each task is
  op, end,          \* the call of a task and the end it goes through
  data,             \* bytes to write, or bytes read so far
  len,              \* user_buf.len()
  min,              \* bytes the transfer settled on
  count,            \* bytes transferred so far
  revents           \* result of the last poll of a task

ring == <<buf, head, tail>>
call == <<op, end, data, len, min, count, revents>>
vars == <<buf, head, tail, lock, map, pc, op, end, data, len, min, count, revents>>

Slots == 0 .. PIPE_BUF - 1
Strings == UNION {[1..n -> Bytes] : n \in 0..MaxLen}
Other(e) == IF e = "r" THEN "w" ELSE "r"
Min2(a, b) == IF a < b THEN a ELSE b

-----------------------------------------------------------------------------
(* PipeInodeData *)

is_empty == head = tail

is_full == (tail + 1) % PIPE_BUF = head

available_read ==
  IF head <= tail THEN tail - head ELSE PIPE_BUF - head + tail

available_write ==
  IF head <= tail THEN PIPE_BUF - tail + head - 1 ELSE head - tail - 1

-----------------------------------------------------------------------------
(* Strong references to the two PipeFile objects *)

InCall == {"try", "upgraded", "copy", "ret"}

\* the end that a blocked or polling call upgrades: the peer it waits for
Checked(t) == CASE op[t] = "read"  -> "w"
                [] op[t] = "write" -> "r"
                [] OTHER           -> Other(end[t])

CallRefs(e) == {t \in Tasks : pc[t] \in InCall /\ end[t] = e}

TempRefs(e) == {t \in Tasks : \/ pc[t] = "upgraded" /\ Checked(t) = e
                              \/ pc[t] = "dropchk" /\ Other(end[t]) = e}

\* mutant: calls in progress do not keep an end alive
Strong_MapOnly(e) == e \in map

\* Weak::upgrade succeeds
Strong(e) == e \in map \/ CallRefs(e) # {} \/ TempRefs(e) # {}

LastCallRef(t, e) == e \notin map /\ CallRefs(e) = {t} /\ TempRefs(e) = {}

LastTempRef(t, e) == e \notin map /\ CallRefs(e) = {} /\ TempRefs(e) = {t}

-----------------------------------------------------------------------------
(* make_pipe_file *)

Init ==
  /\ buf = [i \in Slots |-> 0]
  /\ head = 0 /\ tail = 0
  /\ lock = NoTask
  /\ map = Ends
  /\ pc = [t \in Tasks |-> "idle"]
  /\ op = [t \in Tasks |-> "poll"]
  /\ end = [t \in Tasks |-> "r"]
  /\ data = [t \in Tasks |-> <<>>]
  /\ len = [t \in Tasks |-> 0]
  /\ min = [t \in Tasks |-> 0]
  /\ count = [t \in Tasks |-> 0]
  /\ revents = [t \in Tasks |-> {}]

\* get_file on end e, then PipeFile::read/write/poll; an empty buffer returns
\* before the inode is touched
Call(t) ==
  /\ pc[t] = "idle"
  /\ \E u \in Uses, s \in Strings :
       /\ u[2] \in map
       /\ u[1] = "poll" => s = <<>>
       /\ op' = [op EXCEPT ![t] = u[1]]
       /\ end' = [end EXCEPT ![t] = u[2]]
       /\ len' = [len EXCEPT ![t] = Len(s)]
       /\ data' = [data EXCEPT ![t] = IF u[1] = "write" THEN s ELSE <<>>]
       /\ pc' = [pc EXCEPT ![t] = IF u[1] # "poll" /\ s = <<>> THEN "ret" ELSE "try"]
  /\ UNCHANGED <<ring, lock, map, min, count, revents>>

\* the check of the other end succeeded: drop the temporary Arc, then continue
\* at `next`; a second CPU may interfere before the drop
Upgraded(t, next) ==
  IF SMP THEN lock' = t /\ pc' = [pc EXCEPT ![t] = "upgraded"]
         ELSE lock' = NoTask /\ pc' = [pc EXCEPT ![t] = next]

Available(t) == IF op[t] = "read" THEN available_read ELSE available_write

\* mutant: the peer is never looked at
Wait_NoCheck(t) ==
  /\ pc[t] = "try" /\ op[t] \in {"read", "write"} /\ lock = NoTask
  /\ Available(t) = 0
  /\ UNCHANGED vars

\* loop body of read_at/write_at, nothing to transfer: return when the other
\* end is gone, else release the lock and yield
Wait(t) ==
  /\ pc[t] = "try" /\ op[t] \in {"read", "write"} /\ lock = NoTask
  /\ Available(t) = 0
  /\ IF Strong(Checked(t))
     THEN Upgraded(t, "try")
     ELSE lock' = NoTask /\ pc' = [pc EXCEPT ![t] = "ret"]
  /\ UNCHANGED <<ring, map, call>>

\* mutant: the ring is used without taking `data`
Settle_Unlocked(t) ==
  /\ pc[t] = "try" /\ op[t] \in {"read", "write"}
  /\ Available(t) > 0
  /\ min' = [min EXCEPT ![t] = Min2(Available(t), len[t] - count[t])]
  /\ pc' = [pc EXCEPT ![t] = "copy"]
  /\ UNCHANGED <<ring, lock, map, op, end, data, len, count, revents>>

\* mutant: the whole buffer, whatever is available
Settle_WholeBuffer(t) ==
  /\ pc[t] = "try" /\ op[t] \in {"read", "write"} /\ lock = NoTask
  /\ Available(t) > 0
  /\ lock' = t
  /\ min' = [min EXCEPT ![t] = len[t] - count[t]]
  /\ pc' = [pc EXCEPT ![t] = "copy"]
  /\ UNCHANGED <<ring, map, op, end, data, len, count, revents>>

\* loop body of read_at/write_at, something to transfer: settle on min bytes
Settle(t) ==
  /\ pc[t] = "try" /\ op[t] \in {"read", "write"} /\ lock = NoTask
  /\ Available(t) > 0
  /\ lock' = t
  /\ min' = [min EXCEPT ![t] = Min2(Available(t), len[t] - count[t])]
  /\ pc' = [pc EXCEPT ![t] = "copy"]
  /\ UNCHANGED <<ring, map, op, end, data, len, count, revents>>

\* mutant: the index is advanced before the byte is stored
WriteByte_AdvanceFirst(t) ==
  /\ pc[t] = "copy" /\ op[t] = "write"
  /\ ~is_full /\ count[t] < min[t]
  /\ tail' = (tail + 1) % PIPE_BUF
  /\ buf' = [buf EXCEPT ![tail'] = data[t][count[t] + 1]]
  /\ count' = [count EXCEPT ![t] = @ + 1]
  /\ UNCHANGED <<head, lock, map, pc, op, end, data, len, min, revents>>

\* one round of the loop of PipeInodeData::write
WriteByte(t) ==
  /\ pc[t] = "copy" /\ op[t] = "write"
  /\ ~is_full /\ count[t] < min[t]
  /\ buf' = [buf EXCEPT ![tail] = data[t][count[t] + 1]]
  /\ tail' = (tail + 1) % PIPE_BUF
  /\ count' = [count EXCEPT ![t] = @ + 1]
  /\ UNCHANGED <<head, lock, map, pc, op, end, data, len, min, revents>>

\* mutant: head does not wrap
ReadByte_NoWrap(t) ==
  /\ pc[t] = "copy" /\ op[t] = "read"
  /\ ~is_empty /\ count[t] < min[t]
  /\ data' = [data EXCEPT ![t] = Append(@, buf[head])]
  /\ head' = head + 1
  /\ count' = [count EXCEPT ![t] = @ + 1]
  /\ UNCHANGED <<buf, tail, lock, map, pc, op, end, len, min, revents>>

\* one round of the loop of PipeInodeData::read
ReadByte(t) ==
  /\ pc[t] = "copy" /\ op[t] = "read"
  /\ ~is_empty /\ count[t] < min[t]
  /\ data' = [data EXCEPT ![t] = Append(@, buf[head])]
  /\ head' = (head + 1) % PIPE_BUF
  /\ count' = [count EXCEPT ![t] = @ + 1]
  /\ UNCHANGED <<buf, tail, lock, map, pc, op, end, len, min, revents>>

\* the copy loop ends, the guard is dropped and the count returned
CopyDone(t) ==
  /\ pc[t] = "copy"
  /\ \/ count[t] >= min[t]
     \/ op[t] = "write" /\ is_full
     \/ op[t] = "read" /\ is_empty
  /\ lock' = NoTask
  /\ pc' = [pc EXCEPT ![t] = "ret"]
  /\ UNCHANGED <<ring, map, call>>

\* mutant: HUP as soon as the writing end is closed
Poll_EagerHup(t) ==
  /\ pc[t] = "try" /\ op[t] = "poll" /\ lock = NoTask
  /\ revents' = [revents EXCEPT ![t] = {x \in Events : x = "HUP" /\ "w" \notin map}]
  /\ IF Strong(Checked(t))
     THEN Upgraded(t, "ret")
     ELSE lock' = NoTask /\ pc' = [pc EXCEPT ![t] = "ret"]
  /\ UNCHANGED <<ring, map, op, end, data, len, min, count>>

\* PipeInode::poll for all events
Poll(t) ==
  /\ pc[t] = "try" /\ op[t] = "poll" /\ lock = NoTask
  /\ revents' = [revents EXCEPT ![t] =
        {x \in Events : \/ x = "IN" /\ available_read > 0
                        \/ x = "OUT" /\ available_write > 0
                        \/ x = "HUP" /\ Strong("r") /\ ~Strong("w")
                        \/ x = "ERR" /\ ~Strong("r") /\ Strong("w")}]
  /\ IF Strong(Checked(t))
     THEN Upgraded(t, "ret")
     ELSE lock' = NoTask /\ pc' = [pc EXCEPT ![t] = "ret"]
  /\ UNCHANGED <<ring, map, op, end, data, len, min, count>>

\* drop of the temporary Arc under `data`: if it is the last one, PipeFile::drop
\* spins on the lock its own task holds
DropTemp(t) ==
  /\ pc[t] = "upgraded"
  /\ IF LastTempRef(t, Checked(t))
     THEN /\ pc' = [pc EXCEPT ![t] = "stuck"]
          /\ UNCHANGED lock
     ELSE /\ pc' = [pc EXCEPT ![t] = IF op[t] = "poll" THEN "ret" ELSE "try"]
          /\ lock' = NoTask
  /\ UNCHANGED <<ring, map, call>>

\* the call hands its result to the caller and drops its Arc<PipeFile>
Return(t) ==
  /\ pc[t] = "ret"
  /\ pc' = [pc EXCEPT ![t] = IF LastCallRef(t, end[t]) THEN "drop" ELSE "idle"]
  /\ data' = [data EXCEPT ![t] = <<>>]
  /\ len' = [len EXCEPT ![t] = 0]
  /\ min' = [min EXCEPT ![t] = 0]
  /\ count' = [count EXCEPT ![t] = 0]
  /\ revents' = [revents EXCEPT ![t] = {}]
  /\ op' = [op EXCEPT ![t] = "poll"]
  /\ end' = [end EXCEPT ![t] = IF LastCallRef(t, @) THEN @ ELSE "r"]
  /\ UNCHANGED <<ring, lock, map>>

\* VfsDomain::vfs_close: remove_file takes the end out of VFS_MAP
Close(t) ==
  /\ pc[t] = "idle"
  /\ \E e \in map :
       /\ map' = map \ {e}
       /\ IF CallRefs(e) = {} /\ TempRefs(e) = {}
          THEN pc' = [pc EXCEPT ![t] = "drop"] /\ end' = [end EXCEPT ![t] = e]
          ELSE UNCHANGED <<pc, end>>
  /\ UNCHANGED <<ring, lock, op, data, len, min, count, revents>>

\* PipeFile::drop looks at both ends under `data`; its own can no longer be
\* upgraded
Drop(t) ==
  /\ pc[t] = "drop" /\ lock = NoTask
  /\ IF Strong(Other(end[t])) /\ SMP
     THEN lock' = t /\ pc' = [pc EXCEPT ![t] = "dropchk"] /\ UNCHANGED end
     ELSE /\ lock' = NoTask
          /\ pc' = [pc EXCEPT ![t] = "idle"] /\ end' = [end EXCEPT ![t] = "r"]
  /\ UNCHANGED <<ring, map, op, data, len, min, count, revents>>

DropDone(t) ==
  /\ pc[t] = "dropchk"
  /\ IF LastTempRef(t, Other(end[t]))
     THEN pc' = [pc EXCEPT ![t] = "stuck"] /\ UNCHANGED <<lock, end>>
     ELSE /\ lock' = NoTask
          /\ pc' = [pc EXCEPT ![t] = "idle"] /\ end' = [end EXCEPT ![t] = "r"]
  /\ UNCHANGED <<ring, map, op, data, len, min, count, revents>>

\* the steps of a call or a drop in progress
Step(t) ==
  \/ Wait(t) \/ Settle(t) \/ WriteByte(t) \/ ReadByte(t) \/ CopyDone(t)
  \/ Poll(t) \/ DropTemp(t) \/ Return(t) \/ Drop(t) \/ DropDone(t)

Next == \E t \in Tasks : Call(t) \/ Close(t) \/ Step(t)

Spec == Init /\ [][Next]_vars

\* a task in the kernel is scheduled again and again; the spinlock is granted
\* to a task that keeps asking
FairSpec == Spec /\ \A t \in Tasks : SF_vars(Step(t))

-----------------------------------------------------------------------------
(* Properties *)

\* Types of the ring indices, the lock and the per-task call state.
TypeOK ==
  /\ buf \in [Slots -> Bytes] /\ head \in Slots /\ tail \in Slots
  /\ lock \in Tasks \cup {NoTask}
  /\ map \subseteq Ends
  /\ pc \in [Tasks -> InCall \cup {"idle", "drop", "dropchk", "stuck"}]
  /\ op \in [Tasks -> Ops] /\ end \in [Tasks -> Ends]
  /\ data \in [Tasks -> Seq(Bytes)]
  /\ len \in [Tasks -> Nat] /\ min \in [Tasks -> Nat] /\ count \in [Tasks -> Nat]
  /\ revents \in [Tasks -> SUBSET Events]

\* A transfer never comes up short of the amount read_at/write_at settled on:
\* what is left to copy is always available (the loops of PipeInodeData::read
\* and ::write never stop on is_empty/is_full before min bytes).
Copying(t) == pc[t] = "copy"
NoShortCopy ==
  \A t \in Tasks : Copying(t) =>
    /\ count[t] <= min[t]
    /\ min[t] - count[t] <= Available(t)

\* At most one task is inside a critical section of `data`, and it is the
\* holder of the lock.
InCritical(t) == pc[t] \in {"upgraded", "copy", "dropchk", "stuck"}
MutualExclusion == \A t \in Tasks : InCritical(t) => lock = t

\* Before a transfer starts nothing has been counted, and a transfer never
\* settles on more than the caller's buffer holds.
CallShape ==
  \A t \in Tasks :
    /\ pc[t] \in {"idle", "drop", "dropchk", "try", "upgraded"} => count[t] = 0
    /\ pc[t] \in {"try", "upgraded", "copy"} /\ op[t] = "write" => len[t] = Len(data[t])
    /\ pc[t] = "copy" => min[t] <= len[t] /\ op[t] \in {"read", "write"}

\* The inductive invariant of the proofs in PipeProofs.
PipeInv == TypeOK /\ MutualExclusion /\ NoShortCopy /\ CallShape

\* read_at returns 0 for a non-empty buffer only when no byte can ever follow:
\* the writing end is closed and no write through it is still in progress.
EofOnlyAfterLastWriter ==
  [][\A t \in Tasks :
       (/\ pc[t] = "try" /\ pc'[t] = "ret"
        /\ op[t] = "read" /\ len[t] > 0 /\ count'[t] = 0)
       => "w" \notin map /\ CallRefs("w") = {}]_vars

\* poll reports HUP (ERR) only for a writing (reading) end that nobody holds or
\* will hold again.
HangupIsFinal ==
  \A t \in Tasks :
    /\ "HUP" \in revents[t] => ~Strong("w")
    /\ "ERR" \in revents[t] => ~Strong("r")

\* The bytes between head and tail, oldest first.
Contents == [i \in 1..available_read |-> buf[(head + i - 1) % PIPE_BUF]]
Sending == [t \in Tasks |-> IF op[t] = "write" THEN data[t] ELSE <<>>]
Sent == [t \in Tasks |-> IF op[t] = "write" THEN count[t] ELSE 0]
Received == [t \in Tasks |-> IF op[t] = "read" THEN data[t] ELSE <<>>]

Channel == INSTANCE ByteChannel
             WITH Capacity <- PIPE_BUF - 1, queue <- Contents,
                  sending <- Sending, sent <- Sent, received <- Received

\* The ring buffer under its lock is a first-in first-out byte queue of
\* capacity PIPE_BUF - 1: no byte of a writer is lost, altered, duplicated,
\* reordered or handed to two readers.
ImplementsChannel == Channel!Spec

\* A read in progress when the writing end is closed returns, and so does a
\* write in progress when the reading end is closed.  Two things may stop it: a
\* task caught in the drop of a temporary Arc, and a task in a call through the
\* wrong end, which keeps alive the end others wait to see closed.
WrongEnd(u) == pc[u] # "idle" /\ <<op[u], end[u]>> \in {<<"read", "w">>, <<"write", "r">>}
StuckOrIdle(t) == pc[t] = "idle" \/ \E u \in Tasks : pc[u] = "stuck" \/ WrongEnd(u)
CallsReturnUnlessStuck ==
  \A t \in Tasks :
    /\ (pc[t] # "idle" /\ op[t] = "read" /\ "w" \notin map) ~> StuckOrIdle(t)
    /\ (pc[t] # "idle" /\ op[t] = "write" /\ "r" \notin map) ~> StuckOrIdle(t)

\* What a program is told of the other end is final: end of file from read_at, HUP and ERR
\* from poll.
EndIsFinal == []HangupIsFinal /\ EofOnlyAfterLastWriter
=============================================================================
