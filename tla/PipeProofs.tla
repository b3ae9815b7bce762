----------------------------- MODULE PipeProofs -----------------------------
(***************************************************************************)
(* Proofs about Pipe for any number of tasks, any ring size and any set of *)
(* calls.                                                                  *)
(***************************************************************************)
EXTENDS Pipe, SequenceTheorems, TLAPS

\* Indices wrap once at the ring size: what `% PIPE_BUF` computes for the sums
\* of an index and an offset that PipeInodeData forms.
LEMMA Wrap ==
  ASSUME NEW x \in Nat, NEW n \in Nat, n > 0, x < 2 * n
  PROVE  x % n = IF x < n THEN x ELSE x - n
<1>1. CASE x < n
  BY <1>1, SMT
<1>2. CASE x >= n
  BY <1>2, SMT
<1> QED BY <1>1, <1>2

\* The arithmetic of the ring: reading and writing one byte moves the two
\* counters by one, and the predicates of the loops agree with them.
LEMMA RingArithmetic ==
  ASSUME TypeOK
  PROVE  /\ available_read \in 0..PIPE_BUF - 1
         /\ available_write \in 0..PIPE_BUF - 1
         /\ available_read + available_write = PIPE_BUF - 1
         /\ is_empty <=> available_read = 0
         /\ is_full <=> available_write = 0
         /\ (head + 1) % PIPE_BUF = IF head + 1 = PIPE_BUF THEN 0 ELSE head + 1
         /\ (tail + 1) % PIPE_BUF = IF tail + 1 = PIPE_BUF THEN 0 ELSE tail + 1
<1>1. /\ PIPE_BUF \in Nat /\ PIPE_BUF >= 2
      /\ head \in 0..PIPE_BUF - 1 /\ tail \in 0..PIPE_BUF - 1
  BY PipeAssumption DEF TypeOK, Slots
<1>2. (head + 1) % PIPE_BUF = IF head + 1 = PIPE_BUF THEN 0 ELSE head + 1
  BY <1>1, Wrap
<1>3. (tail + 1) % PIPE_BUF = IF tail + 1 = PIPE_BUF THEN 0 ELSE tail + 1
  BY <1>1, Wrap
<1> QED
  BY <1>1, <1>2, <1>3 DEF available_read, available_write, is_empty, is_full

\* A caller's buffer is a sequence of bytes.
LEMMA StringsAreSequences ==
  ASSUME NEW s \in Strings
  PROVE  s \in Seq(Bytes) /\ Len(s) \in Nat
<1>1. PICK n \in 0..MaxLen : s \in [1..n -> Bytes]
  BY DEF Strings
<1>2. n \in Nat
  BY PipeAssumption
<1> QED
  BY <1>1, <1>2

\* Every initial state of a pipe made by make_pipe_file satisfies the invariant.
LEMMA InitPipeInv == Init => PipeInv
<1> SUFFICES ASSUME Init PROVE PipeInv
  OBVIOUS
<1>1. TypeOK
  BY PipeAssumption DEF Init, TypeOK, Slots, Ends, Ops, Events
<1>2. MutualExclusion /\ NoShortCopy /\ CallShape
  BY DEF Init, MutualExclusion, InCritical, NoShortCopy, Copying, CallShape
<1> QED
  BY <1>1, <1>2 DEF PipeInv

\* Every step of a task keeps the types.
LEMMA StepType ==
  ASSUME PipeInv, NEW t \in Tasks, Call(t) \/ Close(t) \/ Step(t)
  PROVE  TypeOK'
<1> USE DEF PipeInv
<1>0. PIPE_BUF \in Nat /\ PIPE_BUF >= 2 /\ MaxLen \in Nat /\ NoTask \notin Tasks
      /\ Uses \subseteq Ops \X Ends
  BY PipeAssumption
<1>1. CASE Call(t)
  <2>1. PICK u \in Uses, s \in Strings : Call(t)!2!(u, s)
    BY <1>1 DEF Call
  <2>2. s \in Seq(Bytes) /\ Len(s) \in Nat /\ u[1] \in Ops /\ u[2] \in Ends
    BY StringsAreSequences, <1>0
  <2> QED
    BY <1>1, <2>1, <2>2 DEF Call, TypeOK, InCall, ring
<1>2. CASE Close(t)
  BY <1>2 DEF Close, TypeOK, InCall, Ends, ring
<1>3. CASE Wait(t)
  BY <1>3 DEF Wait, Upgraded, TypeOK, InCall, ring, call
<1>4. CASE Settle(t)
  <2>1. Available(t) \in Nat /\ len[t] - count[t] \in Nat
    BY <1>4, RingArithmetic DEF Available, Settle, TypeOK, CallShape
  <2>2. Min2(Available(t), len[t] - count[t]) \in Nat
    BY <2>1 DEF Min2
  <2> QED
    BY <1>4, <2>2 DEF Settle, TypeOK, InCall, ring
<1>5. CASE WriteByte(t)
  <2>1. (tail + 1) % PIPE_BUF \in Slots
    BY <1>0, RingArithmetic DEF TypeOK, Slots
  <2>2. data[t][count[t] + 1] \in Bytes
    BY <1>5 DEF WriteByte, TypeOK, CallShape
  <2> QED
    BY <1>5, <2>1, <2>2 DEF WriteByte, TypeOK, InCall
<1>6. CASE ReadByte(t)
  <2>1. (head + 1) % PIPE_BUF \in Slots
    BY <1>0, RingArithmetic DEF TypeOK, Slots
  <2> QED
    BY <1>6, <2>1 DEF ReadByte, TypeOK, InCall
<1>7. CASE CopyDone(t)
  BY <1>7 DEF CopyDone, TypeOK, InCall, ring, call
<1>8. CASE Poll(t)
  BY <1>8 DEF Poll, Upgraded, TypeOK, InCall, ring
<1>9. CASE DropTemp(t)
  BY <1>9 DEF DropTemp, TypeOK, InCall, ring, call
<1>10. CASE Return(t)
  BY <1>10 DEF Return, TypeOK, InCall, Ops, Ends, ring
<1>11. CASE Drop(t)
  BY <1>11 DEF Drop, TypeOK, InCall, Ends, ring
<1>12. CASE DropDone(t)
  BY <1>12 DEF DropDone, TypeOK, InCall, Ends, ring
<1> QED
  BY <1>1, <1>2, <1>3, <1>4, <1>5, <1>6, <1>7, <1>8, <1>9, <1>10, <1>11, <1>12 DEF Step

\* A step of one task leaves the call state of every other task alone.
LEMMA OthersUntouched ==
  ASSUME PipeInv, NEW t \in Tasks, Call(t) \/ Close(t) \/ Step(t),
         NEW u \in Tasks, u # t
  PROVE  /\ pc'[u] = pc[u] /\ op'[u] = op[u] /\ data'[u] = data[u]
         /\ len'[u] = len[u] /\ min'[u] = min[u] /\ count'[u] = count[u]
<1> USE DEF PipeInv, TypeOK
<1>1. CASE Call(t) BY <1>1 DEF Call
<1>2. CASE Close(t) BY <1>2 DEF Close
<1>3. CASE Wait(t) BY <1>3 DEF Wait, Upgraded, call
<1>4. CASE Settle(t) BY <1>4 DEF Settle
<1>5. CASE WriteByte(t) BY <1>5 DEF WriteByte
<1>6. CASE ReadByte(t) BY <1>6 DEF ReadByte
<1>7. CASE CopyDone(t) BY <1>7 DEF CopyDone, call
<1>8. CASE Poll(t) BY <1>8 DEF Poll, Upgraded
<1>9. CASE DropTemp(t) BY <1>9 DEF DropTemp, call
<1>10. CASE Return(t) BY <1>10 DEF Return
<1>11. CASE Drop(t) BY <1>11 DEF Drop, call
<1>12. CASE DropDone(t) BY <1>12 DEF DropDone, call
<1> QED
  BY <1>1, <1>2, <1>3, <1>4, <1>5, <1>6, <1>7, <1>8, <1>9, <1>10, <1>11, <1>12 DEF Step

\* The lock changes hands only when it is free or its holder steps, and a task
\* inside a critical section after its step holds it.
LEMMA StepMutex ==
  ASSUME PipeInv, NEW t \in Tasks, Call(t) \/ Close(t) \/ Step(t)
  PROVE  MutualExclusion'
<1> USE DEF PipeInv, TypeOK, MutualExclusion, InCritical
<1>1. (pc'[t] \in {"upgraded", "copy", "dropchk", "stuck"}) => lock' = t
  <2>1. CASE Call(t) BY <2>1 DEF Call
  <2>2. CASE Close(t) BY <2>2 DEF Close
  <2>3. CASE Wait(t) BY <2>3 DEF Wait, Upgraded
  <2>4. CASE Settle(t) BY <2>4 DEF Settle
  <2>5. CASE WriteByte(t) BY <2>5 DEF WriteByte
  <2>6. CASE ReadByte(t) BY <2>6 DEF ReadByte
  <2>7. CASE CopyDone(t) BY <2>7 DEF CopyDone
  <2>8. CASE Poll(t) BY <2>8 DEF Poll, Upgraded
  <2>9. CASE DropTemp(t) BY <2>9 DEF DropTemp
  <2>10. CASE Return(t) BY <2>10 DEF Return
  <2>11. CASE Drop(t) BY <2>11 DEF Drop
  <2>12. CASE DropDone(t) BY <2>12 DEF DropDone
  <2> QED
    BY <2>1, <2>2, <2>3, <2>4, <2>5, <2>6, <2>7, <2>8, <2>9, <2>10, <2>11, <2>12 DEF Step
<1>2. lock = NoTask \/ lock = t \/ lock' = lock
  BY DEF Call, Close, Step, Wait, Settle, WriteByte, ReadByte, CopyDone, Poll,
         DropTemp, Return, Drop, DropDone
<1>3. ASSUME NEW u \in Tasks, u # t, pc'[u] \in {"upgraded", "copy", "dropchk", "stuck"}
      PROVE  lock' = u
  <2>1. lock = u
    BY <1>3, OthersUntouched
  <2> QED
    BY <2>1, <1>2, <1>3, PipeAssumption
<1> QED
  BY <1>1, <1>3

\* A step of the task that is not copying leaves the ring alone, so only the
\* holder of the lock consumes what it settled on.
LEMMA StepCopy ==
  ASSUME PipeInv, NEW t \in Tasks, Call(t) \/ Close(t) \/ Step(t)
  PROVE  NoShortCopy' /\ CallShape'
<1> USE DEF PipeInv
<1>0. /\ PIPE_BUF \in Nat /\ PIPE_BUF >= 2
      /\ head \in 0..PIPE_BUF - 1 /\ tail \in 0..PIPE_BUF - 1
  BY PipeAssumption DEF TypeOK, Slots
<1>1. ASSUME NEW u \in Tasks, u # t
      PROVE  /\ Copying(u)' => /\ count'[u] <= min'[u]
                               /\ min'[u] - count'[u] <= Available(u)'
             /\ CallShape!(u)'
  <2>1. CallShape!(u)'
    BY <1>1, OthersUntouched DEF CallShape
  <2>2. ASSUME pc[u] = "copy" PROVE UNCHANGED ring
    BY <2>2, <1>1 DEF MutualExclusion, InCritical, Call, Close, Step, Wait, Settle, WriteByte,
         ReadByte, CopyDone, Poll, DropTemp, Return, Drop, DropDone, ring
  <2> QED
    BY <1>1, <2>1, <2>2, OthersUntouched
       DEF NoShortCopy, Copying, Available, available_read, available_write, ring
<1>2. /\ Copying(t)' => /\ count'[t] <= min'[t]
                        /\ min'[t] - count'[t] <= Available(t)'
      /\ CallShape!(t)'
  <2> USE DEF TypeOK, CallShape, Copying
  <2>1. CASE Call(t)
    <3>1. PICK u \in Uses, s \in Strings : Call(t)!2!(u, s)
      BY <2>1 DEF Call
    <3>2. s \in Seq(Bytes) /\ Len(s) \in Nat
      BY StringsAreSequences
    <3> QED
      BY <2>1, <3>1, <3>2 DEF Call
  <2>2. CASE Close(t) BY <2>2 DEF Close
  <2>3. CASE Wait(t) BY <2>3 DEF Wait, Upgraded, call
  <2>4. CASE Settle(t)
    BY <2>4, RingArithmetic DEF Settle, Available, available_read, available_write, Min2, ring
  <2>5. CASE WriteByte(t)
    <3>1. /\ tail' = IF tail + 1 = PIPE_BUF THEN 0 ELSE tail + 1
          /\ head' = head /\ tail' # head
      BY <2>5, RingArithmetic DEF WriteByte, is_full
    <3>2. available_write' = available_write - 1
      BY <3>1, <1>0 DEF available_write
    <3>3. op[t] = "write" /\ op' = op /\ min' = min /\ count'[t] = count[t] + 1
      BY <2>5 DEF WriteByte
    <3>4. pc' = pc /\ pc[t] = "copy" /\ count[t] < min[t] /\ len' = len /\ data' = data
      BY <2>5 DEF WriteByte
    <3>5. available_write \in Nat /\ count[t] \in Nat /\ min[t] \in Nat
      BY RingArithmetic, <1>0
    <3>6. min[t] - count[t] <= available_write
      BY <3>3, <3>4 DEF NoShortCopy, Available
    <3>7. min'[t] - count'[t] <= Available(t)'
      BY <3>2, <3>3, <3>5, <3>6 DEF Available
    <3> QED
      BY <3>3, <3>4, <3>5, <3>7
  <2>6. CASE ReadByte(t)
    <3>1. /\ head' = IF head + 1 = PIPE_BUF THEN 0 ELSE head + 1
          /\ tail' = tail /\ head # tail
      BY <2>6, RingArithmetic DEF ReadByte, is_empty
    <3>2. available_read' = available_read - 1
      BY <3>1, <1>0 DEF available_read
    <3>3. op[t] = "read" /\ op' = op /\ min' = min /\ count'[t] = count[t] + 1
      BY <2>6 DEF ReadByte
    <3>4. pc' = pc /\ pc[t] = "copy" /\ count[t] < min[t] /\ len' = len
      BY <2>6 DEF ReadByte
    <3>5. available_read \in Nat /\ count[t] \in Nat /\ min[t] \in Nat
      BY RingArithmetic, <1>0
    <3>6. min[t] - count[t] <= available_read
      BY <3>3, <3>4 DEF NoShortCopy, Available
    <3>7. min'[t] - count'[t] <= Available(t)'
      BY <3>2, <3>3, <3>5, <3>6 DEF Available
    <3> QED
      BY <3>3, <3>4, <3>5, <3>7
  <2>7. CASE CopyDone(t) BY <2>7 DEF CopyDone, call
  <2>8. CASE Poll(t) BY <2>8 DEF Poll, Upgraded
  <2>9. CASE DropTemp(t) BY <2>9 DEF DropTemp, call
  <2>10. CASE Return(t) BY <2>10 DEF Return
  <2>11. CASE Drop(t) BY <2>11 DEF Drop, call
  <2>12. CASE DropDone(t) BY <2>12 DEF DropDone, call
  <2> QED
    BY <2>1, <2>2, <2>3, <2>4, <2>5, <2>6, <2>7, <2>8, <2>9, <2>10, <2>11, <2>12 DEF Step
<1> QED
  BY <1>1, <1>2 DEF NoShortCopy, CallShape

\* One step of the specification keeps the invariant.
LEMMA NextPipeInv == PipeInv /\ [Next]_vars => PipeInv'
<1> SUFFICES ASSUME PipeInv, [Next]_vars PROVE PipeInv'
  OBVIOUS
<1>1. ASSUME NEW t \in Tasks, Call(t) \/ Close(t) \/ Step(t)
      PROVE  PipeInv'
  BY <1>1, StepType, StepMutex, StepCopy DEF PipeInv
<1>2. CASE UNCHANGED vars
  BY <1>2 DEF PipeInv, vars, TypeOK, MutualExclusion, InCritical, NoShortCopy, Copying,
     CallShape, Available, available_read, available_write
<1> QED
  BY <1>1, <1>2 DEF Next

\* What all of the following rest on: types, the lock, complete copies and the shape of a call,
\* through every step of PipeInode::read_at and write_at.
THEOREM InvariantHolds == Spec => []PipeInv
<1> QED
  BY InitPipeInv, NextPipeInv, PTL DEF Spec

\* The ring indices, the lock and the call state keep their types: head and
\* tail never leave the buffer (PipeInodeData::read/write index buf with them).
THEOREM TypeCorrect == Spec => []TypeOK
<1>1. PipeInv => TypeOK
  BY DEF PipeInv
<1> QED
  BY <1>1, InitPipeInv, NextPipeInv, PTL DEF Spec

\* At most one task is inside a critical section of PipeInode::data.
THEOREM MutexHolds == Spec => []MutualExclusion
<1>1. PipeInv => MutualExclusion
  BY DEF PipeInv
<1> QED
  BY <1>1, InitPipeInv, NextPipeInv, PTL DEF Spec

\* The copy loops of PipeInodeData never stop before the amount settled on,
\* whatever other tasks do meanwhile.
THEOREM CopiesAreComplete == Spec => []NoShortCopy
<1>1. PipeInv => NoShortCopy
  BY DEF PipeInv
<1> QED
  BY <1>1, InitPipeInv, NextPipeInv, PTL DEF Spec

-----------------------------------------------------------------------------
(* The pipe implements ByteChannel *)

\* Slot number i of the contents, and the slot the next byte goes to.
LEMMA SlotOf ==
  ASSUME TypeOK, NEW i \in Nat, i <= available_read
  PROVE  /\ (head + i) % PIPE_BUF = IF head + i < PIPE_BUF THEN head + i
                                                          ELSE head + i - PIPE_BUF
         /\ (head + i) % PIPE_BUF \in Slots
         /\ (head + i) % PIPE_BUF = tail <=> i = available_read
<1>1. /\ PIPE_BUF \in Nat /\ PIPE_BUF >= 2
      /\ head \in 0..PIPE_BUF - 1 /\ tail \in 0..PIPE_BUF - 1
  BY PipeAssumption DEF TypeOK, Slots
<1>2. head + i \in Nat /\ head + i < 2 * PIPE_BUF /\ PIPE_BUF > 0
  BY <1>1 DEF available_read
<1>3. (head + i) % PIPE_BUF = IF head + i < PIPE_BUF THEN head + i
                                                     ELSE head + i - PIPE_BUF
  <2>1. \A x \in Nat : x < 2 * PIPE_BUF =>
           x % PIPE_BUF = IF x < PIPE_BUF THEN x ELSE x - PIPE_BUF
    BY <1>1, <1>2, Wrap, Zenon
  <2>2. PICK x \in Nat : x = head + i
    BY <1>2
  <2>3. x % PIPE_BUF = IF x < PIPE_BUF THEN x ELSE x - PIPE_BUF
    BY <2>1, <2>2, <1>2
  <2> QED
    BY <1>1, <2>2, <2>3
<1> QED
  BY <1>1, <1>3 DEF available_read, Slots

SlotsAre ==
  \A i \in Nat : i <= available_read =>
    (head + i) % PIPE_BUF = IF head + i < PIPE_BUF THEN head + i ELSE head + i - PIPE_BUF

\* The same fact as a state predicate, to be used in the next state.
LEMMA SlotsWrap == TypeOK => SlotsAre
  BY SlotOf DEF SlotsAre

ContentsAre ==
  /\ Contents \in Seq(Bytes)
  /\ Len(Contents) = available_read
  /\ \A i \in 1..available_read : Contents[i] = buf[(head + i - 1) % PIPE_BUF]

\* The contents are a sequence of bytes of length available_read.
LEMMA ContentsType == TypeOK => ContentsAre
<1> SUFFICES ASSUME TypeOK PROVE ContentsAre
  OBVIOUS
<1>1. available_read \in Nat
  BY RingArithmetic, PipeAssumption
<1>2. ASSUME NEW i \in 1..available_read
      PROVE  buf[(head + i - 1) % PIPE_BUF] \in Bytes
  <2>1. /\ i - 1 \in Nat /\ i - 1 <= available_read
        /\ head + i - 1 = head + (i - 1)
    BY <1>1, <1>2, PipeAssumption DEF TypeOK, Slots
  <2> QED
    BY <2>1, SlotOf DEF TypeOK
<1> QED
  BY <1>1, <1>2 DEF Contents, ContentsAre

\* PipeInodeData::write stores a byte behind the last one.
LEMMA WriteAppends ==
  ASSUME PipeInv, TypeOK', NEW t \in Tasks, WriteByte(t)
  PROVE  /\ data[t][count[t] + 1] \in Bytes
         /\ Contents' = Append(Contents, data[t][count[t] + 1])
         /\ Len(Contents) < PIPE_BUF - 1
<1> DEFINE b == data[t][count[t] + 1]
<1>0. /\ PIPE_BUF \in Nat /\ PIPE_BUF >= 2
      /\ head \in 0..PIPE_BUF - 1 /\ tail \in 0..PIPE_BUF - 1 /\ TypeOK
      /\ buf \in [0..PIPE_BUF - 1 -> Bytes]
  BY PipeAssumption DEF PipeInv, TypeOK, Slots
<1>1. b \in Bytes
  BY DEF PipeInv, WriteByte, TypeOK, CallShape
<1>2. /\ tail' = IF tail + 1 = PIPE_BUF THEN 0 ELSE tail + 1
      /\ head' = head /\ tail' # head
      /\ buf' = [buf EXCEPT ![tail] = b]
  BY <1>0, RingArithmetic DEF WriteByte, is_full
<1>3. available_read \in Nat /\ available_read' = available_read + 1
      /\ available_read < PIPE_BUF - 1
  BY <1>0, <1>2 DEF available_read
<1> HIDE DEF b
<1>4. /\ Contents \in Seq(Bytes) /\ Len(Contents) = available_read
      /\ \A i \in 1..available_read : Contents[i] = buf[(head + i - 1) % PIPE_BUF]
  BY <1>0, ContentsType DEF ContentsAre
<1>5. /\ Contents' \in Seq(Bytes) /\ Len(Contents') = available_read + 1
      /\ \A i \in 1..available_read + 1 :
            (Contents')[i] = buf'[(head + i - 1) % PIPE_BUF]
  <2>1. /\ Contents' \in Seq(Bytes) /\ Len(Contents') = available_read'
        /\ \A i \in 1..available_read' :
              (Contents')[i] = buf'[(head' + i - 1) % PIPE_BUF]
    <3>1. ContentsAre'
      BY ContentsType, PTL
    <3> QED
      BY <3>1 DEF ContentsAre
  <2> QED
    BY <2>1, <1>2, <1>3
<1>6. ASSUME NEW i \in 1..available_read + 1
      PROVE  (Contents')[i] = Append(Contents, b)[i]
  <2>1. /\ i - 1 \in Nat /\ i - 1 <= available_read
        /\ head + i - 1 = head + (i - 1)
    BY <1>0, <1>3, <1>6
  <2>2. /\ (head + i - 1) % PIPE_BUF \in 0..PIPE_BUF - 1
        /\ (head + i - 1) % PIPE_BUF = tail <=> i - 1 = available_read
    BY <1>0, <2>1, SlotOf DEF Slots
  <2>3. (Contents')[i] = [buf EXCEPT ![tail] = b][(head + i - 1) % PIPE_BUF]
    BY <1>2, <1>5, <1>6
  <2> DEFINE k == (head + i - 1) % PIPE_BUF
  <2>4. k \in 0..PIPE_BUF - 1 /\ (k = tail <=> i - 1 = available_read)
        /\ (Contents')[i] = [buf EXCEPT ![tail] = b][k]
        /\ (i \in 1..available_read => Contents[i] = buf[k])
    BY <2>2, <2>3, <1>4
  <2> HIDE DEF k
  <2>5. CASE i = available_read + 1
    BY <2>4, <2>5, <1>0, <1>1, <1>3, <1>4
  <2>6. CASE i \in 1..available_read
    BY <2>4, <2>6, <1>0, <1>1, <1>3, <1>4
  <2>7. i = available_read + 1 \/ i \in 1..available_read
    BY <1>3, <1>6
  <2> QED
    BY <2>5, <2>6, <2>7, Zenon
<1>7. Append(Contents, b) \in Seq(Bytes) /\ Len(Append(Contents, b)) = available_read + 1
  BY <1>1, <1>4, AppendProperties
<1>8. Contents' = Append(Contents, b)
  BY <1>5, <1>6, <1>7, SeqEqual
<1> QED
  BY <1>1, <1>3, <1>4, <1>8 DEF b

\* PipeInodeData::read takes the oldest byte.
LEMMA ReadTakesHead ==
  ASSUME PipeInv, TypeOK', NEW t \in Tasks, ReadByte(t)
  PROVE  /\ Contents # <<>>
         /\ Contents' = Tail(Contents)
         /\ Head(Contents) = buf[head]
<1>0. /\ PIPE_BUF \in Nat /\ PIPE_BUF >= 2
      /\ head \in 0..PIPE_BUF - 1 /\ tail \in 0..PIPE_BUF - 1 /\ TypeOK
  BY PipeAssumption DEF PipeInv, TypeOK, Slots
<1>1. /\ head' = IF head + 1 = PIPE_BUF THEN 0 ELSE head + 1
      /\ tail' = tail /\ head # tail /\ buf' = buf
  BY <1>0, RingArithmetic DEF ReadByte, is_empty
<1>2. /\ available_read \in Nat /\ available_read > 0
      /\ available_read' = available_read - 1
  BY <1>0, <1>1 DEF available_read
<1>3. /\ Contents \in Seq(Bytes) /\ Len(Contents) = available_read
      /\ \A i \in 1..available_read : Contents[i] = buf[(head + i - 1) % PIPE_BUF]
  BY <1>0, ContentsType DEF ContentsAre
<1>4. /\ Contents' \in Seq(Bytes) /\ Len(Contents') = available_read - 1
      /\ \A i \in 1..available_read - 1 :
            (Contents')[i] = buf[(head' + i - 1) % PIPE_BUF]
  <2>1. /\ Contents' \in Seq(Bytes) /\ Len(Contents') = available_read'
        /\ \A i \in 1..available_read' :
              (Contents')[i] = buf'[(head' + i - 1) % PIPE_BUF]
    <3>1. ContentsAre'
      BY ContentsType, PTL
    <3> QED
      BY <3>1 DEF ContentsAre
  <2> QED
    BY <2>1, <1>1, <1>2
<1>5. ASSUME NEW i \in 1..available_read - 1
      PROVE  (head' + i - 1) % PIPE_BUF = (head + i) % PIPE_BUF
  <2>1. /\ i \in Nat /\ i <= available_read /\ i - 1 \in Nat
        /\ i - 1 <= available_read' /\ head' + i - 1 = head' + (i - 1)
    BY <1>0, <1>1, <1>2, <1>5
  <2>2. (head + i) % PIPE_BUF = IF head + i < PIPE_BUF THEN head + i
                                                       ELSE head + i - PIPE_BUF
    BY <1>0, <2>1, SlotOf
  <2>3. \A j \in Nat : j <= available_read' =>
           (head' + j) % PIPE_BUF = IF head' + j < PIPE_BUF THEN head' + j
                                                           ELSE head' + j - PIPE_BUF
    <3>1. SlotsAre'
      BY SlotsWrap, PTL
    <3> QED
      BY <3>1 DEF SlotsAre
  <2>4. (head' + (i - 1)) % PIPE_BUF = IF head' + (i - 1) < PIPE_BUF THEN head' + (i - 1)
                                                     ELSE head' + (i - 1) - PIPE_BUF
    BY <2>1, <2>3
  <2> DEFINE l == (head' + (i - 1)) % PIPE_BUF
             r == (head + i) % PIPE_BUF
  <2>5. /\ l = IF head' + (i - 1) < PIPE_BUF THEN head' + (i - 1)
                                            ELSE head' + (i - 1) - PIPE_BUF
        /\ r = IF head + i < PIPE_BUF THEN head + i ELSE head + i - PIPE_BUF
    BY <2>2, <2>4
  <2> HIDE DEF l, r
  <2>6. l = r
    BY <2>5, <1>0, <1>1, <1>5, <1>2, <2>1 DEF available_read
  <2> QED
    BY <2>6, <2>1 DEF l, r
<1>6. Contents # <<>>
  BY <1>2, <1>3
<1>7. Tail(Contents) \in Seq(Bytes) /\ Len(Tail(Contents)) = available_read - 1
      /\ \A i \in 1..available_read - 1 : Tail(Contents)[i] = Contents[i + 1]
  BY <1>3, <1>6, HeadTailProperties
<1>8. ASSUME NEW i \in 1..available_read - 1
      PROVE  (Contents')[i] = Tail(Contents)[i]
  <2>1. Tail(Contents)[i] = buf[(head + (i + 1) - 1) % PIPE_BUF]
    BY <1>2, <1>3, <1>7, <1>8
  <2>2. head + (i + 1) - 1 = head + i
    BY <1>0, <1>2, <1>8
  <2> QED
    BY <2>1, <2>2, <1>4, <1>5, <1>8
<1>9. Contents' = Tail(Contents)
  BY <1>4, <1>7, <1>8, SeqEqual
<1>10. Head(Contents) = buf[head]
  <2>1. head + 1 - 1 = head /\ head + 0 = head /\ 0 \in Nat /\ 0 <= available_read
    BY <1>0, <1>2
  <2>2. head % PIPE_BUF = head
    <3>1. (head + 0) % PIPE_BUF = head + 0
      BY <1>0, <2>1, SlotOf
    <3> QED
      BY <3>1, <2>1
  <2> QED
    BY <2>1, <2>2, <1>2, <1>3, <1>6
<1> QED
  BY <1>6, <1>9, <1>10

\* A fresh pipe is an empty channel.
LEMMA InitChannel == Init => Channel!Init
<1> SUFFICES ASSUME Init PROVE Channel!Init
  OBVIOUS
<1>1. available_read = 0
  BY DEF Init, available_read
<1>2. Contents = <<>>
  BY <1>1 DEF Contents
<1>3. /\ Sending = [t \in Tasks |-> <<>>] /\ Sent = [t \in Tasks |-> 0]
      /\ Received = [t \in Tasks |-> <<>>]
  BY DEF Init, Sending, Sent, Received
<1> QED
  BY <1>2, <1>3 DEF Channel!Init

\* Every step of the pipe is a step of the channel or leaves it alone: a byte
\* copied in is an Enqueue by the writing task, a byte copied out a Dequeue by
\* the reading task, and the begin and end of a call reset what the task has
\* sent and received.
LEMMA StepChannel ==
  ASSUME PipeInv, PipeInv', [Next]_vars
  PROVE  [Channel!Next]_(Channel!chan)
<1> USE DEF PipeInv
<1>1. ASSUME NEW t \in Tasks, WriteByte(t)
      PROVE  Channel!Next
  <2>1. /\ Contents' = Append(Contents, data[t][count[t] + 1])
        /\ Len(Contents) < PIPE_BUF - 1
    BY <1>1, WriteAppends
  <2>2. UNCHANGED <<Sending, Received>>
    BY <1>1 DEF WriteByte, Sending, Received
  <2>3. Sending[t] = data[t] /\ Sent[t] = count[t]
    BY <1>1 DEF WriteByte, Sending, Sent
  <2>4. Sent[t] < Len(Sending[t])
    BY <1>1, <2>3 DEF WriteByte, CallShape, TypeOK
  <2>5. Sent' = [Sent EXCEPT ![t] = @ + 1]
    BY <1>1 DEF WriteByte, Sent, TypeOK
  <2>6. Channel!Enqueue(t)
    BY <2>1, <2>2, <2>3, <2>4, <2>5 DEF Channel!Enqueue
  <2> QED
    BY <2>6 DEF Channel!Next
<1>2. ASSUME NEW t \in Tasks, ReadByte(t)
      PROVE  Channel!Next
  <2>1. Contents # <<>> /\ Contents' = Tail(Contents) /\ Head(Contents) = buf[head]
    BY <1>2, ReadTakesHead
  <2>2. Received' = [Received EXCEPT ![t] = Append(@, buf[head])]
    BY <1>2 DEF ReadByte, Received, TypeOK
  <2>3. Sending' = Sending
    BY <1>2 DEF ReadByte, Sending, TypeOK
  <2>4. Sent' = Sent
    BY <1>2 DEF ReadByte, Sent, TypeOK
  <2>5. Channel!Dequeue(t)
    BY <2>1, <2>2, <2>3, <2>4 DEF Channel!Dequeue
  <2> QED
    BY <2>5 DEF Channel!Next
<1>3. ASSUME UNCHANGED ring PROVE Contents' = Contents
  BY <1>3 DEF ring, Contents, available_read
<1>t. Sending' \in [Tasks -> Seq(Bytes)]
  BY DEF Sending, TypeOK
<1>4. ASSUME NEW t \in Tasks, Call(t)
      PROVE  Channel!Next
  <2>1. PICK u \in Uses, s \in Strings : Call(t)!2!(u, s)
    BY <1>4 DEF Call
  <2>2. Received' = [Received EXCEPT ![t] = <<>>]
    BY <2>1 DEF Received, TypeOK
  <2>3. \A v \in Tasks \ {t} : Sending'[v] = Sending[v]
    BY <2>1 DEF Sending, TypeOK
  <2>4. pc[t] = "idle" /\ count[t] = 0 /\ count' = count
    BY <1>4 DEF Call, CallShape
  <2>5. Sent' = [Sent EXCEPT ![t] = 0]
    BY <2>1, <2>4 DEF Sent, TypeOK
  <2>6. Channel!Open(t)
    BY <1>3, <1>4, <1>t, <2>2, <2>3, <2>5 DEF Channel!Open, Call
  <2> QED
    BY <2>6 DEF Channel!Next
<1>5. ASSUME NEW t \in Tasks, Return(t)
      PROVE  Channel!Next
  <2>1. Received' = [Received EXCEPT ![t] = <<>>]
    BY <1>5 DEF Return, Received, TypeOK
  <2>2. \A v \in Tasks \ {t} : Sending'[v] = Sending[v]
    BY <1>5 DEF Return, Sending, TypeOK
  <2>3. Sent' = [Sent EXCEPT ![t] = 0]
    BY <1>5 DEF Return, Sent, TypeOK
  <2>4. Channel!Open(t)
    BY <1>3, <1>5, <1>t, <2>1, <2>2, <2>3 DEF Channel!Open, Return
  <2> QED
    BY <2>4 DEF Channel!Next
<1>6. ASSUME UNCHANGED <<ring, op, data, count>> PROVE UNCHANGED Channel!chan
  BY <1>3, <1>6 DEF Channel!chan, Sending, Sent, Received
<1>7. ASSUME NEW t \in Tasks,
             Close(t) \/ Wait(t) \/ Settle(t) \/ CopyDone(t) \/ Poll(t)
               \/ DropTemp(t) \/ Drop(t) \/ DropDone(t)
      PROVE  UNCHANGED <<ring, op, data, count>>
  BY <1>7 DEF Close, Wait, Settle, CopyDone, Poll, DropTemp, Drop, DropDone, call
<1>8. CASE UNCHANGED vars
  <2>1. UNCHANGED <<ring, op, data, count>>
    BY <1>8 DEF vars, ring
  <2> QED
    BY <2>1, <1>6
<1>9. CASE Next
  <2>1. PICK t \in Tasks : Call(t) \/ Close(t) \/ Step(t)
    BY <1>9 DEF Next
  <2> QED
    BY <2>1, <1>1, <1>2, <1>4, <1>5, <1>6, <1>7 DEF Step
<1> QED
  BY <1>8, <1>9

\* The pipe implements the byte channel: a FIFO queue of capacity PIPE_BUF - 1
\* in which no byte is lost, duplicated, reordered or handed to two readers.
THEOREM PipeImplementsChannel == Spec => ImplementsChannel
<1>1. PipeInv /\ PipeInv' /\ [Next]_vars => [Channel!Next]_(Channel!chan)
  BY StepChannel
<1> QED
  BY <1>1, InitPipeInv, NextPipeInv, InitChannel, PTL
     DEF Spec, ImplementsChannel, Channel!Spec
-----------------------------------------------------------------------------
(* What is told of the other end stays true *)

\* An end nobody holds stays so: calls begin through an end of VFS_MAP, and
\* Weak::upgrade makes a temporary Arc only of an end that exists.
LEMMA GoneStaysGone ==
  ASSUME PipeInv, NEW t \in Tasks, Call(t) \/ Close(t) \/ Step(t),
         NEW e \in Ends, ~Strong(e)
  PROVE  ~Strong(e)'
<1> USE DEF PipeInv, TypeOK, Strong, CallRefs, TempRefs, InCall
<1>0. e \notin map /\ CallRefs(e) = {} /\ TempRefs(e) = {}
  OBVIOUS
<1>1. \A u \in Tasks : /\ ~(pc[u] \in InCall /\ end[u] = e)
                       /\ ~(pc[u] = "upgraded" /\ Checked(u) = e)
                       /\ ~(pc[u] = "dropchk" /\ Other(end[u]) = e)
  BY <1>0
<1>2. ASSUME e \notin map',
             \A u \in Tasks : /\ ~(pc'[u] \in InCall /\ end'[u] = e)
                              /\ ~(pc'[u] = "upgraded" /\ Checked(u)' = e)
                              /\ ~(pc'[u] = "dropchk" /\ Other(end'[u]) = e)
      PROVE  ~Strong(e)'
  BY <1>2
<1>3. CASE Call(t)
  <2>1. PICK u \in Uses, s \in Strings : Call(t)!2!(u, s)
    BY <1>3 DEF Call
  <2>2. u[2] # e
    BY <1>0, <2>1
  <2> QED
    BY <1>1, <1>2, <1>3, <2>1, <2>2, <1>0 DEF Call, Checked
<1>4. CASE Close(t)
  BY <1>0, <1>1, <1>2, <1>4, ZenonT(60) DEF Close, Checked
<1>5. CASE Wait(t)
  <2>1. UNCHANGED <<map, op, end>>
    BY <1>5 DEF Wait, call
  <2>2. pc'[t] = "upgraded" => Checked(t) # e
    BY <1>0, <1>5 DEF Wait, Upgraded
  <2>3. pc'[t] \in {"try", "ret", "upgraded"} /\ pc[t] = "try"
    BY <1>5 DEF Wait, Upgraded
  <2> QED
    BY <1>0, <1>1, <1>2, <2>1, <2>2, <2>3, OthersUntouched DEF Checked
<1>6. CASE Poll(t)
  <2>1. UNCHANGED <<map, op, end>>
    BY <1>6 DEF Poll
  <2>2. pc'[t] = "upgraded" => Checked(t) # e
    BY <1>0, <1>6 DEF Poll, Upgraded
  <2>3. pc'[t] \in {"ret", "upgraded"} /\ pc[t] = "try"
    BY <1>6 DEF Poll, Upgraded
  <2> QED
    BY <1>0, <1>1, <1>2, <2>1, <2>2, <2>3, OthersUntouched DEF Checked
<1>7. CASE Settle(t)
  BY <1>0, <1>1, <1>2, <1>7 DEF Settle, Checked
<1>8. CASE WriteByte(t)
  BY <1>0, <1>1, <1>2, <1>8 DEF WriteByte, Checked
<1>9. CASE ReadByte(t)
  BY <1>0, <1>1, <1>2, <1>9 DEF ReadByte, Checked
<1>10. CASE CopyDone(t)
  BY <1>0, <1>1, <1>2, <1>10 DEF CopyDone, Checked, call
<1>11. CASE DropTemp(t)
  BY <1>0, <1>1, <1>2, <1>11 DEF DropTemp, Checked, call
<1>12. CASE Return(t)
  <2>1. pc'[t] \in {"drop", "idle"} /\ map' = map
    BY <1>12 DEF Return
  <2>2. \A u \in Tasks \ {t} : pc'[u] = pc[u] /\ end'[u] = end[u] /\ op'[u] = op[u]
    BY <1>12 DEF Return
  <2> QED
    BY <1>0, <1>1, <1>2, <2>1, <2>2 DEF Checked
<1>13. CASE Drop(t)
  <2>1. pc'[t] = "dropchk" => Other(end[t]) # e /\ end' = end
    BY <1>0, <1>13 DEF Drop
  <2>2. pc'[t] \in {"dropchk", "idle"} /\ map' = map /\ op' = op
    BY <1>13 DEF Drop
  <2>3. \A u \in Tasks \ {t} : pc'[u] = pc[u] /\ end'[u] = end[u]
    BY <1>13 DEF Drop
  <2> QED
    BY <1>0, <1>1, <1>2, <2>1, <2>2, <2>3 DEF Checked
<1>14. CASE DropDone(t)
  <2>1. pc'[t] \in {"stuck", "idle"} /\ map' = map /\ op' = op
    BY <1>14 DEF DropDone
  <2>2. \A u \in Tasks \ {t} : pc'[u] = pc[u] /\ end'[u] = end[u]
    BY <1>14 DEF DropDone
  <2> QED
    BY <1>0, <1>1, <1>2, <2>1, <2>2 DEF Checked
<1> QED
  BY <1>3, <1>4, <1>5, <1>6, <1>7, <1>8, <1>9, <1>10, <1>11, <1>12, <1>13, <1>14 DEF Step

\* A poll reports the loss of an end that is gone while it looks; every other
\* step leaves the results of polls alone or forgets them.
LEMMA ReportIsTrue ==
  ASSUME PipeInv, NEW t \in Tasks, Call(t) \/ Close(t) \/ Step(t), NEW u \in Tasks
  PROVE  \/ revents'[u] \subseteq revents[u]
         \/ /\ "HUP" \in revents'[u] => ~Strong("w")
            /\ "ERR" \in revents'[u] => ~Strong("r")
<1> USE DEF PipeInv, TypeOK
<1>1. CASE Poll(t)
  <2>1. /\ "HUP" \in revents'[t] => ~Strong("w")
        /\ "ERR" \in revents'[t] => ~Strong("r")
    BY <1>1 DEF Poll
  <2>2. u # t => revents'[u] = revents[u]
    BY <1>1 DEF Poll
  <2> QED
    BY <2>1, <2>2
<1>2. CASE Return(t)
  BY <1>2 DEF Return
<1>3. ASSUME ~Poll(t), ~Return(t) PROVE revents' = revents
  BY <1>3 DEF Step, Call, Close, Wait, Settle, WriteByte, ReadByte, CopyDone, DropTemp, Drop,
     DropDone, call
<1> QED
  BY <1>1, <1>2, <1>3

\* poll tells of a hangup or an error only what stays true.
LEMMA StepHangup ==
  PipeInv /\ HangupIsFinal /\ [Next]_vars => HangupIsFinal'
<1> SUFFICES ASSUME PipeInv, HangupIsFinal, [Next]_vars PROVE HangupIsFinal'
  OBVIOUS
<1>1. ASSUME NEW t \in Tasks, Call(t) \/ Close(t) \/ Step(t) PROVE HangupIsFinal'
  <2>1. \A e \in Ends : ~Strong(e) => ~Strong(e)'
    BY <1>1, GoneStaysGone
  <2>2. (~Strong("w") => ~Strong("w")') /\ (~Strong("r") => ~Strong("r")')
    BY <2>1 DEF Ends
  <2>3. ASSUME NEW u \in Tasks
        PROVE  /\ "HUP" \in revents'[u] => ~Strong("w")
               /\ "ERR" \in revents'[u] => ~Strong("r")
    BY <1>1, ReportIsTrue DEF HangupIsFinal
  <2> QED
    BY <2>2, <2>3 DEF HangupIsFinal
<1>2. CASE UNCHANGED vars
  BY <1>2 DEF vars, HangupIsFinal, Strong, CallRefs, TempRefs, Checked
<1> QED
  BY <1>1, <1>2 DEF Next

\* A read that returns without a byte has found the writing end gone.
LEMMA StepEof ==
  PipeInv /\ [Next]_vars =>
    [\A t \in Tasks :
       (/\ pc[t] = "try" /\ pc'[t] = "ret"
        /\ op[t] = "read" /\ len[t] > 0 /\ count'[t] = 0)
       => "w" \notin map /\ CallRefs("w") = {}]_vars
<1> SUFFICES ASSUME PipeInv, Next, NEW t \in Tasks, pc[t] = "try", pc'[t] = "ret", op[t] = "read"
             PROVE  "w" \notin map /\ CallRefs("w") = {}
  BY DEF Next
<1>1. PICK u \in Tasks : Call(u) \/ Close(u) \/ Step(u)
  BY DEF Next
<1>2. u = t
  <2>1. u # t => pc'[t] = pc[t]
    BY <1>1, OthersUntouched
  <2> QED
    BY <2>1
<1>3. Wait(t)
  BY <1>1, <1>2 DEF Call, Close, Step, Wait, Settle, WriteByte, ReadByte, CopyDone, Poll,
     DropTemp, Return, Drop, DropDone, PipeInv, TypeOK
<1>4. ~Strong("w")
  BY <1>3 DEF Wait, Upgraded, Checked, PipeInv, TypeOK
<1> QED
  BY <1>4 DEF Strong

\* What a program is told of the other end is final: end of file, HUP and ERR
\* are reported only for an end that no call holds or can ever reach again.
THEOREM EndsAreFinal == Spec => EndIsFinal
<1>1. Init => HangupIsFinal
  BY DEF Init, HangupIsFinal
<1> QED
  BY <1>1, StepHangup, StepEof, InitPipeInv, NextPipeInv, PTL
     DEF Spec, EndIsFinal, EofOnlyAfterLastWriter
==============================================================================
