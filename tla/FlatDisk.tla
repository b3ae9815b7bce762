------------------------------ MODULE FlatDisk ------------------------------
(***************************************************************************)
(* What the block cache promises its users: one array of bytes.  A call    *)
(* reads or writes a range in pieces, each of them atomic and inside one   *)
(* frame; calls of several tasks interleave between pieces.  A call may    *)
(* die of a failing device and take the contents of one frame with it.     *)
(***************************************************************************)
EXTENDS Naturals, Sequences

CONSTANTS Tasks, Bytes, Size, Frame

VARIABLES
  mem,     \* the array
  op,      \* the call of each task, "none" between calls, "dead" after a panic
  start,   \* first address of the call
  data,    \* bytes to write, or bytes read so far
  len,     \* length of the range
  done     \* bytes transferred so far

disk == <<mem, op, start, data, len, done>>
range == <<start, len>>

Init ==
  /\ mem \in [0 .. Size - 1 -> Bytes]
  /\ op = [t \in Tasks |-> "none"]
  /\ start = [t \in Tasks |-> 0] /\ len = [t \in Tasks |-> 0]
  /\ data = [t \in Tasks |-> <<>>] /\ done = [t \in Tasks |-> 0]

Begin(t) ==
  /\ op[t] = "none"
  /\ \E o \in {"read", "write"}, a \in 0 .. Size, n \in 0 .. Size :
       /\ a + n <= Size
       /\ op' = [op EXCEPT ![t] = o]
       /\ start' = [start EXCEPT ![t] = a]
       /\ len' = [len EXCEPT ![t] = n]
       /\ IF o = "read"
          THEN data' = [data EXCEPT ![t] = <<>>]
          ELSE Len(data'[t]) = n /\ \A u \in Tasks \ {t} : data'[u] = data[u]
  /\ UNCHANGED <<mem, done>>

\* the next n bytes, none of them in another frame than the first
Piece(t, n) ==
  LET a == start[t] + done[t] IN
    /\ done[t] + n <= len[t]
    /\ a \div Frame = (a + n - 1) \div Frame
    /\ done' = [done EXCEPT ![t] = @ + n]
    /\ UNCHANGED <<op, range>>
    /\ \/ /\ op[t] = "read"
          /\ data' = [data EXCEPT ![t] = @ \o [i \in 1..n |-> mem[a + i - 1]]]
          /\ UNCHANGED mem
       \/ /\ op[t] = "write"
          /\ mem' = [x \in DOMAIN mem |->
               IF x \in a .. a + n - 1 THEN data[t][x - start[t] + 1] ELSE mem[x]]
          /\ UNCHANGED data

End(t) ==
  /\ op[t] \in {"read", "write"} /\ done[t] = len[t]
  /\ op' = [op EXCEPT ![t] = "none"]
  /\ start' = [start EXCEPT ![t] = 0] /\ len' = [len EXCEPT ![t] = 0]
  /\ data' = [data EXCEPT ![t] = <<>>] /\ done' = [done EXCEPT ![t] = 0]
  /\ UNCHANGED mem

\* a panic inside the call
Die(t) ==
  /\ op[t] \in {"read", "write"} /\ done[t] < len[t]
  /\ op' = [op EXCEPT ![t] = "dead"]
  /\ mem' \in [0 .. Size - 1 -> Bytes]
  /\ \A x, y \in DOMAIN mem : mem'[x] # mem[x] /\ mem'[y] # mem[y] => x \div Frame = y \div Frame
  /\ UNCHANGED <<range, data, done>>

Next == \E t \in Tasks : Begin(t) \/ End(t) \/ Die(t) \/ \E n \in 1..Size : Piece(t, n)

Spec == Init /\ [][Next]_disk
=============================================================================
