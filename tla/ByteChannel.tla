---------------------------- MODULE ByteChannel ----------------------------
(***************************************************************************)
(* What a pipe promises its users: one first-in first-out queue of bytes   *)
(* of bounded capacity.  A writer's bytes enter it one after the other, a  *)
(* byte is taken from the front by exactly one task and lands at the end   *)
(* of that task's buffer.                                                  *)
(***************************************************************************)
EXTENDS Naturals, Sequences

CONSTANTS Tasks, Bytes, Capacity

VARIABLES
  queue,     \* bytes accepted and not yet delivered, oldest first
  sending,   \* sending[t]: the bytes that the current write of t offers
  sent,      \* sent[t]: how many of them were accepted
  received   \* received[t]: bytes the current read of t has obtained

chan == <<queue, sending, sent, received>>

Init ==
  /\ queue = <<>>
  /\ sending = [t \in Tasks |-> <<>>]
  /\ sent = [t \in Tasks |-> 0]
  /\ received = [t \in Tasks |-> <<>>]

\* a call of t begins, or ends
Open(t) ==
  /\ sending' \in [Tasks -> Seq(Bytes)]
  /\ \A u \in Tasks \ {t} : sending'[u] = sending[u]
  /\ sent' = [sent EXCEPT ![t] = 0]
  /\ received' = [received EXCEPT ![t] = <<>>]
  /\ UNCHANGED queue

Enqueue(t) ==
  /\ Len(queue) < Capacity
  /\ sent[t] < Len(sending[t])
  /\ queue' = Append(queue, sending[t][sent[t] + 1])
  /\ sent' = [sent EXCEPT ![t] = @ + 1]
  /\ UNCHANGED <<sending, received>>

Dequeue(t) ==
  /\ queue # <<>>
  /\ queue' = Tail(queue)
  /\ received' = [received EXCEPT ![t] = Append(@, Head(queue))]
  /\ UNCHANGED <<sending, sent>>

Next == \E t \in Tasks : Open(t) \/ Enqueue(t) \/ Dequeue(t)

Spec == Init /\ [][Next]_chan
=============================================================================
