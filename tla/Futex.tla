------------------------------- MODULE Futex -------------------------------
(***************************************************************************)
(* Futexes of the task domain: FutexWaitManager                            *)
(* (common/task/task/src/futex.rs) and the futex system call               *)
(* (syscall/futex.rs), which runs under the global lock FUTEX_WAITER.      *)
(*                                                                         *)
(* A wait compares the word and enters the queue under that lock, releases *)
(* it and only then calls basic::wait_now.  Wakers may come in between;    *)
(* whether such a wake is remembered is up to the scheduler (external).    *)
(* The user program is a set of threads of one process that store a word   *)
(* and then wake or requeue its waiters.                                   *)
(***************************************************************************)
EXTENDS Naturals, Sequences, FiniteSets

CONSTANTS
  Threads,
  Addrs,       \* user addresses used as futexes
  Vals,        \* values of a futex word
  Bits,        \* bits of a bitset; Bits itself stands for u32::MAX
  Masks,       \* bitsets used with the BITSET operations
  Nums,        \* numbers of tasks to wake or to move
  Targets,     \* pairs <<uaddr, uaddr2>> of the REQUEUE operations
  StickyWake   \* TRUE: a wake before wait_now makes wait_now return

ASSUME FutexAssumption ==
  /\ Nums \subseteq Nat
  /\ Masks \subseteq SUBSET Bits /\ Targets \subseteq Addrs \X Addrs
  /\ StickyWake \in BOOLEAN

VARIABLES
  word,     \* user memory at the futex addresses
  map,      \* FutexWaitManager.map: the queue of each address
  pc,       \* "user", "queued" (before wait_now), "asleep", "ready" (woken)
  uaddr,    \* address a waiting thread named
  val,      \* value it expected there
  bitset,   \* its bitset
  signal    \* addresses a thread has stored to and not woken yet

vars == <<word, map, pc, uaddr, val, bitset, signal>>
args == <<uaddr, val, bitset>>

Queued(t, f) == \E i \in DOMAIN map[f] : map[f][i] = t

Init ==
  /\ word \in [Addrs -> Vals]
  /\ map = [f \in Addrs |-> <<>>]
  /\ pc = [t \in Threads |-> "user"]
  /\ uaddr \in [Threads -> Addrs] /\ \A t, u \in Threads : uaddr[t] = uaddr[u]
  /\ val \in [Threads -> Vals] /\ \A t, u \in Threads : val[t] = val[u]
  /\ bitset = [t \in Threads |-> Bits]
  /\ signal = [t \in Threads |-> {}]

\* the program changes a word; it owes its waiters a wake
Store(t) ==
  /\ pc[t] = "user" /\ signal[t] = {}
  /\ \E f \in Addrs, v \in Vals :
       word[f] # v /\ word' = [word EXCEPT ![f] = v] /\ signal' = [signal EXCEPT ![t] = {f}]
  /\ UNCHANGED <<map, pc, args>>

-----------------------------------------------------------------------------
(* FutexWait, FutexWaitBitset *)

\* mutant: the word is not compared under the lock
Compare_Never(t, f, v) == TRUE

\* u_value != val returns EAGAIN
Compare(t, f, v) == word[f] = v

Wait(t) ==
  /\ pc[t] = "user" /\ signal[t] = {}
  /\ \E f \in Addrs, v \in Vals, b \in Masks \cup {Bits} :
       /\ Compare(t, f, v)
       /\ uaddr' = [uaddr EXCEPT ![t] = f]
       /\ val' = [val EXCEPT ![t] = v]
       /\ bitset' = [bitset EXCEPT ![t] = b]
       /\ map' = [map EXCEPT ![f] = Append(@, t)]
  /\ pc' = [pc EXCEPT ![t] = "queued"]
  /\ UNCHANGED <<word, signal>>

\* basic::wait_now, after the lock is released
WaitNow(t) ==
  /\ pc[t] = "queued"
  /\ pc' = [pc EXCEPT ![t] = "asleep"]
  /\ UNCHANGED <<word, map, args, signal>>

\* the woken task runs again; nothing ever sets timeout_flag, so the call returns
\* 0 and a timeout changes nothing
Resume(t) ==
  /\ pc[t] = "ready"
  /\ pc' = [pc EXCEPT ![t] = "user"]
  /\ bitset' = [bitset EXCEPT ![t] = Bits]
  /\ UNCHANGED <<word, map, uaddr, val, signal>>

-----------------------------------------------------------------------------
(* FutexWaitManager *)

\* positions of queue q whose waiters have a bit of b
Matching(q, b) == {i \in DOMAIN q : bitset[q[i]] \cap b # {}}

\* mutant: the queue is served from its end
FirstOf_Last(q, n, b) ==
  {i \in Matching(q, b) : Cardinality({j \in Matching(q, b) : j > i}) < n}

\* the first n of them
FirstOf(q, n, b) ==
  {i \in Matching(q, b) : Cardinality({j \in Matching(q, b) : j < i}) < n}

\* the waiters that wake(futex, num, bitset) takes out of the queue
WakeSet(f, n, b) == {map[f][i] : i \in FirstOf(map[f], n, b)}

\* the waiters that are not taken out move up
Without(q, S) ==
  LET rest[i \in 0 .. Len(q)] ==
        IF i = 0 THEN <<>>
        ELSE IF q[i] \in S THEN rest[i - 1] ELSE Append(rest[i - 1], q[i])
  IN rest[Len(q)]

\* wake_up_wait_task for each of them
WakeUp(S) ==
  [t \in Threads |->
     IF t \in S /\ (pc[t] = "asleep" \/ StickyWake) THEN "ready" ELSE pc[t]]

\* mutant: the waiters that stay behind are not put back
requeue_Forget(m, to, n, from) ==
  IF n = 0 THEN m
  ELSE LET q == m[from]
           split == Len(q) - (IF n < Len(q) THEN n ELSE Len(q))
       IN [m EXCEPT ![from] = <<>>, ![to] = @ \o SubSeq(q, split + 1, Len(q))]

\* mutant: an emptied queue leaves a hole in the map
requeue_Hole(m, to, n, from) ==
  IF n = 0 \/ n < Len(m[from]) THEN m
  ELSE [f \in DOMAIN m \ {from} |-> IF f = to THEN m[to] \o m[from] ELSE m[f]]

\* requeue: the entry is removed, the last n waiters go to the end of the other
\* queue, the rest is inserted again under the old key
requeue(m, to, n, from) ==
  IF n = 0 THEN m
  ELSE LET q == m[from]
           split == Len(q) - (IF n < Len(q) THEN n ELSE Len(q))
           moved == [[m EXCEPT ![from] = <<>>] EXCEPT
                        ![to] = @ \o SubSeq(q, split + 1, Len(q))]
       IN IF split = 0 THEN moved
          ELSE [moved EXCEPT ![from] = SubSeq(q, 1, split)]

-----------------------------------------------------------------------------
(* FutexWake, FutexWakeBitset *)

Wake(t) ==
  /\ pc[t] = "user"
  /\ \E f \in Addrs, n \in Nums, b \in Masks \cup {Bits} :
       /\ pc' = WakeUp(WakeSet(f, n, b))
       /\ map' = [map EXCEPT ![f] = Without(@, WakeSet(f, n, b))]
       /\ signal' = [signal EXCEPT ![t] = IF b = Bits /\ n >= Cardinality(Threads)
                                          THEN @ \ {f} ELSE @]
  /\ UNCHANGED <<word, args>>

(* FutexRequeue, and FutexCmpRequeuePi when the word is as expected *)
Requeue(t) ==
  /\ pc[t] = "user"
  /\ \E p \in Targets, n, m \in Nums :
       LET S == WakeSet(p[1], n, Bits) IN
         /\ pc' = WakeUp(S)
         /\ map' = requeue([map EXCEPT ![p[1]] = Without(@, S)], p[2], m, p[1])
  /\ UNCHANGED <<word, args, signal>>

Next == \E t \in Threads : Store(t) \/ Wait(t) \/ WaitNow(t) \/ Resume(t)
                             \/ Wake(t) \/ Requeue(t)

Spec == Init /\ [][Next]_vars

-----------------------------------------------------------------------------
(* Properties *)

\* Types of the queues and of the arguments of a wait.
TypeOK ==
  /\ word \in [Addrs -> Vals]
  /\ map \in [Addrs -> Seq(Threads)]
  /\ pc \in [Threads -> {"user", "queued", "asleep", "ready"}]
  /\ uaddr \in [Threads -> Addrs] /\ val \in [Threads -> Vals]
  /\ bitset \in [Threads -> SUBSET Bits]
  /\ signal \in [Threads -> SUBSET Addrs]

Blocked(t) == pc[t] \in {"queued", "asleep"}

\* A thread blocked in futex is in exactly one queue, exactly once, and no
\* other thread is in any: wake and requeue neither lose nor double a waiter.
EveryWaiterQueuedOnce ==
  \A t \in Threads :
    Cardinality({p \in Addrs \X (1 .. Cardinality(Threads)) :
                   p[2] \in DOMAIN map[p[1]] /\ map[p[1]][p[2]] = t})
      = IF Blocked(t) THEN 1 ELSE 0

\* No wake is missed: a thread still waiting where it said it would is waiting
\* for a word that has its expected value, or the thread that changed the word
\* has yet to wake it.  This is why the word is compared under the lock.
NoMissedWake ==
  \A t \in Threads, f \in Addrs :
    Blocked(t) /\ uaddr[t] = f /\ Queued(t, f) /\ word[f] # val[t]
      => \E u \in Threads : f \in signal[u]

\* Waiters with the same bitset are woken in the order they arrived.
NoOvertaking ==
  [][\A f \in Addrs : \A i, j \in DOMAIN map[f] :
       LET t == map[f][i]  u == map[f][j] IN
         i < j /\ bitset[t] = bitset[u] /\ pc'[u] = "ready" => pc'[t] = "ready"]_vars

\* wait, wake and requeue lose neither a waiter nor a wake.
NoWaiterIsLost == TypeOK /\ EveryWaiterQueuedOnce /\ NoMissedWake
=============================================================================
