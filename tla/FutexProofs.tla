----------------------------- MODULE FutexProofs -----------------------------
(***************************************************************************)
(* Proofs about Futex for any number of threads, addresses and bits.       *)
(***************************************************************************)
EXTENDS Futex, FiniteSetTheorems, SequenceTheorems, TLAPS

\* A set of naturals that is not empty has a least element.
LEMMA LeastOf ==
  ASSUME NEW T \in SUBSET Nat, T # {}
  PROVE  \E x \in T : \A y \in T : x <= y
<1> DEFINE R == OpToRel(<, Nat)
<1>1. IsWellFoundedOn(R, Nat)
  BY NatLessThanWellFounded
<1>2. \E x \in T : \A y \in T : ~ (<<y, x>> \in R)
  <2> HIDE DEF R
  <2> QED
    BY <1>1, WFMin
<1>3. \A x, y \in T : ~ (<<y, x>> \in R) => x <= y
  BY SMT DEF OpToRel
<1> QED
  BY <1>2, <1>3

\* Induction up to a bound, with the property as a set of numbers.
LEMMA UpTo ==
  ASSUME NEW N \in Nat, NEW T \in SUBSET (0 .. N), 0 \in T,
         \A n \in 0 .. N - 1 : n \in T => n + 1 \in T
  PROVE  T = 0 .. N
<1> SUFFICES ASSUME NEW m \in 0 .. N, m \notin T PROVE FALSE
  OBVIOUS
<1> DEFINE U == {n \in Nat : n \in 0 .. N /\ n \notin T}
<1>1. U # {} /\ U \in SUBSET Nat
  OBVIOUS
<1>2. PICK x \in U : \A y \in U : x <= y
  <2> HIDE DEF U
  <2> QED
    BY <1>1, LeastOf
<1>3. x # 0 /\ x - 1 \in 0 .. N - 1
  BY <1>2
<1>4. x - 1 \in T
  BY <1>2, <1>3
<1>5. x \in T
  BY <1>3, <1>4
<1> QED
  BY <1>2, <1>5

-----------------------------------------------------------------------------
(* The queue that is left *)

\* f is the function that Without computes, as far as place n of the queue.
IsRest(f, q, S, n) ==
  f = [i \in 0 .. n |->
         IF i = 0 THEN <<>>
         ELSE IF q[i] \in S THEN f[i - 1] ELSE Append(f[i - 1], q[i])]

\* What Without computes is well defined: the function its definition chooses exists.
LEMMA RestExists ==
  ASSUME NEW T, NEW q \in Seq(T), NEW S
  PROVE  \E f : IsRest(f, q, S, Len(q))
<1> DEFINE Good(f, n) == IsRest(f, q, S, n)
<1> USE DEF IsRest
<1> DEFINE D == {n \in 0 .. Len(q) : \E f : Good(f, n)}
<1>1. 0 \in D
  <2>1. Good([i \in 0 .. 0 |-> <<>>], 0)
    OBVIOUS
  <2> HIDE DEF Good
  <2> QED
    BY <2>1
<1>2. ASSUME NEW n \in 0 .. Len(q) - 1, n \in D PROVE n + 1 \in D
  <2>1. PICK f : Good(f, n)
    BY <1>2
  <2> DEFINE g == [i \in 0 .. n + 1 |->
                     IF i = n + 1
                       THEN IF q[n + 1] \in S THEN f[n] ELSE Append(f[n], q[n + 1])
                       ELSE f[i]]
  <2>2. ASSUME NEW i \in 0 .. n + 1
        PROVE  g[i] = IF i = 0 THEN <<>>
                      ELSE IF q[i] \in S THEN g[i - 1] ELSE Append(g[i - 1], q[i])
    <3>1. i = n + 1 => g[i - 1] = f[n]
      OBVIOUS
    <3>2. i # n + 1 => i \in 0 .. n /\ g[i] = f[i] /\ (i # 0 => g[i - 1] = f[i - 1])
      OBVIOUS
    <3>3. i \in 0 .. n => f[i] = IF i = 0 THEN <<>>
                      ELSE IF q[i] \in S THEN f[i - 1] ELSE Append(f[i - 1], q[i])
      BY <2>1, Zenon
    <3> QED
      BY <3>1, <3>2, <3>3
  <2>3. Good(g, n + 1)
    <3> HIDE DEF g
    <3> SUFFICES g = [i \in 0 .. n + 1 |-> g[i]]
      BY <2>2, Zenon
    <3> QED
      BY DEF g
  <2> HIDE DEF Good
  <2> QED
    BY <2>3
<1>3. Len(q) \in Nat /\ D \in SUBSET (0 .. Len(q))
  OBVIOUS
<1>4. D = 0 .. Len(q)
  <2> HIDE DEF D
  <2> QED
    BY <1>1, <1>2, <1>3, UpTo
<1>5. \E f : Good(f, Len(q))
  <2> HIDE DEF Good
  <2> QED
    BY <1>3, <1>4
<1> QED
  BY <1>5

\* Without leaves exactly the waiters that are not taken out, each as often as
\* the queue held it if it held each once.
LEMMA WithoutKeeps ==
  ASSUME NEW T, NEW q \in Seq(T), NEW S, NEW r, r = Without(q, S)
  PROVE  /\ r \in Seq(T)
         /\ \A i \in DOMAIN r : r[i] \notin S /\ \E j \in DOMAIN q : q[j] = r[i]
         /\ \A j \in DOMAIN q : q[j] \notin S => \E i \in DOMAIN r : r[i] = q[j]
         /\ (\A i, j \in DOMAIN q : q[i] = q[j] => i = j)
              => \A i, j \in DOMAIN r : r[i] = r[j] => i = j
<1>1. PICK f : Without(q, S) = f[Len(q)] /\ IsRest(f, q, S, Len(q))
  <2> DEFINE f == CHOOSE f : IsRest(f, q, S, Len(q))
  <2>1. IsRest(f, q, S, Len(q))
    BY RestExists
  <2>2. Without(q, S) = f[Len(q)]
    BY DEF Without, IsRest
  <2> QED
    BY <2>1, <2>2
<1>2. /\ f[0] = <<>>
      /\ \A n \in 0 .. Len(q) - 1 :
           f[n + 1] = IF q[n + 1] \in S THEN f[n] ELSE Append(f[n], q[n + 1])
  <2>1. \A i \in 0 .. Len(q) :
          f[i] = IF i = 0 THEN <<>>
                 ELSE IF q[i] \in S THEN f[i - 1] ELSE Append(f[i - 1], q[i])
    BY <1>1, Zenon DEF IsRest
  <2>2. Len(q) \in Nat
    OBVIOUS
  <2> QED
    BY <2>1, <2>2
<1> DEFINE Kept(s, n) ==
      /\ s \in Seq(T)
      /\ \A i \in 1 .. Len(s) : s[i] \notin S /\ \E j \in 1 .. n : q[j] = s[i]
      /\ \A j \in 1 .. n : q[j] \notin S => \E i \in 1 .. Len(s) : s[i] = q[j]
      /\ (\A i, j \in 1 .. n : q[i] = q[j] => i = j)
           => \A i, j \in 1 .. Len(s) : s[i] = s[j] => i = j
<1> DEFINE D == {n \in 0 .. Len(q) : Kept(f[n], n)}
<1>3. 0 \in D
  <2>1. Kept(<<>>, 0)
    OBVIOUS
  <2> HIDE DEF Kept
  <2> QED
    BY <1>2, <2>1
<1>4. ASSUME NEW n \in 0 .. Len(q) - 1, n \in D PROVE n + 1 \in D
  <2>1. PICK s : s = f[n] /\ Kept(s, n)
    BY <1>4
  <2>2. n \in Nat /\ n + 1 \in 0 .. Len(q) /\ Len(s) \in Nat
    BY <2>1
  <2>3. Kept(f[n + 1], n + 1)
    <3>1. CASE q[n + 1] \in S
      <4>1. f[n + 1] = s
        BY <1>2, <2>1, <3>1
      <4>2. Kept(s, n + 1)
        <5>1. \A j \in 1 .. n + 1 : q[j] \notin S => j \in 1 .. n
          BY <2>2, <3>1
        <5>2. 1 .. n \subseteq 1 .. n + 1
          BY <2>2
        <5> QED
          BY <2>1, <5>1, <5>2
      <4> HIDE DEF Kept
      <4> QED
        BY <4>1, <4>2
    <3>2. CASE q[n + 1] \notin S
      <4> DEFINE a == Append(s, q[n + 1])
      <4>1. f[n + 1] = a
        BY <1>2, <2>1, <3>2
      <4>2. /\ a \in Seq(T) /\ Len(a) = Len(s) + 1
            /\ a[Len(s) + 1] = q[n + 1]
            /\ \A i \in 1 .. Len(s) : a[i] = s[i]
        BY <2>1, <2>2
      <4> HIDE DEF a
      <4>3. ASSUME NEW i \in 1 .. Len(a)
            PROVE  i \in 1 .. Len(s) \/ i = Len(s) + 1
        BY <2>2, <4>2
      <4>4. ASSUME NEW i \in 1 .. n + 1
            PROVE  i \in 1 .. n \/ i = n + 1
        BY <2>2
      <4>5. 1 .. n \subseteq 1 .. n + 1 /\ n + 1 \in 1 .. n + 1 /\ n + 1 \notin 1 .. n
        BY <2>2
      <4>6. 1 .. Len(s) \subseteq 1 .. Len(a) /\ Len(s) + 1 \in 1 .. Len(a)
        BY <2>2, <4>2
      <4>7. \A i \in 1 .. Len(a) : a[i] \notin S /\ \E j \in 1 .. n + 1 : q[j] = a[i]
        <5>1. ASSUME NEW i \in 1 .. Len(s)
              PROVE  a[i] \notin S /\ \E j \in 1 .. n + 1 : q[j] = a[i]
          <6>1. a[i] = s[i] /\ s[i] \notin S
            BY <2>1, <4>2
          <6>2. PICK j \in 1 .. n : q[j] = s[i]
            BY <2>1
          <6> QED
            BY <4>5, <6>1, <6>2
        <5> QED
          BY <3>2, <4>2, <4>3, <4>5, <5>1
      <4>8. \A j \in 1 .. n + 1 : q[j] \notin S => \E i \in 1 .. Len(a) : a[i] = q[j]
        <5>1. ASSUME NEW j \in 1 .. n, q[j] \notin S
              PROVE  \E i \in 1 .. Len(a) : a[i] = q[j]
          <6>1. PICK i \in 1 .. Len(s) : s[i] = q[j]
            BY <2>1, <5>1
          <6> QED
            BY <4>2, <4>6, <6>1
        <5> QED
          BY <4>2, <4>4, <4>6, <5>1
      <4>9. ASSUME \A i, j \in 1 .. n + 1 : q[i] = q[j] => i = j
            PROVE  \A i, j \in 1 .. Len(a) : a[i] = a[j] => i = j
        <5>1. \A i, j \in 1 .. Len(s) : s[i] = s[j] => i = j
          BY <2>1, <4>5, <4>9, Zenon
        <5>2. \A i \in 1 .. Len(s) : s[i] # q[n + 1]
          <6> SUFFICES ASSUME NEW i \in 1 .. Len(s), s[i] = q[n + 1] PROVE FALSE
            OBVIOUS
          <6>1. PICK j \in 1 .. n : q[j] = s[i]
            BY <2>1
          <6>2. j = n + 1
            BY <4>5, <4>9, <6>1
          <6> QED
            BY <4>5, <6>1, <6>2
        <5> QED
          BY <4>2, <4>3, <5>1, <5>2, Zenon
      <4>10. Kept(a, n + 1)
        BY <4>2, <4>7, <4>8, <4>9
      <4> HIDE DEF Kept
      <4> QED
        BY <4>1, <4>10
    <3> QED
      BY <3>1, <3>2
  <2> HIDE DEF Kept
  <2> QED
    BY <2>2, <2>3
<1>5. D = 0 .. Len(q)
  <2>1. Len(q) \in Nat /\ D \in SUBSET (0 .. Len(q))
    OBVIOUS
  <2> HIDE DEF D
  <2> QED
    BY <1>3, <1>4, <2>1, UpTo
<1>6. Kept(f[Len(q)], Len(q))
  <2>1. Len(q) \in 0 .. Len(q)
    OBVIOUS
  <2> QED
    BY <1>5, <2>1
<1>7. r = f[Len(q)] /\ DOMAIN q = 1 .. Len(q) /\ DOMAIN r = 1 .. Len(r)
  BY <1>1, <1>6
<1> QED
  BY <1>6, <1>7

-----------------------------------------------------------------------------
(* The queues *)

\* Thread t is in the queue of futex f in the map m.
Holds(m, t, f) == \E i \in DOMAIN m[f] : m[f][i] = t

\* No thread is in two places of the queues of m.
Single(m) ==
  \A f, g \in Addrs : \A i \in DOMAIN m[f], j \in DOMAIN m[g] :
    m[f][i] = m[g][j] => f = g /\ i = j

\* The queues of a FutexWaitManager that holds nobody twice.
Queues == {m \in [Addrs -> Seq(Threads)] : Single(m)}

\* The map m after add_waiter of t at f.
AddTo(m, f, t) == [m EXCEPT ![f] = Append(@, t)]

\* add_waiter of a thread that waits nowhere.
LEMMA AddKeeps ==
  ASSUME NEW m \in Queues, NEW f \in Addrs, NEW t \in Threads,
         \A g \in Addrs : ~ Holds(m, t, g),
         NEW r, r = AddTo(m, f, t)
  PROVE  /\ r \in Queues
         /\ \A u \in Threads, g \in Addrs : Holds(r, u, g) <=> Holds(m, u, g) \/ (u = t /\ g = f)
<1> DEFINE n == Len(m[f]) + 1
<1>1. /\ r \in [Addrs -> Seq(Threads)] /\ m \in [Addrs -> Seq(Threads)]
      /\ n \in Nat /\ n >= 1 /\ DOMAIN m[f] = 1 .. n - 1 /\ DOMAIN r[f] = 1 .. n /\ r[f][n] = t
      /\ \A i \in 1 .. n - 1 : r[f][i] = m[f][i]
      /\ \A g \in Addrs : g # f => r[g] = m[g]
  BY DEF Queues, AddTo
<1> HIDE DEF n
<1>2. /\ \A i \in DOMAIN r[f] : i \in DOMAIN m[f] \/ i = n
      /\ DOMAIN m[f] \subseteq DOMAIN r[f] /\ n \in DOMAIN r[f]
  BY <1>1
<1>3. ASSUME NEW g \in Addrs, NEW i \in DOMAIN r[g]
      PROVE  \/ g = f /\ i = n /\ r[g][i] = t
             \/ i \in DOMAIN m[g] /\ r[g][i] = m[g][i] /\ m[g][i] # t
  BY <1>1, <1>2 DEF Holds
<1>4. Single(r)
  <2> SUFFICES ASSUME NEW g \in Addrs, NEW h \in Addrs,
                      NEW i \in DOMAIN r[g], NEW j \in DOMAIN r[h], r[g][i] = r[h][j]
               PROVE  g = h /\ i = j
    BY DEF Single
  <2>1. Single(m)
    BY DEF Queues
  <2> QED
    BY <1>3, <2>1 DEF Single
<1>5. ASSUME NEW u \in Threads, NEW g \in Addrs
      PROVE  Holds(r, u, g) <=> Holds(m, u, g) \/ (u = t /\ g = f)
  BY <1>1, <1>2, <1>3 DEF Holds
<1> QED
  BY <1>1, <1>4, <1>5 DEF Queues

\* The map m after wake has taken the threads S out of the queue of f.
TakeOut(m, f, S) == [m EXCEPT ![f] = Without(@, S)]

\* Taking the threads S out of one queue.
LEMMA TakeKeeps ==
  ASSUME NEW m \in Queues, NEW f \in Addrs, NEW S,
         NEW r, r = TakeOut(m, f, S)
  PROVE  /\ r \in Queues
         /\ \A u \in Threads, g \in Addrs :
              Holds(r, u, g) <=> Holds(m, u, g) /\ ~ (g = f /\ u \in S)
<1>0. PICK q, p : q = m[f] /\ p = Without(q, S)
  OBVIOUS
<1>1. /\ q \in Seq(Threads) /\ m \in [Addrs -> Seq(Threads)]
      /\ \A i, j \in DOMAIN q : q[i] = q[j] => i = j
  BY <1>0 DEF Queues, Single
<1>2. /\ p \in Seq(Threads)
      /\ \A i \in DOMAIN p : p[i] \notin S /\ \E j \in DOMAIN q : q[j] = p[i]
      /\ \A j \in DOMAIN q : q[j] \notin S => \E i \in DOMAIN p : p[i] = q[j]
      /\ \A i, j \in DOMAIN p : p[i] = p[j] => i = j
  BY <1>0, <1>1, WithoutKeeps
<1>3. r \in [Addrs -> Seq(Threads)] /\ r[f] = p /\ \A g \in Addrs : g # f => r[g] = m[g]
  BY <1>0, <1>1, <1>2 DEF TakeOut
<1>4. ASSUME NEW g \in Addrs, NEW i \in DOMAIN r[g]
      PROVE  \E j \in DOMAIN m[g] : m[g][j] = r[g][i] /\ (g # f => i = j)
  BY <1>0, <1>2, <1>3
<1>5. Single(r)
  <2> SUFFICES ASSUME NEW g \in Addrs, NEW h \in Addrs,
                      NEW i \in DOMAIN r[g], NEW j \in DOMAIN r[h], r[g][i] = r[h][j]
               PROVE  g = h /\ i = j
    BY DEF Single
  <2>1. PICK k \in DOMAIN m[g] : m[g][k] = r[g][i] /\ (g # f => k = i)
    BY <1>4
  <2>2. PICK l \in DOMAIN m[h] : m[h][l] = r[h][j] /\ (h # f => l = j)
    BY <1>4
  <2>3. g = h /\ k = l
    BY <2>1, <2>2 DEF Queues, Single
  <2> QED
    BY <1>2, <1>3, <2>1, <2>2, <2>3
<1>6. ASSUME NEW u \in Threads, NEW g \in Addrs
      PROVE  Holds(r, u, g) <=> Holds(m, u, g) /\ ~ (g = f /\ u \in S)
  <2>1. CASE g = f
    BY <1>0, <1>2, <1>3, <2>1 DEF Holds
  <2>2. CASE g # f
    BY <1>3, <2>2 DEF Holds
  <2> QED
    BY <2>1, <2>2
<1> QED
  BY <1>3, <1>5, <1>6 DEF Queues

\* requeue from one futex to another: every thread stays in one queue, and only
\* those of the first futex may have moved.
LEMMA RequeueKeeps ==
  ASSUME NEW m \in Queues, NEW to \in Addrs, NEW n \in Nat, NEW from \in Addrs, from # to,
         NEW r, r = requeue(m, to, n, from)
  PROVE  /\ r \in Queues
         /\ \A u \in Threads, g \in Addrs :
              Holds(m, u, g) => Holds(r, u, g) \/ (g = from /\ Holds(r, u, to))
         /\ \A u \in Threads, g \in Addrs :
              Holds(r, u, g) => Holds(m, u, g) \/ (g = to /\ Holds(m, u, from))
<1> DEFINE q == m[from]
           l == Len(m[to])
<1>1. q \in Seq(Threads) /\ m \in [Addrs -> Seq(Threads)] /\ l \in Nat /\ Len(q) \in Nat
  BY DEF Queues
<1>2. PICK k \in 0 .. Len(q) :
        /\ r \in [Addrs -> Seq(Threads)]
        /\ r[from] = SubSeq(q, 1, k) /\ r[to] = m[to] \o SubSeq(q, k + 1, Len(q))
        /\ \A g \in Addrs : g \notin {from, to} => r[g] = m[g]
  <2>1. CASE n = 0
    <3>1. r = m /\ SubSeq(q, 1, Len(q)) = q /\ m[to] \o SubSeq(q, Len(q) + 1, Len(q)) = m[to]
      BY <1>1, <2>1 DEF requeue
    <3>2. Len(q) \in 0 .. Len(q)
      BY <1>1
    <3>3. m[from] = q
      OBVIOUS
    <3> HIDE DEF q
    <3> QED
      BY <1>1, <3>1, <3>2, <3>3
  <2>2. CASE n # 0
    <3> DEFINE k == Len(q) - (IF n < Len(q) THEN n ELSE Len(q))
    <3>1. k \in 0 .. Len(q)
      BY <1>1
    <3>2. SubSeq(q, 1, k) \in Seq(Threads) /\ m[to] \o SubSeq(q, k + 1, Len(q)) \in Seq(Threads)
      BY <1>1, <3>1
    <3>3. k = 0 => SubSeq(q, 1, k) = <<>>
      <4> HIDE DEF k
      <4> QED
        BY <1>1, SubSeqEmpty
    <3>4. r = LET moved == [[m EXCEPT ![from] = <<>>] EXCEPT
                              ![to] = @ \o SubSeq(q, k + 1, Len(q))]
              IN IF k = 0 THEN moved ELSE [moved EXCEPT ![from] = SubSeq(q, 1, k)]
      BY <2>2 DEF requeue
    <3> HIDE DEF k, q
    <3> QED
      BY <1>1, <3>1, <3>2, <3>3, <3>4, ZenonT(60)
  <2> QED
    BY <2>1, <2>2
<1>3. /\ DOMAIN r[from] = 1 .. k /\ DOMAIN r[to] = 1 .. l + Len(q) - k
      /\ DOMAIN q = 1 .. Len(q) /\ DOMAIN m[to] = 1 .. l
      /\ \A i \in 1 .. k : r[from][i] = q[i]
      /\ \A i \in 1 .. l : r[to][i] = m[to][i]
      /\ \A i \in l + 1 .. l + Len(q) - k : r[to][i] = q[i - l + k]
  <2> DEFINE front == SubSeq(q, 1, k)
             back == SubSeq(q, k + 1, Len(q))
  <2> HIDE DEF q
  <2>1. /\ front \in Seq(Threads) /\ Len(front) = k
        /\ \A i \in 1 .. k : front[i] = q[i]
    BY <1>1
  <2>2. /\ back \in Seq(Threads) /\ Len(back) = Len(q) - k
        /\ \A i \in 1 .. Len(q) - k : back[i] = q[i + k]
    BY <1>1
  <2> HIDE DEF front, back
  <2>3. m[to] \in Seq(Threads) /\ l = Len(m[to])
    BY <1>1
  <2> HIDE DEF l
  <2>4. /\ DOMAIN (m[to] \o back) = 1 .. l + Len(q) - k
        /\ \A i \in 1 .. l : (m[to] \o back)[i] = m[to][i]
        /\ \A i \in l + 1 .. l + Len(q) - k : (m[to] \o back)[i] = back[i - l]
    BY <1>1, <2>2, <2>3
  <2>5. \A i \in l + 1 .. l + Len(q) - k : back[i - l] = q[i - l + k]
    <3> SUFFICES ASSUME NEW i \in l + 1 .. l + Len(q) - k PROVE back[i - l] = q[i - l + k]
      OBVIOUS
    <3>1. i - l \in 1 .. Len(q) - k
      BY <1>1, <2>3
    <3> QED
      BY <2>2, <3>1
  <2>6. r[from] = front /\ r[to] = m[to] \o back
    BY <1>2 DEF front, back
  <2> QED
    BY <1>1, <2>1, <2>3, <2>4, <2>5, <2>6
<1>4. ASSUME NEW g \in Addrs, NEW i \in DOMAIN r[g]
      PROVE  \/ /\ i \in DOMAIN m[g] /\ m[g][i] = r[g][i] /\ (g = from => i <= k)
             \/ /\ g = to /\ i > l /\ i - l + k \in DOMAIN q /\ i - l + k > k
                /\ i \in Nat /\ q[i - l + k] = r[g][i]
  <2>1. CASE g = from
    BY <1>1, <1>3, <2>1
  <2>2. CASE g = to
    <3> HIDE DEF l, q
    <3>1. i \in 1 .. l + Len(q) - k
      BY <1>3, <2>2
    <3>2. CASE i <= l
      BY <1>1, <1>3, <2>2, <3>1, <3>2
    <3>3. CASE i > l
      <4>1. i \in l + 1 .. l + Len(q) - k /\ i - l + k \in 1 .. Len(q) /\ i - l + k > k
        BY <1>1, <3>1, <3>3
      <4> QED
        BY <1>3, <2>2, <3>1, <3>3, <4>1
    <3> QED
      BY <1>1, <3>1, <3>2, <3>3
  <2>3. CASE g \notin {from, to}
    BY <1>2, <2>3
  <2> QED
    BY <2>1, <2>2, <2>3
<1>5. Single(r)
  <2> SUFFICES ASSUME NEW g \in Addrs, NEW h \in Addrs,
                      NEW i \in DOMAIN r[g], NEW j \in DOMAIN r[h], r[g][i] = r[h][j]
               PROVE  g = h /\ i = j
    BY DEF Single
  <2>1. Single(m)
    BY DEF Queues
  <2> DEFINE Stays(f, x) == /\ x \in DOMAIN m[f] /\ m[f][x] = r[f][x] /\ (f = from => x <= k)
             Moves(f, x) == /\ f = to /\ x - l + k \in DOMAIN q /\ x - l + k > k
                            /\ x \in Nat /\ q[x - l + k] = r[f][x]
  <2>2. (Stays(g, i) \/ Moves(g, i)) /\ (Stays(h, j) \/ Moves(h, j))
    BY <1>4
  <2>3. CASE Stays(g, i) /\ Stays(h, j)
    BY <2>1, <2>3 DEF Single
  <2>4. CASE Moves(g, i) /\ Moves(h, j)
    <3>1. \A x, y \in DOMAIN q : q[x] = q[y] => x = y
      BY <2>1 DEF Single
    <3> HIDE DEF l, q
    <3>2. g = h /\ i - l + k = j - l + k
      BY <2>4, <3>1
    <3> QED
      BY <1>1, <2>4, <3>2
  <2>5. ASSUME NEW f \in Addrs, NEW x, NEW e \in Addrs, NEW y, r[f][x] = r[e][y],
               Stays(f, x), Moves(e, y)
        PROVE  FALSE
    <3>1. \A w \in Addrs : \A a \in DOMAIN m[w], b \in DOMAIN q : m[w][a] = q[b] => w = from /\ a = b
      BY <2>1 DEF Single
    <3>2. f = from /\ x = y - l + k
      <4> HIDE DEF l, q
      <4> QED
        BY <2>5, <3>1
    <3> HIDE DEF l, q
    <3> QED
      BY <1>1, <2>5, <3>2
  <2> QED
    BY <2>2, <2>3, <2>4, <2>5
<1>6. ASSUME NEW u \in Threads, NEW g \in Addrs, Holds(r, u, g)
      PROVE  Holds(m, u, g) \/ (g = to /\ Holds(m, u, from))
  BY <1>4, <1>6 DEF Holds
<1>7. ASSUME NEW u \in Threads, NEW g \in Addrs, Holds(m, u, g)
      PROVE  Holds(r, u, g) \/ (g = from /\ Holds(r, u, to))
  <2>1. PICK i \in DOMAIN m[g] : m[g][i] = u
    BY <1>7 DEF Holds
  <2>2. CASE g = from /\ i > k
    <3>1. i - k + l \in DOMAIN r[to] /\ r[to][i - k + l] = u
      <4> DEFINE x == i - k + l
      <4>1. i \in 1 .. Len(q) /\ q[i] = u
        BY <1>3, <2>1, <2>2
      <4> HIDE DEF l, q
      <4>2. /\ x \in l + 1 .. l + Len(q) - k /\ x - l + k = i
            /\ x \in 1 .. l + Len(q) - k
        BY <1>1, <2>2, <4>1, SMTT(40)
      <4> HIDE DEF x
      <4>3. r[to][x] = u
        BY <1>3, <4>1, <4>2
      <4> QED
        BY <1>3, <4>2, <4>3 DEF x
    <3> QED
      BY <2>2, <3>1 DEF Holds
  <2>3. CASE g = from /\ i <= k
    BY <1>1, <1>3, <2>1, <2>3, SMTT(40) DEF Holds
  <2>4. CASE g = to
    <3>1. i \in DOMAIN r[to] /\ r[to][i] = u
      BY <1>1, <1>3, <2>1, <2>4
    <3> QED
      BY <2>4, <3>1 DEF Holds
  <2>5. CASE g \notin {from, to}
    BY <1>2, <2>1, <2>5 DEF Holds
  <2>6. i \in Nat
    BY <1>1, <2>1
  <2> QED
    BY <2>2, <2>3, <2>4, <2>5, <2>6
<1> QED
  BY <1>2, <1>5, <1>6, <1>7 DEF Queues

-----------------------------------------------------------------------------
(* wait, wake and requeue keep every waiter in one place *)

\* A thread is blocked in futex if and only if it is in some queue.
BlockedAreQueued ==
  \A t \in Threads : Blocked(t) <=> \E f \in Addrs : Holds(map, t, f)

QueueInv == TypeOK /\ Single(map) /\ BlockedAreQueued

\* No program requeues a futex to itself: the code would drop the waiters that move.
NoSelfRequeue == \A p \in Targets : p[1] # p[2]

\* No thread waits when the program starts.
LEMMA InitQueueInv == Init => QueueInv
BY FutexAssumption DEF Init, QueueInv, TypeOK, Single, BlockedAreQueued, Blocked, Holds

\* wake takes only threads of the queue it is called for.
LEMMA WokenWereQueued ==
  ASSUME TypeOK, NEW f \in Addrs, NEW n, NEW b, NEW t \in WakeSet(f, n, b)
  PROVE  t \in Threads /\ Holds(map, t, f)
<1>1. PICK i \in FirstOf(map[f], n, b) : t = map[f][i]
  BY DEF WakeSet
<1>2. i \in DOMAIN map[f]
  BY <1>1 DEF FirstOf, Matching
<1> QED
  BY <1>1, <1>2 DEF TypeOK, Holds

\* The threads of one queue that wake takes become ready; no other thread changes,
\* and who is blocked afterwards is who is in a queue without them.
LEMMA WakeStep ==
  ASSUME StickyWake, QueueInv, NEW f \in Addrs, NEW S \in SUBSET Threads,
         \A t \in S : Holds(map, t, f)
  PROVE  /\ WakeUp(S) \in [Threads -> {"user", "queued", "asleep", "ready"}]
         /\ \A u \in Threads : WakeUp(S)[u] = IF u \in S THEN "ready" ELSE pc[u]
         /\ \A u \in Threads : WakeUp(S)[u] \in {"queued", "asleep"}
                               <=> \E g \in Addrs : Holds(map, u, g) /\ ~ (g = f /\ u \in S)
<1>1. /\ WakeUp(S) \in [Threads -> {"user", "queued", "asleep", "ready"}]
      /\ \A u \in Threads : WakeUp(S)[u] = IF u \in S THEN "ready" ELSE pc[u]
  BY DEF WakeUp, QueueInv, TypeOK
<1>2. ASSUME NEW u \in Threads
      PROVE  WakeUp(S)[u] \in {"queued", "asleep"}
               <=> \E g \in Addrs : Holds(map, u, g) /\ ~ (g = f /\ u \in S)
  <2>1. Blocked(u) <=> \E g \in Addrs : Holds(map, u, g)
    BY DEF QueueInv, BlockedAreQueued
  <2>2. CASE u \in S
    <3>1. \A g \in Addrs : Holds(map, u, g) => g = f
      BY <2>2 DEF QueueInv, Single, Holds
    <3> QED
      BY <1>1, <2>2, <3>1
  <2>3. CASE u \notin S
    BY <1>1, <2>1, <2>3 DEF Blocked
  <2> QED
    BY <2>2, <2>3
<1> QED
  BY <1>1, <1>2

\* A wait puts its thread, which was running, at the end of one queue.
LEMMA WaitQueues ==
  ASSUME QueueInv, NEW t \in Threads, Wait(t)
  PROVE  QueueInv'
<1>1. PICK f \in Addrs, v \in Vals, b \in Masks \cup {Bits} :
        /\ uaddr' = [uaddr EXCEPT ![t] = f]
        /\ val' = [val EXCEPT ![t] = v]
        /\ bitset' = [bitset EXCEPT ![t] = b]
        /\ map' = [map EXCEPT ![f] = Append(@, t)]
  BY DEF Wait
<1>2. /\ pc[t] = "user" /\ pc' = [pc EXCEPT ![t] = "queued"] /\ UNCHANGED <<word, signal>>
  BY DEF Wait
<1>3. map \in Queues /\ \A g \in Addrs : ~ Holds(map, t, g)
  BY <1>2 DEF QueueInv, TypeOK, Queues, BlockedAreQueued, Blocked
<1>4. PICK q, r : q = map /\ r = map'
  OBVIOUS
<1>5. /\ r \in Queues
      /\ \A u \in Threads, g \in Addrs : Holds(r, u, g) <=> Holds(map, u, g) \/ (u = t /\ g = f)
  <2>1. /\ q \in Queues /\ \A g \in Addrs : ~ Holds(q, t, g)
        /\ r = AddTo(q, f, t)
    BY <1>1, <1>3, <1>4 DEF AddTo
  <2> QED
    BY <1>4, <2>1, AddKeeps
<1>6. TypeOK'
  BY <1>1, <1>2, <1>4, <1>5, FutexAssumption DEF QueueInv, TypeOK, Queues
<1>7. Single(map)'
  BY <1>4, <1>5 DEF Queues, Single
<1>8. BlockedAreQueued'
  <2>1. \A u \in Threads, g \in Addrs : Holds(map, u, g)' <=> Holds(r, u, g)
    BY <1>4 DEF Holds
  <2>2. \A u \in Threads : Blocked(u)' <=> Blocked(u) \/ u = t
    BY <1>2 DEF Blocked, QueueInv, TypeOK
  <2> QED
    BY <1>5, <2>1, <2>2 DEF QueueInv, BlockedAreQueued
<1> QED
  BY <1>6, <1>7, <1>8 DEF QueueInv

\* wake and requeue leave each blocked thread in one queue and the others in none.
LEMMA StepQueueInv ==
  ASSUME StickyWake, NoSelfRequeue, QueueInv, [Next]_vars
  PROVE  QueueInv'
<1>1. ASSUME NEW t \in Threads, Store(t) PROVE QueueInv'
  BY <1>1 DEF QueueInv, Store, args, TypeOK, Single, BlockedAreQueued, Blocked, Holds
<1>2. ASSUME NEW t \in Threads, Wait(t) PROVE QueueInv'
  BY <1>2, WaitQueues
<1>3. ASSUME NEW t \in Threads, WaitNow(t) PROVE QueueInv'
  BY <1>3 DEF QueueInv, WaitNow, args, TypeOK, Single, BlockedAreQueued, Blocked, Holds
<1>4. ASSUME NEW t \in Threads, Resume(t) PROVE QueueInv'
  BY <1>4 DEF QueueInv, Resume, TypeOK, Single, BlockedAreQueued, Blocked, Holds
<1>5. ASSUME NEW t \in Threads, Wake(t) PROVE QueueInv'
  <2>1. PICK f \in Addrs, n \in Nums, b \in Masks \cup {Bits} :
          /\ pc' = WakeUp(WakeSet(f, n, b))
          /\ map' = [map EXCEPT ![f] = Without(@, WakeSet(f, n, b))]
          /\ signal' = [signal EXCEPT ![t] = IF b = Bits /\ n >= Cardinality(Threads)
                                             THEN @ \ {f} ELSE @]
    BY <1>5 DEF Wake
  <2>2. PICK S, q, m : S = WakeSet(f, n, b) /\ q = map /\ m = map'
    OBVIOUS
  <2>3. S \in SUBSET Threads /\ \A u \in S : Holds(map, u, f)
    BY <2>2, WokenWereQueued DEF QueueInv
  <2>4. /\ m \in Queues
        /\ \A u \in Threads, g \in Addrs : Holds(m, u, g) <=> Holds(q, u, g) /\ ~ (g = f /\ u \in S)
    <3>1. m = TakeOut(q, f, S) /\ q \in Queues
      BY <2>1, <2>2 DEF QueueInv, TypeOK, Queues, TakeOut
    <3> QED
      BY <3>1, TakeKeeps
  <2>5. /\ pc' \in [Threads -> {"user", "queued", "asleep", "ready"}]
        /\ \A u \in Threads : pc'[u] \in {"queued", "asleep"}
                              <=> \E g \in Addrs : Holds(map, u, g) /\ ~ (g = f /\ u \in S)
    BY <2>1, <2>2, <2>3, WakeStep
  <2>6. TypeOK'
    BY <1>5, <2>1, <2>2, <2>4, <2>5 DEF QueueInv, TypeOK, Queues, Wake, args
  <2> QED
    BY <2>2, <2>4, <2>5, <2>6, SMTT(40) DEF QueueInv, Queues, Single, BlockedAreQueued, Blocked, Holds
<1>6. ASSUME NEW t \in Threads, Requeue(t) PROVE QueueInv'
  <2>1. PICK d \in Targets, n \in Nums, k \in Nums :
          /\ pc' = WakeUp(WakeSet(d[1], n, Bits))
          /\ map' = requeue([map EXCEPT ![d[1]] = Without(@, WakeSet(d[1], n, Bits))],
                            d[2], k, d[1])
    BY <1>6 DEF Requeue
  <2>2. PICK S, q, m, r : /\ S = WakeSet(d[1], n, Bits) /\ q = map /\ r = map'
                          /\ m = TakeOut(q, d[1], S)
    OBVIOUS
  <2>3. d[1] \in Addrs /\ d[2] \in Addrs /\ d[1] # d[2] /\ k \in Nat
    BY FutexAssumption DEF NoSelfRequeue
  <2>4. S \in SUBSET Threads /\ \A u \in S : Holds(map, u, d[1])
    BY <2>2, <2>3, WokenWereQueued DEF QueueInv
  <2>5. /\ m \in Queues
        /\ \A u \in Threads, g \in Addrs :
             Holds(m, u, g) <=> Holds(q, u, g) /\ ~ (g = d[1] /\ u \in S)
    <3>1. q \in Queues /\ d[1] \in Addrs /\ m = TakeOut(q, d[1], S)
      BY <2>2, <2>3 DEF QueueInv, TypeOK, Queues
    <3> QED
      BY <3>1, TakeKeeps
  <2>6. r = requeue(m, d[2], k, d[1])
    BY <2>1, <2>2 DEF TakeOut
  <2>7. /\ r \in Queues
        /\ \A u \in Threads, g \in Addrs :
             Holds(m, u, g) => Holds(r, u, g) \/ (g = d[1] /\ Holds(r, u, d[2]))
        /\ \A u \in Threads, g \in Addrs :
             Holds(r, u, g) => Holds(m, u, g) \/ (g = d[2] /\ Holds(m, u, d[1]))
    BY <2>3, <2>5, <2>6, RequeueKeeps
  <2>8. /\ pc' \in [Threads -> {"user", "queued", "asleep", "ready"}]
        /\ \A u \in Threads : pc'[u] \in {"queued", "asleep"}
                              <=> \E g \in Addrs : Holds(map, u, g) /\ ~ (g = d[1] /\ u \in S)
    BY <2>1, <2>2, <2>3, <2>4, WakeStep
  <2>9. TypeOK'
    BY <1>6, <2>2, <2>7, <2>8 DEF QueueInv, TypeOK, Queues, Requeue, args
  <2>10. \A u \in Threads : (\E g \in Addrs : Holds(m, u, g)) <=> \E g \in Addrs : Holds(r, u, g)
    BY <2>3, <2>7
  <2>11. BlockedAreQueued'
    <3>1. \A u \in Threads, g \in Addrs : Holds(map, u, g)' <=> Holds(r, u, g)
      BY <2>2 DEF Holds
    <3>2. \A u \in Threads, g \in Addrs : Holds(map, u, g) <=> Holds(q, u, g)
      BY <2>2
    <3>3. \A u \in Threads : Blocked(u)' <=> pc'[u] \in {"queued", "asleep"}
      BY DEF Blocked
    <3> QED
      BY <2>5, <2>8, <2>10, <3>1, <3>2, <3>3 DEF BlockedAreQueued
  <2> QED
    BY <2>2, <2>7, <2>9, <2>11 DEF QueueInv, Queues, Single
<1>7. CASE UNCHANGED vars
  BY <1>7 DEF QueueInv, vars, args, TypeOK, Single, BlockedAreQueued, Blocked, Holds
<1> QED
  BY <1>1, <1>2, <1>3, <1>4, <1>5, <1>6, <1>7 DEF Next

\* Every waiter is in one queue, whatever the interleaving.
THEOREM QueuesHold ==
  ASSUME StickyWake, NoSelfRequeue
  PROVE  Spec => []QueueInv
<1>1. QueueInv /\ [Next]_vars => QueueInv'
  BY StepQueueInv
<1> QED
  BY <1>1, InitQueueInv, PTL DEF Spec

-----------------------------------------------------------------------------
(* Counting the waiters *)

\* A queue is no longer than there are threads.
LEMMA QueueIsShort ==
  ASSUME IsFiniteSet(Threads), QueueInv, NEW f \in Addrs
  PROVE  /\ Len(map[f]) \in Nat /\ DOMAIN map[f] = 1 .. Len(map[f])
         /\ Cardinality(Threads) \in Nat /\ Len(map[f]) <= Cardinality(Threads)
<1>1. PICK q, N : q = map[f] /\ N = Len(q)
  OBVIOUS
<1>2. /\ N \in Nat /\ DOMAIN q = 1 .. N /\ q \in [1 .. N -> Threads]
      /\ \A i, j \in 1 .. N : q[i] = q[j] => i = j
  <2>1. q \in Seq(Threads) /\ \A i, j \in DOMAIN q : q[i] = q[j] => i = j
    BY <1>1 DEF QueueInv, TypeOK, Single
  <2> QED
    BY <1>1, <2>1
<1>3. Cardinality(Threads) \in Nat
  BY FS_CardinalityType
<1>4. IsFiniteSet(1 .. N) /\ Cardinality(1 .. N) = N
  BY <1>2, FS_Interval
<1>5. ~ Cardinality(Threads) < N
  BY <1>2, <1>4, FS_PigeonHole
<1> QED
  BY <1>1, <1>2, <1>3, <1>5

\* The invariant as the number of places that hold a thread.
LEMMA OnceFromQueues ==
  ASSUME IsFiniteSet(Threads), QueueInv
  PROVE  EveryWaiterQueuedOnce
<1> SUFFICES ASSUME NEW t \in Threads
             PROVE  Cardinality({p \in Addrs \X (1 .. Cardinality(Threads)) :
                                   p[2] \in DOMAIN map[p[1]] /\ map[p[1]][p[2]] = t})
                      = IF Blocked(t) THEN 1 ELSE 0
  BY DEF EveryWaiterQueuedOnce
<1> DEFINE P == {p \in Addrs \X (1 .. Cardinality(Threads)) :
                   p[2] \in DOMAIN map[p[1]] /\ map[p[1]][p[2]] = t}
<1>1. CASE Blocked(t)
  <2>1. PICK f \in Addrs : Holds(map, t, f)
    BY <1>1 DEF QueueInv, BlockedAreQueued
  <2>2. PICK i \in DOMAIN map[f] : map[f][i] = t
    BY <2>1 DEF Holds
  <2>3. i \in 1 .. Cardinality(Threads)
    BY <2>2, QueueIsShort
  <2>4. \A p \in P : p[1] = f /\ p[2] = i
    BY <2>2 DEF QueueInv, Single
  <2>5. P = {<<f, i>>}
    BY <2>2, <2>3, <2>4
  <2> QED
    BY <1>1, <2>5, FS_Singleton
<1>2. CASE ~ Blocked(t)
  <2>1. P = {}
    BY <1>2 DEF QueueInv, BlockedAreQueued, Holds
  <2> QED
    BY <1>2, <2>1, FS_EmptySet
<1> QED
  BY <1>1, <1>2

-----------------------------------------------------------------------------
(* No wake is missed *)

\* Every bitset that a thread waits with can be matched; a waiter with an empty one
\* is beyond the reach of every wake.
BitsCanMatch == Bits # {} /\ {} \notin Masks

\* Requeues never move a waiter in a circle: the futexes can be numbered so that
\* each requeue moves to a higher number.  A waiter that came back to the futex it
\* named would have missed the wakes there in between.
OneWay == \E rank \in [Addrs -> Nat] : \A p \in Targets : rank[p[1]] < rank[p[2]]

\* A waiter is where it said it waits, or a requeue has moved it further.
Placed(rank) ==
  \A t \in Threads, f \in Addrs :
    Holds(map, t, f) => f = uaddr[t] \/ rank[uaddr[t]] < rank[f]

WakeInv(rank) == Placed(rank) /\ (\A t \in Threads : bitset[t] # {}) /\ NoMissedWake

\* The queues after wake, by who is in them.
LEMMA WakeQueues ==
  ASSUME QueueInv, NEW f \in Addrs, NEW S, map' = TakeOut(map, f, S)
  PROVE  \A u \in Threads, g \in Addrs :
           Holds(map, u, g)' <=> Holds(map, u, g) /\ ~ (g = f /\ u \in S)
<1>1. PICK q, r : q = map /\ r = map'
  OBVIOUS
<1>2. q \in Queues /\ r = TakeOut(q, f, S)
  BY <1>1 DEF QueueInv, TypeOK, Queues
<1>3. \A u \in Threads, g \in Addrs : Holds(r, u, g) <=> Holds(q, u, g) /\ ~ (g = f /\ u \in S)
  BY <1>2, TakeKeeps
<1> QED
  BY <1>1, <1>3 DEF Holds

\* A wake of every bit for as many as there are threads takes the whole queue.
LEMMA WakesAll ==
  ASSUME IsFiniteSet(Threads), QueueInv, \A t \in Threads : bitset[t] # {},
         NEW f \in Addrs, NEW n \in Nat, n >= Cardinality(Threads),
         NEW u \in Threads, Holds(map, u, f)
  PROVE  u \in WakeSet(f, n, Bits)
<1>1. PICK i \in DOMAIN map[f] : map[f][i] = u
  BY DEF Holds
<1> DEFINE M == Matching(map[f], Bits)
           B == {j \in M : j < i}
<1>2. i \in M
  BY <1>1 DEF Matching, QueueInv, TypeOK
<1>3. i \in 1 .. Len(map[f]) /\ i \in Nat /\ i <= Cardinality(Threads) /\ Cardinality(Threads) \in Nat
  BY <1>1, QueueIsShort
<1>4. B \in SUBSET (1 .. i - 1)
  <2>1. M \subseteq 1 .. Len(map[f])
    BY QueueIsShort DEF Matching
  <2>2. PICK l \in Nat : l = Len(map[f])
    BY QueueIsShort
  <2> SUFFICES ASSUME NEW j \in M, j < i PROVE j \in 1 .. i - 1
    OBVIOUS
  <2>3. j \in 1 .. l
    BY <2>1, <2>2
  <2> HIDE DEF M
  <2> QED
    BY <1>3, <2>3
<1>5. IsFiniteSet(1 .. i - 1) /\ Cardinality(1 .. i - 1) = i - 1
  <2>1. PICK k \in Nat : k = i - 1
    BY <1>3
  <2>2. IsFiniteSet(1 .. k) /\ Cardinality(1 .. k) = k
    BY FS_Interval
  <2> QED
    BY <2>1, <2>2
<1>6. Cardinality(B) <= i - 1 /\ Cardinality(B) \in Nat
  BY <1>4, <1>5, FS_Subset, FS_CardinalityType
<1>7. i \in FirstOf(map[f], n, Bits)
  <2>1. Cardinality(B) < n
    <3> HIDE DEF B
    <3> QED
      BY <1>3, <1>6
  <2> QED
    BY <1>2, <2>1 DEF FirstOf
<1> QED
  BY <1>1, <1>7 DEF WakeSet

\* Wait: the word was compared under the lock, so the new waiter has missed nothing.
LEMMA WaitMissesNothing ==
  ASSUME FutexAssumption, BitsCanMatch, QueueInv, NEW rank \in [Addrs -> Nat], WakeInv(rank),
         NEW t \in Threads, Wait(t)
  PROVE  WakeInv(rank)'
<1>1. PICK f \in Addrs, v \in Vals, b \in Masks \cup {Bits} :
        /\ word[f] = v
        /\ uaddr' = [uaddr EXCEPT ![t] = f]
        /\ val' = [val EXCEPT ![t] = v]
        /\ bitset' = [bitset EXCEPT ![t] = b]
        /\ map' = [map EXCEPT ![f] = Append(@, t)]
  BY DEF Wait, Compare
<1>2. pc[t] = "user" /\ pc' = [pc EXCEPT ![t] = "queued"] /\ UNCHANGED <<word, signal>>
  BY DEF Wait
<1>3. \A u \in Threads, g \in Addrs :
        Holds(map, u, g)' <=> Holds(map, u, g) \/ (u = t /\ g = f)
  <2>1. PICK q, r : q = map /\ r = map'
    OBVIOUS
  <2>2. q \in Queues /\ r = AddTo(q, f, t) /\ \A g \in Addrs : ~ Holds(q, t, g)
    BY <1>1, <1>2, <2>1 DEF QueueInv, TypeOK, Queues, BlockedAreQueued, Blocked, AddTo
  <2>3. \A u \in Threads, g \in Addrs : Holds(r, u, g) <=> Holds(q, u, g) \/ (u = t /\ g = f)
    BY <2>2, AddKeeps
  <2> QED
    BY <2>1, <2>3 DEF Holds
<1>4. \A g \in Addrs : ~ Holds(map, t, g)
  BY <1>2 DEF QueueInv, BlockedAreQueued, Blocked
<1>5. \A u \in Threads : u # t => /\ uaddr'[u] = uaddr[u] /\ val'[u] = val[u]
                                  /\ bitset'[u] = bitset[u] /\ pc'[u] = pc[u]
  BY <1>1, <1>2 DEF QueueInv, TypeOK
<1>6. uaddr'[t] = f /\ val'[t] = v /\ bitset'[t] = b /\ b # {} /\ word' = word /\ signal' = signal
  BY <1>1, <1>2 DEF QueueInv, TypeOK, BitsCanMatch
<1>7. Placed(rank)'
  BY <1>3, <1>4, <1>5, <1>6 DEF Placed, WakeInv
<1>8. NoMissedWake'
  <2>1. \A u \in Threads, g \in Addrs : Queued(u, g)' <=> Holds(map, u, g)'
    BY DEF Queued, Holds
  <2>2. \A u \in Threads, g \in Addrs : Queued(u, g) <=> Holds(map, u, g)
    BY DEF Queued, Holds
  <2> SUFFICES ASSUME NEW u \in Threads, NEW g \in Addrs, Blocked(u)', uaddr'[u] = g,
                      Queued(u, g)', word'[g] # val'[u]
               PROVE  \E w \in Threads : g \in signal'[w]
    BY DEF NoMissedWake
  <2>3. u # t
    BY <1>1, <1>6
  <2>4. Blocked(u) /\ uaddr[u] = g /\ Queued(u, g) /\ word[g] # val[u]
    BY <1>3, <1>5, <1>6, <2>1, <2>2, <2>3 DEF Blocked
  <2> QED
    BY <1>6, <2>4 DEF WakeInv, NoMissedWake
<1> QED
  BY <1>5, <1>6, <1>7, <1>8 DEF WakeInv

\* Wake: the address that is no longer owed a wake has no waiter left.
LEMMA WakeMissesNothing ==
  ASSUME IsFiniteSet(Threads), StickyWake, QueueInv, NEW rank \in [Addrs -> Nat], WakeInv(rank),
         NEW t \in Threads, Wake(t)
  PROVE  WakeInv(rank)'
<1>1. PICK f \in Addrs, n \in Nums, b \in Masks \cup {Bits} :
        /\ pc' = WakeUp(WakeSet(f, n, b))
        /\ map' = [map EXCEPT ![f] = Without(@, WakeSet(f, n, b))]
        /\ signal' = [signal EXCEPT ![t] = IF b = Bits /\ n >= Cardinality(Threads)
                                           THEN @ \ {f} ELSE @]
  BY DEF Wake
<1>2. UNCHANGED <<word, uaddr, val, bitset>>
  BY DEF Wake, args
<1>3. PICK S : S = WakeSet(f, n, b)
  OBVIOUS
<1>4. \A u \in Threads, g \in Addrs : Holds(map, u, g)' <=> Holds(map, u, g) /\ ~ (g = f /\ u \in S)
  <2>1. map' = TakeOut(map, f, S)
    BY <1>1, <1>3 DEF TakeOut
  <2> QED
    BY <2>1, WakeQueues
<1>5. \A u \in Threads : Blocked(u)' => Blocked(u)
  BY <1>1 DEF WakeUp, Blocked, QueueInv, TypeOK
<1>6. Placed(rank)'
  BY <1>2, <1>4 DEF Placed, WakeInv
<1>7. NoMissedWake'
  <2> SUFFICES ASSUME NEW u \in Threads, NEW g \in Addrs, Blocked(u)', uaddr'[u] = g,
                      Queued(u, g)', word'[g] # val'[u]
               PROVE  \E w \in Threads : g \in signal'[w]
    BY DEF NoMissedWake
  <2>1. Holds(map, u, g) /\ ~ (g = f /\ u \in S)
    BY <1>4 DEF Queued, Holds
  <2>2. PICK w \in Threads : g \in signal[w]
    BY <1>2, <1>5, <2>1 DEF WakeInv, NoMissedWake, Queued, Holds
  <2>3. g = f => ~ (b = Bits /\ n >= Cardinality(Threads))
    BY <1>3, <2>1, WakesAll, FutexAssumption DEF WakeInv
  <2> QED
    BY <1>1, <2>2, <2>3 DEF QueueInv, TypeOK
<1> QED
  BY <1>2, <1>6, <1>7 DEF WakeInv

\* Requeue: who arrives at a futex had named another one.
LEMMA RequeueMissesNothing ==
  ASSUME StickyWake, QueueInv, NEW rank \in [Addrs -> Nat],
         \A p \in Targets : rank[p[1]] < rank[p[2]], WakeInv(rank),
         NEW t \in Threads, Requeue(t)
  PROVE  WakeInv(rank)'
<1>1. PICK d \in Targets, n \in Nums, k \in Nums :
        /\ pc' = WakeUp(WakeSet(d[1], n, Bits))
        /\ map' = requeue([map EXCEPT ![d[1]] = Without(@, WakeSet(d[1], n, Bits))],
                          d[2], k, d[1])
  BY DEF Requeue
<1>2. UNCHANGED <<word, uaddr, val, bitset, signal>>
  BY DEF Requeue, args
<1>3. PICK S, q, m, r : /\ S = WakeSet(d[1], n, Bits) /\ q = map /\ r = map'
                        /\ m = TakeOut(q, d[1], S)
  OBVIOUS
<1>4. d[1] \in Addrs /\ d[2] \in Addrs /\ rank[d[1]] < rank[d[2]] /\ d[1] # d[2] /\ k \in Nat
  BY FutexAssumption
<1>5. /\ m \in Queues
      /\ \A u \in Threads, g \in Addrs :
           Holds(m, u, g) <=> Holds(q, u, g) /\ ~ (g = d[1] /\ u \in S)
  <2>1. q \in Queues /\ d[1] \in Addrs /\ m = TakeOut(q, d[1], S)
    BY <1>3, <1>4 DEF QueueInv, TypeOK, Queues
  <2> QED
    BY <2>1, TakeKeeps
<1>6. r = requeue(m, d[2], k, d[1])
  BY <1>1, <1>3 DEF TakeOut
<1>7. \A u \in Threads, g \in Addrs :
        Holds(r, u, g) => Holds(m, u, g) \/ (g = d[2] /\ Holds(m, u, d[1]))
  BY <1>4, <1>5, <1>6, RequeueKeeps
<1>8. \A u \in Threads, g \in Addrs :
        Holds(map, u, g)' => Holds(map, u, g) \/ (g = d[2] /\ Holds(map, u, d[1]))
  BY <1>3, <1>4, <1>5, <1>7 DEF Holds
<1>9. \A u \in Threads : Blocked(u)' => Blocked(u)
  BY <1>1 DEF WakeUp, Blocked, QueueInv, TypeOK
<1>10. ASSUME NEW u \in Threads, Holds(map, u, d[1])
       PROVE  rank[uaddr[u]] < rank[d[2]]
  <2>1. uaddr[u] \in Addrs
    BY DEF QueueInv, TypeOK
  <2> QED
    BY <1>4, <1>10, <2>1 DEF WakeInv, Placed
<1>11. Placed(rank)'
  BY <1>2, <1>8, <1>10 DEF WakeInv, Placed
<1>12. NoMissedWake'
  <2> SUFFICES ASSUME NEW u \in Threads, NEW g \in Addrs, Blocked(u)', uaddr'[u] = g,
                      Queued(u, g)', word'[g] # val'[u]
               PROVE  \E w \in Threads : g \in signal'[w]
    BY DEF NoMissedWake
  <2>1. Holds(map, u, g)'
    BY DEF Queued, Holds
  <2>2. ~ (g = d[2] /\ Holds(map, u, d[1]))
    BY <1>2, <1>4, <1>10
  <2>3. Holds(map, u, g)
    BY <1>8, <2>1, <2>2
  <2> QED
    BY <1>2, <1>9, <2>3 DEF WakeInv, NoMissedWake, Queued, Holds
<1> QED
  BY <1>2, <1>11, <1>12 DEF WakeInv

\* No thread waits when the program starts.
LEMMA InitWakeInv ==
  ASSUME BitsCanMatch, NEW rank \in [Addrs -> Nat], Init
  PROVE  WakeInv(rank)
BY DEF Init, BitsCanMatch, WakeInv, Placed, NoMissedWake, Holds, Blocked

\* Every step keeps the invariant behind NoMissedWake.
LEMMA StepWakeInv ==
  ASSUME IsFiniteSet(Threads), StickyWake, BitsCanMatch, NEW rank \in [Addrs -> Nat],
         \A p \in Targets : rank[p[1]] < rank[p[2]],
         QueueInv, WakeInv(rank), [Next]_vars
  PROVE  WakeInv(rank)'
<1>1. ASSUME NEW t \in Threads, Store(t) PROVE WakeInv(rank)'
  <2>1. PICK f \in Addrs, v \in Vals :
          /\ word' = [word EXCEPT ![f] = v] /\ signal' = [signal EXCEPT ![t] = {f}]
          /\ signal[t] = {} /\ UNCHANGED <<map, pc, uaddr, val, bitset>>
    BY <1>1 DEF Store, args
  <2>2. NoMissedWake'
    <3> SUFFICES ASSUME NEW u \in Threads, NEW g \in Addrs, Blocked(u)', uaddr'[u] = g,
                        Queued(u, g)', word'[g] # val'[u]
                 PROVE  \E w \in Threads : g \in signal'[w]
      BY DEF NoMissedWake
    <3>1. CASE g = f
      BY <2>1, <3>1 DEF QueueInv, TypeOK
    <3>2. CASE g # f
      <4>1. PICK w \in Threads : g \in signal[w]
        BY <2>1, <3>2 DEF WakeInv, NoMissedWake, Blocked, Queued, QueueInv, TypeOK
      <4> QED
        BY <2>1, <4>1 DEF QueueInv, TypeOK
    <3> QED
      BY <3>1, <3>2
  <2> QED
    BY <2>1, <2>2 DEF WakeInv, Placed, Holds
<1>2. ASSUME NEW t \in Threads, Wait(t) PROVE WakeInv(rank)'
  BY <1>2, WaitMissesNothing, FutexAssumption
<1>3. ASSUME NEW t \in Threads, WaitNow(t) PROVE WakeInv(rank)'
  BY <1>3 DEF WaitNow, args, WakeInv, Placed, Holds, NoMissedWake, Blocked, Queued,
              QueueInv, TypeOK
<1>4. ASSUME NEW t \in Threads, Resume(t) PROVE WakeInv(rank)'
  BY <1>4 DEF Resume, WakeInv, Placed, Holds, NoMissedWake, Blocked, Queued,
              QueueInv, TypeOK, BitsCanMatch
<1>5. ASSUME NEW t \in Threads, Wake(t) PROVE WakeInv(rank)'
  BY <1>5, WakeMissesNothing
<1>6. ASSUME NEW t \in Threads, Requeue(t) PROVE WakeInv(rank)'
  BY <1>6, RequeueMissesNothing
<1>7. CASE UNCHANGED vars
  BY <1>7 DEF vars, args, WakeInv, Placed, Holds, NoMissedWake, Blocked, Queued
<1> QED
  BY <1>1, <1>2, <1>3, <1>4, <1>5, <1>6, <1>7 DEF Next

\* wait, wake and requeue lose neither a waiter nor a wake, whatever the threads,
\* the futexes and the interleaving: NoWaiterIsLost always holds.
THEOREM WaitersAreSafe ==
  ASSUME IsFiniteSet(Threads), StickyWake, BitsCanMatch, OneWay
  PROVE  Spec => []NoWaiterIsLost
<1>1. PICK rank \in [Addrs -> Nat] : \A p \in Targets : rank[p[1]] < rank[p[2]]
  BY DEF OneWay
<1>2. NoSelfRequeue
  <2> SUFFICES ASSUME NEW p \in Targets, p[1] = p[2] PROVE FALSE
    BY DEF NoSelfRequeue
  <2>1. rank[p[1]] < rank[p[2]] /\ rank[p[1]] \in Nat
    BY <1>1, FutexAssumption
  <2> QED
    BY <2>1
<1>3. Init => QueueInv /\ WakeInv(rank)
  BY InitQueueInv, InitWakeInv
<1>4. QueueInv /\ WakeInv(rank) /\ [Next]_vars => (QueueInv /\ WakeInv(rank))'
  BY <1>1, <1>2, StepQueueInv, StepWakeInv
<1>5. QueueInv /\ WakeInv(rank) => NoWaiterIsLost
  BY OnceFromQueues DEF NoWaiterIsLost, QueueInv, WakeInv
<1> QED
  BY <1>3, <1>4, <1>5, PTL DEF Spec

-----------------------------------------------------------------------------
(* The order of waking *)

\* A wake that takes a waiter takes those with the same bitset in front of it.
LEMMA FrontFirst ==
  ASSUME QueueInv, NEW f \in Addrs, NEW n \in Nat, NEW b,
         NEW i \in DOMAIN map[f], NEW j \in DOMAIN map[f], i < j,
         bitset[map[f][i]] = bitset[map[f][j]], map[f][j] \in WakeSet(f, n, b)
  PROVE  map[f][i] \in WakeSet(f, n, b)
<1> DEFINE M == Matching(map[f], b)
           Before(k) == {l \in M : l < k}
<1>1. j \in M /\ Cardinality(Before(j)) < n
  <2>1. PICK k \in FirstOf(map[f], n, b) : map[f][k] = map[f][j]
    BY DEF WakeSet
  <2>2. k \in DOMAIN map[f] /\ k = j
    BY <2>1 DEF FirstOf, Matching, QueueInv, Single
  <2> QED
    BY <2>1, <2>2 DEF FirstOf
<1>2. i \in M
  BY <1>1 DEF Matching
<1>3. PICK l \in Nat : DOMAIN map[f] = 1 .. l
  BY DEF QueueInv, TypeOK
<1>4. M \in SUBSET (1 .. l)
  BY <1>3 DEF Matching
<1> HIDE DEF M
<1>5. Before(j) \in SUBSET (1 .. l) /\ Before(i) \in SUBSET Before(j)
  <2>1. i \in Nat /\ j \in Nat /\ \A k \in M : k \in Nat
    BY <1>3, <1>4
  <2>2. \A k \in M : k < i => k < j
    BY <2>1
  <2> QED
    BY <1>4, <2>2
<1>6. IsFiniteSet(1 .. l)
  BY FS_Interval
<1>7. /\ Cardinality(Before(i)) \in Nat /\ Cardinality(Before(j)) \in Nat
      /\ Cardinality(Before(i)) <= Cardinality(Before(j))
  <2> HIDE DEF Before
  <2>1. IsFiniteSet(Before(j))
    BY <1>5, <1>6, FS_Subset
  <2>2. IsFiniteSet(Before(i)) /\ Cardinality(Before(i)) <= Cardinality(Before(j))
    BY <1>5, <2>1, FS_Subset
  <2> QED
    BY <2>1, <2>2, FS_CardinalityType
<1>8. Cardinality(Before(i)) < n
  <2> HIDE DEF Before
  <2> QED
    BY <1>1, <1>7
<1>9. i \in FirstOf(map[f], n, b)
  BY <1>2, <1>8 DEF FirstOf, M
<1> QED
  BY <1>9 DEF WakeSet

\* Waiters with the same bitset are woken in the order of their queue.
THEOREM OrderIsKept ==
  ASSUME StickyWake, NoSelfRequeue
  PROVE  Spec => NoOvertaking
<1> DEFINE InOrder ==
      \A f \in Addrs : \A i, j \in DOMAIN map[f] :
        LET t == map[f][i]  u == map[f][j] IN
          i < j /\ bitset[t] = bitset[u] /\ pc'[u] = "ready" => pc'[t] = "ready"
<1>1. ASSUME QueueInv, [Next]_vars PROVE InOrder
  <2> SUFFICES ASSUME NEW f \in Addrs, NEW i \in DOMAIN map[f], NEW j \in DOMAIN map[f],
                      i < j, bitset[map[f][i]] = bitset[map[f][j]], pc'[map[f][j]] = "ready"
               PROVE  pc'[map[f][i]] = "ready"
    OBVIOUS
  <2>1. PICK t \in Threads, u \in Threads : t = map[f][i] /\ u = map[f][j]
    BY <1>1 DEF QueueInv, TypeOK
  <2>2. pc[u] \in {"queued", "asleep"} /\ \A g \in Addrs : Holds(map, u, g) => g = f
    BY <1>1, <2>1 DEF QueueInv, BlockedAreQueued, Blocked, Holds, Single
  <2>3. \E g \in Addrs, n \in Nat, b \in SUBSET Bits : pc' = WakeUp(WakeSet(g, n, b))
    <3>1. pc'[u] # pc[u] /\ pc \in [Threads -> {"user", "queued", "asleep", "ready"}]
      BY <2>1, <2>2, <1>1 DEF QueueInv, TypeOK
    <3>2. ASSUME NEW w \in Threads, Store(w) \/ Wait(w) \/ WaitNow(w) \/ Resume(w) PROVE FALSE
      BY <2>1, <2>2, <3>1, <3>2 DEF Store, Wait, WaitNow, Resume
    <3>3. ASSUME NEW w \in Threads, Wake(w)
          PROVE  \E g \in Addrs, n \in Nat, b \in SUBSET Bits : pc' = WakeUp(WakeSet(g, n, b))
      BY <3>3, FutexAssumption DEF Wake
    <3>4. ASSUME NEW w \in Threads, Requeue(w)
          PROVE  \E g \in Addrs, n \in Nat, b \in SUBSET Bits : pc' = WakeUp(WakeSet(g, n, b))
      <4>1. PICK p \in Targets, n \in Nums : pc' = WakeUp(WakeSet(p[1], n, Bits))
        BY <3>4 DEF Requeue
      <4>2. p[1] \in Addrs /\ n \in Nat /\ Bits \in SUBSET Bits
        BY FutexAssumption
      <4> QED
        BY <4>1, <4>2
    <3>5. ~ UNCHANGED vars
      BY <3>1 DEF vars
    <3> QED
      BY <1>1, <3>2, <3>3, <3>4, <3>5 DEF Next
  <2>4. PICK g \in Addrs, n \in Nat, b \in SUBSET Bits : pc' = WakeUp(WakeSet(g, n, b))
    BY <2>3
  <2>5. u \in WakeSet(g, n, b)
    BY <2>1, <2>2, <2>4 DEF WakeUp
  <2>6. g = f
    BY <1>1, <2>2, <2>5, WokenWereQueued DEF QueueInv
  <2>7. t \in WakeSet(f, n, b)
    BY <1>1, <2>1, <2>5, <2>6, FrontFirst
  <2> QED
    BY <2>1, <2>4, <2>6, <2>7 DEF WakeUp
<1>2. QueueInv /\ [Next]_vars => [InOrder]_vars
  BY <1>1
<1> QED
  BY <1>2, QueuesHold, PTL DEF Spec, NoOvertaking
==============================================================================
