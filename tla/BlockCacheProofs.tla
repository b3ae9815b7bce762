-------------------------- MODULE BlockCacheProofs --------------------------
(***************************************************************************)
(* Proofs about BlockCache for any number of tasks, any sizes of sectors,  *)
(* frames, caches and devices, both drivers and any faults.                *)
(***************************************************************************)
EXTENDS BlockCache, Integers, FiniteSetTheorems, SequenceTheorems, TLAPS

(* Division *)

\* What the library does not say of \div and %.
LEMMA DivMod ==
  ASSUME NEW m \in Nat, m > 0, NEW n \in Nat
  PROVE  n \div m \in Nat /\ n % m \in 0 .. m - 1 /\ n = ((n \div m) * m) + (n % m)
BY SMT

\* Multiples of m are at least m apart.
LEMMA Multiples ==
  ASSUME NEW a \in Int, NEW b \in Int, NEW m \in Nat, a + 1 <= b
  PROVE  a * m + m <= b * m
<1>1. (b - a - 1) * m >= 0
  BY SMT
<1>2. (b - a - 1) * m = b * m - a * m - m
  BY SMT
<1> QED
  BY <1>1, <1>2, SMT

\* Quotient and remainder are unique.
LEMMA DivModIs ==
  ASSUME NEW m \in Nat, m > 0, NEW q \in Nat, NEW r \in 0 .. m - 1, NEW n, n = q * m + r
  PROVE  n \in Nat /\ n \div m = q /\ n % m = r
<1> DEFINE d == n \div m
           e == n % m
<1>1. n \in Nat /\ q * m \in Nat
  BY SMT
<1>2. d \in Nat /\ e \in 0 .. m - 1 /\ n = d * m + e
  BY <1>1, DivMod
<1> HIDE DEF d, e
<1>3. d \in Nat /\ e \in 0 .. m - 1 /\ d * m \in Nat /\ d * m + e = q * m + r
  BY <1>1, <1>2, SMT
<1>4. ~ (d < q)
  <2> SUFFICES ASSUME d < q PROVE FALSE
    OBVIOUS
  <2>1. d * m + m <= q * m
    BY <1>3, Multiples
  <2> QED
    BY <1>1, <1>3, <2>1
<1>5. ~ (q < d)
  <2> SUFFICES ASSUME q < d PROVE FALSE
    OBVIOUS
  <2>1. q * m + m <= d * m
    BY <1>3, Multiples
  <2> QED
    BY <1>1, <1>3, <2>1
<1>6. d = q
  BY <1>3, <1>4, <1>5
<1>7. e = r
  BY <1>1, <1>3, <1>6
<1> QED
  BY <1>1, <1>6, <1>7 DEF d, e

-----------------------------------------------------------------------------
(* Addresses *)

\* The sizes of the code: a frame is a positive number of sectors.
LEMMA Sizes ==
  /\ SECTOR \in Nat /\ SECTOR > 0 /\ PerFrame \in Nat /\ PerFrame > 0
  /\ FRAME_SIZE \in Nat /\ FRAME_SIZE > 0 /\ FRAME_SIZE = PerFrame * SECTOR
  /\ Frames \in Nat /\ Frames > 0
<1>1. /\ SECTOR \in Nat /\ SECTOR > 0 /\ PerFrame \in Nat /\ PerFrame > 0
      /\ FRAME_SIZE = PerFrame * SECTOR /\ Frames \in Nat /\ Frames > 0
  BY DriverAssumption, CacheAssumption
<1> HIDE DEF PerFrame
<1>2. PICK k \in Nat : k = PerFrame /\ k > 0
  BY <1>1
<1>3. k * SECTOR \in Nat /\ k * SECTOR > 0
  BY <1>1, <1>2, SMT
<1> QED
  BY <1>1, <1>2, <1>3

\* An offset in a frame is a sector of the frame and an offset in the sector.
LEMMA OffsetSplits ==
  ASSUME NEW o \in 0 .. FRAME_SIZE - 1
  PROVE  /\ o \div SECTOR \in 0 .. PerFrame - 1 /\ o % SECTOR \in 0 .. SECTOR - 1
         /\ o = (o \div SECTOR) * SECTOR + (o % SECTOR)
<1>1. o \in Nat /\ o \div SECTOR \in Nat /\ o % SECTOR \in 0 .. SECTOR - 1
      /\ o = (o \div SECTOR) * SECTOR + (o % SECTOR)
  BY Sizes, DivMod
<1>2. PICK b \in Nat, x \in 0 .. SECTOR - 1 : b = o \div SECTOR /\ x = o % SECTOR
  BY <1>1
<1>3. ~ (PerFrame <= b)
  <2> SUFFICES ASSUME PerFrame <= b PROVE FALSE
    OBVIOUS
  <2>1. PICK k \in Nat : k = PerFrame
    BY Sizes
  <2>2. (k - 1) * SECTOR + SECTOR <= b * SECTOR
    BY Sizes, <2>1, Multiples
  <2>3. (k - 1) * SECTOR + SECTOR = k * SECTOR
    BY Sizes, SMT
  <2>4. k * SECTOR \in Nat /\ b * SECTOR \in Nat
    BY Sizes, SMT
  <2> QED
    BY <1>1, <1>2, <2>1, <2>2, <2>3, <2>4, Sizes
<1> QED
  BY <1>1, <1>2, <1>3, Sizes

\* And every sector and offset of a frame is an offset in the frame.
LEMMA OffsetJoins ==
  ASSUME NEW b \in 0 .. PerFrame - 1, NEW x \in 0 .. SECTOR - 1
  PROVE  /\ b * SECTOR + x \in 0 .. FRAME_SIZE - 1
         /\ (b * SECTOR + x) \div SECTOR = b /\ (b * SECTOR + x) % SECTOR = x
<1>1. PICK k \in Nat : k = PerFrame
  BY Sizes
<1>2. b \in Nat /\ b + 1 <= k
  BY <1>1
<1>3. b * SECTOR + SECTOR <= k * SECTOR
  BY <1>2, Multiples, Sizes
<1>4. b * SECTOR \in Nat /\ k * SECTOR \in Nat
  BY <1>2, Sizes, SMT
<1>5. b * SECTOR + x \in 0 .. FRAME_SIZE - 1
  BY <1>1, <1>3, <1>4, Sizes
<1>6. (b * SECTOR + x) \div SECTOR = b /\ (b * SECTOR + x) % SECTOR = x
  BY <1>2, Sizes, DivModIs
<1> QED
  BY <1>5, <1>6

\* A page number and an offset are found again from the address they make.
LEMMA AddressJoins ==
  ASSUME NEW p \in Nat, NEW o \in 0 .. FRAME_SIZE - 1, NEW a, a = p * FRAME_SIZE + o
  PROVE  a \in Nat /\ a \div FRAME_SIZE = p /\ a % FRAME_SIZE = o
BY Sizes, DivModIs

\* The first block of a frame is a multiple of the blocks of a frame.
LEMMA FirstBlockIs ==
  ASSUME NEW p \in Nat
  PROVE  FirstBlock(p) \in Nat /\ FirstBlock(p) = p * PerFrame
<1>1. PICK k \in Nat : k = PerFrame
  BY Sizes
<1>2. p * k \in Nat /\ p * (k * SECTOR) = (p * k) * SECTOR + 0
  BY Sizes, SMT
<1>3. (p * (k * SECTOR)) \div SECTOR = p * k
  BY <1>2, Sizes, DivModIs
<1> QED
  BY <1>1, <1>2, <1>3, Sizes DEF FirstBlock

\* Page, block and offsets of an address of the largest disk.
LEMMA AddressSplits ==
  ASSUME NEW a \in 0 .. Frames * FRAME_SIZE - 1
  PROVE  /\ a \div FRAME_SIZE \in Pages /\ a % FRAME_SIZE \in 0 .. FRAME_SIZE - 1
         /\ a = (a \div FRAME_SIZE) * FRAME_SIZE + (a % FRAME_SIZE)
         /\ a \div SECTOR = FirstBlock(a \div FRAME_SIZE) + ((a % FRAME_SIZE) \div SECTOR)
         /\ a % SECTOR = (a % FRAME_SIZE) % SECTOR
<1>1. Frames * FRAME_SIZE \in Nat /\ a \in Nat
  BY Sizes, SMT
<1>2. PICK p \in Nat, o \in 0 .. FRAME_SIZE - 1 :
        p = a \div FRAME_SIZE /\ o = a % FRAME_SIZE /\ a = p * FRAME_SIZE + o
  BY <1>1, Sizes, DivMod
<1>3. PICK b \in 0 .. PerFrame - 1, x \in 0 .. SECTOR - 1 :
        b = o \div SECTOR /\ x = o % SECTOR /\ o = b * SECTOR + x
  BY OffsetSplits
<1>4. ~ (Frames <= p)
  <2> SUFFICES ASSUME Frames <= p PROVE FALSE
    OBVIOUS
  <2>1. (Frames - 1) * FRAME_SIZE + FRAME_SIZE <= p * FRAME_SIZE
    BY Sizes, Multiples
  <2>2. (Frames - 1) * FRAME_SIZE + FRAME_SIZE = Frames * FRAME_SIZE
    BY Sizes, SMT
  <2>3. p * FRAME_SIZE \in Nat
    BY Sizes, SMT
  <2> QED
    BY <1>1, <1>2, <2>1, <2>2, <2>3
<1>5. PICK k \in Nat : k = PerFrame
  BY Sizes
<1>6. p * k + b \in Nat /\ a = (p * k + b) * SECTOR + x
  <2>1. b \in Nat /\ x \in Nat /\ a = p * (k * SECTOR) + (b * SECTOR + x)
    BY <1>2, <1>3, <1>5, Sizes
  <2>2. p * (k * SECTOR) + (b * SECTOR + x) = (p * k + b) * SECTOR + x
    BY <2>1, Sizes, SMT
  <2>3. p * k + b \in Nat
    BY <2>1, SMT
  <2> QED
    BY <2>1, <2>2, <2>3
<1>7. a \div SECTOR = p * k + b /\ a % SECTOR = x
  BY <1>6, Sizes, DivModIs
<1>8. p \in Pages
  BY <1>2, <1>4, Sizes DEF Pages
<1>9. FirstBlock(p) = p * k
  BY <1>2, <1>5, FirstBlockIs
<1>10. /\ p \in Pages /\ o \in 0 .. FRAME_SIZE - 1 /\ a = p * FRAME_SIZE + o
       /\ a \div SECTOR = FirstBlock(p) + (o \div SECTOR) /\ a % SECTOR = o % SECTOR
  BY <1>2, <1>3, <1>7, <1>8, <1>9
<1> QED
  BY <1>2, <1>10, Zenon

-----------------------------------------------------------------------------
(* What the drivers answer *)

\* Faults that may still happen.
Faults == [crashes : Nat, refusals : Nat]

\* The device has the blocks its machine says.
DeviceOK == machine \in Machines /\ blocks \in [Device -> Block]

\* Faults are used up, never added.
NoMore(l, k) == l \in Faults /\ l.crashes <= k.crashes /\ l.refusals <= k.refusals

\* Why a read of block b may fail: a fault of the device, or a block outside a
\* virtio device.
Refusal(b, l, k) ==
  l.refusals < k.refusals \/ (machine.driver = "virtio_blk" /\ b \notin Device)

\* The block that every device has somewhere.
LEMMA BlankIsBlock == Blank \in Block
BY DriverAssumption DEF Blank, Block

\* A crash uses up one fault.
LEMMA CrashedAnswers ==
  ASSUME NEW l \in Faults, NEW got, NEW a \in Crashed(got, l)
  PROVE  /\ a.err = "DOMAINCRASH" /\ a.got \in got
         /\ NoMore(a.left, l) /\ a.left.crashes + 1 = l.crashes
<1>1. l.crashes > 0
  BY DEF Crashed
<1>2. PICK k : k = [l EXCEPT !.crashes = @ - 1]
  OBVIOUS
<1>3. PICK x \in got : a = [err |-> "DOMAINCRASH", got |-> x, left |-> k]
  BY <1>1, <1>2 DEF Crashed, Answer
<1>4. a.err = "DOMAINCRASH" /\ a.got = x /\ a.left = k
  BY <1>3
<1>5. k \in Faults /\ k.crashes = l.crashes - 1 /\ k.refusals = l.refusals
  BY <1>1, <1>2 DEF Faults
<1> QED
  BY <1>4, <1>5 DEF NoMore, Faults

\* A refusal uses up one fault.
LEMMA RefusedAnswers ==
  ASSUME NEW l \in Faults, NEW x, NEW a \in Refused(x, l)
  PROVE  /\ a.err = "EIO" /\ a.got = x
         /\ NoMore(a.left, l) /\ a.left.refusals < l.refusals
<1>1. l.refusals > 0
  BY DEF Refused
<1>2. PICK k : k = [l EXCEPT !.refusals = @ - 1]
  OBVIOUS
<1>3. a = [err |-> "EIO", got |-> x, left |-> k]
  BY <1>1, <1>2 DEF Refused, Answer
<1>4. a.err = "EIO" /\ a.got = x /\ a.left = k
  BY <1>3
<1>5. k \in Faults /\ k.refusals = l.refusals - 1 /\ k.crashes = l.crashes
  BY <1>1, <1>2 DEF Faults
<1> QED
  BY <1>4, <1>5 DEF NoMore, Faults

\* Nothing happens to the faults.
LEMMA SameFaults == ASSUME NEW l \in Faults PROVE NoMore(l, l)
BY DEF Faults, NoMore

\* One request to a driver for a block.
LEMMA DriverReads ==
  ASSUME DeviceOK, NEW b \in Nat, NEW l \in Faults, NEW a \in driver_read(b, l)
  PROVE  /\ a.err \in {"none", "EIO", "DOMAINCRASH"} /\ NoMore(a.left, l)
         /\ a.err = "none" => a.got \in Block /\ (b \in Device => a.got = blocks[b])
         /\ a.err = "DOMAINCRASH" => a.left.crashes + 1 = l.crashes
         /\ a.err = "EIO" => Refusal(b, a.left, l)
<1>1. CASE a \in Crashed({Blank}, l)
  BY <1>1, CrashedAnswers
<1>2. CASE a \in virtio_read(b, l) /\ machine.driver = "virtio_blk"
  <2>1. CASE a \in Refused(Blank, l)
    BY <2>1, RefusedAnswers DEF Refusal
  <2>2. CASE b \in Device /\ a = [err |-> "none", got |-> blocks[b], left |-> l]
    BY <2>2, SameFaults DEF DeviceOK
  <2>3. CASE b \notin Device /\ a = [err |-> "EIO", got |-> Blank, left |-> l]
    BY <1>2, <2>3, SameFaults DEF Refusal
  <2> QED
    BY <1>2, <2>1, <2>2, <2>3 DEF virtio_read, Answer
<1>3. CASE a \in image_read(b, l)
  <2>1. PICK x \in (IF b \in Device THEN {blocks[b]} ELSE Block) :
          a = [err |-> "none", got |-> x, left |-> l]
    BY <1>3 DEF image_read, Answer
  <2>2. x \in Block /\ (b \in Device => x = blocks[b])
    BY <2>1 DEF DeviceOK
  <2> QED
    BY <2>1, <2>2, SameFaults
<1> QED
  BY <1>1, <1>2, <1>3 DEF driver_read

\* A read through the shadow fails with a crash only after a second one.
LEMMA ShadowReads ==
  ASSUME DeviceOK, NEW b \in Nat, NEW l \in Faults, NEW a \in read_block(b, l)
  PROVE  /\ NoMore(a.left, l)
         /\ a.err = "none" => a.got \in Block /\ (b \in Device => a.got = blocks[b])
         /\ a.err # "none" => a.left.crashes + 2 <= l.crashes \/ Refusal(b, a.left, l)
<1>1. PICK c \in driver_read(b, l) :
        a \in IF c.err = "DOMAINCRASH" THEN driver_read(b, c.left) ELSE {c}
  BY DEF read_block
<1>2. /\ c.err \in {"none", "EIO", "DOMAINCRASH"} /\ NoMore(c.left, l)
      /\ c.err = "none" => c.got \in Block /\ (b \in Device => c.got = blocks[b])
      /\ c.err = "DOMAINCRASH" => c.left.crashes + 1 = l.crashes
      /\ c.err = "EIO" => Refusal(b, c.left, l)
  BY DriverReads
<1>3. CASE c.err = "DOMAINCRASH"
  <2>1. a \in driver_read(b, c.left) /\ c.left \in Faults
    BY <1>1, <1>2, <1>3 DEF NoMore
  <2>2. /\ a.err \in {"none", "EIO", "DOMAINCRASH"} /\ NoMore(a.left, c.left)
        /\ a.err = "none" => a.got \in Block /\ (b \in Device => a.got = blocks[b])
        /\ a.err = "DOMAINCRASH" => a.left.crashes + 1 = c.left.crashes
        /\ a.err = "EIO" => Refusal(b, a.left, c.left)
    BY <2>1, DriverReads
  <2> QED
    BY <1>2, <1>3, <2>2 DEF NoMore, Faults, Refusal
<1>4. CASE c.err # "DOMAINCRASH"
  BY <1>1, <1>2, <1>4
<1> QED
  BY <1>3, <1>4

\* The device after block b is written.
Put(disk, b, x) == [disk EXCEPT ![b] = x]

\* One write: the block is written or the device is as before, and an answer
\* without an error means that a block of the device was written.
LEMMA DriverWrites ==
  ASSUME DeviceOK, NEW disk \in [Device -> Block], NEW b \in Nat, NEW x \in Block,
         NEW l \in Faults, NEW a \in write_block(disk, b, x, l)
  PROVE  /\ NoMore(a.left, l)
         /\ a.got = disk \/ (b \in Device /\ a.got = Put(disk, b, x))
         /\ a.err = "none" /\ b \in Device => a.got = Put(disk, b, x)
<1> DEFINE done == IF machine.driver = "virtio_blk"
                   THEN virtio_write(disk, b, x, l) ELSE image_write(disk, b, x, l)
<1>0. PICK new : new = Put(disk, b, x)
  OBVIOUS
<1>1. ASSUME NEW c \in done
      PROVE  /\ NoMore(c.left, l)
             /\ c.got = disk \/ (b \in Device /\ c.got = new)
             /\ c.err = "none" /\ b \in Device => c.got = new
  <2>1. CASE c \in Refused(disk, l)
    BY <2>1, RefusedAnswers
  <2>2. CASE b \in Device /\ c = [err |-> "none", got |-> new, left |-> l]
    BY <2>2, SameFaults
  <2>3. CASE b \notin Device /\ \E e \in {"EIO", "none"} : c = [err |-> e, got |-> disk, left |-> l]
    BY <2>3, SameFaults
  <2>4. machine.driver = "virtio_blk" =>
          \/ c \in Refused(disk, l)
          \/ b \in Device /\ c = [err |-> "none", got |-> new, left |-> l]
          \/ b \notin Device /\ c = [err |-> "EIO", got |-> disk, left |-> l]
    BY <1>0, <1>1 DEF virtio_write, Answer, Put
  <2>5. machine.driver # "virtio_blk" =>
          c = [err |-> "none", got |-> IF b \in Device THEN new ELSE disk, left |-> l]
    BY <1>0, <1>1 DEF image_write, Answer, Put
  <2> QED
    BY <2>1, <2>2, <2>3, <2>4, <2>5
<1>2. a \in done \cup Crashed({disk} \cup {c.got : c \in done}, l)
  BY DEF write_block, driver_write
<1> HIDE DEF done
<1>3. ASSUME a \in Crashed({disk} \cup {c.got : c \in done}, l)
      PROVE  /\ NoMore(a.left, l) /\ a.err = "DOMAINCRASH"
             /\ a.got = disk \/ \E c \in done : a.got = c.got
  BY <1>3, CrashedAnswers
<1> QED
  BY <1>0, <1>1, <1>2, <1>3

-----------------------------------------------------------------------------
(* Induction *)

\* A set of naturals that is not empty has a least element.
LEMMA LeastOf ==
  ASSUME NEW T \in SUBSET Nat, T # {}
  PROVE  \E x \in T : \A y \in T : x <= y
<1> DEFINE R == OpToRel(<, Nat)
<1>1. IsWellFoundedOn(R, Nat)
  BY NatLessThanWellFounded
<1>2. \E x \in T : \A y \in T : ~ (<<y, x>> \in R)
  <2> HIDE DEF R
  <2> QED
    BY <1>1, WFMin
<1>3. \A x, y \in T : ~ (<<y, x>> \in R) => x <= y
  BY SMT DEF OpToRel
<1> QED
  BY <1>2, <1>3

\* Induction up to a bound, with the property as a set of numbers.
LEMMA UpTo ==
  ASSUME NEW N \in Nat, NEW T \in SUBSET (0 .. N), 0 \in T,
         \A n \in 0 .. N - 1 : n \in T => n + 1 \in T
  PROVE  T = 0 .. N
<1> SUFFICES ASSUME NEW m \in 0 .. N, m \notin T PROVE FALSE
  OBVIOUS
<1> DEFINE U == {n \in Nat : n \in 0 .. N /\ n \notin T}
<1>1. U # {} /\ U \in SUBSET Nat
  OBVIOUS
<1>2. PICK x \in U : \A y \in U : x <= y
  <2> HIDE DEF U
  <2> QED
    BY <1>1, LeastOf
<1>3. x # 0 /\ x - 1 \in 0 .. N - 1
  BY <1>2
<1>4. x - 1 \in T
  BY <1>2, <1>3
<1>5. x \in T
  BY <1>3, <1>4
<1> QED
  BY <1>2, <1>5

-----------------------------------------------------------------------------
(* What check reads and what it writes back *)

\* One round of the loop of read_blocks: the i-th block of frame p.
ReadStep(A, p, i) ==
  UNION {IF a.err # "none" THEN {a}
         ELSE {Answer(r.err, Append(a.got, r.got), r.left)
                 : r \in read_block(FirstBlock(p) + i - 1, a.left)}
           : a \in A}

\* f is the function that read_blocks computes, as far as block n.
IsReading(f, p, n) ==
  f = [i \in 0 .. n |-> IF i = 0 THEN {Answer("none", <<>>, left)} ELSE ReadStep(f[i - 1], p, i)]

\* The function that read_blocks chooses exists.
LEMMA ReadingExists ==
  ASSUME NEW p
  PROVE  \E f : IsReading(f, p, PerFrame)
<1> DEFINE D == {n \in 0 .. PerFrame : \E f : IsReading(f, p, n)}
<1>1. 0 \in D
  <2>1. IsReading([i \in 0 .. 0 |-> {Answer("none", <<>>, left)}], p, 0)
    BY DEF IsReading
  <2>2. 0 \in 0 .. PerFrame
    BY Sizes
  <2> QED
    BY <2>1, <2>2
<1>2. ASSUME NEW n \in 0 .. PerFrame - 1, n \in D PROVE n + 1 \in D
  <2>1. PICK f : IsReading(f, p, n)
    BY <1>2
  <2>2. n \in Nat /\ n + 1 \in 0 .. PerFrame
    BY Sizes
  <2> DEFINE g == [i \in 0 .. n + 1 |-> IF i = n + 1 THEN ReadStep(f[n], p, n + 1) ELSE f[i]]
  <2>3. ASSUME NEW i \in 0 .. n + 1
        PROVE  g[i] = IF i = 0 THEN {Answer("none", <<>>, left)} ELSE ReadStep(g[i - 1], p, i)
    <3>1. i = n + 1 => g[i] = ReadStep(f[n], p, n + 1) /\ g[i - 1] = f[n] /\ i # 0
      BY <2>2
    <3>2. i # n + 1 => i \in 0 .. n /\ g[i] = f[i] /\ (i # 0 => g[i - 1] = f[i - 1])
      BY <2>2
    <3>3. i \in 0 .. n => f[i] = IF i = 0 THEN {Answer("none", <<>>, left)} ELSE ReadStep(f[i - 1], p, i)
      BY <2>1, Zenon DEF IsReading
    <3> HIDE DEF g
    <3> QED
      BY <3>1, <3>2, <3>3
  <2>4. IsReading(g, p, n + 1)
    <3>1. g = [i \in 0 .. n + 1 |-> g[i]]
      OBVIOUS
    <3> HIDE DEF g
    <3> QED
      BY <2>3, <3>1, Zenon DEF IsReading
  <2> QED
    BY <2>2, <2>4
<1>3. D = 0 .. PerFrame
  <2>1. PerFrame \in Nat /\ D \in SUBSET (0 .. PerFrame)
    BY Sizes
  <2> HIDE DEF D
  <2> QED
    BY <1>1, <1>2, <2>1, UpTo
<1>4. PerFrame \in D
  BY <1>3, Sizes
<1> QED
  BY <1>4

\* One round of the loop of write_blocks.
WriteStep(A, p, pg, i) ==
  UNION {IF a.err # "none" THEN {a}
         ELSE write_block(a.got, FirstBlock(p) + i - 1, pg[i - 1], a.left)
           : a \in A}

\* f is the function that write_blocks computes, as far as block n.
IsWriting(f, p, pg, l, n) ==
  f = [i \in 0 .. n |-> IF i = 0 THEN {Answer("none", blocks, l)}
                        ELSE WriteStep(f[i - 1], p, pg, i)]

\* The function that write_blocks chooses exists.
LEMMA WritingExists ==
  ASSUME NEW p, NEW pg, NEW l
  PROVE  \E f : IsWriting(f, p, pg, l, PerFrame)
<1> DEFINE D == {n \in 0 .. PerFrame : \E f : IsWriting(f, p, pg, l, n)}
<1>1. 0 \in D
  <2>1. IsWriting([i \in 0 .. 0 |-> {Answer("none", blocks, l)}], p, pg, l, 0)
    BY DEF IsWriting
  <2>2. 0 \in 0 .. PerFrame
    BY Sizes
  <2> QED
    BY <2>1, <2>2
<1>2. ASSUME NEW n \in 0 .. PerFrame - 1, n \in D PROVE n + 1 \in D
  <2>1. PICK f : IsWriting(f, p, pg, l, n)
    BY <1>2
  <2>2. n \in Nat /\ n + 1 \in 0 .. PerFrame
    BY Sizes
  <2> DEFINE g == [i \in 0 .. n + 1 |-> IF i = n + 1 THEN WriteStep(f[n], p, pg, n + 1) ELSE f[i]]
  <2>3. ASSUME NEW i \in 0 .. n + 1
        PROVE  g[i] = IF i = 0 THEN {Answer("none", blocks, l)} ELSE WriteStep(g[i - 1], p, pg, i)
    <3>1. i = n + 1 => g[i] = WriteStep(f[n], p, pg, n + 1) /\ g[i - 1] = f[n] /\ i # 0
      BY <2>2
    <3>2. i # n + 1 => i \in 0 .. n /\ g[i] = f[i] /\ (i # 0 => g[i - 1] = f[i - 1])
      BY <2>2
    <3>3. i \in 0 .. n => f[i] = IF i = 0 THEN {Answer("none", blocks, l)} ELSE WriteStep(f[i - 1], p, pg, i)
      BY <2>1, Zenon DEF IsWriting
    <3> HIDE DEF g
    <3> QED
      BY <3>1, <3>2, <3>3
  <2>4. IsWriting(g, p, pg, l, n + 1)
    <3>1. g = [i \in 0 .. n + 1 |-> g[i]]
      OBVIOUS
    <3> HIDE DEF g
    <3> QED
      BY <2>3, <3>1, Zenon DEF IsWriting
  <2> QED
    BY <2>2, <2>4
<1>3. D = 0 .. PerFrame
  <2>1. PerFrame \in Nat /\ D \in SUBSET (0 .. PerFrame)
    BY Sizes
  <2> HIDE DEF D
  <2> QED
    BY <1>1, <1>2, <2>1, UpTo
<1>4. PerFrame \in D
  BY <1>3, Sizes
<1> QED
  BY <1>4

\* What an answer of read_blocks says after n blocks of frame p.
ReadsOf(p, n, a) ==
  /\ NoMore(a.left, left)
  /\ a.err = "none" =>
       /\ a.got \in Seq(Block) /\ Len(a.got) = n
       /\ \A i \in 1 .. n : FirstBlock(p) + i - 1 \in Device
                              => a.got[i] = blocks[FirstBlock(p) + i - 1]
  /\ a.err # "none" =>
       \/ a.left.crashes + 2 <= left.crashes \/ a.left.refusals < left.refusals
       \/ machine.driver = "virtio_blk"
            /\ \E i \in 1 .. PerFrame : FirstBlock(p) + i - 1 \notin Device

\* One more block.
LEMMA ReadStepReads ==
  ASSUME DeviceOK, left \in Faults, NEW p \in Pages, NEW n \in Nat, n + 1 <= PerFrame,
         NEW A, \A a \in A : ReadsOf(p, n, a), NEW c \in ReadStep(A, p, n + 1)
  PROVE  ReadsOf(p, n + 1, c)
<1>1. PICK a \in A : c \in IF a.err # "none" THEN {a}
                           ELSE {Answer(r.err, Append(a.got, r.got), r.left)
                                   : r \in read_block(FirstBlock(p) + (n + 1) - 1, a.left)}
  BY DEF ReadStep
<1>2. ReadsOf(p, n, a)
  BY <1>1
<1>3. CASE a.err # "none"
  BY <1>1, <1>2, <1>3 DEF ReadsOf
<1>4. CASE a.err = "none"
  <2>1. PICK b \in Nat : b = FirstBlock(p) + (n + 1) - 1 /\ b = FirstBlock(p) + n
    BY FirstBlockIs DEF Pages
  <2>2. PICK r \in read_block(b, a.left) :
          c = [err |-> r.err, got |-> Append(a.got, r.got), left |-> r.left]
    BY <1>1, <1>4, <2>1 DEF Answer
  <2>3. a.left \in Faults /\ NoMore(a.left, left)
    BY <1>2 DEF ReadsOf, NoMore
  <2>4. /\ NoMore(r.left, a.left)
        /\ r.err = "none" => r.got \in Block /\ (b \in Device => r.got = blocks[b])
        /\ r.err # "none" => r.left.crashes + 2 <= a.left.crashes \/ Refusal(b, r.left, a.left)
    BY <2>2, <2>3, ShadowReads
  <2>5. NoMore(r.left, left)
    BY <2>3, <2>4 DEF NoMore, Faults
  <2>6. c.err = r.err /\ c.got = Append(a.got, r.got) /\ c.left = r.left
    BY <2>2
  <2>7. CASE r.err = "none"
    <3>1. a.got \in Seq(Block) /\ Len(a.got) = n /\ r.got \in Block
      BY <1>2, <1>4, <2>4, <2>7 DEF ReadsOf
    <3>2. /\ c.got \in Seq(Block) /\ Len(c.got) = n + 1 /\ c.got[n + 1] = r.got
          /\ \A i \in 1 .. n : c.got[i] = a.got[i]
      BY <2>6, <3>1
    <3>3. ASSUME NEW i \in 1 .. n + 1, FirstBlock(p) + i - 1 \in Device
          PROVE  c.got[i] = blocks[FirstBlock(p) + i - 1]
      <4>1. CASE i = n + 1
        BY <2>1, <2>4, <2>7, <3>2, <3>3, <4>1
      <4>2. CASE i \in 1 .. n
        BY <1>2, <1>4, <3>2, <3>3, <4>2 DEF ReadsOf
      <4> QED
        BY <4>1, <4>2
    <3> QED
      BY <2>5, <2>6, <2>7, <3>2, <3>3 DEF ReadsOf
  <2>8. CASE r.err # "none"
    <3>1. n + 1 \in 1 .. PerFrame
      BY Sizes
    <3>2. \/ r.left.crashes + 2 <= left.crashes \/ r.left.refusals < left.refusals
          \/ machine.driver = "virtio_blk"
               /\ \E i \in 1 .. PerFrame : FirstBlock(p) + i - 1 \notin Device
      BY <2>1, <2>3, <2>4, <2>8, <3>1 DEF Refusal, NoMore, Faults
    <3> QED
      BY <2>5, <2>6, <2>8, <3>2 DEF ReadsOf
  <2> QED
    BY <2>7, <2>8
<1> QED
  BY <1>3, <1>4

\* A frame that was read without an error holds the blocks of the device; an error
\* has one of the three causes.
LEMMA ReadsFrame ==
  ASSUME DeviceOK, left \in Faults, NEW p \in Pages, NEW a \in read_blocks(p)
  PROVE  ReadsOf(p, PerFrame, a)
<1>1. PICK f : IsReading(f, p, PerFrame) /\ read_blocks(p) = f[PerFrame]
  <2> DEFINE f == CHOOSE f : IsReading(f, p, PerFrame)
  <2>1. IsReading(f, p, PerFrame)
    BY ReadingExists
  <2>2. read_blocks(p) = f[PerFrame]
    BY DEF read_blocks, IsReading, ReadStep
  <2> QED
    BY <2>1, <2>2
<1>2. \A i \in 0 .. PerFrame :
        f[i] = IF i = 0 THEN {Answer("none", <<>>, left)} ELSE ReadStep(f[i - 1], p, i)
  BY <1>1, Zenon DEF IsReading
<1> DEFINE D == {n \in 0 .. PerFrame : \A c \in f[n] : ReadsOf(p, n, c)}
<1>3. 0 \in D
  <2>1. PICK c : c = [err |-> "none", got |-> <<>>, left |-> left]
    OBVIOUS
  <2>2. 0 \in 0 .. PerFrame /\ f[0] = {c}
    BY <1>2, <2>1, Sizes DEF Answer
  <2>3. c.err = "none" /\ c.got = <<>> /\ c.left = left
    BY <2>1
  <2>4. ReadsOf(p, 0, c)
    BY <2>3, SameFaults DEF ReadsOf
  <2> QED
    BY <2>2, <2>4
<1>4. ASSUME NEW n \in 0 .. PerFrame - 1, n \in D PROVE n + 1 \in D
  <2>1. n \in Nat /\ n + 1 \in 0 .. PerFrame /\ n + 1 <= PerFrame /\ n + 1 # 0 /\ (n + 1) - 1 = n
    BY Sizes
  <2>2. f[n + 1] = ReadStep(f[n], p, n + 1)
    BY <1>2, <2>1
  <2>3. \A c \in f[n] : ReadsOf(p, n, c)
    BY <1>4
  <2>4. \A c \in f[n + 1] : ReadsOf(p, n + 1, c)
    BY <2>1, <2>2, <2>3, ReadStepReads
  <2> QED
    BY <2>1, <2>4
<1>5. D = 0 .. PerFrame
  <2>1. PerFrame \in Nat /\ D \in SUBSET (0 .. PerFrame)
    BY Sizes
  <2> HIDE DEF D
  <2> QED
    BY <1>3, <1>4, <2>1, UpTo
<1>6. PerFrame \in D
  BY <1>5, Sizes
<1> QED
  BY <1>1, <1>6

\* What an answer of write_blocks says after n blocks of page pg were written to
\* frame p.
WritesOf(p, pg, l, n, a) ==
  /\ NoMore(a.left, l) /\ a.got \in [Device -> Block]
  /\ \A b \in Device : b \notin FirstBlock(p) .. FirstBlock(p) + PerFrame - 1
                         => a.got[b] = blocks[b]
  /\ a.err = "none" =>
       \A i \in 1 .. n : FirstBlock(p) + i - 1 \in Device
                           => a.got[FirstBlock(p) + i - 1] = pg[i - 1]

\* One more block.
LEMMA WriteStepWrites ==
  ASSUME DeviceOK, NEW l \in Faults, NEW p \in Pages, NEW pg \in Page,
         NEW n \in Nat, n + 1 <= PerFrame,
         NEW A, \A a \in A : WritesOf(p, pg, l, n, a), NEW c \in WriteStep(A, p, pg, n + 1)
  PROVE  WritesOf(p, pg, l, n + 1, c)
<1>1. PICK a \in A : c \in IF a.err # "none" THEN {a}
                           ELSE write_block(a.got, FirstBlock(p) + (n + 1) - 1,
                                            pg[(n + 1) - 1], a.left)
  BY DEF WriteStep
<1>2. WritesOf(p, pg, l, n, a)
  BY <1>1
<1>3. CASE a.err # "none"
  BY <1>1, <1>2, <1>3 DEF WritesOf
<1>4. CASE a.err = "none"
  <2>1. PICK fb \in Nat, b \in Nat : /\ fb = FirstBlock(p) /\ b = fb + n
                                     /\ b = fb + (n + 1) - 1
    BY FirstBlockIs DEF Pages
  <2>2. PICK x \in Block : x = pg[n] /\ x = pg[(n + 1) - 1]
    BY Sizes DEF Page
  <2>3. PICK disk \in [Device -> Block], k \in Faults : disk = a.got /\ k = a.left
    BY <1>2 DEF WritesOf, NoMore
  <2>4. c \in write_block(disk, b, x, k)
    BY <1>1, <1>4, <2>1, <2>2, <2>3
  <2>5. /\ NoMore(c.left, k)
        /\ c.got = disk \/ (b \in Device /\ c.got = Put(disk, b, x))
        /\ c.err = "none" /\ b \in Device => c.got = Put(disk, b, x)
    BY <2>4, DriverWrites
  <2>6. NoMore(c.left, l)
    BY <1>2, <2>3, <2>5 DEF WritesOf, NoMore, Faults
  <2>7. PICK new \in [Device -> Block] :
          /\ new = c.got
          /\ \A d \in Device : d # b => new[d] = disk[d]
          /\ c.err = "none" /\ b \in Device => new[b] = x
    BY <2>5 DEF Put
  <2>8. b \in fb .. fb + PerFrame - 1
    BY <2>1, Sizes
  <2>9. \A d \in Device : d \notin fb .. fb + PerFrame - 1 => new[d] = blocks[d]
    BY <1>2, <2>1, <2>3, <2>7, <2>8 DEF WritesOf
  <2>10. ASSUME c.err = "none", NEW i \in 1 .. n + 1, fb + i - 1 \in Device
         PROVE  new[fb + i - 1] = pg[i - 1]
    <3>1. CASE i = n + 1
      <4>1. fb + i - 1 = b /\ i - 1 = n
        BY <2>1, <3>1
      <4> QED
        BY <2>2, <2>7, <2>10, <4>1
    <3>2. CASE i \in 1 .. n
      <4>1. fb + i - 1 # b
        BY <2>1, <3>2
      <4>2. disk[fb + i - 1] = pg[i - 1]
        BY <1>2, <1>4, <2>1, <2>3, <2>10, <3>2 DEF WritesOf
      <4> QED
        BY <2>7, <2>10, <4>1, <4>2
    <3> QED
      BY <3>1, <3>2
  <2> QED
    BY <2>1, <2>6, <2>7, <2>9, <2>10 DEF WritesOf
<1> QED
  BY <1>3, <1>4

\* Writing a frame back touches no other block, and without an error every block of
\* the frame that the device has is written.
LEMMA WritesFrame ==
  ASSUME DeviceOK, NEW l \in Faults, NEW p \in Pages, NEW pg \in Page,
         NEW a \in write_blocks(p, pg, l)
  PROVE  WritesOf(p, pg, l, PerFrame, a)
<1>1. PICK f : IsWriting(f, p, pg, l, PerFrame) /\ write_blocks(p, pg, l) = f[PerFrame]
  <2> DEFINE f == CHOOSE f : IsWriting(f, p, pg, l, PerFrame)
  <2>1. IsWriting(f, p, pg, l, PerFrame)
    BY WritingExists
  <2>2. write_blocks(p, pg, l) = f[PerFrame]
    BY DEF write_blocks, IsWriting, WriteStep
  <2> QED
    BY <2>1, <2>2
<1>2. \A i \in 0 .. PerFrame :
        f[i] = IF i = 0 THEN {Answer("none", blocks, l)} ELSE WriteStep(f[i - 1], p, pg, i)
  BY <1>1, Zenon DEF IsWriting
<1> DEFINE D == {n \in 0 .. PerFrame : \A c \in f[n] : WritesOf(p, pg, l, n, c)}
<1>3. 0 \in D
  <2>1. PICK c : c = [err |-> "none", got |-> blocks, left |-> l]
    OBVIOUS
  <2>2. 0 \in 0 .. PerFrame /\ f[0] = {c}
    BY <1>2, <2>1, Sizes DEF Answer
  <2>3. c.err = "none" /\ c.got = blocks /\ c.left = l
    BY <2>1
  <2>4. WritesOf(p, pg, l, 0, c)
    BY <2>3, SameFaults DEF WritesOf, DeviceOK
  <2> QED
    BY <2>2, <2>4
<1>4. ASSUME NEW n \in 0 .. PerFrame - 1, n \in D PROVE n + 1 \in D
  <2>1. n \in Nat /\ n + 1 \in 0 .. PerFrame /\ n + 1 <= PerFrame /\ n + 1 # 0 /\ (n + 1) - 1 = n
    BY Sizes
  <2>2. f[n + 1] = WriteStep(f[n], p, pg, n + 1)
    BY <1>2, <2>1
  <2>3. \A c \in f[n] : WritesOf(p, pg, l, n, c)
    BY <1>4
  <2>4. \A c \in f[n + 1] : WritesOf(p, pg, l, n + 1, c)
    BY <2>1, <2>2, <2>3, WriteStepWrites
  <2> QED
    BY <2>1, <2>4
<1>5. D = 0 .. PerFrame
  <2>1. PerFrame \in Nat /\ D \in SUBSET (0 .. PerFrame)
    BY Sizes
  <2> HIDE DEF D
  <2> QED
    BY <1>3, <1>4, <2>1, UpTo
<1>6. PerFrame \in D
  BY <1>5, Sizes
<1> QED
  BY <1>1, <1>6

-----------------------------------------------------------------------------
(* The keys of the LruCache *)

\* A sequence without repetitions, and its elements.
Distinct(s) == \A i, j \in DOMAIN s : s[i] = s[j] => i = j
ElementsOf(s) == {s[i] : i \in DOMAIN s}

\* push of a frame that is not cached.
LEMMA PushKeeps ==
  ASSUME NEW s \in Seq(Pages), Distinct(s), NEW p \in Pages, p \notin ElementsOf(s),
         NEW r, r = Append(s, p)
  PROVE  /\ r \in Seq(Pages) /\ Len(r) = Len(s) + 1 /\ Distinct(r)
         /\ ElementsOf(r) = ElementsOf(s) \cup {p}
<1>1. PICK n \in Nat : n = Len(s) + 1 /\ n >= 1
  OBVIOUS
<1>2. /\ r \in Seq(Pages) /\ Len(r) = n /\ DOMAIN r = 1 .. n /\ DOMAIN s = 1 .. n - 1
      /\ r[n] = p /\ \A i \in 1 .. n - 1 : r[i] = s[i]
  BY <1>1
<1>3. /\ \A i \in DOMAIN r : (i \in DOMAIN s /\ r[i] = s[i]) \/ (i = n /\ r[i] = p)
      /\ DOMAIN s \subseteq DOMAIN r /\ n \in DOMAIN r
  BY <1>1, <1>2
<1>4. Distinct(r)
  BY <1>3 DEF Distinct, ElementsOf
<1>5. ElementsOf(r) = ElementsOf(s) \cup {p}
  BY <1>2, <1>3 DEF ElementsOf
<1> QED
  BY <1>1, <1>2, <1>4, <1>5

\* The least recently used frame leaves.
LEMMA PopKeeps ==
  ASSUME NEW s \in Seq(Pages), Distinct(s), s # <<>>, NEW r, r = Tail(s)
  PROVE  /\ r \in Seq(Pages) /\ Len(r) = Len(s) - 1 /\ Distinct(r)
         /\ Head(s) \in ElementsOf(s)
         /\ ElementsOf(r) = ElementsOf(s) \ {Head(s)}
<1>1. PICK n \in Nat : n = Len(s) /\ n >= 1
  OBVIOUS
<1>2. /\ r \in Seq(Pages) /\ Len(r) = n - 1 /\ DOMAIN r = 1 .. n - 1 /\ DOMAIN s = 1 .. n
      /\ Head(s) = s[1] /\ \A i \in 1 .. n - 1 : r[i] = s[i + 1]
  BY <1>1
<1>3. 1 \in DOMAIN s /\ \A i \in DOMAIN r : i + 1 \in DOMAIN s /\ i + 1 # 1 /\ i \in Nat
  BY <1>1, <1>2
<1>4. Distinct(r)
  <2> SUFFICES ASSUME NEW i \in DOMAIN r, NEW j \in DOMAIN r, r[i] = r[j] PROVE i = j
    BY DEF Distinct
  <2>1. i + 1 = j + 1
    BY <1>2, <1>3 DEF Distinct
  <2> QED
    BY <1>3, <2>1
<1>5. \A i \in DOMAIN s : i = 1 \/ (i - 1 \in DOMAIN r /\ r[i - 1] = s[i])
  <2> SUFFICES ASSUME NEW i \in 1 .. n, i # 1 PROVE i - 1 \in 1 .. n - 1 /\ r[i - 1] = s[i]
    BY <1>2
  <2>1. i - 1 \in 1 .. n - 1 /\ (i - 1) + 1 = i
    BY <1>1
  <2> QED
    BY <1>2, <2>1
<1>6. ElementsOf(r) = ElementsOf(s) \ {Head(s)}
  <2>1. ASSUME NEW i \in DOMAIN r PROVE r[i] \in ElementsOf(s) /\ r[i] # Head(s)
    <3>1. r[i] = s[i + 1] /\ i + 1 \in DOMAIN s /\ 1 \in DOMAIN s /\ i + 1 # 1
      BY <1>2, <1>3
    <3> QED
      BY <1>2, <3>1 DEF Distinct, ElementsOf
  <2>2. ASSUME NEW i \in DOMAIN s, s[i] # Head(s) PROVE s[i] \in ElementsOf(r)
    BY <1>2, <1>5, <2>2 DEF ElementsOf
  <2> QED
    BY <2>1, <2>2 DEF ElementsOf
<1> QED
  BY <1>1, <1>2, <1>3, <1>4, <1>6 DEF ElementsOf

\* get promotes an entry and drops none.
LEMMA PromoteKeeps ==
  ASSUME order \in Seq(Pages), Distinct(order), NEW i \in DOMAIN order,
         NEW r, r = Promote(i)
  PROVE  /\ r \in Seq(Pages) /\ Len(r) = Len(order) /\ Distinct(r)
         /\ ElementsOf(r) = ElementsOf(order)
<1>0. PICK s : s = order
  OBVIOUS
<1>1. PICK n \in Nat : s = order /\ n = Len(order) /\ i \in 1 .. n
  BY <1>0
<1>2. s \in Seq(Pages) /\ DOMAIN s = 1 .. n /\ \A j, k \in 1 .. n : s[j] = s[k] => j = k
  BY <1>1 DEF Distinct
<1> DEFINE from(k) == IF k < i THEN k ELSE IF k < n THEN k + 1 ELSE i
<1>3. /\ \A k \in 1 .. n : from(k) \in 1 .. n
      /\ \A j, k \in 1 .. n : from(j) = from(k) => j = k
      /\ \A k \in 1 .. n : \E j \in 1 .. n : from(j) = k
  <2>1. \A k \in 1 .. n : from(k) \in 1 .. n
    BY <1>1
  <2>2. ASSUME NEW j \in 1 .. n, NEW k \in 1 .. n, from(j) = from(k) PROVE j = k
    <3>1. j \in Int /\ k \in Int /\ i \in Int /\ n \in Int /\ i <= n /\ j <= n /\ k <= n
      BY <1>1
    <3>2. \A c \in 1 .. n : (c < i /\ from(c) = c) \/ (c >= i /\ c < n /\ from(c) = c + 1)
                              \/ (c = n /\ from(c) = i)
      <4> SUFFICES ASSUME NEW c \in 1 .. n
                   PROVE  (c < i /\ from(c) = c) \/ (c >= i /\ c < n /\ from(c) = c + 1)
                            \/ (c = n /\ from(c) = i)
        OBVIOUS
      <4>1. c < i \/ (c >= i /\ c < n) \/ (c >= i /\ c = n)
        BY <3>1
      <4> QED
        BY <3>1, <4>1
    <3> HIDE DEF from
    <3> QED
      BY <2>2, <3>1, <3>2
  <2>3. ASSUME NEW k \in 1 .. n PROVE \E j \in 1 .. n : from(j) = k
    <3>1. CASE k < i
      BY <3>1
    <3>2. CASE k = i
      <4>1. n \in 1 .. n /\ from(n) = k
        BY <1>1, <3>2
      <4> QED
        BY <4>1
    <3>3. CASE k > i
      <4>1. k - 1 \in 1 .. n /\ from(k - 1) = k
        BY <1>1, <3>3
      <4> QED
        BY <4>1
    <3> QED
      BY <1>1, <3>1, <3>2, <3>3
  <2> QED
    BY <2>1, <2>2, <2>3
<1>4. r = [k \in 1 .. n |-> s[from(k)]]
  BY <1>1, <1>2 DEF Promote
<1> HIDE DEF from
<1>5. /\ r \in Seq(Pages) /\ Len(r) = n /\ DOMAIN r = 1 .. n
      /\ \A k \in 1 .. n : r[k] = s[from(k)]
  <2>1. \A k \in 1 .. n : s[from(k)] \in Pages
    BY <1>2, <1>3
  <2>2. r \in [1 .. n -> Pages]
    BY <1>4, <2>1
  <2> QED
    BY <1>1, <1>4, <2>2
<1>6. Distinct(r)
  BY <1>2, <1>3, <1>5 DEF Distinct
<1>7. ElementsOf(r) = ElementsOf(s)
  <2>1. \A k \in 1 .. n : r[k] = s[from(k)] /\ from(k) \in 1 .. n
    BY <1>3, <1>5
  <2>2. ASSUME NEW k \in 1 .. n PROVE \E j \in 1 .. n : r[j] = s[k]
    <3>1. PICK j \in 1 .. n : from(j) = k
      BY <1>3
    <3> QED
      BY <1>5, <3>1
  <2>3. DOMAIN r = 1 .. n /\ DOMAIN s = 1 .. n
    BY <1>2, <1>5
  <2>4. ElementsOf(r) \subseteq ElementsOf(s)
    BY <2>1, <2>3 DEF ElementsOf
  <2>5. ElementsOf(s) \subseteq ElementsOf(r)
    BY <2>2, <2>3 DEF ElementsOf
  <2> QED
    BY <2>4, <2>5
<1> QED
  BY <1>1, <1>5, <1>6, <1>7

-----------------------------------------------------------------------------
(* The bytes of a page *)

\* A byte of a page.
LEMMA CellIsByte ==
  ASSUME NEW pg \in Page, NEW o \in 0 .. FRAME_SIZE - 1
  PROVE  Cell(pg, o) \in Bytes
BY OffsetSplits DEF Cell, Page, Block

\* A page as it was loaded.
LEMMA AsPageIs ==
  ASSUME NEW s \in Seq(Block), Len(s) = PerFrame, NEW pg, pg = AsPage(s)
  PROVE  pg \in Page /\ \A i \in 0 .. PerFrame - 1 : pg[i] = s[i + 1]
<1>1. \A i \in 0 .. PerFrame - 1 : i + 1 \in 1 .. PerFrame
  BY Sizes
<1> QED
  BY <1>1, Sizes DEF AsPage, Page

\* copy_to takes the bytes from the offset on.
LEMMA CopyToIs ==
  ASSUME NEW pg \in Page, NEW o \in 0 .. FRAME_SIZE - 1, NEW n \in Nat, o + n <= FRAME_SIZE
  PROVE  /\ copy_to(pg, o, n) \in Seq(Bytes) /\ Len(copy_to(pg, o, n)) = n
         /\ \A i \in 1 .. n : Cell(pg, o + i - 1) \in Bytes
<1>1. \A i \in 1 .. n : o + i - 1 \in 0 .. FRAME_SIZE - 1
  BY Sizes
<1>2. \A i \in 1 .. n : Cell(pg, o + i - 1) \in Bytes
  BY <1>1, CellIsByte
<1>3. copy_to(pg, o, n) \in [1 .. n -> Bytes]
  BY <1>2 DEF copy_to
<1> QED
  BY <1>2, <1>3

\* copy_from overwrites the bytes from the offset on and no other.
LEMMA CopyFromIs ==
  ASSUME NEW pg \in Page, NEW o \in 0 .. FRAME_SIZE - 1, NEW s \in Seq(Bytes),
         o + Len(s) <= FRAME_SIZE, NEW new, new = copy_from(pg, o, s)
  PROVE  /\ new \in Page
         /\ \A c \in 0 .. FRAME_SIZE - 1 :
              Cell(new, c) = IF c \in o .. o + Len(s) - 1 THEN s[c - o + 1] ELSE Cell(pg, c)
<1> DEFINE at(c) == IF c \in o .. o + Len(s) - 1 THEN s[c - o + 1] ELSE Cell(pg, c)
<1>1. ASSUME NEW c \in 0 .. FRAME_SIZE - 1 PROVE at(c) \in Bytes
  <2>1. Cell(pg, c) \in Bytes
    BY CellIsByte
  <2>2. c \in o .. o + Len(s) - 1 => c - o + 1 \in 1 .. Len(s)
    BY Sizes
  <2> QED
    BY <2>1, <2>2
<1>2. ASSUME NEW b \in 0 .. PerFrame - 1, NEW x \in 0 .. SECTOR - 1
      PROVE  new[b][x] = at(b * SECTOR + x) /\ b * SECTOR + x \in 0 .. FRAME_SIZE - 1
  <2>1. PICK c \in 0 .. FRAME_SIZE - 1 : c = b * SECTOR + x /\ c \div SECTOR = b /\ c % SECTOR = x
    BY OffsetJoins
  <2>2. b \in DOMAIN pg /\ x \in DOMAIN pg[b] /\ Cell(pg, c) = pg[b][x]
    BY <2>1 DEF Page, Block, Cell
  <2>3. new[b][x] = IF c \in o .. o + Len(s) - 1 THEN s[c - o + 1] ELSE pg[b][x]
    BY <2>1, <2>2 DEF copy_from
  <2> QED
    BY <2>1, <2>2, <2>3
<1>3. new \in Page
  <2>1. new = [b \in 0 .. PerFrame - 1 |-> [x \in 0 .. SECTOR - 1 |-> new[b][x]]]
    BY DEF copy_from, Page, Block
  <2>2. \A b \in 0 .. PerFrame - 1 : \A x \in 0 .. SECTOR - 1 : new[b][x] \in Bytes
    BY <1>1, <1>2
  <2>3. \A b \in 0 .. PerFrame - 1 : [x \in 0 .. SECTOR - 1 |-> new[b][x]] \in Block
    BY <2>2 DEF Block
  <2> QED
    BY <2>1, <2>3 DEF Page
<1>4. ASSUME NEW c \in 0 .. FRAME_SIZE - 1 PROVE Cell(new, c) = at(c)
  <2>1. PICK b \in 0 .. PerFrame - 1, x \in 0 .. SECTOR - 1 :
          b = c \div SECTOR /\ x = c % SECTOR /\ c = b * SECTOR + x
    BY OffsetSplits
  <2>2. new[b][x] = at(c)
    BY <1>2, <2>1
  <2> QED
    BY <2>1, <2>2 DEF Cell
<1> QED
  BY <1>3, <1>4

-----------------------------------------------------------------------------
(* The ranges of the calls *)

\* The device is not larger than the largest disk.
LEMMA OnDisk ==
  ASSUME machine \in Machines
  PROVE  /\ machine.capacity \in Nat /\ machine.capacity * SECTOR \in Nat
         /\ Frames * FRAME_SIZE \in Nat /\ FRAME_SIZE <= Frames * FRAME_SIZE
         /\ machine.capacity * SECTOR <= Frames * FRAME_SIZE
<1>1. PICK c \in Nat : c = machine.capacity
  BY DriverAssumption
<1>2. PICK k \in Nat : k = PerFrame
  BY Sizes
<1>3. c <= Frames * k
  BY <1>1, <1>2, CacheAssumption
<1>4. Frames * k \in Nat
  BY Sizes, SMT
<1>5. PICK d \in Nat : d = Frames * k - c
  BY <1>3, <1>4
<1>6. c * SECTOR \in Nat /\ d * SECTOR \in Nat
  BY Sizes, SMT
<1>7. c * SECTOR + d * SECTOR = (c + d) * SECTOR
  BY Sizes, SMT
<1>8. (c + d) * SECTOR = (Frames * k) * SECTOR
  BY <1>4, <1>5
<1>9. (Frames * k) * SECTOR = Frames * FRAME_SIZE
  BY <1>2, Sizes, SMT
<1>10. 0 * FRAME_SIZE + FRAME_SIZE <= Frames * FRAME_SIZE
  BY Sizes, Multiples
<1>11. Frames * FRAME_SIZE \in Nat
  BY Sizes, SMT
<1> QED
  BY <1>1, <1>6, <1>7, <1>8, <1>9, <1>10, <1>11, Sizes

\* An address inside the device lies in one of its blocks and in a frame of the disk.
LEMMA InsideDevice ==
  ASSUME machine \in Machines, NEW a \in Nat, a < machine.capacity * SECTOR
  PROVE  /\ a \in 0 .. Frames * FRAME_SIZE - 1
         /\ a \div FRAME_SIZE \in Pages /\ a \div SECTOR \in Device
<1>1. a \in 0 .. Frames * FRAME_SIZE - 1
  BY OnDisk
<1>2. PICK b \in Nat, x \in 0 .. SECTOR - 1 : b = a \div SECTOR /\ a = b * SECTOR + x
  BY Sizes, DivMod
<1>3. PICK c \in Nat : c = machine.capacity
  BY OnDisk
<1>4. ~ (c <= b)
  <2> SUFFICES ASSUME c <= b PROVE FALSE
    OBVIOUS
  <2>1. (c - 1) * SECTOR + SECTOR <= b * SECTOR
    BY Sizes, Multiples
  <2>2. (c - 1) * SECTOR + SECTOR = c * SECTOR
    BY Sizes, SMT
  <2>3. c * SECTOR \in Nat /\ b * SECTOR \in Nat
    BY Sizes, SMT
  <2> QED
    BY <1>2, <1>3, <2>1, <2>2, <2>3, Sizes
<1>5. b \in Device
  BY <1>2, <1>3, <1>4 DEF Device
<1> QED
  BY <1>1, <1>2, <1>5, AddressSplits

-----------------------------------------------------------------------------
(* The inductive invariant of the cache *)

\* Where a call is: between calls nothing is left of the last one; inside a call the
\* range lies on the device and the call has not passed its end, and before a round
\* page and offset are those of the next byte.
Loop(t) ==
  /\ pc[t] = "idle" => /\ op[t] = "none" /\ start[t] = 0 /\ len[t] = 0
                       /\ count[t] = 0 /\ data[t] = <<>>
  /\ pc[t] # "idle" =>
       /\ op[t] \in {"read", "write"} /\ start[t] + len[t] <= machine.capacity * SECTOR
       /\ op[t] = "write" => Len(data[t]) = len[t]
       /\ count[t] <= len[t] /\ (pc[t] = "ret" <=> count[t] = len[t])
  /\ pc[t] \in {"check", "copy"} => start[t] + count[t] = page[t] * FRAME_SIZE + off[t]

\* CacheIsSound is not inductive: a round moves to the next page, which is a page of
\* the disk only because the call stays inside the device.
CacheInv ==
  /\ CacheIsSound /\ OneCrashIsSurvived
  /\ left \in Faults
  /\ \A t \in Tasks : Loop(t)

\* The cache starts in the invariant.
LEMMA InitCacheInv == Init => CacheInv
<1> SUFFICES ASSUME Init PROVE CacheInv
  OBVIOUS
<1>1. machine \in Machines /\ machine.crashes \in Nat /\ machine.refusals \in Nat
  BY DriverAssumption DEF Init, DriverInit
<1>2. blocks \in [Device -> Block]
  BY BlankIsBlock DEF Init, DriverInit
<1>3. left \in Faults /\ left.crashes = machine.crashes /\ left.refusals = machine.refusals
  BY <1>1 DEF Init, DriverInit, Faults
<1>4. cache \in [Pages -> Page]
  BY BlankIsBlock DEF Init, Empty, Page
<1>5. TypeOK
  BY <1>1, <1>2, <1>3, <1>4, Sizes DEF Init, TypeOK
<1>6. LruShape
  BY CacheAssumption DEF Init, LruShape
<1>7. OneCrashIsSurvived
  BY DEF Init, OneCrashIsSurvived
<1>8. \A t \in Tasks : Loop(t)
  BY DEF Init, Loop
<1> QED
  BY <1>3, <1>5, <1>6, <1>7, <1>8 DEF CacheInv, CacheIsSound
\* A cause that a failed read had is still there later.
LEMMA CausesStay ==
  ASSUME CacheInv, machine' = machine, NoMore(left', left),
         \A u \in Tasks : pc'[u] = "unread" => pc[u] = "unread" /\ page'[u] = page[u]
  PROVE  OneCrashIsSurvived' /\ left' \in Faults
<1>1. machine.crashes \in Nat /\ machine.refusals \in Nat /\ left \in Faults
  BY DriverAssumption DEF CacheInv, CacheIsSound, TypeOK
<1>2. left' \in Faults /\ left'.crashes <= left.crashes /\ left'.refusals <= left.refusals
  BY DEF NoMore
<1>3. /\ left.crashes \in Nat /\ left.refusals \in Nat
      /\ left'.crashes \in Nat /\ left'.refusals \in Nat
  BY <1>1, <1>2 DEF Faults
<1>4. ASSUME NEW u \in Tasks, pc'[u] = "unread"
      PROVE  \/ left'.crashes + 2 <= machine'.crashes
             \/ left'.refusals < machine'.refusals
             \/ machine'.driver = "virtio_blk" /\ (page'[u] + 1) * PerFrame > machine'.capacity
  <2>1. \/ left.crashes + 2 <= machine.crashes
        \/ left.refusals < machine.refusals
        \/ machine.driver = "virtio_blk" /\ (page[u] + 1) * PerFrame > machine.capacity
    BY <1>4 DEF CacheInv, OneCrashIsSurvived
  <2>2. page'[u] = page[u]
    BY <1>4
  <2>3. CASE left.crashes + 2 <= machine.crashes
    BY <1>1, <1>2, <1>3, <2>3
  <2>4. CASE left.refusals < machine.refusals
    BY <1>1, <1>2, <1>3, <2>4
  <2>5. CASE machine.driver = "virtio_blk" /\ (page[u] + 1) * PerFrame > machine.capacity
    BY <2>2, <2>5
  <2> QED
    BY <2>1, <2>3, <2>4, <2>5
<1> QED
  BY <1>2, <1>4 DEF OneCrashIsSurvived

\* The parts of CacheInv that say where a call is, for all tasks but t.
LEMMA OthersStay ==
  ASSUME CacheInv, NEW t \in Tasks, machine' = machine,
         \A u \in Tasks \ {t} :
           /\ pc'[u] = pc[u] /\ op'[u] = op[u] /\ start'[u] = start[u] /\ len'[u] = len[u]
           /\ data'[u] = data[u] /\ page'[u] = page[u] /\ off'[u] = off[u]
           /\ count'[u] = count[u]
  PROVE  \A u \in Tasks \ {t} : Loop(u)'
BY DEF CacheInv, Loop

\* A call enters its loop.
LEMMA CallKeeps ==
  ASSUME CacheInv, NEW t \in Tasks, Call(t)
  PROVE  CacheInv'
<1> USE DEF CacheInv, CacheIsSound
<1>1. PICK r \in Requests :
        /\ r.start + r.len <= machine.capacity * SECTOR
        /\ op' = [op EXCEPT ![t] = r.op]
        /\ start' = [start EXCEPT ![t] = r.start]
        /\ len' = [len EXCEPT ![t] = r.len]
        /\ data' = [data EXCEPT ![t] =
                      IF r.op = "read" THEN <<>> ELSE [i \in 1 .. r.len |-> r.byte]]
        /\ page' = [page EXCEPT ![t] = r.start \div FRAME_SIZE]
        /\ off' = [off EXCEPT ![t] = r.start % FRAME_SIZE]
        /\ pc' = [pc EXCEPT ![t] = IF 0 < r.len THEN "check" ELSE "ret"]
  BY DEF Call
<1>2. pc[t] = "idle" /\ UNCHANGED <<machine, blocks, left, cache, order, count>>
  BY DEF Call, device
<1>3. /\ r.op \in {"read", "write"} /\ r.byte \in Bytes /\ r.start \in Nat /\ r.len \in Nat
  BY CacheAssumption
<1>4. count[t] = 0
  BY <1>2 DEF Loop
<1>5. PICK p \in Nat, o \in 0 .. FRAME_SIZE - 1 :
        p = r.start \div FRAME_SIZE /\ o = r.start % FRAME_SIZE
          /\ r.start = p * FRAME_SIZE + o
  <2>1. PICK a \in Nat : a = r.start
    BY <1>3
  <2>2. a \div FRAME_SIZE \in Nat /\ a % FRAME_SIZE \in 0 .. FRAME_SIZE - 1
        /\ a = (a \div FRAME_SIZE) * FRAME_SIZE + (a % FRAME_SIZE)
    BY Sizes, DivMod
  <2> QED
    BY <2>1, <2>2
<1>6. p \in 0 .. Frames /\ (0 < r.len => p \in Pages)
  <2>1. 0 < r.len => p \in Pages
    BY <1>1, <1>3, <1>5, OnDisk, InsideDevice, SMTT(40) DEF TypeOK
  <2>2. ~ (Frames + 1 <= p)
    <3> SUFFICES ASSUME Frames + 1 <= p PROVE FALSE
      OBVIOUS
    <3>1. Frames * FRAME_SIZE + FRAME_SIZE <= p * FRAME_SIZE
      <4>1. PICK n \in Nat : n = Frames
        BY Sizes
      <4>2. p \in Int /\ n + 1 <= p
        BY <1>5, <4>1
      <4>3. n * FRAME_SIZE + FRAME_SIZE <= p * FRAME_SIZE
        BY <4>2, Sizes, Multiples
      <4> QED
        BY <4>1, <4>3
    <3>2. r.start <= Frames * FRAME_SIZE
      BY <1>1, <1>3, OnDisk, SMTT(40) DEF TypeOK
    <3>3. p * FRAME_SIZE \in Nat /\ Frames * FRAME_SIZE \in Nat
      BY Sizes, SMT
    <3> QED
      BY <1>3, <1>5, <3>1, <3>2, <3>3, Sizes
  <2> QED
    BY <2>1, <2>2, <1>5, Sizes
<1>7. PICK d \in Seq(Bytes) :
        /\ d = IF r.op = "read" THEN <<>> ELSE [i \in 1 .. r.len |-> r.byte]
        /\ r.op = "write" => Len(d) = r.len
  <2>1. [i \in 1 .. r.len |-> r.byte] \in [1 .. r.len -> Bytes]
    BY <1>3
  <2>2. /\ [i \in 1 .. r.len |-> r.byte] \in Seq(Bytes)
        /\ Len([i \in 1 .. r.len |-> r.byte]) = r.len
    BY <1>3, <2>1
  <2>3. CASE r.op = "read"
    <3>1. <<>> \in Seq(Bytes)
      OBVIOUS
    <3> QED
      BY <2>3, <3>1
  <2>4. CASE r.op # "read"
    BY <2>2, <2>4
  <2> QED
    BY <2>3, <2>4
<1>8. TypeOK'
  <2>1. /\ op' \in [Tasks -> {"none", "read", "write"}]
        /\ start' \in [Tasks -> Nat] /\ len' \in [Tasks -> Nat]
        /\ data' \in [Tasks -> Seq(Bytes)]
    BY <1>1, <1>3, <1>7 DEF TypeOK
  <2>2. /\ page' \in [Tasks -> 0 .. Frames] /\ off' \in [Tasks -> 0 .. FRAME_SIZE - 1]
        /\ pc' \in [Tasks -> {"idle", "check", "copy", "ret", "panic", "unread", "unwritten"}]
    BY <1>1, <1>5, <1>6 DEF TypeOK
  <2>3. \A u \in Tasks : pc'[u] \in {"check", "copy"} => page'[u] \in Pages
    BY <1>1, <1>3, <1>5, <1>6 DEF TypeOK
  <2> QED
    BY <1>2, <2>1, <2>2, <2>3 DEF TypeOK, Device
<1>9. Loop(t)'
  <2>1. /\ op'[t] = r.op /\ start'[t] = r.start /\ len'[t] = r.len /\ data'[t] = d
        /\ page'[t] = p /\ off'[t] = o /\ count'[t] = 0
        /\ pc'[t] = IF 0 < r.len THEN "check" ELSE "ret"
    BY <1>1, <1>2, <1>4, <1>5, <1>7 DEF TypeOK
  <2> QED
    BY <1>1, <1>2, <1>3, <1>5, <1>7, <2>1 DEF Loop
<1>10. \A u \in Tasks \ {t} : Loop(u)'
  BY <1>1, <1>2, OthersStay DEF TypeOK
<1>11. OneCrashIsSurvived' /\ left' \in Faults
  <2>1. \A u \in Tasks : pc'[u] = "unread" => pc[u] = "unread" /\ page'[u] = page[u]
    BY <1>1 DEF TypeOK
  <2>2. NoMore(left', left)
    BY <1>2, SameFaults
  <2> QED
    BY <1>2, <2>1, <2>2, CausesStay
<1> QED
  BY <1>2, <1>8, <1>9, <1>10, <1>11 DEF LruShape
\* The steps that load a frame, and a panic, leave the loop where it is.
LEMMA RoundStays ==
  ASSUME CacheInv, NEW t \in Tasks, UNCHANGED <<machine, call, data, page, off, count>>,
         pc[t] \in {"check", "copy"}, NEW s \in {"copy", "panic", "unread", "unwritten"},
         pc' = [pc EXCEPT ![t] = s]
  PROVE  /\ \A u \in Tasks : Loop(u)'
         /\ pc' \in [Tasks -> {"idle", "check", "copy", "ret", "panic", "unread", "unwritten"}]
         /\ \A u \in Tasks : pc'[u] \in {"check", "copy"} => page'[u] \in Pages
         /\ pc'[t] = s /\ \A u \in Tasks \ {t} : pc'[u] = pc[u]
<1> USE DEF CacheInv, CacheIsSound
<1>1. /\ pc' \in [Tasks -> {"idle", "check", "copy", "ret", "panic", "unread", "unwritten"}]
      /\ pc'[t] = s /\ \A u \in Tasks \ {t} : pc'[u] = pc[u]
  BY DEF TypeOK
<1>2. \A u \in Tasks \ {t} : Loop(u)'
  BY <1>1 DEF Loop, call
<1>3. Loop(t)'
  BY <1>1 DEF Loop, call
<1>4. \A u \in Tasks : pc'[u] \in {"check", "copy"} => page'[u] \in Pages
  BY <1>1 DEF TypeOK
<1> QED
  BY <1>1, <1>2, <1>3, <1>4

\* The frame is cached already.
LEMMA HitKeeps ==
  ASSUME CacheInv, NEW t \in Tasks, Hit(t)
  PROVE  CacheInv'
<1> USE DEF CacheInv, CacheIsSound
<1>1. /\ UNCHANGED <<machine, blocks, left, cache, order, call, data, page, off, count>>
      /\ pc[t] = "check" /\ pc' = [pc EXCEPT ![t] = "copy"]
  BY DEF Hit, device
<1>2. /\ \A u \in Tasks : Loop(u)'
      /\ pc' \in [Tasks -> {"idle", "check", "copy", "ret", "panic", "unread", "unwritten"}]
      /\ \A u \in Tasks : pc'[u] \in {"check", "copy"} => page'[u] \in Pages
      /\ pc'[t] = "copy" /\ \A u \in Tasks \ {t} : pc'[u] = pc[u]
  BY <1>1, RoundStays
<1>3. TypeOK' /\ LruShape'
  BY <1>1, <1>2 DEF TypeOK, LruShape, Device, call
<1>4. OneCrashIsSurvived' /\ left' \in Faults
  BY <1>1, <1>2, SameFaults, CausesStay
<1> QED
  BY <1>2, <1>3, <1>4

\* The entry is gone.
LEMMA PanicKeeps ==
  ASSUME CacheInv, NEW t \in Tasks, Panic(t)
  PROVE  CacheInv'
<1> USE DEF CacheInv, CacheIsSound
<1>1. /\ UNCHANGED <<machine, blocks, left, cache, order, call, data, page, off, count>>
      /\ pc[t] = "copy" /\ pc' = [pc EXCEPT ![t] = "panic"]
  BY DEF Panic, device
<1>2. /\ \A u \in Tasks : Loop(u)'
      /\ pc' \in [Tasks -> {"idle", "check", "copy", "ret", "panic", "unread", "unwritten"}]
      /\ \A u \in Tasks : pc'[u] \in {"check", "copy"} => page'[u] \in Pages
      /\ pc'[t] = "panic" /\ \A u \in Tasks \ {t} : pc'[u] = pc[u]
  BY <1>1, RoundStays
<1>3. TypeOK' /\ LruShape'
  BY <1>1, <1>2 DEF TypeOK, LruShape, Device, call
<1>4. OneCrashIsSurvived' /\ left' \in Faults
  BY <1>1, <1>2, SameFaults, CausesStay
<1> QED
  BY <1>2, <1>3, <1>4

\* The faults of a state in the invariant lie within those of the machine.
LEMMA FaultsShrink ==
  ASSUME CacheInv, machine' = machine, NoMore(left', left)
  PROVE  left'.crashes \in 0 .. machine'.crashes /\ left'.refusals \in 0 .. machine'.refusals
<1>1. machine.crashes \in Nat /\ machine.refusals \in Nat /\ left \in Faults
  BY DriverAssumption DEF CacheInv, CacheIsSound, TypeOK
<1>2. /\ left.crashes \in 0 .. machine.crashes /\ left.refusals \in 0 .. machine.refusals
      /\ left' \in Faults /\ left'.crashes <= left.crashes /\ left'.refusals <= left.refusals
  BY DEF CacheInv, CacheIsSound, TypeOK, NoMore
<1>3. left'.crashes \in Nat /\ left'.refusals \in Nat
  BY <1>2 DEF Faults
<1> QED
  BY <1>1, <1>2, <1>3

\* A frame that cannot be read ends the call, for one of the three causes.
LEMMA UnreadKeeps ==
  ASSUME CacheInv, NEW t \in Tasks, Unread(t)
  PROVE  CacheInv'
<1> USE DEF CacheInv, CacheIsSound
<1>1. /\ UNCHANGED <<machine, blocks, cache, order, call, data, page, off, count>>
      /\ pc[t] = "check" /\ pc' = [pc EXCEPT ![t] = "unread"] /\ page[t] \in Pages
  BY DEF Unread, TypeOK
<1>2. PICK a \in read_blocks(page[t]) : a.err # "none" /\ left' = a.left
  BY DEF Unread
<1>3. ReadsOf(page[t], PerFrame, a)
  BY <1>1, ReadsFrame DEF TypeOK, DeviceOK
<1>4. NoMore(left', left)
  BY <1>2, <1>3 DEF ReadsOf
<1>5. /\ \A u \in Tasks : Loop(u)'
      /\ pc' \in [Tasks -> {"idle", "check", "copy", "ret", "panic", "unread", "unwritten"}]
      /\ \A u \in Tasks : pc'[u] \in {"check", "copy"} => page'[u] \in Pages
      /\ pc'[t] = "unread" /\ \A u \in Tasks \ {t} : pc'[u] = pc[u]
  BY <1>1, RoundStays
<1>6. TypeOK' /\ LruShape'
  BY <1>1, <1>4, <1>5, FaultsShrink DEF TypeOK, LruShape, Device, call
<1>7. \/ left'.crashes + 2 <= machine.crashes
      \/ left'.refusals < machine.refusals
      \/ machine.driver = "virtio_blk" /\ (page[t] + 1) * PerFrame > machine.capacity
  <2>1. \/ left'.crashes + 2 <= left.crashes
        \/ left'.refusals < left.refusals
        \/ machine.driver = "virtio_blk"
             /\ \E i \in 1 .. PerFrame : FirstBlock(page[t]) + i - 1 \notin Device
    BY <1>2, <1>3 DEF ReadsOf
  <2>2. /\ machine.crashes \in Nat /\ machine.refusals \in Nat
        /\ left.crashes \in Nat /\ left.refusals \in Nat
        /\ left'.crashes \in Nat /\ left'.refusals \in Nat
        /\ left.crashes <= machine.crashes /\ left.refusals <= machine.refusals
    BY <1>4, DriverAssumption DEF TypeOK, NoMore, Faults
  <2>3. ASSUME NEW i \in 1 .. PerFrame, FirstBlock(page[t]) + i - 1 \notin Device
        PROVE  (page[t] + 1) * PerFrame > machine.capacity
    <3>1. PICK k \in Nat : k = PerFrame
      BY Sizes
    <3>2. PICK p \in Nat : p = page[t]
      BY <1>1, Sizes DEF Pages
    <3>3. PICK c \in Nat : c = machine.capacity
      BY OnDisk DEF TypeOK
    <3>4. p * k \in Nat /\ FirstBlock(p) = p * k
      BY <3>1, FirstBlockIs, SMT
    <3>5. p * k + i - 1 \in Nat /\ p * k + i - 1 \notin 0 .. c - 1
      BY <2>3, <3>1, <3>2, <3>3, <3>4 DEF Device
    <3>6. (p + 1) * k = p * k + k
      BY SMT
    <3>7. i <= k /\ i \in Nat
      BY <3>1
    <3> HIDE DEF PerFrame
    <3>8. (p + 1) * k > c
      BY <3>4, <3>5, <3>6, <3>7
    <3> QED
      BY <3>1, <3>2, <3>3, <3>8
  <2> QED
    BY <2>1, <2>2, <2>3
<1>8. OneCrashIsSurvived'
  <2>1. ASSUME NEW u \in Tasks \ {t}, pc'[u] = "unread"
        PROVE  \/ left'.crashes + 2 <= machine'.crashes
               \/ left'.refusals < machine'.refusals
               \/ machine'.driver = "virtio_blk"
                    /\ (page'[u] + 1) * PerFrame > machine'.capacity
    <3>1. \/ left.crashes + 2 <= machine.crashes
          \/ left.refusals < machine.refusals
          \/ machine.driver = "virtio_blk" /\ (page[u] + 1) * PerFrame > machine.capacity
      BY <1>5, <2>1 DEF OneCrashIsSurvived
    <3>2. /\ machine.crashes \in Nat /\ machine.refusals \in Nat
          /\ left.crashes \in Nat /\ left.refusals \in Nat
          /\ left'.crashes \in Nat /\ left'.refusals \in Nat
          /\ left'.crashes <= left.crashes /\ left'.refusals <= left.refusals
      BY <1>4, DriverAssumption DEF TypeOK, NoMore, Faults
    <3> QED
      BY <1>1, <3>1, <3>2
  <2> QED
    BY <1>1, <1>7, <2>1 DEF OneCrashIsSurvived
<1>9. left' \in Faults
  BY <1>4 DEF NoMore
<1> QED
  BY <1>5, <1>6, <1>8, <1>9
\* The shape of the order, in the words of the lemmas about its keys.
LEMMA OrderShape ==
  ASSUME order \in Seq(Pages)
  PROVE  /\ LruShape <=> (Len(order) <= MAX_FRAMES /\ Distinct(order))
         /\ Cached = ElementsOf(order)
BY DEF LruShape, Distinct, Cached, ElementsOf

\* A frame is loaded while there is room.
LEMMA LoadKeeps ==
  ASSUME CacheInv, NEW t \in Tasks, Load(t)
  PROVE  CacheInv'
<1> USE DEF CacheInv, CacheIsSound
<1>1. /\ UNCHANGED <<machine, blocks, call, data, page, off, count>>
      /\ pc[t] = "check" /\ pc' = [pc EXCEPT ![t] = "copy"] /\ page[t] \in Pages
      /\ page[t] \notin Cached /\ Len(order) < MAX_FRAMES
      /\ order' = Append(order, page[t])
  BY DEF Load, TypeOK
<1>2. PICK a \in read_blocks(page[t]) :
        /\ a.err = "none" /\ left' = a.left
        /\ cache' = [cache EXCEPT ![page[t]] = AsPage(a.got)]
  BY DEF Load
<1>3. ReadsOf(page[t], PerFrame, a)
  BY <1>1, ReadsFrame DEF TypeOK, DeviceOK
<1>4. NoMore(left', left) /\ a.got \in Seq(Block) /\ Len(a.got) = PerFrame
  BY <1>2, <1>3 DEF ReadsOf
<1>5. cache' \in [Pages -> Page]
  <2>1. AsPage(a.got) \in Page
    BY <1>4, AsPageIs
  <2> QED
    BY <1>2, <2>1 DEF TypeOK
<1>6. /\ \A u \in Tasks : Loop(u)'
      /\ pc' \in [Tasks -> {"idle", "check", "copy", "ret", "panic", "unread", "unwritten"}]
      /\ \A u \in Tasks : pc'[u] \in {"check", "copy"} => page'[u] \in Pages
      /\ pc'[t] = "copy" /\ \A u \in Tasks \ {t} : pc'[u] = pc[u]
  BY <1>1, RoundStays
<1>7. order' \in Seq(Pages) /\ Len(order') = Len(order) + 1 /\ Distinct(order')
  <2>1. PICK s, r : s = order /\ r = order'
    OBVIOUS
  <2>2. /\ s \in Seq(Pages) /\ Distinct(s) /\ page[t] \notin ElementsOf(s)
        /\ r = Append(s, page[t])
    BY <1>1, <2>1, OrderShape DEF TypeOK
  <2>3. r \in Seq(Pages) /\ Len(r) = Len(s) + 1 /\ Distinct(r)
    BY <1>1, <2>2, PushKeeps
  <2> QED
    BY <2>1, <2>3
<1>8. LruShape'
  <2>1. Len(order') <= MAX_FRAMES
    <3>1. PICK n \in Nat, m \in Nat : n = Len(order) /\ m = MAX_FRAMES
      BY CacheAssumption DEF TypeOK
    <3> QED
      BY <1>1, <1>7, <3>1
  <2> QED
    BY <1>7, <2>1 DEF LruShape, Distinct
<1>9. TypeOK'
  BY <1>1, <1>4, <1>5, <1>6, <1>7, FaultsShrink DEF TypeOK, Device, call
<1>10. OneCrashIsSurvived' /\ left' \in Faults
  <2>1. \A u \in Tasks : pc'[u] = "unread" => pc[u] = "unread" /\ page'[u] = page[u]
    BY <1>1, <1>6
  <2> QED
    BY <1>1, <1>4, <2>1, CausesStay
<1> QED
  BY <1>6, <1>8, <1>9, <1>10

\* What a step of Replace does, with the answers of the driver and the frame that
\* leaves the cache named.
Replaced(t, a, w, h) ==
  /\ page[t] \in Pages /\ h = Head(order) /\ h # page[t] /\ h \in Cached
  /\ a.err = "none" /\ ReadsOf(page[t], PerFrame, a)
  /\ WritesOf(h, cache[h], a.left, PerFrame, w)
  /\ blocks' = w.got /\ left' = w.left /\ NoMore(left', left)
  /\ cache' \in [Pages -> Page] /\ cache'[page[t]] = AsPage(a.got)
  /\ \A q \in Pages \ {page[t], h} : cache'[q] = cache[q]
  /\ pc' = [pc EXCEPT ![t] = IF w.err = "none" THEN "copy" ELSE "unwritten"]
  /\ order' \in Seq(Pages) /\ Len(order') = Len(order) /\ Distinct(order')
  /\ Cached' = (Cached \ {h}) \cup {page[t]}

\* Every step of Replace is of that form.
LEMMA ReplaceIs ==
  ASSUME CacheInv, NEW t \in Tasks, Replace(t)
  PROVE  page[t] \notin Cached /\ \E a, w : \E h \in Pages : Replaced(t, a, w, h)
<1> USE DEF CacheInv, CacheIsSound
<1>1. /\ pc[t] = "check" /\ page[t] \in Pages /\ page[t] \notin Cached
      /\ Len(order) = MAX_FRAMES /\ order' = Append(Tail(order), page[t])
  BY DEF Replace, TypeOK
<1>2. PICK a, w :
        /\ a \in read_blocks(page[t])
        /\ w \in write_blocks(Head(order), cache[Head(order)], a.left)
        /\ a.err = "none" /\ blocks' = w.got /\ left' = w.left
        /\ cache' = [cache EXCEPT ![page[t]] = AsPage(a.got), ![Head(order)] = Empty]
        /\ pc' = [pc EXCEPT ![t] = IF w.err = "none" THEN "copy" ELSE "unwritten"]
  BY DEF Replace
<1>3. PICK s, r : s = order /\ r = Tail(s)
  OBVIOUS
<1>4. s \in Seq(Pages) /\ Distinct(s) /\ s # <<>> /\ Cached = ElementsOf(s)
  <2>1. s \in Seq(Pages) /\ Distinct(s) /\ Cached = ElementsOf(s)
    BY <1>3, OrderShape DEF TypeOK
  <2>2. Len(s) > 0
    BY <1>1, <1>3, CacheAssumption
  <2> QED
    BY <2>1, <2>2
<1>5. /\ r \in Seq(Pages) /\ Len(r) = Len(s) - 1 /\ Distinct(r)
      /\ Head(s) \in ElementsOf(s) /\ ElementsOf(r) = ElementsOf(s) \ {Head(s)}
  BY <1>3, <1>4, PopKeeps
<1>6. PICK h \in Pages : h = Head(order) /\ h = Head(s)
  BY <1>3, <1>4
<1>7. h # page[t] /\ h \in Cached /\ page[t] \notin ElementsOf(r)
  BY <1>1, <1>4, <1>5, <1>6
<1>8. PICK z : z = order'
  OBVIOUS
<1>9. /\ z \in Seq(Pages) /\ Len(z) = Len(r) + 1 /\ Distinct(z)
      /\ ElementsOf(z) = ElementsOf(r) \cup {page[t]}
  <2>1. z = Append(r, page[t])
    BY <1>1, <1>3, <1>8
  <2> QED
    BY <1>1, <1>5, <1>7, <2>1, PushKeeps
<1>10. ReadsOf(page[t], PerFrame, a)
  BY <1>1, <1>2, ReadsFrame DEF TypeOK, DeviceOK
<1>11. a.left \in Faults /\ a.got \in Seq(Block) /\ Len(a.got) = PerFrame
  BY <1>2, <1>10 DEF ReadsOf, NoMore
<1>12. WritesOf(h, cache[h], a.left, PerFrame, w)
  <2>1. cache[h] \in Page /\ w \in write_blocks(h, cache[h], a.left)
    BY <1>2, <1>6 DEF TypeOK
  <2> QED
    BY <1>11, <2>1, WritesFrame DEF TypeOK, DeviceOK
<1>13. NoMore(left', left)
  BY <1>2, <1>10, <1>12 DEF ReadsOf, WritesOf, NoMore, Faults
<1>14. AsPage(a.got) \in Page /\ Empty \in Page
  BY <1>11, AsPageIs, BlankIsBlock DEF Empty, Page
<1>15. /\ cache' \in [Pages -> Page] /\ cache'[page[t]] = AsPage(a.got)
       /\ \A q \in Pages \ {page[t], h} : cache'[q] = cache[q]
  BY <1>1, <1>2, <1>6, <1>7, <1>14 DEF TypeOK
<1>16. /\ order' \in Seq(Pages) /\ Len(order') = Len(order) /\ Distinct(order')
  BY <1>3, <1>4, <1>5, <1>8, <1>9
<1>17. Cached' = (Cached \ {h}) \cup {page[t]}
  <2>1. Cached' = ElementsOf(order')
    BY DEF Cached, ElementsOf
  <2> QED
    BY <1>4, <1>5, <1>6, <1>8, <1>9, <2>1
<1>18. Replaced(t, a, w, h)
  BY <1>1, <1>2, <1>6, <1>7, <1>10, <1>12, <1>13, <1>15, <1>16, <1>17 DEF Replaced
<1> QED
  BY <1>1, <1>18

\* A frame takes the place of the least recently used one.
LEMMA ReplaceKeeps ==
  ASSUME CacheInv, NEW t \in Tasks, Replace(t)
  PROVE  CacheInv'
<1> USE DEF CacheInv, CacheIsSound
<1>1. UNCHANGED <<machine, call, data, page, off, count>> /\ pc[t] = "check"
  BY DEF Replace
<1>2. PICK a, w : \E h \in Pages : Replaced(t, a, w, h)
  BY ReplaceIs
<1>h. PICK h \in Pages : Replaced(t, a, w, h)
  BY <1>2
<1>3. PICK s \in {"copy", "unwritten"} : pc' = [pc EXCEPT ![t] = s]
  BY <1>h DEF Replaced
<1>4. /\ \A u \in Tasks : Loop(u)'
      /\ pc' \in [Tasks -> {"idle", "check", "copy", "ret", "panic", "unread", "unwritten"}]
      /\ \A u \in Tasks : pc'[u] \in {"check", "copy"} => page'[u] \in Pages
      /\ pc'[t] = s /\ \A u \in Tasks \ {t} : pc'[u] = pc[u]
  BY <1>1, <1>3, RoundStays
<1>5. blocks' \in [Device -> Block] /\ cache' \in [Pages -> Page] /\ NoMore(left', left)
      /\ order' \in Seq(Pages) /\ Len(order') = Len(order) /\ Distinct(order')
  BY <1>h DEF Replaced, WritesOf
<1>6. TypeOK'
  BY <1>1, <1>4, <1>5, FaultsShrink DEF TypeOK, Device, call
<1>7. LruShape'
  BY <1>5 DEF LruShape, Distinct
<1>8. OneCrashIsSurvived' /\ left' \in Faults
  <2>1. \A u \in Tasks : pc'[u] = "unread" => pc[u] = "unread" /\ page'[u] = page[u]
    BY <1>1, <1>4
  <2> QED
    BY <1>1, <1>5, <2>1, CausesStay
<1> QED
  BY <1>4, <1>6, <1>7, <1>8
\* A call returns.
LEMMA ReturnKeeps ==
  ASSUME CacheInv, NEW t \in Tasks, Return(t)
  PROVE  CacheInv'
<1> USE DEF CacheInv, CacheIsSound
<1>1. /\ UNCHANGED <<machine, blocks, left, cache, order>> /\ pc[t] = "ret"
      /\ pc' = [pc EXCEPT ![t] = "idle"] /\ op' = [op EXCEPT ![t] = "none"]
      /\ data' = [data EXCEPT ![t] = <<>>]
      /\ start' = [start EXCEPT ![t] = 0] /\ len' = [len EXCEPT ![t] = 0]
      /\ page' = [page EXCEPT ![t] = 0] /\ off' = [off EXCEPT ![t] = 0]
      /\ count' = [count EXCEPT ![t] = 0]
  BY DEF Return, device
<1>2. TypeOK'
  <2>1. /\ op' \in [Tasks -> {"none", "read", "write"}]
        /\ start' \in [Tasks -> Nat] /\ len' \in [Tasks -> Nat] /\ count' \in [Tasks -> Nat]
        /\ pc' \in [Tasks -> {"idle", "check", "copy", "ret", "panic", "unread", "unwritten"}]
    BY <1>1 DEF TypeOK
  <2>2. data' \in [Tasks -> Seq(Bytes)]
    <3>1. <<>> \in Seq(Bytes)
      OBVIOUS
    <3> QED
      BY <1>1, <3>1 DEF TypeOK
  <2>3. page' \in [Tasks -> 0 .. Frames] /\ off' \in [Tasks -> 0 .. FRAME_SIZE - 1]
    <3>1. 0 \in 0 .. Frames /\ 0 \in 0 .. FRAME_SIZE - 1
      BY Sizes
    <3> QED
      BY <1>1, <3>1 DEF TypeOK
  <2>4. \A u \in Tasks : pc'[u] \in {"check", "copy"} => page'[u] \in Pages
    BY <1>1 DEF TypeOK
  <2> QED
    BY <1>1, <2>1, <2>2, <2>3, <2>4 DEF TypeOK, Device
<1>3. Loop(t)'
  BY <1>1 DEF TypeOK, Loop
<1>4. \A u \in Tasks \ {t} : Loop(u)'
  BY <1>1, OthersStay DEF TypeOK
<1>5. OneCrashIsSurvived' /\ left' \in Faults
  <2>1. \A u \in Tasks : pc'[u] = "unread" => pc[u] = "unread" /\ page'[u] = page[u]
    BY <1>1 DEF TypeOK
  <2> QED
    BY <1>1, <2>1, SameFaults, CausesStay
<1> QED
  BY <1>1, <1>2, <1>3, <1>4, <1>5 DEF LruShape

\* The piece that a round copies: at least one byte, all of them in the frame of the
\* round and inside the device, and the round after it starts in the next frame.
LEMMA PieceIs ==
  ASSUME CacheInv, NEW t \in Tasks, pc[t] = "copy",
         NEW n, n = Min2(FRAME_SIZE - off[t], len[t] - count[t])
  PROVE  /\ n \in Nat /\ n >= 1 /\ off[t] + n <= FRAME_SIZE /\ count[t] + n <= len[t]
         /\ start[t] + count[t] = page[t] * FRAME_SIZE + off[t]
         /\ page[t] \in Pages /\ off[t] \in 0 .. FRAME_SIZE - 1
         /\ start[t] \in Nat /\ count[t] \in Nat /\ len[t] \in Nat
         /\ start[t] + len[t] <= machine.capacity * SECTOR
         /\ count[t] + n < len[t] =>
              /\ off[t] + n = FRAME_SIZE
              /\ page[t] + 1 \in Pages
              /\ start[t] + (count[t] + n) = (page[t] + 1) * FRAME_SIZE + 0
<1> USE DEF CacheInv, CacheIsSound
<1>1. PICK s \in Nat, c \in Nat, l \in Nat : s = start[t] /\ c = count[t] /\ l = len[t]
  BY DEF TypeOK
<1>2. PICK p \in Nat, o \in 0 .. FRAME_SIZE - 1 : p = page[t] /\ o = off[t]
  BY Sizes DEF TypeOK
<1>3. c < l /\ s + c = p * FRAME_SIZE + o /\ s + l <= machine.capacity * SECTOR
  BY <1>1, <1>2 DEF Loop
<1>4. /\ n \in Nat /\ n >= 1 /\ o + n <= FRAME_SIZE /\ c + n <= l
      /\ c + n < l => o + n = FRAME_SIZE
  BY <1>1, <1>2, <1>3, Sizes DEF Min2
<1>5. ASSUME c + n < l
      PROVE  s + (c + n) = (p + 1) * FRAME_SIZE + 0 /\ p + 1 \in Pages
  <2>1. (p + 1) * FRAME_SIZE = p * FRAME_SIZE + FRAME_SIZE /\ p * FRAME_SIZE \in Nat
    BY Sizes, SMT
  <2>2. s + (c + n) = (p + 1) * FRAME_SIZE + 0
    BY <1>3, <1>4, <1>5, <2>1, Sizes
  <2>3. PICK a \in Nat : a = s + (c + n)
    BY <1>4
  <2>4. a < machine.capacity * SECTOR
    <3>1. PICK z \in Nat : z = machine.capacity * SECTOR
      BY OnDisk DEF TypeOK
    <3> QED
      BY <1>3, <1>4, <1>5, <2>3, <3>1
  <2>5. a \div FRAME_SIZE \in Pages
    BY <2>3, <2>4, InsideDevice DEF TypeOK
  <2>6. 0 \in 0 .. FRAME_SIZE - 1 /\ p + 1 \in Nat
    BY Sizes
  <2>7. a \div FRAME_SIZE = p + 1
    BY <2>2, <2>3, <2>6, AddressJoins
  <2> QED
    BY <2>2, <2>5, <2>7
<1>6. page[t] \in Pages
  BY DEF TypeOK
<1> QED
  BY <1>1, <1>2, <1>3, <1>4, <1>5, <1>6

\* What a round copies: the cache, the answer so far and the offset after it.
LEMMA CopyIs ==
  ASSUME CacheInv, NEW t \in Tasks, Copy(t),
         NEW n, n = Min2(FRAME_SIZE - off[t], len[t] - count[t])
  PROVE  /\ UNCHANGED <<machine, blocks, left, op, start, len>>
         /\ pc[t] = "copy" /\ page[t] \in Cached
         /\ order' \in Seq(Pages) /\ Len(order') = Len(order) /\ Distinct(order')
         /\ Cached' = Cached
         /\ count' = [count EXCEPT ![t] = @ + n] /\ page' = [page EXCEPT ![t] = @ + 1]
         /\ pc' = [pc EXCEPT ![t] = IF count[t] + n < len[t] THEN "check" ELSE "ret"]
         /\ op[t] = "read" =>
              /\ cache' = cache /\ off' = [off EXCEPT ![t] = 0]
              /\ data' = [data EXCEPT ![t] = @ \o copy_to(cache[page[t]], off[t], n)]
         /\ op[t] # "read" =>
              /\ data' = data /\ off' = [off EXCEPT ![t] = (@ + n) % FRAME_SIZE]
              /\ cache' = [cache EXCEPT ![page[t]] =
                             copy_from(@, off[t], SubSeq(data[t], count[t] + 1, count[t] + n))]
<1> USE DEF CacheInv, CacheIsSound
<1>1. PICK i \in DOMAIN order : order' = Promote(i)
  BY DEF Copy
<1>2. PICK r : r = order'
  OBVIOUS
<1>3. order \in Seq(Pages) /\ Distinct(order) /\ Cached = ElementsOf(order)
  BY OrderShape DEF TypeOK
<1>4. r \in Seq(Pages) /\ Len(r) = Len(order) /\ Distinct(r) /\ ElementsOf(r) = ElementsOf(order)
  BY <1>1, <1>2, <1>3, PromoteKeeps
<1>5. Cached' = Cached
  BY <1>2, <1>3, <1>4 DEF Cached, ElementsOf
<1> QED
  BY <1>2, <1>4, <1>5 DEF Copy, device, call
\* n bytes after the first c.
LEMMA PartOf ==
  ASSUME NEW d \in Seq(Bytes), NEW c \in Nat, NEW n \in Nat, c + n <= Len(d),
         NEW s, s = SubSeq(d, c + 1, c + n)
  PROVE  s \in Seq(Bytes) /\ Len(s) = n /\ \A i \in 1 .. n : s[i] = d[c + i]
<1>1. PICK x \in Int : x = c + 1
  OBVIOUS
<1>2. PICK y \in Int : y = c + n
  OBVIOUS
<1>3. \A i \in x .. y : d[i] \in Bytes
  BY <1>1, <1>2
<1>4. /\ SubSeq(d, x, y) \in Seq(Bytes)
      /\ Len(SubSeq(d, x, y)) = IF x <= y THEN y - x + 1 ELSE 0
      /\ \A i \in 1 .. y - x + 1 : SubSeq(d, x, y)[i] = d[x + i - 1]
  BY <1>3, SubSeqProperties
<1>5. s = SubSeq(d, x, y) /\ y - x + 1 = n /\ (IF x <= y THEN y - x + 1 ELSE 0) = n
  BY <1>1, <1>2
<1>6. \A i \in 1 .. n : x + i - 1 = c + i
  BY <1>1
<1> QED
  BY <1>4, <1>5, <1>6

\* new is the page that a round of n bytes writes, s are the bytes.
Written(t, n, s, new) ==
  /\ new = copy_from(cache[page[t]], off[t], SubSeq(data[t], count[t] + 1, count[t] + n))
  /\ \A i \in 1 .. n : s[i] = data[t][count[t] + i]
  /\ \A c \in 0 .. FRAME_SIZE - 1 :
       Cell(new, c) = IF c \in off[t] .. off[t] + n - 1 THEN s[c - off[t] + 1]
                      ELSE Cell(cache[page[t]], c)

\* The page that a round writes.
LEMMA CopyWrites ==
  ASSUME CacheInv, NEW t \in Tasks, pc[t] = "copy", op[t] # "read",
         NEW n, n = Min2(FRAME_SIZE - off[t], len[t] - count[t])
  PROVE  \E s \in Seq(Bytes) : \E new \in Page : Written(t, n, s, new)
<1>1. /\ n \in Nat /\ n >= 1 /\ off[t] + n <= FRAME_SIZE /\ count[t] + n <= len[t]
      /\ page[t] \in Pages /\ off[t] \in 0 .. FRAME_SIZE - 1
      /\ count[t] \in Nat /\ len[t] \in Nat
  BY PieceIs
<1>2. op[t] = "write" /\ Len(data[t]) = len[t] /\ data[t] \in Seq(Bytes)
  BY DEF CacheInv, CacheIsSound, TypeOK, Loop
<1>3. PICK d \in Seq(Bytes) : d = data[t]
  BY <1>2
<1>4. PICK c \in Nat : c = count[t]
  BY <1>1
<1>m. PICK m \in Nat : m = n
  BY <1>1
<1>5. PICK s : s = SubSeq(d, c + 1, c + m)
  OBVIOUS
<1>6. s \in Seq(Bytes) /\ Len(s) = m /\ \A i \in 1 .. m : s[i] = d[c + i]
  <2>1. c + m <= Len(d)
    BY <1>1, <1>2, <1>3, <1>4, <1>m
  <2> QED
    BY <1>5, <2>1, PartOf
<1>7. PICK o \in 0 .. FRAME_SIZE - 1 : o = off[t]
  BY <1>1
<1>8. PICK pg \in Page : pg = cache[page[t]]
  BY <1>1 DEF CacheInv, CacheIsSound, TypeOK
<1>9. PICK new : new = copy_from(pg, o, s)
  OBVIOUS
<1>10. o + Len(s) <= FRAME_SIZE
  BY <1>1, <1>m, <1>6, <1>7
<1>11. /\ new \in Page
       /\ \A k \in 0 .. FRAME_SIZE - 1 :
            Cell(new, k) = IF k \in o .. o + Len(s) - 1 THEN s[k - o + 1] ELSE Cell(pg, k)
  <2>1. s \in Seq(Bytes)
    BY <1>6
  <2>2. new \in Page
    BY <1>9, <1>10, <2>1, CopyFromIs, Sizes
  <2>3. \A k \in 0 .. FRAME_SIZE - 1 :
          Cell(new, k) = IF k \in o .. o + Len(s) - 1 THEN s[k - o + 1] ELSE Cell(pg, k)
    BY <1>9, <1>10, <2>1, CopyFromIs, Sizes
  <2> QED
    BY <2>2, <2>3
<1>12. new = copy_from(cache[page[t]], off[t], SubSeq(data[t], count[t] + 1, count[t] + n))
  BY <1>3, <1>4, <1>m, <1>5, <1>7, <1>8, <1>9
<1>13. \A i \in 1 .. n : s[i] = data[t][count[t] + i]
  BY <1>3, <1>4, <1>m, <1>6
<1>14. \A k \in 0 .. FRAME_SIZE - 1 :
         Cell(new, k) = IF k \in off[t] .. off[t] + n - 1 THEN s[k - off[t] + 1]
                        ELSE Cell(cache[page[t]], k)
  BY <1>m, <1>6, <1>7, <1>8, <1>11
<1>15. s \in Seq(Bytes) /\ new \in Page
  BY <1>6, <1>11
<1>16. Written(t, n, s, new)
  BY <1>12, <1>13, <1>14 DEF Written
<1> QED
  BY <1>15, <1>16

\* A round copies its piece.
LEMMA CopyKeeps ==
  ASSUME CacheInv, NEW t \in Tasks, Copy(t)
  PROVE  CacheInv'
<1> USE DEF CacheInv, CacheIsSound
<1>n. PICK n : n = Min2(FRAME_SIZE - off[t], len[t] - count[t])
  OBVIOUS
<1>1. /\ UNCHANGED <<machine, blocks, left, op, start, len>>
      /\ pc[t] = "copy"
      /\ order' \in Seq(Pages) /\ Len(order') = Len(order) /\ Distinct(order')
      /\ count' = [count EXCEPT ![t] = @ + n] /\ page' = [page EXCEPT ![t] = @ + 1]
      /\ pc' = [pc EXCEPT ![t] = IF count[t] + n < len[t] THEN "check" ELSE "ret"]
  BY <1>n, CopyIs
<1>2. /\ n \in Nat /\ n >= 1 /\ off[t] + n <= FRAME_SIZE /\ count[t] + n <= len[t]
      /\ page[t] \in Pages /\ off[t] \in 0 .. FRAME_SIZE - 1
      /\ count[t] \in Nat /\ len[t] \in Nat
  BY <1>n, <1>1, PieceIs
<1>3. /\ cache' \in [Pages -> Page] /\ data' \in [Tasks -> Seq(Bytes)]
      /\ off' \in [Tasks -> 0 .. FRAME_SIZE - 1]
      /\ \A u \in Tasks \ {t} : data'[u] = data[u] /\ off'[u] = off[u]
      /\ op[t] = "write" => data' = data
      /\ off[t] + n = FRAME_SIZE => off'[t] = 0
  <2>1. CASE op[t] = "read"
    <3>1. /\ cache' = cache /\ off' = [off EXCEPT ![t] = 0]
          /\ data' = [data EXCEPT ![t] = @ \o copy_to(cache[page[t]], off[t], n)]
      BY <1>n, <2>1, CopyIs
    <3>2. copy_to(cache[page[t]], off[t], n) \in Seq(Bytes)
      BY <1>2, CopyToIs DEF TypeOK
    <3>3. 0 \in 0 .. FRAME_SIZE - 1
      BY Sizes
    <3>4. PICK x \in Seq(Bytes) : x = copy_to(cache[page[t]], off[t], n)
      BY <3>2
    <3>5. data[t] \o x \in Seq(Bytes)
      BY <3>4 DEF TypeOK
    <3>6. data' = [data EXCEPT ![t] = data[t] \o x]
      BY <3>1, <3>4
    <3>7. data' \in [Tasks -> Seq(Bytes)] /\ \A u \in Tasks \ {t} : data'[u] = data[u]
      BY <3>5, <3>6 DEF TypeOK
    <3>8. /\ off' \in [Tasks -> 0 .. FRAME_SIZE - 1]
          /\ \A u \in Tasks \ {t} : off'[u] = off[u]
          /\ off'[t] = 0
      BY <3>1, <3>3 DEF TypeOK
    <3> QED
      BY <2>1, <3>1, <3>7, <3>8 DEF TypeOK
  <2>2. CASE op[t] # "read"
    <3>1. PICK new \in Page :
            new = copy_from(cache[page[t]], off[t], SubSeq(data[t], count[t] + 1, count[t] + n))
      <4>1. PICK s \in Seq(Bytes) : \E new \in Page : Written(t, n, s, new)
        BY <1>n, <1>1, <2>2, CopyWrites
      <4> QED
        BY <4>1 DEF Written
    <3>4. /\ data' = data /\ off' = [off EXCEPT ![t] = (@ + n) % FRAME_SIZE]
          /\ cache' = [cache EXCEPT ![page[t]] = new]
      BY <1>n, <2>2, <3>1, CopyIs
    <3>5. PICK o \in Nat : o = off[t] + n
      BY <1>2
    <3>6. o % FRAME_SIZE \in 0 .. FRAME_SIZE - 1 /\ (o = FRAME_SIZE => o % FRAME_SIZE = 0)
      <4>1. o % FRAME_SIZE \in 0 .. FRAME_SIZE - 1
        BY Sizes, DivMod
      <4>2. FRAME_SIZE = 1 * FRAME_SIZE + 0 /\ 0 \in 0 .. FRAME_SIZE - 1
        BY Sizes
      <4>3. FRAME_SIZE % FRAME_SIZE = 0
        BY <4>2, Sizes, DivModIs
      <4> QED
        BY <4>1, <4>3
    <3>7. PICK z \in 0 .. FRAME_SIZE - 1 : z = o % FRAME_SIZE
      BY <3>6
    <3>8. off' = [off EXCEPT ![t] = z]
      BY <3>4, <3>5, <3>7
    <3>9. /\ off' \in [Tasks -> 0 .. FRAME_SIZE - 1] /\ off'[t] = z
          /\ \A u \in Tasks \ {t} : off'[u] = off[u]
      BY <3>8 DEF TypeOK
    <3>10. cache' \in [Pages -> Page]
      BY <3>1, <3>4 DEF TypeOK
    <3> QED
      BY <3>4, <3>5, <3>6, <3>7, <3>9, <3>10 DEF TypeOK
  <2> QED
    BY <2>1, <2>2
<1>4. /\ count'[t] = count[t] + n /\ page'[t] = page[t] + 1
      /\ \A u \in Tasks \ {t} : count'[u] = count[u] /\ page'[u] = page[u] /\ pc'[u] = pc[u]
      /\ pc'[t] = IF count[t] + n < len[t] THEN "check" ELSE "ret"
  BY <1>1 DEF TypeOK
<1>5. /\ count' \in [Tasks -> Nat] /\ page' \in [Tasks -> 0 .. Frames]
      /\ pc' \in [Tasks -> {"idle", "check", "copy", "ret", "panic", "unread", "unwritten"}]
  <2>1. page[t] + 1 \in 0 .. Frames
    BY <1>2, Sizes DEF Pages
  <2>2. count[t] + n \in Nat
    BY <1>2
  <2> QED
    BY <1>1, <2>1, <2>2 DEF TypeOK
<1>6. count[t] + n < len[t] =>
        /\ off[t] + n = FRAME_SIZE /\ page[t] + 1 \in Pages
        /\ start[t] + (count[t] + n) = (page[t] + 1) * FRAME_SIZE + 0
  BY <1>n, <1>1, PieceIs
<1>7. \A u \in Tasks : pc'[u] \in {"check", "copy"} => page'[u] \in Pages
  BY <1>4, <1>6 DEF TypeOK
<1>8. TypeOK'
  BY <1>1, <1>3, <1>5, <1>7 DEF TypeOK, Device
<1>9. Loop(t)'
  <2>1. op[t] \in {"read", "write"} /\ start[t] + len[t] <= machine.capacity * SECTOR
        /\ (op[t] = "write" => Len(data[t]) = len[t])
    BY <1>1 DEF Loop
  <2>2. CASE count[t] + n < len[t]
    <3>1. off'[t] = 0 /\ pc'[t] = "check"
          /\ start[t] + count'[t] = page'[t] * FRAME_SIZE + off'[t]
      BY <1>3, <1>4, <1>6, <2>2
    <3> QED
      BY <1>1, <1>2, <1>3, <1>4, <2>1, <2>2, <3>1 DEF Loop
  <2>3. CASE ~ (count[t] + n < len[t])
    <3>1. count[t] + n = len[t] /\ pc'[t] = "ret"
      BY <1>2, <1>4, <2>3
    <3> QED
      BY <1>1, <1>2, <1>3, <1>4, <2>1, <3>1 DEF Loop
  <2> QED
    BY <2>2, <2>3
<1>10. \A u \in Tasks \ {t} : Loop(u)'
  BY <1>1, <1>3, <1>4, OthersStay
<1>11. OneCrashIsSurvived' /\ left' \in Faults
  <2>1. \A u \in Tasks : pc'[u] = "unread" => pc[u] = "unread" /\ page'[u] = page[u]
    BY <1>4
  <2> QED
    BY <1>1, <2>1, SameFaults, CausesStay
<1>12. LruShape'
  BY <1>1 DEF LruShape, Distinct
<1> QED
  BY <1>8, <1>9, <1>10, <1>11, <1>12

\* No step leaves the invariant.
LEMMA NextCacheInv == CacheInv /\ [Next]_vars => CacheInv'
<1> SUFFICES ASSUME CacheInv, [Next]_vars PROVE CacheInv'
  OBVIOUS
<1>1. CASE Next
  BY <1>1, CallKeeps, HitKeeps, UnreadKeeps, LoadKeeps, ReplaceKeeps, CopyKeeps, PanicKeeps,
     ReturnKeeps DEF Next
<1>2. CASE UNCHANGED vars
  BY <1>2 DEF vars, device, CacheInv, CacheIsSound, TypeOK, LruShape, OneCrashIsSurvived,
              Loop, Device
<1> QED
  BY <1>1, <1>2

\* Every reachable state is in the invariant.
THEOREM InvariantHolds == Spec => []CacheInv
BY InitCacheInv, NextCacheInv, PTL DEF Spec

\* The cache keeps its types and its shape, whichever checks, loads and evictions of
\* any number of tasks interleave and whichever calls die of the driver.
THEOREM CacheHolds == Spec => []CacheIsSound
<1>1. CacheInv => CacheIsSound
  BY DEF CacheInv
<1> QED
  BY <1>1, InvariantHolds, PTL

\* No call dies of a single crash of the driver.
THEOREM CrashIsSurvived == Spec => []OneCrashIsSurvived
<1>1. CacheInv => OneCrashIsSurvived
  BY DEF CacheInv
<1> QED
  BY <1>1, InvariantHolds, PTL
-----------------------------------------------------------------------------
(* The cache implements FlatDisk *)

\* What Mem says of an address, for the keys, the pages and the blocks of a state.
ByteOf(D, K, c, b, a) ==
  IF a \div SECTOR \notin D THEN Blank[0]
  ELSE IF a \div FRAME_SIZE \in K THEN Cell(c[a \div FRAME_SIZE], a % FRAME_SIZE)
  ELSE b[a \div SECTOR][a % SECTOR]

\* Mem before and after a step.
LEMMA MemIs ==
  /\ Mem = [a \in 0 .. Frames * FRAME_SIZE - 1 |-> ByteOf(Device, Cached, cache, blocks, a)]
  /\ Mem' = [a \in 0 .. Frames * FRAME_SIZE - 1 |->
               ByteOf(Device', Cached', cache', blocks', a)]
BY DEF Mem, ByteOf

\* Every address holds a byte.
LEMMA MemBytes ==
  CacheInv => Mem \in [0 .. Frames * FRAME_SIZE - 1 -> Bytes]
<1> SUFFICES ASSUME CacheInv, NEW a \in 0 .. Frames * FRAME_SIZE - 1
             PROVE  ByteOf(Device, Cached, cache, blocks, a) \in Bytes
  BY MemIs
<1>1. /\ a \div FRAME_SIZE \in Pages /\ a % FRAME_SIZE \in 0 .. FRAME_SIZE - 1
      /\ a % SECTOR = (a % FRAME_SIZE) % SECTOR
  BY AddressSplits
<1>2. a % SECTOR \in 0 .. SECTOR - 1
  BY <1>1, OffsetSplits
<1>3. Blank[0] \in Bytes
  BY BlankIsBlock, Sizes DEF Block
<1>4. Cell(cache[a \div FRAME_SIZE], a % FRAME_SIZE) \in Bytes
  BY <1>1, CellIsByte DEF CacheInv, CacheIsSound, TypeOK
<1>5. a \div SECTOR \in Device => blocks[a \div SECTOR][a % SECTOR] \in Bytes
  BY <1>2 DEF CacheInv, CacheIsSound, TypeOK, Block
<1> QED
  BY <1>3, <1>4, <1>5 DEF ByteOf

\* A byte of a frame that was read without an error.
LEMMA ReadByte ==
  ASSUME DeviceOK, NEW a \in 0 .. Frames * FRAME_SIZE - 1, a \div SECTOR \in Device,
         NEW r, ReadsOf(a \div FRAME_SIZE, PerFrame, r), r.err = "none",
         NEW pg, pg = AsPage(r.got)
  PROVE  Cell(pg, a % FRAME_SIZE) = blocks[a \div SECTOR][a % SECTOR]
<1>1. PICK p \in Pages, o \in 0 .. FRAME_SIZE - 1 :
        /\ p = a \div FRAME_SIZE /\ o = a % FRAME_SIZE
        /\ a \div SECTOR = FirstBlock(p) + (o \div SECTOR) /\ a % SECTOR = o % SECTOR
  BY AddressSplits
<1>2. PICK b \in 0 .. PerFrame - 1 : b = o \div SECTOR
  BY OffsetSplits
<1>3. r.got \in Seq(Block) /\ Len(r.got) = PerFrame
  BY DEF ReadsOf
<1>4. pg[b] = r.got[b + 1]
  BY <1>3, AsPageIs
<1>5. b + 1 \in 1 .. PerFrame /\ FirstBlock(p) + (b + 1) - 1 = FirstBlock(p) + b
  <2>1. p \in Nat
    BY Sizes DEF Pages
  <2>2. FirstBlock(p) \in Nat
    BY <2>1, FirstBlockIs
  <2> QED
    BY <2>2, Sizes
<1>6. r.got[b + 1] = blocks[FirstBlock(p) + b]
  BY <1>1, <1>2, <1>5 DEF ReadsOf
<1> QED
  BY <1>1, <1>2, <1>4, <1>6 DEF Cell

\* A byte of a frame that was written back without an error.
LEMMA WrittenByte ==
  ASSUME DeviceOK, NEW a \in 0 .. Frames * FRAME_SIZE - 1, a \div SECTOR \in Device,
         NEW pg, NEW l, NEW w, WritesOf(a \div FRAME_SIZE, pg, l, PerFrame, w), w.err = "none"
  PROVE  w.got[a \div SECTOR][a % SECTOR] = Cell(pg, a % FRAME_SIZE)
<1>1. PICK p \in Pages, o \in 0 .. FRAME_SIZE - 1 :
        /\ p = a \div FRAME_SIZE /\ o = a % FRAME_SIZE
        /\ a \div SECTOR = FirstBlock(p) + (o \div SECTOR) /\ a % SECTOR = o % SECTOR
  BY AddressSplits
<1>2. PICK b \in 0 .. PerFrame - 1 : b = o \div SECTOR
  BY OffsetSplits
<1>5. b + 1 \in 1 .. PerFrame /\ FirstBlock(p) + (b + 1) - 1 = FirstBlock(p) + b
      /\ (b + 1) - 1 = b
  <2>1. p \in Nat
    BY Sizes DEF Pages
  <2>2. FirstBlock(p) \in Nat
    BY <2>1, FirstBlockIs
  <2> QED
    BY <2>2, Sizes
<1>6. w.got[FirstBlock(p) + b] = pg[b]
  BY <1>1, <1>2, <1>5 DEF WritesOf
<1> QED
  BY <1>1, <1>2, <1>6 DEF Cell

\* A byte of a frame that was not written back.
LEMMA OtherByte ==
  ASSUME DeviceOK, NEW a \in 0 .. Frames * FRAME_SIZE - 1, a \div SECTOR \in Device,
         NEW h \in Pages, h # a \div FRAME_SIZE,
         NEW pg, NEW l, NEW w, WritesOf(h, pg, l, PerFrame, w)
  PROVE  w.got[a \div SECTOR] = blocks[a \div SECTOR]
<1>1. PICK p \in Pages, o \in 0 .. FRAME_SIZE - 1 :
        /\ p = a \div FRAME_SIZE /\ o = a % FRAME_SIZE
        /\ a \div SECTOR = FirstBlock(p) + (o \div SECTOR)
  BY AddressSplits
<1>2. PICK b \in 0 .. PerFrame - 1 : b = o \div SECTOR
  BY OffsetSplits
<1>3. PICK k \in Nat : k = PerFrame
  BY Sizes
<1>4. p \in Nat /\ h \in Nat /\ p * k \in Nat /\ h * k \in Nat
  <2>1. p \in Nat /\ h \in Nat
    BY Sizes DEF Pages
  <2> QED
    BY <2>1, SMT
<1>5. FirstBlock(p) = p * k /\ FirstBlock(h) = h * k
  BY <1>3, <1>4, FirstBlockIs
<1>6. p * k + b \notin h * k .. h * k + k - 1
  <2>1. b \in Nat /\ b <= k - 1
    BY <1>3
  <2>2. CASE p + 1 <= h
    <3>1. p * k + k <= h * k
      BY <1>4, <2>2, Multiples
    <3> QED
      BY <1>4, <2>1, <3>1
  <2>3. CASE h + 1 <= p
    <3>1. h * k + k <= p * k
      BY <1>4, <2>3, Multiples
    <3> QED
      BY <1>4, <2>1, <3>1
  <2> QED
    BY <1>1, <1>4, <2>2, <2>3
<1>7. a \div SECTOR \notin FirstBlock(h) .. FirstBlock(h) + PerFrame - 1
  BY <1>1, <1>2, <1>3, <1>5, <1>6
<1> QED
  BY <1>7 DEF WritesOf
\* The calls as FlatDisk sees them.
Calls == [t \in Tasks |-> IF Dead(t) THEN "dead" ELSE op[t]]

\* Loading a frame changes no byte.
LEMMA LoadKeepsMem ==
  ASSUME CacheInv, NEW t \in Tasks, Load(t)
  PROVE  Mem' = Mem
<1> USE DEF CacheInv, CacheIsSound
<1>1. /\ machine' = machine /\ blocks' = blocks /\ page[t] \in Pages /\ page[t] \notin Cached
      /\ order' = Append(order, page[t]) /\ order \in Seq(Pages)
  BY DEF Load, TypeOK
<1>2. PICK r : /\ r \in read_blocks(page[t]) /\ r.err = "none"
               /\ cache' = [cache EXCEPT ![page[t]] = AsPage(r.got)]
  BY DEF Load
<1>3. DeviceOK /\ ReadsOf(page[t], PerFrame, r)
  BY <1>1, <1>2, ReadsFrame DEF TypeOK, DeviceOK
<1>4. Cached' = Cached \cup {page[t]} /\ Device' = Device
  <2>1. PICK s, z : s = order /\ z = order'
    OBVIOUS
  <2>2. /\ s \in Seq(Pages) /\ Distinct(s) /\ page[t] \notin ElementsOf(s)
        /\ z = Append(s, page[t])
    BY <1>1, <2>1, OrderShape
  <2>3. ElementsOf(z) = ElementsOf(s) \cup {page[t]}
    BY <1>1, <2>2, PushKeeps
  <2> QED
    BY <1>1, <2>1, <2>3 DEF Cached, ElementsOf, Device
<1>5. cache'[page[t]] = AsPage(r.got) /\ \A q \in Pages \ {page[t]} : cache'[q] = cache[q]
  BY <1>1, <1>2 DEF TypeOK
<1>6. ASSUME NEW a \in 0 .. Frames * FRAME_SIZE - 1
      PROVE  ByteOf(Device', Cached', cache', blocks', a)
               = ByteOf(Device, Cached, cache, blocks, a)
  <2>1. a \div FRAME_SIZE \in Pages
    BY AddressSplits
  <2>2. CASE a \div SECTOR \notin Device
    BY <1>4, <2>2 DEF ByteOf
  <2>3. CASE a \div SECTOR \in Device /\ a \div FRAME_SIZE = page[t]
    <3>1. PICK pg : pg = AsPage(r.got)
      OBVIOUS
    <3>2. Cell(pg, a % FRAME_SIZE) = blocks[a \div SECTOR][a % SECTOR]
      BY <1>2, <1>3, <2>3, <3>1, ReadByte
    <3> QED
      BY <1>1, <1>4, <1>5, <2>3, <3>1, <3>2 DEF ByteOf
  <2>4. CASE a \div SECTOR \in Device /\ a \div FRAME_SIZE # page[t]
    BY <1>1, <1>4, <1>5, <2>1, <2>4 DEF ByteOf
  <2> QED
    BY <2>2, <2>3, <2>4
<1> QED
  BY <1>6, MemIs

\* Neither does replacing one, unless the driver fails to write it: then only bytes of
\* the frame that left the cache change.
LEMMA ReplaceKeepsMem ==
  ASSUME CacheInv, NEW t \in Tasks, Replace(t)
  PROVE  /\ pc'[t] \in {"copy", "unwritten"} /\ (pc'[t] = "copy" => Mem' = Mem)
         /\ \E h \in Pages : \A a \in 0 .. Frames * FRAME_SIZE - 1 :
              Mem'[a] # Mem[a] => a \div FRAME_SIZE = h
<1> USE DEF CacheInv, CacheIsSound
<1>1. PICK r, w : \E h \in Pages : Replaced(t, r, w, h)
  BY ReplaceIs
<1>2. PICK h \in Pages : Replaced(t, r, w, h)
  BY <1>1
<1>3. /\ page[t] \in Pages /\ page[t] \notin Cached /\ h # page[t] /\ h \in Cached
      /\ r.err = "none" /\ ReadsOf(page[t], PerFrame, r)
      /\ WritesOf(h, cache[h], r.left, PerFrame, w) /\ blocks' = w.got
      /\ cache'[page[t]] = AsPage(r.got)
      /\ \A q \in Pages \ {page[t], h} : cache'[q] = cache[q]
      /\ Cached' = (Cached \ {h}) \cup {page[t]}
  BY <1>2, ReplaceIs DEF Replaced
<1>4. pc'[t] = IF w.err = "none" THEN "copy" ELSE "unwritten"
  BY <1>2 DEF Replaced, TypeOK
<1>5. DeviceOK /\ Device' = Device
  BY DEF TypeOK, DeviceOK, Replace, Device
<1>6. ASSUME NEW a \in 0 .. Frames * FRAME_SIZE - 1, w.err = "none" \/ a \div FRAME_SIZE # h
      PROVE  ByteOf(Device', Cached', cache', blocks', a)
               = ByteOf(Device, Cached, cache, blocks, a)
  <2>1. a \div FRAME_SIZE \in Pages
    BY AddressSplits
  <2>2. CASE a \div SECTOR \notin Device
    BY <1>5, <2>2 DEF ByteOf
  <2>3. CASE a \div SECTOR \in Device /\ a \div FRAME_SIZE = page[t]
    <3>1. PICK pg : pg = AsPage(r.got)
      OBVIOUS
    <3>2. Cell(pg, a % FRAME_SIZE) = blocks[a \div SECTOR][a % SECTOR]
      BY <1>3, <1>5, <2>3, <3>1, ReadByte
    <3> QED
      BY <1>3, <1>5, <2>3, <3>1, <3>2 DEF ByteOf
  <2>4. CASE a \div SECTOR \in Device /\ a \div FRAME_SIZE = h
    <3>1. w.got[a \div SECTOR][a % SECTOR] = Cell(cache[h], a % FRAME_SIZE)
      BY <1>3, <1>5, <1>6, <2>4, WrittenByte
    <3> QED
      BY <1>3, <1>5, <2>4, <3>1 DEF ByteOf
  <2>5. CASE a \div SECTOR \in Device /\ a \div FRAME_SIZE \notin {page[t], h}
    <3>1. w.got[a \div SECTOR] = blocks[a \div SECTOR]
      BY <1>3, <1>5, <2>5, OtherByte
    <3> QED
      BY <1>3, <1>5, <2>1, <2>5, <3>1 DEF ByteOf
  <2> QED
    BY <2>2, <2>3, <2>4, <2>5
<1>7. w.err = "none" => Mem' = Mem
  BY <1>6, MemIs
<1>8. \A a \in 0 .. Frames * FRAME_SIZE - 1 : Mem'[a] # Mem[a] => a \div FRAME_SIZE = h
  BY <1>6, MemIs
<1> QED
  BY <1>4, <1>7, <1>8

\* What a step that leaves cache, keys and blocks alone does to the bytes.
LEMMA SameMem ==
  ASSUME UNCHANGED <<machine, blocks, cache>>, Cached' = Cached
  PROVE  Mem' = Mem
BY MemIs DEF Device
\* The addresses of a piece lie in one frame and on the device.
LEMMA PieceAddresses ==
  ASSUME CacheInv, NEW t \in Tasks, pc[t] = "copy",
         NEW n \in Nat, n >= 1, off[t] + n <= FRAME_SIZE, count[t] + n <= len[t],
         start[t] + count[t] = page[t] * FRAME_SIZE + off[t],
         NEW i \in 0 .. n - 1, NEW a, a = start[t] + count[t] + i
  PROVE  /\ a \in 0 .. Frames * FRAME_SIZE - 1 /\ a \div SECTOR \in Device
         /\ a \div FRAME_SIZE = page[t] /\ a % FRAME_SIZE = off[t] + i
<1> USE DEF CacheInv, CacheIsSound
<1>1. PICK s \in Nat, c \in Nat, l \in Nat : s = start[t] /\ c = count[t] /\ l = len[t]
  BY DEF TypeOK
<1>2. PICK p \in Nat, o \in 0 .. FRAME_SIZE - 1 : p = page[t] /\ o = off[t]
  <2>1. page[t] \in Nat /\ off[t] \in 0 .. FRAME_SIZE - 1
    BY Sizes DEF TypeOK
  <2> QED
    BY <2>1
<1>3. PICK j \in 0 .. FRAME_SIZE - 1 : j = o + i
  BY <1>2, Sizes
<1>4. p * FRAME_SIZE \in Nat
  BY Sizes, SMT
<1>5. a = p * FRAME_SIZE + j
  BY <1>1, <1>2, <1>3, <1>4
<1>6. a \in Nat /\ a \div FRAME_SIZE = p /\ a % FRAME_SIZE = j
  BY <1>5, AddressJoins
<1>7. a < machine.capacity * SECTOR
  <2>1. PICK z \in Nat : z = machine.capacity * SECTOR
    BY OnDisk DEF TypeOK
  <2>2. s + l <= z
    BY <1>1, <2>1 DEF Loop
  <2>3. c + n <= l /\ a = s + c + i
    BY <1>1
  <2> QED
    BY <2>1, <2>2, <2>3
<1>8. a \in 0 .. Frames * FRAME_SIZE - 1 /\ a \div SECTOR \in Device
  BY <1>6, <1>7, InsideDevice DEF TypeOK
<1> QED
  BY <1>2, <1>3, <1>6, <1>8

\* A round of a read appends the bytes at the next addresses.
LEMMA CopyReads ==
  ASSUME CacheInv, NEW t \in Tasks, Copy(t), op[t] = "read",
         NEW n, n = Min2(FRAME_SIZE - off[t], len[t] - count[t])
  PROVE  /\ Mem' = Mem
         /\ data' = [data EXCEPT ![t] = @ \o [i \in 1 .. n |-> Mem[start[t] + count[t] + i - 1]]]
<1> USE DEF CacheInv, CacheIsSound
<1>1. /\ UNCHANGED <<machine, blocks>> /\ cache' = cache /\ pc[t] = "copy"
      /\ Cached' = Cached /\ page[t] \in Cached
      /\ data' = [data EXCEPT ![t] = @ \o copy_to(cache[page[t]], off[t], n)]
  BY CopyIs
<1>2. /\ n \in Nat /\ n >= 1 /\ off[t] + n <= FRAME_SIZE /\ count[t] + n <= len[t]
      /\ start[t] + count[t] = page[t] * FRAME_SIZE + off[t]
      /\ page[t] \in Pages /\ off[t] \in 0 .. FRAME_SIZE - 1
      /\ start[t] \in Nat /\ count[t] \in Nat
  BY <1>1, PieceIs
<1>3. PICK m \in Nat : m = n
  BY <1>2
<1>4. PICK z \in Nat : z = start[t] + count[t]
  BY <1>2
<1>5. PICK o \in Nat : o = off[t]
  BY <1>2, Sizes
<1>6. ASSUME NEW i \in 1 .. m
      PROVE  Cell(cache[page[t]], o + i - 1) = Mem[z + i - 1]
  <2>1. PICK j \in 0 .. m - 1 : j = i - 1
    OBVIOUS
  <2>2. PICK a \in Nat : a = z + j
    BY <2>1
  <2>3. /\ a \in 0 .. Frames * FRAME_SIZE - 1 /\ a \div SECTOR \in Device
        /\ a \div FRAME_SIZE = page[t] /\ a % FRAME_SIZE = off[t] + j
    <3>1. j \in 0 .. n - 1 /\ a = start[t] + count[t] + j
      BY <1>3, <1>4, <2>1, <2>2
    <3> QED
      BY <1>1, <1>2, <3>1, PieceAddresses
  <2>4. Mem[a] = ByteOf(Device, Cached, cache, blocks, a)
    BY <2>3, MemIs
  <2>5. Mem[a] = Cell(cache[page[t]], o + j)
    BY <1>1, <1>5, <2>3, <2>4 DEF ByteOf
  <2>6. o + i - 1 = o + j /\ z + i - 1 = a
    BY <2>1, <2>2
  <2> QED
    BY <2>5, <2>6
<1>7. copy_to(cache[page[t]], off[t], n) = [i \in 1 .. n |-> Mem[start[t] + count[t] + i - 1]]
  <2>1. [i \in 1 .. m |-> Cell(cache[page[t]], o + i - 1)] = [i \in 1 .. m |-> Mem[z + i - 1]]
    BY <1>6
  <2> QED
    BY <1>3, <1>4, <1>5, <2>1 DEF copy_to
<1>8. Mem' = Mem
  BY <1>1, SameMem
<1> QED
  BY <1>1, <1>7, <1>8

\* A round of a write puts the next bytes at the next addresses and changes no other.
LEMMA CopyChanges ==
  ASSUME CacheInv, NEW t \in Tasks, Copy(t), op[t] # "read",
         NEW n, n = Min2(FRAME_SIZE - off[t], len[t] - count[t]),
         NEW x \in 0 .. Frames * FRAME_SIZE - 1
  PROVE  Mem'[x] = IF x \in start[t] + count[t] .. start[t] + count[t] + n - 1
                   THEN data[t][x - start[t] + 1] ELSE Mem[x]
<1> USE DEF CacheInv, CacheIsSound
<1>1. PICK s \in Seq(Bytes), new \in Page :
        /\ new = copy_from(cache[page[t]], off[t], SubSeq(data[t], count[t] + 1, count[t] + n))
        /\ \A i \in 1 .. n : s[i] = data[t][count[t] + i]
        /\ \A c \in 0 .. FRAME_SIZE - 1 :
             Cell(new, c) = IF c \in off[t] .. off[t] + n - 1 THEN s[c - off[t] + 1]
                            ELSE Cell(cache[page[t]], c)
  <2>1. pc[t] = "copy"
    BY DEF Copy
  <2>2. PICK s \in Seq(Bytes) : \E new \in Page : Written(t, n, s, new)
    BY <2>1, CopyWrites
  <2> QED
    BY <2>2 DEF Written
<1>2. /\ UNCHANGED <<machine, blocks>> /\ pc[t] = "copy"
      /\ Cached' = Cached /\ page[t] \in Cached
      /\ cache' = [cache EXCEPT ![page[t]] = new]
  BY <1>1, CopyIs
<1>3. /\ n \in Nat /\ n >= 1 /\ off[t] + n <= FRAME_SIZE /\ count[t] + n <= len[t]
      /\ start[t] + count[t] = page[t] * FRAME_SIZE + off[t]
      /\ page[t] \in Pages /\ off[t] \in 0 .. FRAME_SIZE - 1
      /\ start[t] \in Nat /\ count[t] \in Nat
  BY <1>2, PieceIs
<1>4. cache'[page[t]] = new /\ \A q \in Pages \ {page[t]} : cache'[q] = cache[q]
  BY <1>2, <1>3 DEF TypeOK
<1>5. /\ Mem[x] = ByteOf(Device, Cached, cache, blocks, x)
      /\ Mem'[x] = ByteOf(Device, Cached, cache', blocks, x)
  BY <1>2, MemIs DEF Device
<1>6. PICK m \in Nat : m = n
  BY <1>3
<1>7. PICK z \in Nat : z = start[t] + count[t]
  BY <1>3
<1>8. PICK o \in 0 .. FRAME_SIZE - 1 : o = off[t]
  BY <1>3
<1>9. PICK p \in Nat : p = page[t]
  BY <1>3, Sizes DEF Pages
<1>10. CASE x \in z .. z + m - 1
  <2>1. PICK i \in 0 .. m - 1 : x = z + i
    <3>1. x - z \in 0 .. m - 1 /\ x = z + (x - z)
      BY <1>10, Sizes
    <3> QED
      BY <3>1
  <2>2. /\ x \div SECTOR \in Device /\ x \div FRAME_SIZE = page[t]
        /\ x % FRAME_SIZE = off[t] + i
    <3>1. i \in 0 .. n - 1 /\ x = start[t] + count[t] + i
      BY <1>6, <1>7, <2>1
    <3> QED
      BY <1>2, <1>3, <3>1, PieceAddresses
  <2>3. Mem'[x] = Cell(new, o + i)
    BY <1>2, <1>4, <1>5, <1>8, <2>2 DEF ByteOf
  <2>4. o + i \in 0 .. FRAME_SIZE - 1 /\ o + i \in o .. o + m - 1 /\ (o + i) - o + 1 = i + 1
    <3>1. o \in Nat /\ i \in Nat /\ i <= m - 1 /\ o + m <= FRAME_SIZE
      BY <1>3, <1>6, <1>8, <2>1, Sizes
    <3> QED
      BY <3>1, Sizes
  <2>5. Cell(new, o + i) = s[i + 1]
    BY <1>1, <1>6, <1>8, <2>4
  <2>6. s[i + 1] = data[t][count[t] + (i + 1)]
    <3>1. i + 1 \in 1 .. n
      BY <1>6, <2>1
    <3> QED
      BY <1>1, <3>1
  <2>7. count[t] + (i + 1) = x - start[t] + 1
    <3>1. PICK b \in Nat, c \in Nat : b = start[t] /\ c = count[t]
      BY <1>3
    <3>2. z = b + c /\ x = z + i /\ i \in Nat
      BY <1>7, <2>1, <3>1
    <3>3. c + (i + 1) = x - b + 1
      BY <3>2
    <3> QED
      BY <3>1, <3>3
  <2> QED
    BY <1>6, <1>7, <1>10, <2>3, <2>5, <2>6, <2>7
<1>11. CASE x \notin z .. z + m - 1
  <2>1. Mem'[x] = Mem[x]
    <3>1. CASE x \div SECTOR \notin Device
      BY <1>5, <3>1 DEF ByteOf
    <3>2. CASE x \div SECTOR \in Device /\ x \div FRAME_SIZE # page[t]
      <4>1. x \div FRAME_SIZE \in Pages
        BY AddressSplits
      <4> QED
        BY <1>4, <1>5, <3>2, <4>1 DEF ByteOf
    <3>3. CASE x \div SECTOR \in Device /\ x \div FRAME_SIZE = page[t]
      <4>1. PICK c \in 0 .. FRAME_SIZE - 1 : c = x % FRAME_SIZE
        BY AddressSplits
      <4>2. x = p * FRAME_SIZE + c
        BY <1>9, <3>3, <4>1, AddressSplits
      <4>3. PICK y \in Nat : y = p * FRAME_SIZE
        <5>1. p * FRAME_SIZE \in Nat
          BY Sizes, SMT
        <5> QED
          BY <5>1
      <4>4. z = y + o /\ x = y + c
        BY <1>3, <1>7, <1>8, <1>9, <4>2, <4>3
      <4>5. c \notin o .. o + m - 1
        BY <1>11, <4>4, Sizes
      <4>6. Cell(new, c) = Cell(cache[page[t]], c)
        BY <1>1, <1>6, <1>8, <4>5
      <4> QED
        BY <1>2, <1>4, <1>5, <3>3, <4>1, <4>6 DEF ByteOf
    <3> QED
      BY <3>1, <3>2, <3>3
  <2> QED
    BY <1>6, <1>7, <1>11, <2>1
<1> QED
  BY <1>10, <1>11
\* The cache starts as a disk.
LEMMA InitDisk == Init => Disk!Init
<1> SUFFICES ASSUME Init PROVE Disk!Init
  OBVIOUS
<1>1. Mem \in [0 .. Frames * FRAME_SIZE - 1 -> Bytes]
  BY InitCacheInv, MemBytes
<1>2. Calls = [t \in Tasks |-> "none"]
  BY DEF Init, Calls, Dead
<1> QED
  BY <1>1, <1>2 DEF Init, Disk!Init, Calls

\* A call that begins is a Begin.
LEMMA CallBegins ==
  ASSUME CacheInv, NEW t \in Tasks, Call(t)
  PROVE  Disk!Begin(t)
<1> USE DEF CacheInv, CacheIsSound
<1>1. PICK r \in Requests :
        /\ r.start + r.len <= machine.capacity * SECTOR
        /\ op' = [op EXCEPT ![t] = r.op]
        /\ start' = [start EXCEPT ![t] = r.start]
        /\ len' = [len EXCEPT ![t] = r.len]
        /\ data' = [data EXCEPT ![t] =
                      IF r.op = "read" THEN <<>> ELSE [i \in 1 .. r.len |-> r.byte]]
        /\ pc' = [pc EXCEPT ![t] = IF 0 < r.len THEN "check" ELSE "ret"]
  BY DEF Call
<1>2. pc[t] = "idle" /\ UNCHANGED <<machine, blocks, cache, order, count>>
  BY DEF Call, device
<1>3. r.op \in {"read", "write"} /\ r.start \in Nat /\ r.len \in Nat
  BY CacheAssumption
<1>4. Mem' = Mem
  BY <1>2, SameMem DEF Cached
<1>5. Calls[t] = "none" /\ Calls' = [Calls EXCEPT ![t] = r.op]
  <2>1. /\ pc'[t] \in {"check", "ret"} /\ op'[t] = r.op /\ op[t] = "none"
        /\ \A u \in Tasks \ {t} : pc'[u] = pc[u] /\ op'[u] = op[u]
    BY <1>1, <1>2 DEF TypeOK, Loop
  <2> QED
    BY <1>2, <2>1 DEF Calls, Dead
<1>6. /\ r.start \in 0 .. Frames * FRAME_SIZE /\ r.len \in 0 .. Frames * FRAME_SIZE
      /\ r.start + r.len <= Frames * FRAME_SIZE
  <2>1. PICK z \in Nat, y \in Nat :
          z = machine.capacity * SECTOR /\ y = Frames * FRAME_SIZE /\ z <= y
    BY OnDisk DEF TypeOK
  <2>2. r.start + r.len <= y
    BY <1>1, <1>3, <2>1
  <2>3. r.start \in 0 .. y /\ r.len \in 0 .. y
    BY <1>3, <2>1, <2>2
  <2> QED
    BY <2>1, <2>2, <2>3
<1>7. IF r.op = "read" THEN data' = [data EXCEPT ![t] = <<>>]
      ELSE Len(data'[t]) = r.len /\ \A u \in Tasks \ {t} : data'[u] = data[u]
  <2>1. r.op # "read" => Len(data'[t]) = r.len
    <3>1. Len([i \in 1 .. r.len |-> r.byte]) = r.len
      BY <1>3
    <3> QED
      BY <1>1, <3>1 DEF TypeOK
  <2>2. \A u \in Tasks \ {t} : data'[u] = data[u]
    BY <1>1 DEF TypeOK
  <2> QED
    BY <1>1, <2>1, <2>2
<1> QED
  BY <1>1, <1>2, <1>3, <1>4, <1>5, <1>6, <1>7 DEF Disk!Begin, Calls

\* A call that returns is an End.
LEMMA ReturnEnds ==
  ASSUME CacheInv, NEW t \in Tasks, Return(t)
  PROVE  Disk!End(t)
<1> USE DEF CacheInv, CacheIsSound
<1>1. /\ UNCHANGED <<machine, blocks, cache, order>> /\ pc[t] = "ret"
      /\ pc' = [pc EXCEPT ![t] = "idle"] /\ op' = [op EXCEPT ![t] = "none"]
      /\ data' = [data EXCEPT ![t] = <<>>] /\ start' = [start EXCEPT ![t] = 0]
      /\ len' = [len EXCEPT ![t] = 0] /\ count' = [count EXCEPT ![t] = 0]
  BY DEF Return, device
<1>2. Mem' = Mem
  BY <1>1, SameMem DEF Cached
<1>3. op[t] \in {"read", "write"} /\ count[t] = len[t]
  BY <1>1 DEF Loop
<1>4. Calls[t] \in {"read", "write"} /\ Calls' = [Calls EXCEPT ![t] = "none"]
  <2>1. /\ pc'[t] = "idle" /\ op'[t] = "none"
        /\ \A u \in Tasks \ {t} : pc'[u] = pc[u] /\ op'[u] = op[u]
    BY <1>1 DEF TypeOK
  <2>2. Calls[t] = op[t] /\ DOMAIN Calls = Tasks
    BY <1>1 DEF Calls, Dead
  <2>3. Calls' = [Calls EXCEPT ![t] = "none"]
    BY <2>1 DEF Calls, Dead
  <2> QED
    BY <1>3, <2>2, <2>3
<1> QED
  BY <1>1, <1>2, <1>3, <1>4 DEF Disk!End, Calls

\* A call that dies is a Die, if it loses bytes of one frame at most.
LEMMA DeadDies ==
  ASSUME CacheInv, CacheInv', NEW t \in Tasks, pc[t] \in {"check", "copy"},
         NEW s \in {"panic", "unread", "unwritten"}, pc' = [pc EXCEPT ![t] = s],
         UNCHANGED <<call, data, count>>,
         NEW h, \A a \in 0 .. Frames * FRAME_SIZE - 1 : Mem'[a] # Mem[a] => a \div FRAME_SIZE = h
  PROVE  Disk!Die(t)
<1> USE DEF CacheInv, CacheIsSound
<1>1. UNCHANGED <<op, start, len, data, count>>
  BY DEF call
<1>2. op[t] \in {"read", "write"} /\ count[t] < len[t]
  <2>1. PICK c \in Nat, l \in Nat : c = count[t] /\ l = len[t]
    BY DEF TypeOK
  <2>2. c <= l /\ c # l
    BY <2>1 DEF Loop
  <2> QED
    BY <2>1, <2>2 DEF Loop
<1>3. Calls[t] \in {"read", "write"} /\ Calls' = [Calls EXCEPT ![t] = "dead"]
  <2>1. pc'[t] = s /\ \A u \in Tasks \ {t} : pc'[u] = pc[u]
    BY DEF TypeOK
  <2> QED
    BY <1>1, <1>2, <2>1 DEF Calls, Dead
<1>4. Mem \in [0 .. Frames * FRAME_SIZE - 1 -> Bytes]
  BY MemBytes
<1>5. Mem' \in [0 .. Frames * FRAME_SIZE - 1 -> Bytes]
  <2>1. (CacheInv => Mem \in [0 .. Frames * FRAME_SIZE - 1 -> Bytes])'
    BY MemBytes, PTL
  <2> QED
    BY <2>1
<1>6. \A x, y \in DOMAIN Mem : Mem'[x] # Mem[x] /\ Mem'[y] # Mem[y]
                                 => x \div FRAME_SIZE = y \div FRAME_SIZE
  BY <1>4
<1> QED
  BY <1>1, <1>2, <1>3, <1>5, <1>6 DEF Disk!Die, Disk!range, Calls

\* A round of a call is a Piece.
LEMMA CopyIsPiece ==
  ASSUME CacheInv, NEW t \in Tasks, Copy(t)
  PROVE  \E n \in 1 .. Frames * FRAME_SIZE : Disk!Piece(t, n)
<1> USE DEF CacheInv, CacheIsSound
<1>1. PICK n : n = Min2(FRAME_SIZE - off[t], len[t] - count[t])
  OBVIOUS
<1>2. /\ UNCHANGED <<op, start, len>> /\ pc[t] = "copy"
      /\ count' = [count EXCEPT ![t] = @ + n]
      /\ pc' = [pc EXCEPT ![t] = IF count[t] + n < len[t] THEN "check" ELSE "ret"]
  BY <1>1, CopyIs
<1>3. /\ n \in Nat /\ n >= 1 /\ off[t] + n <= FRAME_SIZE /\ count[t] + n <= len[t]
      /\ start[t] + count[t] = page[t] * FRAME_SIZE + off[t]
      /\ off[t] \in 0 .. FRAME_SIZE - 1 /\ start[t] \in Nat /\ count[t] \in Nat
  BY <1>1, <1>2, PieceIs
<1>4. n \in 1 .. Frames * FRAME_SIZE
  <2>1. PICK y \in Nat : y = Frames * FRAME_SIZE /\ FRAME_SIZE <= y
    BY OnDisk DEF TypeOK
  <2> QED
    BY <1>3, <2>1, Sizes
<1>5. (start[t] + count[t]) \div FRAME_SIZE = (start[t] + count[t] + n - 1) \div FRAME_SIZE
  <2>1. PICK z \in Nat : z = start[t] + count[t]
    BY <1>3
  <2>2. PICK i \in 0 .. n - 1 : i = n - 1
    BY <1>3
  <2>3. PICK a \in Nat : a = z + i
    BY <1>3, <2>1, <2>2
  <2>4. a \div FRAME_SIZE = page[t]
    <3>1. a = start[t] + count[t] + i
      BY <2>1, <2>3
    <3> QED
      BY <1>2, <1>3, <3>1, PieceAddresses
  <2>5. z \div FRAME_SIZE = page[t]
    <3>1. z = start[t] + count[t] + 0 /\ 0 \in 0 .. n - 1
      BY <1>3, <2>1
    <3> QED
      BY <1>2, <1>3, <3>1, PieceAddresses
  <2>6. a = z + n - 1
    BY <1>3, <2>2, <2>3
  <2> QED
    BY <2>1, <2>4, <2>5, <2>6
<1>6. Calls' = Calls /\ Calls[t] = op[t] /\ op[t] \in {"read", "write"}
  <2>1. /\ pc'[t] \in {"check", "ret"} /\ op[t] \in {"read", "write"}
        /\ \A u \in Tasks \ {t} : pc'[u] = pc[u]
    BY <1>2 DEF TypeOK, Loop
  <2> QED
    BY <1>2, <2>1 DEF Calls, Dead
<1>7. CASE op[t] = "read"
  <2>1. /\ Mem' = Mem
        /\ data' = [data EXCEPT ![t] = @ \o [i \in 1 .. n |-> Mem[start[t] + count[t] + i - 1]]]
    BY <1>1, <1>7, CopyReads
  <2>2. Disk!Piece(t, n)
    BY <1>2, <1>3, <1>5, <1>6, <1>7, <2>1 DEF Disk!Piece, Disk!range, Calls
  <2> QED
    BY <1>4, <2>2
<1>8. CASE op[t] # "read"
  <2>1. \A x \in 0 .. Frames * FRAME_SIZE - 1 :
          Mem'[x] = IF x \in start[t] + count[t] .. start[t] + count[t] + n - 1
                    THEN data[t][x - start[t] + 1] ELSE Mem[x]
    BY <1>1, <1>8, CopyChanges
  <2>2. DOMAIN Mem = 0 .. Frames * FRAME_SIZE - 1
    BY MemIs
  <2>3. Mem' = [x \in DOMAIN Mem |->
                  IF x \in start[t] + count[t] .. start[t] + count[t] + n - 1
                  THEN data[t][x - start[t] + 1] ELSE Mem[x]]
    BY <2>1, <2>2, MemIs
  <2>4. data' = data
    BY <1>1, <1>8, CopyIs
  <2>5. Disk!Piece(t, n)
    BY <1>2, <1>3, <1>5, <1>6, <1>8, <2>3, <2>4 DEF Disk!Piece, Disk!range, Calls
  <2> QED
    BY <1>4, <2>5
<1> QED
  BY <1>7, <1>8

\* Steps that neither move a call nor change a byte are invisible.
LEMMA StepStutters ==
  ASSUME CacheInv, NEW t \in Tasks, UNCHANGED <<call, data, count>>, Mem' = Mem,
         pc[t] = "check", pc' = [pc EXCEPT ![t] = "copy"]
  PROVE  UNCHANGED Disk!disk
<1>1. pc'[t] = "copy" /\ \A u \in Tasks \ {t} : pc'[u] = pc[u]
  BY DEF CacheInv, CacheIsSound, TypeOK
<1>2. Calls' = Calls
  BY <1>1 DEF Calls, Dead, call
<1> QED
  BY <1>2 DEF Disk!disk, Calls, call

\* Every step of the cache is a step of the disk or leaves it alone: a round copies a
\* piece, a call that dies takes at most one frame with it, and checks, loads and
\* evictions are invisible.
LEMMA StepDisk ==
  ASSUME CacheInv, CacheInv', [Next]_vars
  PROVE  [Disk!Next]_(Disk!disk)
<1>1. ASSUME NEW t \in Tasks, Call(t) PROVE Disk!Next
  BY <1>1, CallBegins DEF Disk!Next
<1>2. ASSUME NEW t \in Tasks, Return(t) PROVE Disk!Next
  BY <1>2, ReturnEnds DEF Disk!Next
<1>3. ASSUME NEW t \in Tasks, Copy(t) PROVE Disk!Next
  BY <1>3, CopyIsPiece DEF Disk!Next
<1>4. ASSUME NEW t \in Tasks, Hit(t) PROVE UNCHANGED Disk!disk
  <2>1. Mem' = Mem
    BY <1>4, SameMem DEF Hit, device, Cached
  <2> QED
    BY <1>4, <2>1, StepStutters DEF Hit
<1>5. ASSUME NEW t \in Tasks, Load(t) PROVE UNCHANGED Disk!disk
  BY <1>5, LoadKeepsMem, StepStutters DEF Load
<1>6. ASSUME NEW t \in Tasks, Replace(t) PROVE [Disk!Next]_(Disk!disk)
  <2>1. PICK s \in {"copy", "unwritten"} : pc' = [pc EXCEPT ![t] = s]
    BY <1>6 DEF Replace
  <2>2. UNCHANGED <<call, data, count>> /\ pc[t] = "check" /\ pc'[t] = s
    BY <1>6, <2>1 DEF Replace, CacheInv, CacheIsSound, TypeOK
  <2>3. CASE s = "copy"
    BY <1>6, <2>1, <2>2, <2>3, ReplaceKeepsMem, StepStutters
  <2>4. CASE s = "unwritten"
    <3>1. PICK h \in Pages : \A a \in 0 .. Frames * FRAME_SIZE - 1 :
            Mem'[a] # Mem[a] => a \div FRAME_SIZE = h
      BY <1>6, ReplaceKeepsMem
    <3>2. Disk!Die(t)
      BY <2>1, <2>2, <2>4, <3>1, DeadDies
    <3> QED
      BY <3>2 DEF Disk!Next
  <2> QED
    BY <2>3, <2>4
<1>7. ASSUME NEW t \in Tasks, Unread(t) \/ Panic(t) PROVE Disk!Next
  <2>1. PICK s \in {"panic", "unread"} : pc' = [pc EXCEPT ![t] = s]
    BY <1>7 DEF Unread, Panic
  <2>2. UNCHANGED <<call, data, count>> /\ pc[t] \in {"check", "copy"}
    BY <1>7 DEF Unread, Panic
  <2>3. Mem' = Mem
    BY <1>7, SameMem DEF Unread, Panic, device, Cached
  <2>4. Disk!Die(t)
    BY <2>1, <2>2, <2>3, DeadDies
  <2> QED
    BY <2>4 DEF Disk!Next
<1>8. CASE UNCHANGED vars
  <2>1. Mem' = Mem
    BY <1>8, SameMem DEF vars, device, Cached
  <2> QED
    BY <1>8, <2>1 DEF vars, Disk!disk, Dead
<1> QED
  BY <1>1, <1>2, <1>3, <1>4, <1>5, <1>6, <1>7, <1>8 DEF Next

\* The cache in front of any device and either driver behaves as one array of bytes:
\* loading, promoting, evicting and writing back frames changes no byte a call can
\* read, every byte of a call lands at its address, and a failing device costs at most
\* one frame, in the step in which a call dies.
THEOREM CacheImplementsDisk == Spec => ImplementsDisk
<1>1. CacheInv /\ CacheInv' /\ [Next]_vars => [Disk!Next]_(Disk!disk)
  BY StepDisk
<1> QED
  BY <1>1, InitCacheInv, NextCacheInv, InitDisk, PTL DEF Spec, ImplementsDisk, Disk!Spec
==============================================================================
