----------------------------- MODULE BlockCache -----------------------------
(***************************************************************************)
(* The block cache domain, drivers/cache_blk/cache_blk/src/lib.rs: an LRU  *)
(* cache of frames in front of a disk of sectors.                          *)
(*                                                                         *)
(* read and write go frame by frame; for each they call check, which takes *)
(* the cache lock, loads the frame if it is absent and writes the least    *)
(* recently used one back, and RELEASES the lock; then they lock again and *)
(* unwrap the entry.  Both critical sections are atomic; between them any  *)
(* other task may run.  The dirty list is never filled: every evicted      *)
(* frame is written back.                                                  *)
(*                                                                         *)
(* Every answer of the shadow driver is unwrapped: an error ends the call, *)
(* and the unwinding releases the cache lock.                              *)
(***************************************************************************)
EXTENDS BlockDrivers

CONSTANTS
  Tasks,
  FRAME_SIZE,   \* bytes of a frame
  Frames,       \* frames of the largest disk
  MAX_FRAMES,   \* MAX_BLOCK_CACHE_FRAMES
  Requests      \* calls: records [op, start, len, byte]

PerFrame == FRAME_SIZE \div SECTOR

ASSUME CacheAssumption ==
  /\ PerFrame \in Nat \ {0} /\ FRAME_SIZE = PerFrame * SECTOR
  /\ Frames \in Nat \ {0} /\ MAX_FRAMES \in Nat \ {0}
  /\ \A r \in Requests : /\ r.op \in {"read", "write"} /\ r.byte \in Bytes
                         /\ r.start \in Nat /\ r.len \in Nat
  /\ \A m \in Machines : m.capacity <= Frames * PerFrame

Pages == 0 .. Frames - 1
Page == [0 .. PerFrame - 1 -> Block]
Min2(a, b) == IF a < b THEN a ELSE b

VARIABLES
  cache,    \* cache[p]: the PageCache of p, if p is cached
  order,    \* keys of the LruCache, least recently used first
  pc, op, start, len, data,   \* the call of each task
  page, off, count            \* page_id, offset and count of its loop

device == <<blocks, left>>
vars == <<machine, device, cache, order, pc, op, start, len, data, page, off, count>>
call == <<op, start, len>>

Cached == {order[i] : i \in DOMAIN order}

-----------------------------------------------------------------------------
(* PageCache *)

Cell(pg, o) == pg[o \div SECTOR][o % SECTOR]

copy_to(pg, offset, n) == [i \in 1..n |-> Cell(pg, offset + i - 1)]

copy_from(pg, offset, s) ==
  [b \in DOMAIN pg |-> [x \in DOMAIN pg[b] |->
     LET o == b * SECTOR + x IN
       IF o \in offset .. offset + Len(s) - 1 THEN s[o - offset + 1] ELSE pg[b][x]]]

-----------------------------------------------------------------------------
(* The device behind the cache *)

FirstBlock(p) == (p * FRAME_SIZE) \div SECTOR

\* check reads the blocks of a frame in order and stops at the first error
read_blocks(p) ==
  LET read[n \in 0 .. PerFrame] ==
        IF n = 0 THEN {Answer("none", <<>>, left)}
        ELSE UNION {IF a.err # "none" THEN {a}
                    ELSE {Answer(r.err, Append(a.got, r.got), r.left)
                            : r \in read_block(FirstBlock(p) + n - 1, a.left)}
                      : a \in read[n - 1]}
  IN read[PerFrame]

AsPage(slices) == [i \in 0 .. PerFrame - 1 |-> slices[i + 1]]

\* mutant: the first block of the frame is not written
write_blocks_SkipFirst(p, pg, l) ==
  LET write[n \in 1 .. PerFrame] ==
        IF n = 1 THEN {Answer("none", blocks, l)}
        ELSE UNION {IF a.err # "none" THEN {a}
                    ELSE write_block(a.got, FirstBlock(p) + n - 1, pg[n - 1], a.left)
                      : a \in write[n - 1]}
  IN write[PerFrame]

\* and writes the blocks of an evicted frame in order
write_blocks(p, pg, l) ==
  LET write[n \in 0 .. PerFrame] ==
        IF n = 0 THEN {Answer("none", blocks, l)}
        ELSE UNION {IF a.err # "none" THEN {a}
                    ELSE write_block(a.got, FirstBlock(p) + n - 1, pg[n - 1], a.left)
                      : a \in write[n - 1]}
  IN write[PerFrame]

-----------------------------------------------------------------------------
(* GenericBlockDevice *)

Empty == [i \in 0 .. PerFrame - 1 |-> Blank]

Init ==
  /\ DriverInit
  /\ cache = [p \in Pages |-> Empty]
  /\ order = <<>>
  /\ pc = [t \in Tasks |-> "idle"]
  /\ op = [t \in Tasks |-> "none"]
  /\ start = [t \in Tasks |-> 0] /\ len = [t \in Tasks |-> 0]
  /\ data = [t \in Tasks |-> <<>>]
  /\ page = [t \in Tasks |-> 0] /\ off = [t \in Tasks |-> 0]
  /\ count = [t \in Tasks |-> 0]

\* mutant: the offset inside the frame is not reduced
Call_NoModulo(t) ==
  /\ pc[t] = "idle"
  /\ \E r \in Requests :
       /\ r.start + r.len <= machine.capacity * SECTOR
       /\ op' = [op EXCEPT ![t] = r.op]
       /\ start' = [start EXCEPT ![t] = r.start]
       /\ len' = [len EXCEPT ![t] = r.len]
       /\ page' = [page EXCEPT ![t] = r.start \div FRAME_SIZE]
       /\ off' = [off EXCEPT ![t] = r.start]
       /\ pc' = [pc EXCEPT ![t] = IF 0 < r.len THEN "check" ELSE "ret"]
  /\ UNCHANGED <<machine, device, cache, order, data, count>>

\* a call of read or write, inside the device, enters its loop
Call(t) ==
  /\ pc[t] = "idle"
  /\ \E r \in Requests :
       /\ r.start + r.len <= machine.capacity * SECTOR
       /\ op' = [op EXCEPT ![t] = r.op]
       /\ start' = [start EXCEPT ![t] = r.start]
       /\ len' = [len EXCEPT ![t] = r.len]
       /\ data' = [data EXCEPT ![t] =
                     IF r.op = "read" THEN <<>> ELSE [i \in 1 .. r.len |-> r.byte]]
       /\ page' = [page EXCEPT ![t] = r.start \div FRAME_SIZE]
       /\ off' = [off EXCEPT ![t] = r.start % FRAME_SIZE]
       /\ pc' = [pc EXCEPT ![t] = IF 0 < r.len THEN "check" ELSE "ret"]
  /\ UNCHANGED <<machine, device, cache, order, count>>

\* LruCache::contains: the order does not change
Hit(t) ==
  /\ pc[t] = "check" /\ page[t] \in Cached
  /\ pc' = [pc EXCEPT ![t] = "copy"]
  /\ UNCHANGED <<machine, device, cache, order, call, data, page, off, count>>

\* read_block(..).unwrap() on an error: nothing was cached yet
Unread(t) ==
  /\ pc[t] = "check" /\ page[t] \notin Cached
  /\ \E a \in read_blocks(page[t]) : a.err # "none" /\ left' = a.left
  /\ pc' = [pc EXCEPT ![t] = "unread"]
  /\ UNCHANGED <<machine, blocks, cache, order, call, data, page, off, count>>

\* mutant: a frame that is already cached is loaded again
Load_Always(t) ==
  /\ pc[t] = "check" /\ Len(order) < MAX_FRAMES
  /\ \E a \in read_blocks(page[t]) :
       /\ a.err = "none" /\ left' = a.left
       /\ cache' = [cache EXCEPT ![page[t]] = AsPage(a.got)]
  /\ order' = Append(order, page[t])
  /\ pc' = [pc EXCEPT ![t] = "copy"]
  /\ UNCHANGED <<machine, blocks, call, data, page, off, count>>

\* LruCache::push with room left
Load(t) ==
  /\ pc[t] = "check" /\ page[t] \notin Cached /\ Len(order) < MAX_FRAMES
  /\ \E a \in read_blocks(page[t]) :
       /\ a.err = "none" /\ left' = a.left
       /\ cache' = [cache EXCEPT ![page[t]] = AsPage(a.got)]
  /\ order' = Append(order, page[t])
  /\ pc' = [pc EXCEPT ![t] = "copy"]
  /\ UNCHANGED <<machine, blocks, call, data, page, off, count>>

\* LruCache::push on a full cache: the least recently used frame leaves the
\* cache and is written back.  If the driver fails a write, the rest of the
\* frame is gone and write_block(..).unwrap() ends the call.
Replace(t) ==
  /\ pc[t] = "check" /\ page[t] \notin Cached /\ Len(order) = MAX_FRAMES
  /\ \E a \in read_blocks(page[t]) : \E w \in write_blocks(Head(order), cache[Head(order)], a.left) :
       /\ a.err = "none"
       /\ blocks' = w.got /\ left' = w.left
       /\ cache' = [cache EXCEPT ![page[t]] = AsPage(a.got), ![Head(order)] = Empty]
       /\ pc' = [pc EXCEPT ![t] = IF w.err = "none" THEN "copy" ELSE "unwritten"]
  /\ order' = Append(Tail(order), page[t])
  /\ UNCHANGED <<machine, call, data, page, off, count>>

\* LruCache::get promotes the entry at position i
Promote(i) ==
  [k \in DOMAIN order |->
     IF k < i THEN order[k] ELSE IF k < Len(order) THEN order[k + 1] ELSE order[i]]

\* the second critical section of a round: unwrap the entry and copy
Copy(t) ==
  /\ pc[t] = "copy" /\ page[t] \in Cached
  /\ \E i \in DOMAIN order : order[i] = page[t] /\ order' = Promote(i)
  /\ LET n == Min2(FRAME_SIZE - off[t], len[t] - count[t]) IN
       /\ IF op[t] = "read"
          THEN /\ data' = [data EXCEPT ![t] = @ \o copy_to(cache[page[t]], off[t], n)]
               /\ off' = [off EXCEPT ![t] = 0]
               /\ UNCHANGED cache
          ELSE /\ cache' = [cache EXCEPT ![page[t]] =
                              copy_from(@, off[t], SubSeq(data[t], count[t] + 1, count[t] + n))]
               /\ off' = [off EXCEPT ![t] = (@ + n) % FRAME_SIZE]
               /\ UNCHANGED data
       /\ count' = [count EXCEPT ![t] = @ + n]
       /\ pc' = [pc EXCEPT ![t] = IF count[t] + n < len[t] THEN "check" ELSE "ret"]
  /\ page' = [page EXCEPT ![t] = @ + 1]
  /\ UNCHANGED <<machine, device, call>>

\* cache_lock.get(&page_id).unwrap() on None
Panic(t) ==
  /\ pc[t] = "copy" /\ page[t] \notin Cached
  /\ pc' = [pc EXCEPT ![t] = "panic"]
  /\ UNCHANGED <<machine, device, cache, order, call, data, page, off, count>>

\* the call returns; its frame is gone
Return(t) ==
  /\ pc[t] = "ret"
  /\ pc' = [pc EXCEPT ![t] = "idle"]
  /\ op' = [op EXCEPT ![t] = "none"]
  /\ data' = [data EXCEPT ![t] = <<>>]
  /\ start' = [start EXCEPT ![t] = 0] /\ len' = [len EXCEPT ![t] = 0]
  /\ page' = [page EXCEPT ![t] = 0] /\ off' = [off EXCEPT ![t] = 0]
  /\ count' = [count EXCEPT ![t] = 0]
  /\ UNCHANGED <<machine, device, cache, order>>

Next == \E t \in Tasks : Call(t) \/ Hit(t) \/ Unread(t) \/ Load(t) \/ Replace(t) \/ Copy(t)
                           \/ Panic(t) \/ Return(t)

Spec == Init /\ [][Next]_vars

-----------------------------------------------------------------------------
(* Properties *)

\* Types of the device, the cache and the loop variables of each call.
TypeOK ==
  /\ machine \in Machines
  /\ blocks \in [Device -> Block]
  /\ left.crashes \in 0 .. machine.crashes /\ left.refusals \in 0 .. machine.refusals
  /\ cache \in [Pages -> Page]
  /\ order \in Seq(Pages)
  /\ pc \in [Tasks -> {"idle", "check", "copy", "ret", "panic", "unread", "unwritten"}]
  /\ op \in [Tasks -> {"none", "read", "write"}]
  /\ data \in [Tasks -> Seq(Bytes)]
  /\ start \in [Tasks -> Nat] /\ len \in [Tasks -> Nat] /\ count \in [Tasks -> Nat]
  /\ page \in [Tasks -> 0 .. Frames] /\ off \in [Tasks -> 0 .. FRAME_SIZE - 1]
  /\ \A t \in Tasks : pc[t] \in {"check", "copy"} => page[t] \in Pages

\* The cache holds at most MAX_FRAMES frames and a frame at most once, however
\* the checks of several tasks for the same frame interleave and whichever of
\* them die of a driver error.
LruShape ==
  /\ Len(order) <= MAX_FRAMES
  /\ \A i, j \in DOMAIN order : order[i] = order[j] => i = j

\* A read of the device fails only if the driver crashed again while the shadow
\* repeated it, or the device refused: one crash is survived by the caller.  The
\* other case is a virtio device that ends inside a frame, whose last frame
\* cannot be loaded at all.
OneCrashIsSurvived ==
  \A t \in Tasks : pc[t] = "unread" =>
    \/ left.crashes + 2 <= machine.crashes
    \/ left.refusals < machine.refusals
    \/ machine.driver = "virtio_blk" /\ (page[t] + 1) * PerFrame > machine.capacity

\* Where the bytes of the device are: in the cached frame, else on the device.
Mem == [a \in 0 .. Frames * FRAME_SIZE - 1 |->
          LET p == a \div FRAME_SIZE IN
            IF a \div SECTOR \notin Device THEN Blank[0]
            ELSE IF p \in Cached THEN Cell(cache[p], a % FRAME_SIZE)
            ELSE blocks[a \div SECTOR][a % SECTOR]]

Dead(t) == pc[t] \in {"panic", "unread", "unwritten"}

Disk == INSTANCE FlatDisk
          WITH Size <- Frames * FRAME_SIZE, Frame <- FRAME_SIZE, mem <- Mem, done <- count,
               op <- [t \in Tasks |-> IF Dead(t) THEN "dead" ELSE op[t]]

\* The cache in front of the device behaves as one flat array: loading,
\* promoting, evicting and writing back change no byte anyone can read, and
\* every byte of a call lands at the address the caller asked for.  Bytes are
\* lost only in the step in which a call dies, and only those of one frame; a
\* device that ends inside a frame is no exception.
ImplementsDisk == Disk!Spec

\* The cache keeps its shape through hits, misses, evictions and driver errors.
CacheIsSound == TypeOK /\ LruShape
=============================================================================
