----------------------------- MODULE MemoryProofs -----------------------------
(***************************************************************************)
(* What a task believes of its memory, for every number of tasks, spaces   *)
(* and pages and every choice of the other constants of UserMemory; then   *)
(* what execve puts there, for every program and call, page and stack size *)
(* and every other constant of UserImage.                                  *)
(***************************************************************************)
EXTENDS UserMemory, UserImage, WellFoundedInduction, NaturalsInduction, SequenceTheorems, FiniteSetTheorems,
        TLAPS

\* address spaces that a task uses
Used == {space[t] : t \in Live}

Even(n) == n % FRAME = 0

\* The heap of every space: the break lies in it, and it ends at a page boundary.
HeapShape ==
  \A s \in Spaces : /\ HeapStart <= heap[s].current /\ heap[s].current <= heap[s].end
                    /\ heap[s].end <= HeapMax /\ Even(heap[s].end)

\* Areas are not empty and lie on page boundaries.
AreaShape == \A s \in Spaces : \A r \in areas[s] : r[1] < r[2] /\ Even(r[1]) /\ Even(r[2])

\* Regions end where alloc does.
InBounds == \A i \in DOMAIN regions : End(regions[i]) <= Top

\* What the second step of brk and execve has of the first.
StepShape ==
  /\ HeapMax <= mapStart /\ Even(mapStart)
  /\ \A t \in Tasks : /\ pc[t] = "brk" => arg[t] \in HeapStart..HeapLimit
                      /\ pc[t] = "vdso_map" => /\ HeapMax <= arg[t] /\ Even(arg[t])
                                               /\ arg[t] + FRAME <= mapStart

\* Thread numbers.
NumbersApart ==
  /\ \A t \in Live : /\ number[t] < threads[space[t]]
                     /\ number[t] \in traps[space[t]] \/ (world.thread /\ world.exec)
                     /\ ~world.thread => number[t] = 0
                     /\ \A u \in Live \ {t} : space[u] = space[t] => number[u] # number[t]

\* Program and stack are mapped, and no area or region that a program can name reaches in.
ImageBacked ==
  /\ \A s \in Spaces : PagesOf(ImageStart, HeapStart) \subseteq Mapped(s)
  /\ panic = "no" =>
       /\ \A s \in Spaces : \A r \in areas[s] : r[1] < ImageStart => r[2] <= ImageStart
       /\ \A i \in DOMAIN regions :
            regions[i].len > 0 => HeapStart <= regions[i].start \/ End(regions[i]) <= ImageStart

\* With them the heap is mapped, and no region that a program can name reaches in.
HeapBacked == BelowHeap => \A s \in Spaces : PagesOf(ImageStart, heap[s].end) \subseteq Mapped(s)
NoneInHeap ==
  BelowHeap /\ panic = "no" => \A i \in DOMAIN regions :
    LET r == regions[i]
    IN  r.len > 0 => HeapMax <= r.start \/ End(r) <= ImageStart

\* Without fixed addresses: two stretches of addresses do not meet
Apart(lo, hi, r) == hi <= r.start \/ End(r) <= lo
NoFixed == world.fixed = {} /\ panic = "no"

\* The regions are pages that alloc has handed out, each once, the vDSO's just one.
RegionShape ==
  NoFixed => \A i \in DOMAIN regions :
    LET r == regions[i]
    IN  /\ HeapMax <= r.start /\ Even(r.start) /\ Even(r.len) /\ r.map_len = r.len /\ End(r) <= mapStart
        /\ \A j \in DOMAIN regions : i # j => Apart(r.start, End(r), regions[j])
        /\ \A t \in Tasks : pc[t] = "vdso_map" =>
             Apart(arg[t], arg[t] + FRAME, r) \/ (r.start = arg[t] /\ r.len = FRAME)

\* An area that is not the heap's or the program's is a region or none of them.
AreasMatch ==
  NoFixed => \A s \in Spaces :
    /\ \A a \in Mapped(s) : a < mapStart
    /\ \A a \in Mapped(s) : heap[s].end <= a => HeapMax <= a
    /\ \A r \in areas[s] :
         \/ r[2] <= HeapMax
         \/ /\ HeapMax <= r[1] /\ r[2] <= mapStart
            /\ \A i \in DOMAIN regions : \/ r = <<regions[i].start, End(regions[i])>>
                                         \/ Apart(r[1], r[2], regions[i])

\* the pages that are mapped, and the pages that an execve under way is about to map
Backed == {b \in Spaces \X Pages : table[b[1]][b[2]] # None}
Pending == {<<space[u], arg[u]>> : u \in {u \in Live : pc[u] = "vdso_map"}}

\* A region belongs to a space that is in use, to a program that runs or has run there, which has its
\* pages.
OwnersHave ==
  NoFixed => \A i \in DOMAIN regions :
    LET r == regions[i]
        s == r.by[1]
    IN  /\ s \in Used /\ r.by[2] <= execs[s]
        /\ r.by[2] = execs[s] /\ <<s, r.start>> \notin Pending
             => \A p \in PagesOf(r.start, End(r)) : <<s, p>> \in Backed

Plain == world.fixed = {} /\ ~world.fork /\ ~world.exec

\* A process that does nothing unusual has one space, in which every region is an area.
PlainShape ==
  Plain => /\ panic = "no"
           /\ \A t \in Tasks : pc[t] \in {"idle", "brk"}
           /\ \A t, u \in Live : space[t] = space[u]
           /\ \A s \in Spaces : execs[s] = 0 /\ traps[s] \subseteq 0..(threads[s] - 1)
           /\ \A i \in DOMAIN regions :
                LET r == regions[i]
                IN  r.len > 0 => <<r.start, End(r)>> \in areas[r.by[1]]

MemInv ==
  /\ TypeOK /\ HeapShape /\ AreaShape /\ InBounds /\ StepShape /\ NumbersApart /\ ImageBacked /\ HeapBacked
  /\ NoneInHeap /\ RegionShape /\ AreasMatch /\ OwnersHave /\ PlainShape

-----------------------------------------------------------------------------
(* Numbers, pages and sequences                                             *)

\* Rounding to a frame.
LEMMA Rounding ==
  ASSUME NEW a \in Int
  PROVE  /\ AlignDown(a) \in Int /\ Even(AlignDown(a)) /\ AlignDown(a) <= a /\ a < AlignDown(a) + FRAME
         /\ AlignUp(a) \in Int /\ Even(AlignUp(a)) /\ a <= AlignUp(a) /\ AlignUp(a) < a + FRAME
         /\ Even(a) => AlignDown(a) = a /\ AlignUp(a) = a
  BY SMT DEF AlignDown, AlignUp, Even, FRAME

\* The constants are page boundaries in order.
LEMMA Bounds ==
  /\ {ImageStart, HeapStart, HeapLimit, HeapMax, Top} \subseteq Nat
  /\ Even(ImageStart) /\ Even(HeapStart) /\ Even(HeapMax) /\ Even(Top)
  /\ FRAME <= ImageStart /\ ImageStart + FRAME <= HeapStart /\ HeapStart <= HeapLimit /\ HeapLimit <= HeapMax
  /\ HeapMax <= Top /\ AlignUp(HeapLimit) <= HeapMax
<1>1. HeapLimit \in Nat
  BY UserMemoryAssumption
<1>2. HeapLimit <= AlignUp(HeapLimit) /\ AlignUp(HeapLimit) \in Int
  BY <1>1, Rounding
<1> QED
  BY <1>1, <1>2, UserMemoryAssumption, SMT DEF Even, FRAME

\* The pages of a stretch of addresses.
LEMMA PageIn ==
  ASSUME NEW lo \in Int, NEW hi \in Int, Even(lo)
  PROVE  PagesOf(lo, hi) = {a \in Int : lo <= a /\ a < hi /\ Even(a)}
<1>1. AlignDown(lo) = lo
  BY Rounding
<1> QED
  BY <1>1 DEF PagesOf, Even

\* The pages there are.
LEMMA PageIs ==
  Pages = {a \in Int : 0 <= a /\ a < Top /\ Even(a)}
  BY PageIn, Bounds, SMT DEF Pages, Even, FRAME

\* Stretches that lie beside one another have no page in common.
LEMMA PagesApart ==
  ASSUME NEW lo \in Int, NEW hi \in Int, Even(lo), NEW x \in Int, NEW y \in Int, Even(x), hi <= x \/ y <= lo
  PROVE  PagesOf(lo, hi) \cap PagesOf(x, y) = {}
  BY PageIn, SMT

\* A set of numbers has a least element.
LEMMA LeastOf ==
  ASSUME NEW T \in SUBSET Nat, T # {}
  PROVE  \E x \in T : \A y \in T : x <= y
<1> DEFINE R == OpToRel(<, Nat)
<1>1. IsWellFoundedOn(R, Nat)
  BY NatLessThanWellFounded
<1>2. \E x \in T : \A y \in T : ~ (<<y, x>> \in R)
  <2> HIDE DEF R
  <2> QED
    BY <1>1, WFMin
<1>3. \A x, y \in T : ~ (<<y, x>> \in R) => x <= y
  BY SMT DEF OpToRel
<1> QED
  BY <1>2, <1>3

\* get_region finds a region that contains the address, if there is one.
LEMMA Found ==
  ASSUME regions \in Seq(Regions), NEW a
  PROVE  /\ get_region(a) \in 0..Len(regions)
         /\ get_region(a) # 0 => InRegion(regions[get_region(a)], a)
         /\ get_region(a) = 0 => \A i \in DOMAIN regions : ~InRegion(regions[i], a)
<1> DEFINE I == {i \in 1..Len(regions) : InRegion(regions[i], a)}
<1>1. get_region(a) = IF I # {} THEN Min(I) ELSE 0
  BY DEF get_region, SelectInSeq
<1>2. I # {} => Min(I) \in I
  <2>1. I \in SUBSET Nat
    OBVIOUS
  <2>2. I # {} => \E x \in I : \A y \in I : x <= y
    BY <2>1, LeastOf
  <2> QED
    BY <2>2 DEF Min
<1>3. DOMAIN regions = 1..Len(regions) /\ Len(regions) \in Nat
  OBVIOUS
<1> HIDE DEF I
<1>4. CASE I # {}
  BY <1>1, <1>2, <1>3, <1>4 DEF I
<1>5. CASE I = {}
  BY <1>1, <1>3, <1>5 DEF I
<1> QED
  BY <1>4, <1>5

\* What RemoveAt leaves, with the place where it was.
LEMMA Removed ==
  ASSUME NEW S, NEW s \in Seq(S), NEW i \in 1..Len(s)
  PROVE  /\ RemoveAt(s, i) \in Seq(S)
         /\ Len(RemoveAt(s, i)) = Len(s) - 1
         /\ \A j \in 1..(Len(s) - 1) : RemoveAt(s, i)[j] = s[IF j < i THEN j ELSE j + 1]
<1> DEFINE l == SubSeq(s, 1, i - 1)
<1> DEFINE r == SubSeq(s, i + 1, Len(s))
<1>1. l \in Seq(S) /\ Len(l) = i - 1 /\ \A j \in 1..(i - 1) : l[j] = s[j]
  BY SMT
<1>2. r \in Seq(S) /\ Len(r) = Len(s) - i /\ \A j \in 1..(Len(s) - i) : r[j] = s[i + j]
  BY SMT
<1>3. RemoveAt(s, i) = l \o r
  BY DEF RemoveAt
<1>4. Len(s) \in Nat
  OBVIOUS
<1> HIDE DEF l, r
<1>5. /\ l \o r \in Seq(S) /\ Len(l \o r) = Len(l) + Len(r)
      /\ \A j \in 1..(Len(l) + Len(r)) : (l \o r)[j] = IF j <= Len(l) THEN l[j] ELSE r[j - Len(l)]
  BY <1>1, <1>2, ConcatProperties
<1>6. ASSUME NEW j \in 1..(Len(s) - 1)
      PROVE  (l \o r)[j] = s[IF j < i THEN j ELSE j + 1]
  <2>0. (l \o r)[j] = IF j <= i - 1 THEN l[j] ELSE r[j - (i - 1)]
    BY <1>1, <1>2, <1>4, <1>5, SMTT(40)
  <2>1. CASE j < i
    BY <1>1, <1>4, <2>0, <2>1
  <2>2. CASE ~(j < i)
    <3>1. j - (i - 1) \in 1..(Len(s) - i) /\ i + (j - (i - 1)) = j + 1
      BY <1>4, <2>2
    <3> QED
      BY <1>2, <1>4, <2>0, <2>2, <3>1
  <2> QED
    BY <2>1, <2>2
<1> QED
  BY <1>1, <1>2, <1>3, <1>4, <1>5, <1>6

-----------------------------------------------------------------------------
(* What the operations on an address space do                               *)

AreaSets == SUBSET ((0..Top) \X (0..Top))
Tables == [Spaces -> [Pages -> Prots \cup {None}]]

\* Nothing of the address spaces changes but the rights of pages that are mapped.
SamePages == \A x \in Spaces : Mapped(x)' = Mapped(x)

\* mapping pages that are free
Grown(s, lo, hi) ==
  /\ PagesOf(lo, hi) \cap Mapped(s) = {}
  /\ table' \in Tables /\ areas' \in [Spaces -> AreaSets]
  /\ \A x \in Spaces : Mapped(x)' = IF x = s THEN Mapped(s) \cup PagesOf(lo, hi) ELSE Mapped(x)
  /\ \A x \in Spaces : areas'[x] = IF x = s /\ lo < hi THEN areas[s] \cup {<<lo, hi>>} ELSE areas[x]
  /\ UNCHANGED <<traps, taskVars, execs, panic>>

\* the domain has panicked
Stopped(why) == panic' = why /\ UNCHANGED <<memVars, taskVars, execs>>

\* VmSpace::map adds the pages and one area, or panics over a page that is mapped.
LEMMA MapEffect ==
  ASSUME TypeOK, NEW s \in Spaces, NEW lo \in 0..Top, NEW hi \in 0..Top, Even(lo), NEW prot \in Prots,
         VmMap(s, lo, hi, prot)
  PROVE  \/ Stopped("map") /\ PagesOf(lo, hi) \cap Mapped(s) # {}
         \/ Grown(s, lo, hi)
<1>1. CASE PagesOf(lo, hi) \cap Mapped(s) # {}
  BY <1>1 DEF VmMap, Panic, Stopped
<1>2. CASE PagesOf(lo, hi) \cap Mapped(s) = {}
  <2> DEFINE new == [a \in Pages |-> IF a \in PagesOf(lo, hi) THEN prot ELSE table[s][a]]
  <2>1. table' = [table EXCEPT ![s] = new]
    BY <1>2 DEF VmMap
  <2>2. areas' = [areas EXCEPT ![s] = IF lo < hi THEN @ \cup {<<lo, hi>>} ELSE @]
        /\ UNCHANGED <<traps, taskVars, execs, panic>>
    BY <1>2 DEF VmMap
  <2>3. table \in Tables /\ areas \in [Spaces -> AreaSets]
    BY DEF TypeOK, Tables, AreaSets
  <2>4. new \in [Pages -> Prots \cup {None}]
    BY <2>3 DEF Tables
  <2>5. \A a \in Pages : new[a] = IF a \in PagesOf(lo, hi) THEN prot ELSE table[s][a]
    OBVIOUS
  <2> HIDE DEF new
  <2>6. table' \in Tables /\ \A x \in Spaces : table'[x] = IF x = s THEN new ELSE table[x]
    BY <2>1, <2>3, <2>4 DEF Tables
  <2>7. PagesOf(lo, hi) \subseteq Pages
    <3>1. PagesOf(lo, hi) = {a \in Int : lo <= a /\ a < hi /\ Even(a)}
      BY PageIn, Bounds
    <3> QED
      BY <3>1, PageIs, Bounds
  <2>8. None \notin Prots
    BY UserMemoryAssumption
  <2>9. ASSUME NEW x \in Spaces
        PROVE  Mapped(x)' = IF x = s THEN Mapped(s) \cup PagesOf(lo, hi) ELSE Mapped(x)
    <3>1. Mapped(x)' = {a \in Pages : table'[x][a] # None}
      BY DEF Mapped
    <3>2. CASE x = s
      BY <2>5, <2>6, <2>7, <2>8, <3>1, <3>2 DEF Mapped
    <3>3. CASE x # s
      BY <2>6, <3>1, <3>3 DEF Mapped
    <3> QED
      BY <3>2, <3>3
  <2>10. \A x \in Spaces : areas'[x] = IF x = s /\ lo < hi THEN areas[s] \cup {<<lo, hi>>} ELSE areas[x]
    BY <2>2, <2>3
  <2>11. <<lo, hi>> \in (0..Top) \X (0..Top)
    OBVIOUS
  <2>12. areas' \in [Spaces -> AreaSets]
    BY <2>2, <2>3, <2>11 DEF AreaSets
  <2> QED
    BY <1>2, <2>2, <2>6, <2>9, <2>10, <2>12 DEF Grown
<1> QED
  BY <1>1, <1>2

\* unmapping the area r, which begins at lo
Shrunk(s, lo, r) ==
  /\ r \in areas[s] /\ r[1] = lo
  /\ table' \in Tables /\ areas' \in [Spaces -> AreaSets]
  /\ \A x \in Spaces : Mapped(x)' = IF x = s THEN Mapped(s) \ PagesOf(r[1], r[2]) ELSE Mapped(x)
  /\ \A x \in Spaces : areas'[x] = IF x = s THEN areas[s] \ {r} ELSE areas[x]
  /\ UNCHANGED <<traps, heap, taskVars, execs, panic>>

\* VmSpace::unmap takes one area with its pages, or panics where none starts.
LEMMA UnmapEffect ==
  ASSUME TypeOK, NEW s \in Spaces, NEW lo, VmUnmap(s, lo)
  PROVE  \/ Stopped("unmap") /\ \A r \in areas[s] : r[1] # lo
         \/ \E r \in areas[s] : Shrunk(s, lo, r)
<1>1. CASE \A r \in areas[s] : r[1] # lo
  BY <1>1 DEF VmUnmap, Panic, Stopped
<1>2. CASE \E r \in areas[s] : r[1] = lo
  <2> DEFINE r == CHOOSE r \in areas[s] : r[1] = lo
  <2>1. r \in areas[s] /\ r[1] = lo
    BY <1>2
  <2> DEFINE new == [a \in Pages |-> IF a \in PagesOf(r[1], r[2]) THEN None ELSE table[s][a]]
  <2>2. /\ table' = [table EXCEPT ![s] = new]
        /\ areas' = [areas EXCEPT ![s] = @ \ {r}]
        /\ UNCHANGED <<traps, heap, taskVars, execs, panic>>
    BY <1>2 DEF VmUnmap
  <2> HIDE DEF r
  <2>3. table \in Tables /\ areas \in [Spaces -> AreaSets]
    BY DEF TypeOK, Tables, AreaSets
  <2>4. new \in [Pages -> Prots \cup {None}]
    BY <2>3 DEF Tables
  <2>5. \A a \in Pages : new[a] = IF a \in PagesOf(r[1], r[2]) THEN None ELSE table[s][a]
    OBVIOUS
  <2> HIDE DEF new
  <2>6. table' \in Tables /\ \A x \in Spaces : table'[x] = IF x = s THEN new ELSE table[x]
    BY <2>2, <2>3, <2>4 DEF Tables
  <2>7. ASSUME NEW x \in Spaces
        PROVE  Mapped(x)' = IF x = s THEN Mapped(s) \ PagesOf(r[1], r[2]) ELSE Mapped(x)
    <3>1. Mapped(x)' = {a \in Pages : table'[x][a] # None}
      BY DEF Mapped
    <3>2. CASE x = s
      BY <2>5, <2>6, <3>1, <3>2 DEF Mapped
    <3>3. CASE x # s
      BY <2>6, <3>1, <3>3 DEF Mapped
    <3> QED
      BY <3>2, <3>3
  <2>8. \A x \in Spaces : areas'[x] = IF x = s THEN areas[s] \ {r} ELSE areas[x]
    BY <2>2, <2>3
  <2>9. areas' \in [Spaces -> AreaSets]
    BY <2>2, <2>3 DEF AreaSets
  <2> QED
    BY <2>1, <2>2, <2>6, <2>7, <2>8, <2>9 DEF Shrunk
<1> QED
  BY <1>1, <1>2

\* VmSpace::protect changes rights and leaves what is mapped, or panics over a page that is not.
LEMMA ProtectEffect ==
  ASSUME TypeOK, NEW s \in Spaces, NEW P, NEW prot \in Prots, VmProtect(s, P, prot)
  PROVE  \/ Stopped("protect") /\ ~ P \subseteq Mapped(s)
         \/ SamePages /\ table' \in Tables /\ UNCHANGED <<areas, traps, heap, taskVars, execs, panic>>
<1>1. CASE ~ P \subseteq Mapped(s)
  BY <1>1 DEF VmProtect, Panic, Stopped
<1>2. CASE P \subseteq Mapped(s)
  <2> DEFINE new == [a \in Pages |-> IF a \in P THEN prot ELSE table[s][a]]
  <2>1. /\ table' = [table EXCEPT ![s] = new]
        /\ UNCHANGED <<areas, traps, heap, taskVars, execs, panic>>
    BY <1>2 DEF VmProtect
  <2>3. table \in Tables
    BY DEF TypeOK, Tables
  <2>4. new \in [Pages -> Prots \cup {None}]
    BY <2>3 DEF Tables
  <2>5. \A a \in Pages : new[a] = IF a \in P THEN prot ELSE table[s][a]
    OBVIOUS
  <2> HIDE DEF new
  <2>6. table' \in Tables /\ \A x \in Spaces : table'[x] = IF x = s THEN new ELSE table[x]
    BY <2>1, <2>3, <2>4 DEF Tables
  <2>7. ASSUME NEW x \in Spaces
        PROVE  Mapped(x)' = Mapped(x)
    <3>1. Mapped(x)' = {a \in Pages : table'[x][a] # None}
      BY DEF Mapped
    <3>2. CASE x = s
      BY <1>2, <2>5, <2>6, <3>1, <3>2, UserMemoryAssumption DEF Mapped
    <3>3. CASE x # s
      BY <2>6, <3>1, <3>3 DEF Mapped
    <3> QED
      BY <3>2, <3>3
  <2> QED
    BY <2>1, <2>6, <2>7 DEF SamePages
<1> QED
  BY <1>1, <1>2

-----------------------------------------------------------------------------
(* Kinds of steps                                                           *)

\* the regions stay where they are and whose they are
SameRegions ==
  /\ regions' \in Seq(Regions) /\ Len(regions') = Len(regions)
  /\ \A i \in DOMAIN regions : /\ regions'[i].start = regions[i].start /\ regions'[i].len = regions[i].len
                               /\ regions'[i].map_len = regions[i].map_len /\ regions'[i].by = regions[i].by

\* The calls in progress have the argument they need, and no new one is about to map the vDSO.
CallsFit ==
  /\ pc' \in [Tasks -> {"idle", "brk", "vdso", "vdso_map"}] /\ arg' \in [Tasks -> 0..Top]
  /\ \A t \in Tasks : /\ pc'[t] = "brk" => arg'[t] \in HeapStart..HeapLimit
                      /\ pc'[t] = "vdso_map" => pc[t] = "vdso_map" /\ arg'[t] = arg[t]
                      /\ Plain => pc'[t] \in {"idle", "brk"}

\* None that is about to map it ends.
CallsStay == \A t \in Tasks : pc[t] = "vdso_map" => pc'[t] = "vdso_map"

\* The fields of a region, one by one.
LEMMA RegionTypes ==
  ASSUME NEW rs \in Seq(Regions), NEW i \in DOMAIN rs
  PROVE  /\ rs[i] \in Regions /\ i \in 1..Len(rs)
         /\ rs[i].start \in 0..Top /\ rs[i].len \in 0..Top /\ rs[i].map_len \in 0..Top /\ rs[i].prot \in Prots
         /\ End(rs[i]) \in Nat /\ End(rs[i]) = rs[i].start + rs[i].len
         /\ rs[i].by = <<rs[i].by[1], rs[i].by[2]>> /\ rs[i].by[1] \in Spaces /\ rs[i].by[2] \in {0, 1}
<1>1. rs[i] \in Regions /\ i \in 1..Len(rs)
  OBVIOUS
<1>2. /\ rs[i].start \in 0..Top /\ rs[i].len \in 0..Top /\ rs[i].map_len \in 0..Top /\ rs[i].prot \in Prots
      /\ rs[i].by \in Spaces \X {0, 1}
  BY <1>1 DEF Regions
<1>3. rs[i].by = <<rs[i].by[1], rs[i].by[2]>> /\ rs[i].by[1] \in Spaces /\ rs[i].by[2] \in {0, 1}
  BY <1>2
<1> QED
  BY <1>1, <1>2, <1>3, Bounds, SMTT(40) DEF End

\* A step that changes no page, area or heap keeps the invariant.
LEMMA QuietKeeps ==
  ASSUME MemInv, panic = "no", SamePages, table' \in Tables, SameRegions, CallsFit, CallsStay,
         UNCHANGED <<areas, traps, heap, taskVars, execs, panic, mapStart, world>>
  PROVE  MemInv'
<1>0. TypeOK /\ StepShape /\ RegionShape /\ AreasMatch /\ OwnersHave
  BY DEF MemInv
<1>1. /\ DOMAIN regions' = DOMAIN regions
      /\ \A i \in DOMAIN regions : End(regions'[i]) = End(regions[i])
  BY <1>0 DEF SameRegions, End, TypeOK
<1>2. TypeOK'
  BY <1>0 DEF TypeOK, Tables, SameRegions, CallsFit, taskVars
<1>3. HeapShape' /\ AreaShape' /\ InBounds'
  BY <1>1 DEF MemInv, HeapShape, AreaShape, InBounds
<1>4. StepShape'
  BY <1>0 DEF StepShape, CallsFit
<1>5. Live' = Live /\ BelowHeap' = BelowHeap /\ Plain' = Plain /\ NoFixed' = NoFixed /\ Used' = Used
  BY DEF Live, BelowHeap, Plain, NoFixed, Used, taskVars
<1>6. NumbersApart'
  BY <1>5 DEF MemInv, NumbersApart, taskVars
<1>7. ImageBacked' /\ HeapBacked' /\ NoneInHeap'
  BY <1>1, <1>5 DEF MemInv, ImageBacked, HeapBacked, NoneInHeap, SamePages, SameRegions
<1>8. RegionShape'
  <2> SUFFICES ASSUME NoFixed, NEW i \in DOMAIN regions
               PROVE  LET r == regions'[i]
                      IN  /\ HeapMax <= r.start /\ Even(r.start) /\ Even(r.len) /\ r.map_len = r.len
                          /\ End(r) <= mapStart
                          /\ \A j \in DOMAIN regions : i # j => Apart(r.start, End(r), regions'[j])
                          /\ \A t \in Tasks : pc'[t] = "vdso_map" =>
                               Apart(arg'[t], arg'[t] + FRAME, r) \/ (r.start = arg'[t] /\ r.len = FRAME)
    BY <1>1, <1>5 DEF RegionShape, Apart, End
  <2>1. \A t \in Tasks : pc'[t] = "vdso_map" =>
          Apart(arg'[t], arg'[t] + FRAME, regions'[i]) \/ (regions'[i].start = arg'[t] /\ regions'[i].len = FRAME)
    BY <1>0, <1>1 DEF RegionShape, CallsFit, SameRegions, Apart
  <2>2. \A j \in DOMAIN regions : i # j => Apart(regions[i].start, End(regions[i]), regions'[j])
    BY <1>0, <1>1 DEF RegionShape, SameRegions, Apart
  <2> QED
    BY <1>0, <1>1, <2>1, <2>2 DEF RegionShape, SameRegions
<1>9. AreasMatch'
  BY <1>0, <1>1, <1>5 DEF AreasMatch, SameRegions, SamePages, Apart
<1>10. OwnersHave'
  <2>1. Pending' = Pending
    <3>1. Live \subseteq Tasks /\ space' = space
      BY DEF Live, taskVars
    <3>2. \A u \in Live : (pc'[u] = "vdso_map" <=> pc[u] = "vdso_map") /\ (pc[u] = "vdso_map" => arg'[u] = arg[u])
      BY <3>1 DEF CallsFit, CallsStay
    <3> QED
      BY <1>5, <3>1, <3>2 DEF Pending
  <2>2. Backed' = Backed
    BY DEF SamePages, Backed, Mapped
  <2> QED
    BY <1>0, <1>1, <1>5, <2>1, <2>2 DEF OwnersHave, SameRegions, taskVars
<1>11. PlainShape'
  <2> SUFFICES ASSUME Plain PROVE PlainShape'
    BY <1>5 DEF PlainShape
  <2>1. /\ \A t, u \in Live : space[t] = space[u]
        /\ \A s \in Spaces : execs[s] = 0 /\ traps[s] \subseteq 0..(threads[s] - 1)
        /\ \A i \in DOMAIN regions :
             regions[i].len > 0 => <<regions[i].start, End(regions[i])>> \in areas[regions[i].by[1]]
    BY DEF MemInv, PlainShape
  <2>2. \A t \in Tasks : pc'[t] \in {"idle", "brk"}
    BY DEF CallsFit
  <2>3. \A t, u \in Live' : space'[t] = space'[u]
    BY <1>5, <2>1 DEF taskVars
  <2>4. \A s \in Spaces : execs'[s] = 0 /\ traps'[s] \subseteq 0..(threads'[s] - 1)
    BY <2>1 DEF taskVars
  <2>5. \A i \in DOMAIN regions' :
          regions'[i].len > 0 => <<regions'[i].start, End(regions'[i])>> \in areas'[regions'[i].by[1]]
    BY <1>1, <2>1 DEF SameRegions
  <2> QED
    BY <2>2, <2>3, <2>4, <2>5 DEF PlainShape
<1> QED
  BY <1>2, <1>3, <1>4, <1>6, <1>7, <1>8, <1>9, <1>10, <1>11 DEF MemInv

\* A panic leaves what was mapped; a process that does nothing unusual has none.
LEMMA PanicKeeps ==
  ASSUME MemInv, NEW why \in {"map", "unmap", "protect", "copy", "fork", "execve"}, Stopped(why), ~Plain,
         regions' \in Seq(Regions), mapStart' \in HeapMax..Top, Even(mapStart'), mapStart <= mapStart',
         InBounds', CallsFit, UNCHANGED world
  PROVE  MemInv'
<1>0. TypeOK /\ StepShape
  BY DEF MemInv
<1>1. /\ UNCHANGED <<table, areas, traps, heap, space, number, threads, execs, world>>
      /\ panic' = why /\ why # "no"
  BY DEF Stopped, memVars, taskVars
<1>2. TypeOK'
  BY <1>0, <1>1 DEF TypeOK, CallsFit
<1>3. HeapShape' /\ AreaShape' /\ NumbersApart'
  BY <1>1 DEF MemInv, HeapShape, AreaShape, NumbersApart, Live
<1>4. StepShape'
  <2>1. mapStart \in Int /\ mapStart' \in Int /\ FRAME \in Int
    BY <1>0, Bounds DEF TypeOK, FRAME
  <2>2. ASSUME NEW t \in Tasks, pc'[t] = "vdso_map"
        PROVE  HeapMax <= arg'[t] /\ Even(arg'[t]) /\ arg'[t] + FRAME <= mapStart'
    <3>1. arg[t] \in Int /\ arg'[t] = arg[t] /\ HeapMax <= arg[t] /\ Even(arg[t]) /\ arg[t] + FRAME <= mapStart
      BY <1>0, <2>2 DEF StepShape, CallsFit, TypeOK
    <3> QED
      BY <2>1, <3>1
  <2> QED
    BY <2>2, Bounds DEF CallsFit, StepShape
<1>5. ImageBacked' /\ HeapBacked'
  BY <1>1 DEF MemInv, ImageBacked, HeapBacked, BelowHeap, Mapped
<1>6. NoneInHeap' /\ RegionShape' /\ AreasMatch' /\ OwnersHave' /\ PlainShape'
  BY <1>1 DEF NoneInHeap, RegionShape, AreasMatch, OwnersHave, PlainShape, NoFixed, Plain
<1> QED
  BY <1>2, <1>3, <1>4, <1>5, <1>6 DEF MemInv

\* A region that is mapped from free pages: the next addresses of alloc, or, with a fixed address,
\* pages that are not the program's and, where BelowHeap holds, not beyond them.
LEMMA AddKeeps ==
  ASSUME MemInv, panic = "no", NEW s \in Used, NEW lo \in 0..Top, NEW hi \in 0..Top, NEW prot \in Prots,
         Even(lo), Even(hi), lo <= hi, Grown(s, lo, hi), heap' = heap,
         regions' = Append(regions, Region(s, lo, hi - lo, hi - lo, prot)),
         UNCHANGED <<pc, arg, world>>,
         \/ lo = mapStart /\ mapStart' = hi
         \/ mapStart' = mapStart /\ world.fixed # {} /\ (BelowHeap => lo < HeapStart)
  PROVE  MemInv'
<1> DEFINE new == Region(s, lo, hi - lo, hi - lo, prot)
<1> DEFINE n == Len(regions) + 1
<1>0. TypeOK /\ HeapShape /\ AreaShape /\ StepShape /\ NumbersApart /\ HeapBacked
      /\ ImageBacked /\ NoneInHeap
      /\ RegionShape /\ AreasMatch /\ OwnersHave /\ PlainShape
  BY DEF MemInv
<1>1. s \in Spaces /\ Live \subseteq Tasks /\ mapStart \in HeapMax..Top /\ mapStart' \in HeapMax..Top
      /\ mapStart <= mapStart' /\ Even(mapStart')
  <2>1. s \in Spaces /\ Live \subseteq Tasks
    BY <1>0 DEF Used, Live, TypeOK
  <2>2. mapStart \in HeapMax..Top /\ Even(mapStart)
    BY <1>0 DEF TypeOK, StepShape
  <2> QED
    BY <2>1, <2>2, Bounds
<1>2. /\ new \in Regions /\ new.start = lo /\ new.len = hi - lo /\ new.map_len = hi - lo /\ End(new) = hi
      /\ new.by[1] = s /\ new.by[2] = execs[s]
  <2>1. hi - lo \in 0..Top
    BY Bounds
  <2>2. execs[s] \in {0, 1}
    BY <1>0, <1>1 DEF TypeOK
  <2>3. lo + (hi - lo) = hi
    OBVIOUS
  <2> QED
    BY <1>1, <2>1, <2>2, <2>3 DEF Region, Regions, End
<1> HIDE DEF new
<1>3. /\ regions' \in Seq(Regions) /\ DOMAIN regions' = DOMAIN regions \cup {n} /\ n \notin DOMAIN regions
      /\ regions'[n] = new /\ \A i \in DOMAIN regions : regions'[i] = regions[i]
  <2>1. regions' = Append(regions, new) /\ regions \in Seq(Regions)
    BY <1>0 DEF TypeOK, new
  <2> QED
    BY <1>2, <2>1
<1> HIDE DEF n
<1>4. UNCHANGED <<traps, heap, space, number, threads, execs, panic, world, pc, arg>>
  BY DEF Grown, taskVars
<1>5. /\ Live' = Live /\ BelowHeap' = BelowHeap /\ Plain' = Plain /\ NoFixed' = NoFixed /\ Used' = Used
      /\ Pending' = Pending
  BY <1>4 DEF Live, BelowHeap, Plain, NoFixed, Used, Pending
<1>6. \A x \in Spaces : Mapped(x)' = IF x = s THEN Mapped(s) \cup PagesOf(lo, hi) ELSE Mapped(x)
  BY DEF Grown
<1>7. \A x \in Spaces : areas'[x] = IF x = s /\ lo < hi THEN areas[s] \cup {<<lo, hi>>} ELSE areas[x]
  BY DEF Grown
<1>8. PagesOf(lo, hi) = {a \in Int : lo <= a /\ a < hi /\ Even(a)} /\ PagesOf(lo, hi) \cap Mapped(s) = {}
  BY PageIn, Bounds DEF Grown
<1>9. NoFixed => lo = mapStart /\ mapStart' = hi
  BY DEF NoFixed
<1>10. BelowHeap /\ lo < hi => HeapMax <= lo \/ hi <= ImageStart
  <2> SUFFICES ASSUME BelowHeap, lo < hi, ~(HeapMax <= lo), ~(hi <= ImageStart)
               PROVE  FALSE
    OBVIOUS
  <2>1. lo < HeapStart
    BY <1>1
  <2>2. heap[s].end \in Int /\ HeapStart <= heap[s].end
    BY <1>0, <1>1, Bounds, SMTT(40) DEF HeapShape, TypeOK
  <2>3. PagesOf(ImageStart, heap[s].end) = {a \in Int : ImageStart <= a /\ a < heap[s].end /\ Even(a)}
    BY <2>2, PageIn, Bounds
  <2>4. PagesOf(ImageStart, heap[s].end) \subseteq Mapped(s)
    BY <1>0, <1>1 DEF HeapBacked
  <2>5. CASE ImageStart <= lo
    <3>1. lo \in PagesOf(lo, hi)
      BY <1>8
    <3>2. lo \in PagesOf(ImageStart, heap[s].end)
      BY <2>1, <2>2, <2>3, <2>5, Bounds
    <3> QED
      BY <1>8, <2>4, <3>1, <3>2
  <2>6. CASE lo < ImageStart
    <3>1. ImageStart \in PagesOf(lo, hi)
      BY <1>8, <2>6, Bounds
    <3>2. ImageStart \in PagesOf(ImageStart, heap[s].end)
      BY <2>2, <2>3, Bounds, SMTT(40) DEF FRAME
    <3> QED
      BY <1>8, <2>4, <3>1, <3>2
  <2> QED
    BY <2>5, <2>6, Bounds
<1>23. lo < hi => HeapStart <= lo \/ hi <= ImageStart
  <2> SUFFICES ASSUME lo < hi, ~(HeapStart <= lo), ~(hi <= ImageStart)
               PROVE  FALSE
    OBVIOUS
  <2>1. PagesOf(ImageStart, HeapStart) = {a \in Int : ImageStart <= a /\ a < HeapStart /\ Even(a)}
    BY PageIn, Bounds
  <2>2. PagesOf(ImageStart, HeapStart) \subseteq Mapped(s)
    BY <1>0, <1>1 DEF ImageBacked
  <2>3. CASE ImageStart <= lo
    <3>1. lo \in PagesOf(lo, hi) /\ lo \in PagesOf(ImageStart, HeapStart)
      BY <1>8, <2>1, <2>3, Bounds
    <3> QED
      BY <1>8, <2>2, <3>1
  <2>4. CASE lo < ImageStart
    <3>1. ImageStart \in PagesOf(lo, hi) /\ ImageStart \in PagesOf(ImageStart, HeapStart)
      BY <1>8, <2>1, <2>4, Bounds, SMT DEF FRAME
    <3> QED
      BY <1>8, <2>2, <3>1
  <2> QED
    BY <2>3, <2>4, Bounds
<1>22. InBounds'
  BY <1>2, <1>3 DEF MemInv, InBounds
<1>11. TypeOK'
  BY <1>0, <1>1, <1>3, <1>4 DEF TypeOK, Grown, Tables, AreaSets
<1>12. HeapShape' /\ NumbersApart'
  BY <1>0, <1>4, <1>5 DEF HeapShape, NumbersApart
<1>13. AreaShape'
  BY <1>0, <1>7 DEF AreaShape
<1>14. StepShape'
  <2>2. HeapMax \in Nat /\ Top \in Nat
    BY Bounds
  <2>3. mapStart \in HeapMax..Top /\ arg \in [Tasks -> 0..Top]
    BY <1>0 DEF TypeOK
  <2>4. mapStart' = hi \/ mapStart' = mapStart
    BY <1>1
  <2>1. mapStart \in Int /\ mapStart' \in Int /\ \A t \in Tasks : arg[t] + FRAME \in Int
    BY <2>2, <2>3, <2>4 DEF FRAME
  <2> QED
    BY <1>0, <1>1, <1>4, <2>1, Bounds DEF StepShape
<1>15. HeapBacked'
  BY <1>0, <1>4, <1>5, <1>6 DEF HeapBacked
<1>24. ImageBacked'
  <2>1. \A x \in Spaces : PagesOf(ImageStart, HeapStart) \subseteq Mapped(x)'
    BY <1>0, <1>6 DEF ImageBacked
  <2>2. ASSUME NEW x \in Spaces, NEW r \in areas'[x], r[1] < ImageStart
        PROVE  r[2] <= ImageStart
    <3>1. \A q \in areas[x] : q[1] < ImageStart => q[2] <= ImageStart
      BY <1>0 DEF ImageBacked
    <3>2. ASSUME lo < hi, lo < ImageStart
          PROVE  hi <= ImageStart
      BY <1>23, <3>2, Bounds, SMT DEF FRAME
    <3> QED
      BY <1>7, <2>2, <3>1, <3>2
  <2>3. ASSUME NEW i \in DOMAIN regions', regions'[i].len > 0
        PROVE  HeapStart <= regions'[i].start \/ End(regions'[i]) <= ImageStart
    <3>1. CASE i = n
      BY <1>2, <1>3, <1>23, <2>3, <3>1
    <3>2. CASE i \in DOMAIN regions
      BY <1>0, <1>3, <2>3, <3>2 DEF ImageBacked
    <3> QED
      BY <1>3, <3>1, <3>2
  <2> QED
    BY <2>1, <2>2, <2>3 DEF ImageBacked
<1>16. NoneInHeap'
  <2> SUFFICES ASSUME BelowHeap, NEW i \in DOMAIN regions', regions'[i].len > 0
               PROVE  HeapMax <= regions'[i].start \/ End(regions'[i]) <= ImageStart
    BY <1>5 DEF NoneInHeap
  <2>1. CASE i = n
    BY <1>2, <1>3, <1>10, <2>1
  <2>2. CASE i \in DOMAIN regions
    BY <1>0, <1>3, <2>2 DEF NoneInHeap
  <2> QED
    BY <1>3, <2>1, <2>2
<1>17. ASSUME NoFixed, NEW i \in DOMAIN regions
       PROVE  /\ regions[i].start \in Int /\ End(regions[i]) \in Int
              /\ HeapMax <= regions[i].start /\ End(regions[i]) <= lo
  BY <1>0, <1>9, <1>17, RegionTypes DEF RegionShape, TypeOK
<1>18. RegionShape'
  <2> SUFFICES ASSUME NoFixed, NEW i \in DOMAIN regions'
               PROVE  LET r == regions'[i]
                      IN  /\ HeapMax <= r.start /\ Even(r.start) /\ Even(r.len) /\ r.map_len = r.len
                          /\ End(r) <= mapStart'
                          /\ \A j \in DOMAIN regions' : i # j => Apart(r.start, End(r), regions'[j])
                          /\ \A t \in Tasks : pc[t] = "vdso_map" =>
                               Apart(arg[t], arg[t] + FRAME, r) \/ (r.start = arg[t] /\ r.len = FRAME)
    BY <1>4, <1>5 DEF RegionShape, Apart, End
  <2>1. CASE i = n
    <3>1. HeapMax <= lo /\ Even(hi - lo) /\ hi <= mapStart'
      BY <1>1, <1>9, SMTT(40) DEF Even, FRAME
    <3>2. \A j \in DOMAIN regions : Apart(lo, hi, regions[j])
      BY <1>17 DEF Apart
    <3>3. \A t \in Tasks : pc[t] = "vdso_map" => Apart(arg[t], arg[t] + FRAME, new)
      BY <1>0, <1>2, <1>9 DEF StepShape, Apart
    <3> QED
      BY <1>2, <1>3, <2>1, <3>1, <3>2, <3>3
  <2>2. CASE i \in DOMAIN regions
    <3>1. LET r == regions[i]
          IN  /\ HeapMax <= r.start /\ Even(r.start) /\ Even(r.len) /\ r.map_len = r.len
              /\ End(r) <= mapStart
              /\ \A j \in DOMAIN regions : i # j => Apart(r.start, End(r), regions[j])
              /\ \A t \in Tasks : pc[t] = "vdso_map" =>
                   Apart(arg[t], arg[t] + FRAME, r) \/ (r.start = arg[t] /\ r.len = FRAME)
      BY <1>0, <2>2 DEF RegionShape
    <3>2. Apart(regions[i].start, End(regions[i]), new)
      BY <1>2, <1>17, <2>2 DEF Apart
    <3>3. End(regions[i]) <= mapStart'
      BY <1>1, <1>9, <1>17, <2>2
    <3> QED
      BY <1>3, <2>2, <3>1, <3>2, <3>3
  <2> QED
    BY <1>3, <2>1, <2>2
<1>19. AreasMatch'
  <2> SUFFICES ASSUME NoFixed, NEW x \in Spaces
               PROVE  /\ \A a \in Mapped(x)' : a < mapStart'
                      /\ \A a \in Mapped(x)' : heap[x].end <= a => HeapMax <= a
                      /\ \A r \in areas'[x] :
                           \/ r[2] <= HeapMax
                           \/ /\ HeapMax <= r[1] /\ r[2] <= mapStart'
                              /\ \A i \in DOMAIN regions' :
                                   \/ r = <<regions'[i].start, End(regions'[i])>>
                                   \/ Apart(r[1], r[2], regions'[i])
    BY <1>4, <1>5 DEF AreasMatch, Apart, End
  <2>1. \A a \in Mapped(x) : a \in Int /\ a < mapStart /\ (heap[x].end <= a => HeapMax <= a)
    BY <1>0, PageIs DEF AreasMatch, Mapped
  <2>2. \A a \in PagesOf(lo, hi) : a \in Int /\ a < mapStart' /\ HeapMax <= a
    BY <1>1, <1>8, <1>9, Bounds
  <2>3. ASSUME NEW r \in areas[x]
        PROVE  \/ r[2] <= HeapMax
               \/ /\ HeapMax <= r[1] /\ r[2] <= mapStart'
                  /\ \A i \in DOMAIN regions' : \/ r = <<regions'[i].start, End(regions'[i])>>
                                                \/ Apart(r[1], r[2], regions'[i])
    <3>1. r[1] \in Int /\ r[2] \in Int
      BY <1>0 DEF TypeOK
    <3>2. \/ r[2] <= HeapMax
          \/ /\ HeapMax <= r[1] /\ r[2] <= mapStart
             /\ \A i \in DOMAIN regions : r = <<regions[i].start, End(regions[i])>> \/ Apart(r[1], r[2], regions[i])
      BY <1>0 DEF AreasMatch
    <3>3. r[2] <= mapStart => Apart(r[1], r[2], new) /\ r[2] <= mapStart'
      BY <1>1, <1>2, <1>9, <3>1 DEF Apart
    <3> QED
      BY <1>3, <3>2, <3>3
  <2>4. /\ HeapMax <= lo /\ hi <= mapStart'
        /\ \A i \in DOMAIN regions' : \/ <<lo, hi>> = <<regions'[i].start, End(regions'[i])>>
                                      \/ Apart(lo, hi, regions'[i])
    <3>1. \A j \in DOMAIN regions : Apart(lo, hi, regions[j])
      BY <1>17 DEF Apart
    <3> QED
      BY <1>1, <1>2, <1>3, <1>9, <3>1
  <2>5. \A r \in areas'[x] : r \in areas[x] \/ r = <<lo, hi>>
    BY <1>7
  <2>6. \A a \in Mapped(x)' : a \in Mapped(x) \/ a \in PagesOf(lo, hi)
    BY <1>6
  <2>7. \A a \in Mapped(x)' : a < mapStart' /\ (heap[x].end <= a => HeapMax <= a)
    BY <1>1, <2>1, <2>2, <2>6
  <2> QED
    BY <2>3, <2>4, <2>5, <2>7
<1>20. OwnersHave'
  <2> SUFFICES ASSUME NoFixed, NEW i \in DOMAIN regions'
               PROVE  LET r == regions'[i]
                          x == r.by[1]
                      IN  /\ x \in Used /\ r.by[2] <= execs[x]
                          /\ r.by[2] = execs[x] /\ <<x, r.start>> \notin Pending
                               => \A p \in PagesOf(r.start, End(r)) : <<x, p>> \in Backed'
    BY <1>4, <1>5 DEF OwnersHave
  <2>1. Backed \subseteq Backed' /\ \A p \in PagesOf(lo, hi) : <<s, p>> \in Backed'
    <3>1. \A x \in Spaces : Mapped(x) \subseteq Mapped(x)'
      BY <1>6
    <3>2. \A p \in PagesOf(lo, hi) : p \in Mapped(s)'
      BY <1>1, <1>6
    <3> QED
      BY <1>1, <3>1, <3>2 DEF Backed, Mapped
  <2>2. CASE i = n
    <3>1. execs[s] \in {0, 1}
      BY <1>0, <1>1 DEF TypeOK
    <3> QED
      BY <1>2, <1>3, <2>1, <2>2, <3>1
  <2>3. CASE i \in DOMAIN regions
    BY <1>0, <1>3, <2>1, <2>3 DEF OwnersHave
  <2> QED
    BY <1>3, <2>2, <2>3
<1>21. PlainShape'
  <2> SUFFICES ASSUME Plain
               PROVE  /\ panic = "no"
                      /\ \A t \in Tasks : pc[t] \in {"idle", "brk"}
                      /\ \A t, u \in Live : space[t] = space[u]
                      /\ \A x \in Spaces : execs[x] = 0 /\ traps[x] \subseteq 0..(threads[x] - 1)
                      /\ \A i \in DOMAIN regions' :
                           LET r == regions'[i]
                           IN  r.len > 0 => <<r.start, End(r)>> \in areas'[r.by[1]]
    BY <1>4, <1>5 DEF PlainShape
  <2>1. ASSUME NEW i \in DOMAIN regions', regions'[i].len > 0
        PROVE  <<regions'[i].start, End(regions'[i])>> \in areas'[regions'[i].by[1]]
    <3>1. CASE i = n
      <4>1. lo < hi
        BY <1>2, <1>3, <2>1, <3>1
      <4> QED
        BY <1>1, <1>2, <1>3, <1>7, <3>1, <4>1
    <3>2. CASE i \in DOMAIN regions
      <4>1. regions[i].by[1] \in Spaces
        BY <1>0, <3>2, RegionTypes DEF TypeOK
      <4>2. <<regions[i].start, End(regions[i])>> \in areas[regions[i].by[1]]
        BY <1>0, <1>3, <2>1, <3>2 DEF PlainShape
      <4> QED
        BY <1>3, <1>7, <3>2, <4>1, <4>2
    <3> QED
      BY <1>3, <3>1, <3>2
  <2> QED
    BY <1>0, <2>1 DEF PlainShape
<1> QED
  BY <1>11, <1>12, <1>13, <1>14, <1>15, <1>16, <1>18, <1>19, <1>20, <1>21, <1>22, <1>24 DEF MemInv

\* What \o yields, with the place of every element.
LEMMA Joined ==
  ASSUME NEW S, NEW s \in Seq(S), NEW t \in Seq(S)
  PROVE  /\ s \o t \in Seq(S) /\ Len(s \o t) = Len(s) + Len(t)
         /\ \A j \in 1..Len(s) : (s \o t)[j] = s[j]
         /\ \A k \in 1..Len(t) : (s \o t)[Len(s) + k] = t[k]
<1>1. Len(t) \in Nat /\ Len(s) \in Nat
  OBVIOUS
<1>2. /\ s \o t \in Seq(S) /\ Len(s \o t) = Len(s) + Len(t)
      /\ \A j \in 1..(Len(s) + Len(t)) : (s \o t)[j] = IF j <= Len(s) THEN s[j] ELSE t[j - Len(s)]
  BY ConcatProperties
<1>3. ASSUME NEW k \in 1..Len(t)
      PROVE  (s \o t)[Len(s) + k] = t[k]
  <2>1. Len(s) + k \in 1..(Len(s) + Len(t)) /\ ~(Len(s) + k <= Len(s)) /\ (Len(s) + k) - Len(s) = k
    BY <1>1
  <2> QED
    BY <1>2, <2>1
<1> QED
  BY <1>1, <1>2, <1>3

\* MAP_FIXED inside a region: the other regions stay, and two or three parts take the place of this
\* one.
LEMMA CutParts ==
  ASSUME regions \in Seq(Regions), NEW i \in DOMAIN regions, NEW a \in Int, Even(a), InRegion(regions[i], a),
         End(regions[i]) <= Top, NEW n \in Nat, Even(n), NEW prot \in Prots, Recut(i, a, n, prot),
         NEW first \in DOMAIN regions, remove_region(regions[i].start) = RemoveAt(regions, first)
  PROVE  LET r == regions[i]
             last == Len(regions)
         IN  /\ regions' \in Seq(Regions)
             /\ \A j \in 1..(last - 1) : regions'[j] = regions[IF j < first THEN j ELSE j + 1]
             /\ regions'[last].start = r.start /\ End(regions'[last]) = a
             /\ \/ /\ Len(regions') = last + 1 /\ End(r) <= a + n
                   /\ regions'[last + 1].start = a /\ End(regions'[last + 1]) = End(r)
                \/ /\ Len(regions') = last + 2 /\ a + n < End(r)
                   /\ regions'[last + 1].start = a + n /\ End(regions'[last + 1]) = End(r)
                   /\ regions'[last + 2].start = a /\ End(regions'[last + 2]) = a + n
<1> DEFINE r == regions[i]
<1> DEFINE last == Len(regions)
<1> DEFINE rest == RemoveAt(regions, first)
<1> DEFINE cut == split(r, a)
<1> DEFINE two == split(cut[2], a + n)
<1>1. /\ r \in Regions /\ first \in 1..last /\ last \in Nat /\ r.start \in Nat /\ r.len \in 0..Top
      /\ End(r) = r.start + r.len /\ r.start <= a /\ a < End(r) /\ End(r) <= Top
  BY RegionTypes DEF InRegion
<1>2. rest \in Seq(Regions) /\ Len(rest) = last - 1
      /\ \A j \in 1..(last - 1) : rest[j] = regions[IF j < first THEN j ELSE j + 1]
  BY <1>1, Removed
<1>10. \A t \in Seq(Regions) :
         /\ rest \o t \in Seq(Regions) /\ Len(rest \o t) = (last - 1) + Len(t)
         /\ \A j \in 1..(last - 1) : (rest \o t)[j] = rest[j]
         /\ \A k \in 1..Len(t) : (rest \o t)[(last - 1) + k] = t[k]
  <2> HIDE DEF rest
  <2>1. \A x, y \in Seq(Regions) :
          /\ x \o y \in Seq(Regions) /\ Len(x \o y) = Len(x) + Len(y)
          /\ \A j \in 1..Len(x) : (x \o y)[j] = x[j]
          /\ \A k \in 1..Len(y) : (x \o y)[Len(x) + k] = y[k]
    BY Joined
  <2>2. rest \in Seq(Regions) /\ Len(rest) = last - 1
    BY <1>2
  <2> SUFFICES ASSUME NEW t \in Seq(Regions)
               PROVE  /\ rest \o t \in Seq(Regions) /\ Len(rest \o t) = (last - 1) + Len(t)
                      /\ \A j \in 1..(last - 1) : (rest \o t)[j] = rest[j]
                      /\ \A k \in 1..Len(t) : (rest \o t)[(last - 1) + k] = t[k]
    OBVIOUS
  <2>3. /\ rest \o t \in Seq(Regions) /\ Len(rest \o t) = Len(rest) + Len(t)
        /\ \A j \in 1..Len(rest) : (rest \o t)[j] = rest[j]
        /\ \A k \in 1..Len(t) : (rest \o t)[Len(rest) + k] = t[k]
    BY <2>1, <2>2, Zenon
  <2> QED
    BY <2>2, <2>3, Zenon
<1> HIDE DEF rest
<1>3. ASSUME NEW q \in Regions, NEW x \in Int, q.start <= x, x <= End(q), End(q) <= Top
      PROVE  /\ split(q, x)[1] \in Regions /\ split(q, x)[1].start = q.start /\ End(split(q, x)[1]) = x
             /\ split(q, x)[2] \in Regions /\ split(q, x)[2].start = x /\ End(split(q, x)[2]) = End(q)
             /\ split(q, x)[2].map_len = AlignUp(End(q) - x)
  <2>1. q.start \in 0..Top /\ q.len \in 0..Top /\ End(q) = q.start + q.len
    BY DEF Regions, End
  <2>2. /\ AlignUp(x - q.start) \in 0..Top
        /\ AlignUp(End(q) - x) \in 0..Top
    <3>1. Top \in Nat /\ Even(Top)
      BY Bounds
    <3>2. \A y \in 0..Top : AlignUp(y) \in 0..Top
      <4> SUFFICES ASSUME NEW y \in 0..Top
                   PROVE  AlignUp(y) \in 0..Top
        OBVIOUS
      <4>1. AlignUp(y) \in Int /\ Even(AlignUp(y)) /\ y <= AlignUp(y) /\ AlignUp(y) < y + FRAME
        BY <3>1, Rounding
      <4> QED
        BY <3>1, <4>1, SMT DEF Even, FRAME
    <3>3. x - q.start \in 0..Top /\ End(q) - x \in 0..Top
      BY <1>3, <2>1, <3>1, SMTT(40)
    <3> QED
      BY <3>2, <3>3
  <2>3. x - q.start \in 0..Top /\ End(q) - x \in 0..Top /\ x \in 0..Top
    BY <1>3, <2>1, Bounds, SMTT(40)
  <2>4. /\ split(q, x)[1] = [q EXCEPT !.len = x - q.start, !.map_len = AlignUp(x - q.start)]
        /\ split(q, x)[2] = [q EXCEPT !.start = x, !.len = End(q) - x, !.map_len = AlignUp(End(q) - x)]
    BY DEF split
  <2>5. /\ split(q, x)[1] \in Regions /\ split(q, x)[1].start = q.start /\ split(q, x)[1].len = x - q.start
    BY <2>2, <2>3, <2>4 DEF Regions
  <2>6. /\ split(q, x)[2] \in Regions /\ split(q, x)[2].start = x /\ split(q, x)[2].len = End(q) - x
        /\ split(q, x)[2].map_len = AlignUp(End(q) - x)
    BY <2>2, <2>3, <2>4 DEF Regions
  <2>7. q.start + (x - q.start) = x /\ x + (End(q) - x) = End(q)
    BY <2>1, <2>3, SMTT(40)
  <2> QED
    BY <2>5, <2>6, <2>7 DEF End
<1>4. /\ cut[1] \in Regions /\ cut[1].start = r.start /\ End(cut[1]) = a
      /\ cut[2] \in Regions /\ cut[2].start = a /\ End(cut[2]) = End(r)
      /\ cut[2].map_len = AlignUp(End(r) - a)
  BY <1>1, <1>3
<1> HIDE DEF cut
<1>5. regions' = IF a + n < cut[2].start + cut[2].map_len
                 THEN rest \o <<cut[1], two[2], [two[1] EXCEPT !.prot = prot]>>
                 ELSE rest \o <<cut[1], [cut[2] EXCEPT !.prot = prot]>>
  BY DEF Recut, cut, rest
<1>6. ASSUME NEW q \in Regions
      PROVE  LET new == [q EXCEPT !.prot = prot]
             IN  new \in Regions /\ new.start = q.start /\ End(new) = End(q)
  BY DEF Regions, End
<1>7. (a + n < cut[2].start + cut[2].map_len) <=> (a + n < End(r))
  <2>1. End(r) - a \in Int
    BY <1>1
  <2> DEFINE m == AlignUp(End(r) - a)
  <2>2. m \in Int /\ Even(m) /\ End(r) - a <= m /\ m < (End(r) - a) + FRAME
    BY <2>1, Rounding
  <2>3. cut[2].start = a /\ cut[2].map_len = m
    BY <1>4
  <2> HIDE DEF m
  <2> DEFINE e == End(r)
  <2>4. e \in Int /\ a \in Int /\ n \in Int
    BY <1>1
  <2>5. m \in Int /\ e - a <= m /\ m < (e - a) + 2 /\ m % 2 = 0 /\ n % 2 = 0
    BY <2>2 DEF Even, FRAME
  <2> HIDE DEF e, cut
  <2>6. (a + n < a + m) <=> (a + n < e)
    BY <2>4, <2>5
  <2> QED
    BY <2>3, <2>6 DEF e
<1>8. CASE a + n < End(r)
  <2>1. /\ two[1] \in Regions /\ two[1].start = a /\ End(two[1]) = a + n
        /\ two[2] \in Regions /\ two[2].start = a + n /\ End(two[2]) = End(r)
    <3>1. a + n \in Int /\ cut[2].start <= a + n /\ a + n <= End(cut[2]) /\ End(cut[2]) <= Top
      BY <1>1, <1>4, <1>8
    <3> QED
      BY <1>3, <1>4, <3>1
  <2> DEFINE w == [two[1] EXCEPT !.prot = prot]
  <2>2. w \in Regions /\ w.start = a /\ End(w) = a + n
    BY <1>6, <2>1
  <2> DEFINE v == two[2]
  <2> DEFINE u == cut[1]
  <2>3. regions' = rest \o <<u, v, w>>
    BY <1>5, <1>7, <1>8
  <2>4. v \in Regions /\ v.start = a + n /\ End(v) = End(r) /\ u \in Regions /\ u.start = r.start /\ End(u) = a
    BY <1>4, <2>1
  <2> HIDE DEF u, v, w, two
  <2>5. /\ regions' \in Seq(Regions) /\ Len(regions') = last + 2
        /\ \A j \in 1..(last - 1) : regions'[j] = rest[j]
        /\ regions'[last] = u /\ regions'[last + 1] = v /\ regions'[last + 2] = w
    <3>1. <<u, v, w>> \in Seq(Regions) /\ Len(<<u, v, w>>) = 3
          /\ <<u, v, w>>[1] = u /\ <<u, v, w>>[2] = v /\ <<u, v, w>>[3] = w
      BY <2>2, <2>4
    <3> DEFINE tail == <<u, v, w>>
    <3>2. 1 \in 1..Len(tail) /\ 2 \in 1..Len(tail) /\ 3 \in 1..Len(tail) /\ last - 1 \in Nat
          /\ tail \in Seq(Regions)
      BY <1>1, <3>1
    <3>3. regions' = rest \o tail
      BY <2>3
    <3> HIDE DEF tail
    <3>4. /\ regions' \in Seq(Regions) /\ Len(regions') = (last - 1) + Len(tail)
          /\ \A j \in 1..(last - 1) : regions'[j] = rest[j]
          /\ \A k \in 1..Len(tail) : regions'[(last - 1) + k] = tail[k]
      BY <1>10, <3>2, <3>3
    <3>5. /\ Len(tail) = 3
          /\ regions'[(last - 1) + 1] = u
          /\ regions'[(last - 1) + 2] = v
          /\ regions'[(last - 1) + 3] = w
      BY <3>1, <3>2, <3>4 DEF tail
    <3> QED
      BY <1>1, <3>4, <3>5
  <2> QED
    BY <1>1, <1>2, <1>8, <2>2, <2>4, <2>5
<1>9. CASE ~(a + n < End(r))
  <2> DEFINE w == [cut[2] EXCEPT !.prot = prot]
  <2>2. w \in Regions /\ w.start = a /\ End(w) = End(r)
    BY <1>4, <1>6
  <2> DEFINE u == cut[1]
  <2>3. regions' = rest \o <<u, w>>
    BY <1>5, <1>7, <1>9
  <2>4. u \in Regions /\ u.start = r.start /\ End(u) = a
    BY <1>4
  <2> HIDE DEF u, w
  <2>5. /\ regions' \in Seq(Regions) /\ Len(regions') = last + 1
        /\ \A j \in 1..(last - 1) : regions'[j] = rest[j]
        /\ regions'[last] = u /\ regions'[last + 1] = w
    <3>1. <<u, w>> \in Seq(Regions) /\ Len(<<u, w>>) = 2 /\ <<u, w>>[1] = u /\ <<u, w>>[2] = w
      BY <2>2, <2>4
    <3> DEFINE tail == <<u, w>>
    <3>2. 1 \in 1..Len(tail) /\ 2 \in 1..Len(tail) /\ last - 1 \in Nat
          /\ tail \in Seq(Regions)
      BY <1>1, <3>1
    <3>3. regions' = rest \o tail
      BY <2>3
    <3> HIDE DEF tail
    <3>4. /\ regions' \in Seq(Regions) /\ Len(regions') = (last - 1) + Len(tail)
          /\ \A j \in 1..(last - 1) : regions'[j] = rest[j]
          /\ \A k \in 1..Len(tail) : regions'[(last - 1) + k] = tail[k]
      BY <1>10, <3>2, <3>3
    <3>5. /\ Len(tail) = 2
          /\ regions'[(last - 1) + 1] = u
          /\ regions'[(last - 1) + 2] = w
      BY <3>1, <3>2, <3>4 DEF tail
    <3> QED
      BY <1>1, <3>4, <3>5
  <2> QED
    BY <1>1, <1>2, <1>9, <2>2, <2>4, <2>5
<1> QED
  BY <1>8, <1>9

\* Covered and Disjoint by the addresses of regions.
LEMMA CoveredIs ==
  ASSUME NEW rs \in Seq(Regions)
  PROVE  /\ \A x : x \in Covered(rs) <=> x \in Int /\ \E k \in 1..Len(rs) : rs[k].start <= x /\ x < End(rs[k])
         /\ Disjoint(rs) <=> \A k, l \in 1..Len(rs) : k # l =>
              \A x \in Int : rs[k].start <= x /\ x < End(rs[k]) => ~(rs[l].start <= x /\ x < End(rs[l]))
<1>1. DOMAIN rs = 1..Len(rs) /\ \A k \in 1..Len(rs) : rs[k].start \in Int /\ End(rs[k]) \in Int
  BY RegionTypes
<1>2. \A k \in 1..Len(rs) : \A x :
        x \in rs[k].start .. (End(rs[k]) - 1) <=> x \in Int /\ rs[k].start <= x /\ x < End(rs[k])
  BY <1>1
<1>3. \A x : x \in Covered(rs) <=> \E k \in 1..Len(rs) : x \in rs[k].start .. (End(rs[k]) - 1)
  BY <1>1 DEF Covered
<1>4. Disjoint(rs) <=> \A k, l \in 1..Len(rs) : k # l =>
        \A x \in rs[k].start .. (End(rs[k]) - 1) : ~(rs[l].start <= x /\ x < End(rs[l]))
  BY <1>1 DEF Disjoint, InRegion
<1> QED
  BY <1>2, <1>3, <1>4

\* The region that leaves the list: the first one that contains the start of the one that is cut, and
\* that one itself when no two regions overlap.
LEMMA FirstOne ==
  ASSUME regions \in Seq(Regions), NEW i \in DOMAIN regions, regions[i].len > 0
  PROVE  \E first \in DOMAIN regions :
           /\ remove_region(regions[i].start) = RemoveAt(regions, first)
           /\ Disjoint(regions) => first = i
<1> DEFINE a == regions[i].start
<1> DEFINE first == get_region(a)
<1>1. DOMAIN regions = 1..Len(regions) /\ Len(regions) \in Nat
  OBVIOUS
<1>2. /\ regions[i].start \in Int /\ regions[i].len \in Int
      /\ End(regions[i]) = regions[i].start + regions[i].len
  BY RegionTypes
<1>3. InRegion(regions[i], a) /\ a \in regions[i].start .. (End(regions[i]) - 1)
  BY <1>2 DEF InRegion
<1>4. first \in 1..Len(regions) /\ InRegion(regions[first], a)
  BY <1>1, <1>3, Found
<1>5. remove_region(a) = RemoveAt(regions, first)
  BY <1>1, <1>4 DEF remove_region
<1>6. Disjoint(regions) => first = i
  BY <1>1, <1>3, <1>4 DEF Disjoint
<1> HIDE DEF first
<1> QED
  BY <1>1, <1>4, <1>5, <1>6

\* Cutting brings no address into the list.  If it is the region that is cut which leaves the list, no
\* address is lost and no two regions begin to overlap.
LEMMA CutTiles ==
  ASSUME regions \in Seq(Regions), NEW i \in DOMAIN regions, NEW a \in Int, Even(a), InRegion(regions[i], a),
         End(regions[i]) <= Top, NEW n \in Nat, Even(n), NEW prot \in Prots, Recut(i, a, n, prot),
         NEW first \in DOMAIN regions, remove_region(regions[i].start) = RemoveAt(regions, first)
  PROVE  /\ regions' \in Seq(Regions)
         /\ \A k \in DOMAIN regions' : \E j \in DOMAIN regions :
              /\ regions[j].start <= regions'[k].start /\ End(regions'[k]) <= End(regions[j])
              /\ regions'[k].len > 0 => regions[j].len > 0
         /\ Covered(regions') \subseteq Covered(regions)
         /\ first = i => /\ Covered(regions') = Covered(regions)
                         /\ Disjoint(regions) => Disjoint(regions')
<1> DEFINE last == Len(regions)
<1> DEFINE lo(j) == regions[j].start
<1> DEFINE hi(j) == End(regions[j])
<1> DEFINE lo2(k) == regions'[k].start
<1> DEFINE hi2(k) == End(regions'[k])
<1> DEFINE top == Len(regions')
<1> DEFINE old(k) == IF k < first THEN k ELSE k + 1
<1>1. /\ regions' \in Seq(Regions) /\ last \in Nat /\ i \in 1..last /\ first \in 1..last
      /\ DOMAIN regions = 1..last /\ DOMAIN regions' = 1..top
  BY CutParts
<1>2. \A j \in 1..last : lo(j) \in Int /\ hi(j) \in Int /\ regions[j].len \in Int /\ hi(j) = lo(j) + regions[j].len
  BY <1>1, RegionTypes
<1>3. \A k \in 1..top : lo2(k) \in Int /\ hi2(k) \in Int /\ regions'[k].len \in Int
                        /\ hi2(k) = lo2(k) + regions'[k].len
  BY <1>1, RegionTypes
<1>4. \A k \in 1..(last - 1) : /\ old(k) \in 1..last /\ old(k) # first /\ regions'[k] = regions[old(k)]
                               /\ lo2(k) = lo(old(k)) /\ hi2(k) = hi(old(k))
  <2> SUFFICES ASSUME NEW k \in 1..(last - 1)
               PROVE  old(k) \in 1..last /\ old(k) # first /\ regions'[k] = regions[old(k)]
    OBVIOUS
  <2>1. old(k) \in 1..last /\ old(k) # first
    BY <1>1
  <2>2. regions'[k] = regions[old(k)]
    BY CutParts
  <2> QED
    BY <2>1, <2>2
<1>5. /\ lo2(last) = lo(i) /\ hi2(last) = a
      /\ \/ /\ top = last + 1 /\ hi(i) <= a + n
            /\ lo2(last + 1) = a /\ hi2(last + 1) = hi(i)
         \/ /\ top = last + 2 /\ a + n < hi(i)
            /\ lo2(last + 1) = a + n /\ hi2(last + 1) = hi(i)
            /\ lo2(last + 2) = a /\ hi2(last + 2) = a + n
  BY CutParts
<1>6. lo(i) <= a /\ a < hi(i)
  BY DEF InRegion
<1>7. \A j, k \in 1..(last - 1) : j # k => old(j) # old(k)
  BY <1>1
<1>8. \A j \in 1..last : j # first => \E k \in 1..(last - 1) : old(k) = j
  <2> SUFFICES ASSUME NEW j \in 1..last, j # first
               PROVE  \E k \in 1..(last - 1) : old(k) = j
    OBVIOUS
  <2> DEFINE k == IF j < first THEN j ELSE j - 1
  <2>1. k \in 1..(last - 1) /\ old(k) = j
    BY <1>1
  <2> HIDE DEF k
  <2> QED
    BY <2>1
<1> HIDE DEF last, lo, hi, lo2, hi2, top, old
<1>9. top \in {last + 1, last + 2}
  BY <1>5
<1>10. ASSUME NEW k \in last..top
       PROVE  k \in 1..top /\ lo(i) <= lo2(k) /\ hi2(k) <= hi(i)
  <2>1. k \in {last, last + 1, last + 2} /\ k \in 1..top
    BY <1>1, <1>9
  <2>2. lo(i) \in Int /\ hi(i) \in Int /\ a + n \in Int /\ last \in Int
    BY <1>1, <1>2
  <2>3. CASE k = last
    BY <1>5, <1>6, <2>1, <2>2, <2>3
  <2>4. CASE k = last + 1
    BY <1>5, <1>6, <2>1, <2>2, <2>4
  <2>5. CASE k = last + 2
    <3>1. top = last + 2
      BY <1>1, <1>9, <2>2, <2>5
    <3> QED
      BY <1>5, <1>6, <2>1, <2>2, <2>5, <3>1
  <2> QED
    BY <2>1, <2>3, <2>4, <2>5
<1>11. \A k \in 1..top : k \in 1..(last - 1) \/ k \in last..top
  BY <1>1, <1>9
<1>12. \A k \in 1..top : \E j \in 1..last :
         lo(j) <= lo2(k) /\ hi2(k) <= hi(j) /\ (regions'[k].len > 0 => regions[j].len > 0)
  <2> SUFFICES ASSUME NEW k \in 1..top
               PROVE  \E j \in 1..last :
                        lo(j) <= lo2(k) /\ hi2(k) <= hi(j) /\ (regions'[k].len > 0 => regions[j].len > 0)
    OBVIOUS
  <2>1. CASE k \in 1..(last - 1)
    BY <1>2, <1>3, <1>4, <2>1
  <2>2. CASE k \in last..top
    <3>1. lo(i) <= lo2(k) /\ hi2(k) <= hi(i)
      BY <1>10, <2>2
    <3>2. regions[i].len > 0
      BY <1>1, <1>2, <1>6, SMTT(40)
    <3> QED
      BY <1>1, <3>1, <3>2
  <2> QED
    BY <1>11, <2>1, <2>2
<1>13. \A x \in Int : \A k \in 1..top : lo2(k) <= x /\ x < hi2(k) => \E j \in 1..last : lo(j) <= x /\ x < hi(j)
  <2> SUFFICES ASSUME NEW x \in Int, NEW k \in 1..top, lo2(k) <= x, x < hi2(k)
               PROVE  \E j \in 1..last : lo(j) <= x /\ x < hi(j)
    OBVIOUS
  <2>1. PICK j \in 1..last : lo(j) <= lo2(k) /\ hi2(k) <= hi(j)
    BY <1>12
  <2> QED
    BY <1>2, <1>3, <2>1
<1>14. ASSUME first = i
       PROVE  \A x \in Int : \A j \in 1..last : lo(j) <= x /\ x < hi(j) =>
                \E k \in 1..top : lo2(k) <= x /\ x < hi2(k)
  <2> SUFFICES ASSUME NEW x \in Int, NEW j \in 1..last, lo(j) <= x, x < hi(j)
               PROVE  \E k \in 1..top : lo2(k) <= x /\ x < hi2(k)
    OBVIOUS
  <2>1. CASE j # i
    <3>1. PICK k \in 1..(last - 1) : old(k) = j
      BY <1>8, <1>14, <2>1
    <3>2. k \in 1..top
      BY <1>1, <1>9
    <3> QED
      BY <1>4, <3>1, <3>2
  <2>2. CASE j = i
    <3>1. /\ last \in 1..top /\ last + 1 \in 1..top /\ (top = last + 2 => last + 2 \in 1..top)
          /\ a \in Int /\ n \in Int
      BY <1>1, <1>9
    <3>2. CASE x < a
      BY <1>5, <2>2, <3>1, <3>2
    <3>3. CASE ~(x < a) /\ top = last + 1
      BY <1>5, <2>2, <3>1, <3>3
    <3>4. CASE ~(x < a) /\ top = last + 2 /\ x < a + n
      BY <1>5, <2>2, <3>1, <3>4
    <3>5. CASE ~(x < a) /\ top = last + 2 /\ ~(x < a + n)
      BY <1>5, <2>2, <3>1, <3>5
    <3> QED
      BY <1>9, <3>2, <3>3, <3>4, <3>5
  <2> QED
    BY <2>1, <2>2
<1>16. /\ Covered(regions') \subseteq Covered(regions)
       /\ first = i => Covered(regions') = Covered(regions)
  <2>1. \A x : x \in Covered(regions) <=> x \in Int /\ \E j \in 1..last : lo(j) <= x /\ x < hi(j)
    BY CoveredIs DEF lo, hi, last
  <2>2. \A x : x \in Covered(regions') <=> x \in Int /\ \E k \in 1..top : lo2(k) <= x /\ x < hi2(k)
    BY <1>1, CoveredIs DEF lo2, hi2, top
  <2>3. Covered(regions') \subseteq Covered(regions)
    BY <1>13, <2>1, <2>2
  <2>4. first = i => Covered(regions) \subseteq Covered(regions')
    BY <1>14, <2>1, <2>2
  <2> QED
    BY <2>3, <2>4
<1>15. ASSUME first = i, Disjoint(regions)
       PROVE  Disjoint(regions')
  <2>1. \A j, k \in 1..last : \A x \in Int : j # k /\ lo(j) <= x /\ x < hi(j) => ~(lo(k) <= x /\ x < hi(k))
    BY <1>15, CoveredIs DEF lo, hi, last
  <2> SUFFICES ASSUME NEW k \in 1..top, NEW l \in 1..top, k < l, NEW x \in Int,
                      lo2(k) <= x, x < hi2(k), lo2(l) <= x, x < hi2(l)
               PROVE  FALSE
    <3>1. \A k, l \in 1..top : \A x \in Int :
            k # l /\ lo2(k) <= x /\ x < hi2(k) => ~(lo2(l) <= x /\ x < hi2(l))
      BY <1>1
    <3> QED
      BY <1>1, <3>1, CoveredIs DEF lo2, hi2, top
  <2>2. CASE k \in last..top
    <3>1. k \in {last, last + 1} /\ l \in {last + 1, last + 2} /\ k \in Int /\ l \in Int /\ last \in Int
      BY <1>1, <1>9, <2>2
    <3> QED
      BY <1>2, <1>5, <1>6, <3>1, SMTT(40)
  <2>3. CASE k \in 1..(last - 1) /\ l \in 1..(last - 1)
    <3>1. old(k) # old(l) /\ old(k) \in 1..last /\ old(l) \in 1..last
      BY <1>1, <1>4, <1>7, <2>3
    <3> QED
      BY <1>4, <2>1, <2>3, <3>1
  <2>4. CASE k \in 1..(last - 1) /\ l \in last..top
    <3>1. old(k) # i /\ old(k) \in 1..last /\ lo(old(k)) <= x /\ x < hi(old(k))
      BY <1>4, <1>15, <2>4
    <3>2. lo(i) <= x /\ x < hi(i)
      <4>1. lo(i) <= lo2(l) /\ hi2(l) <= hi(i)
        BY <1>10, <2>4
      <4> QED
        BY <1>1, <1>2, <1>3, <4>1, SMTT(40)
    <3> QED
      BY <1>1, <2>1, <3>1, <3>2
  <2> QED
    BY <1>11, <2>2, <2>3, <2>4
<1> QED
  BY <1>1, <1>12, <1>15, <1>16 DEF lo, hi, lo2, hi2

\* MAP_FIXED over a region keeps the invariant.
LEMMA RecutKeeps ==
  ASSUME MemInv, panic = "no", NEW i \in DOMAIN regions, NEW a \in Int, Even(a), InRegion(regions[i], a),
         NEW n \in Nat, Even(n), NEW prot \in Prots, Recut(i, a, n, prot), world.fixed # {},
         UNCHANGED <<memVars, taskVars, execs, panic, mapStart, callVars, world>>
  PROVE  MemInv'
<1>0. TypeOK /\ HeapShape /\ AreaShape /\ InBounds /\ StepShape /\ NumbersApart /\ HeapBacked
      /\ ImageBacked /\ NoneInHeap
  BY DEF MemInv
<1>1. /\ UNCHANGED <<table, areas, traps, heap, space, number, threads, execs, panic, mapStart, pc, arg, world>>
      /\ regions \in Seq(Regions) /\ End(regions[i]) <= Top
  BY <1>0 DEF memVars, taskVars, callVars, TypeOK, InBounds
<1>2. /\ regions' \in Seq(Regions)
      /\ \A k \in DOMAIN regions' : \E j \in DOMAIN regions :
           /\ regions[j].start <= regions'[k].start /\ End(regions'[k]) <= End(regions[j])
           /\ regions'[k].len > 0 => regions[j].len > 0
  <2>1. regions[i].len > 0
    BY <1>1, RegionTypes DEF InRegion
  <2>2. PICK first \in DOMAIN regions : remove_region(regions[i].start) = RemoveAt(regions, first)
    BY <1>1, <2>1, FirstOne
  <2> QED
    BY <1>1, <2>2, CutTiles
<1>3. TypeOK'
  BY <1>0, <1>1, <1>2 DEF TypeOK
<1>4. HeapShape' /\ AreaShape' /\ StepShape'
  BY <1>0, <1>1 DEF HeapShape, AreaShape, StepShape
<1>5. NumbersApart' /\ HeapBacked'
  BY <1>0, <1>1 DEF NumbersApart, Live, HeapBacked, BelowHeap, Mapped
<1>6. /\ \A j \in DOMAIN regions : regions[j].start \in Int /\ End(regions[j]) \in Int
      /\ \A k \in DOMAIN regions' : regions'[k].start \in Int /\ End(regions'[k]) \in Int
  BY <1>1, <1>2, RegionTypes
<1>7. InBounds'
  <2> SUFFICES ASSUME NEW k \in DOMAIN regions'
               PROVE  End(regions'[k]) <= Top
    BY DEF InBounds
  <2>1. PICK j \in DOMAIN regions : End(regions'[k]) <= End(regions[j])
    BY <1>2
  <2> QED
    BY <1>0, <1>6, <2>1, Bounds DEF InBounds
<1>8. NoneInHeap'
  <2> SUFFICES ASSUME BelowHeap, NEW k \in DOMAIN regions', regions'[k].len > 0
               PROVE  HeapMax <= regions'[k].start \/ End(regions'[k]) <= ImageStart
    BY <1>1 DEF NoneInHeap, BelowHeap
  <2>1. PICK j \in DOMAIN regions : /\ regions[j].start <= regions'[k].start /\ End(regions'[k]) <= End(regions[j])
                                    /\ regions[j].len > 0
    BY <1>2
  <2>2. HeapMax <= regions[j].start \/ End(regions[j]) <= ImageStart
    BY <1>0, <2>1 DEF NoneInHeap
  <2> QED
    BY <1>6, <2>1, <2>2, Bounds
<1>10. ImageBacked'
  <2>1. \A s \in Spaces : PagesOf(ImageStart, HeapStart) \subseteq Mapped(s)'
    BY <1>0, <1>1 DEF ImageBacked, Mapped
  <2>2. ASSUME NEW k \in DOMAIN regions', regions'[k].len > 0
        PROVE  HeapStart <= regions'[k].start \/ End(regions'[k]) <= ImageStart
    <3>1. PICK j \in DOMAIN regions : /\ regions[j].start <= regions'[k].start /\ End(regions'[k]) <= End(regions[j])
                                      /\ regions[j].len > 0
      BY <1>2, <2>2
    <3>2. HeapStart <= regions[j].start \/ End(regions[j]) <= ImageStart
      BY <1>0, <3>1 DEF ImageBacked
    <3> QED
      BY <1>6, <3>1, <3>2, Bounds
  <2> QED
    BY <1>0, <1>1, <2>1, <2>2 DEF ImageBacked
<1>9. RegionShape' /\ AreasMatch' /\ OwnersHave' /\ PlainShape'
  BY <1>1 DEF RegionShape, AreasMatch, OwnersHave, PlainShape, NoFixed, Plain
<1> QED
  BY <1>3, <1>4, <1>5, <1>7, <1>8, <1>9, <1>10 DEF MemInv

\* Unmapping takes the pages of the area that begins where the region does, which are its own.
LEMMA UnmapKeeps ==
  ASSUME MemInv, panic = "no", NEW s \in Spaces, NEW i \in DOMAIN regions, regions[i].len > 0,
         NEW r, Shrunk(s, regions[i].start, r), regions' = RemoveAt(regions, i),
         UNCHANGED <<mapStart, pc, arg, world>>
  PROVE  MemInv'
<1> DEFINE last == Len(regions)
<1> DEFINE old(k) == IF k < i THEN k ELSE k + 1
<1>0. TypeOK /\ HeapShape /\ AreaShape /\ InBounds /\ StepShape /\ NumbersApart /\ HeapBacked
      /\ ImageBacked /\ NoneInHeap
      /\ RegionShape /\ AreasMatch /\ OwnersHave /\ PlainShape
  BY DEF MemInv
<1>1. /\ UNCHANGED <<traps, heap, space, number, threads, execs, panic, pc, arg, world, mapStart>>
      /\ r \in areas[s] /\ r[1] = regions[i].start
      /\ \A x \in Spaces : Mapped(x)' = IF x = s THEN Mapped(s) \ PagesOf(r[1], r[2]) ELSE Mapped(x)
      /\ \A x \in Spaces : areas'[x] = IF x = s THEN areas[s] \ {r} ELSE areas[x]
  BY DEF Shrunk, taskVars
<1>2. /\ Live' = Live /\ BelowHeap' = BelowHeap /\ Plain' = Plain /\ NoFixed' = NoFixed /\ Used' = Used
      /\ Pending' = Pending
  BY <1>1 DEF Live, BelowHeap, Plain, NoFixed, Used, Pending
<1>3. /\ regions \in Seq(Regions) /\ last \in Nat /\ i \in 1..last /\ DOMAIN regions = 1..last
      /\ \A j \in 1..last : /\ regions[j].start \in Nat /\ regions[j].len \in Nat /\ End(regions[j]) \in Nat
                            /\ End(regions[j]) = regions[j].start + regions[j].len
  BY <1>0, RegionTypes, SMTT(40) DEF TypeOK
<1>4. /\ regions' \in Seq(Regions) /\ DOMAIN regions' = 1..(last - 1)
      /\ \A k \in 1..(last - 1) : regions'[k] = regions[old(k)]
  <2>1. /\ RemoveAt(regions, i) \in Seq(Regions) /\ Len(RemoveAt(regions, i)) = last - 1
        /\ \A k \in 1..(last - 1) : RemoveAt(regions, i)[k] = regions[old(k)]
    BY <1>3, Removed
  <2>2. /\ regions' \in Seq(Regions) /\ Len(regions') = last - 1
        /\ \A k \in 1..(last - 1) : regions'[k] = regions[old(k)]
    BY <2>1, Zenon
  <2>3. DOMAIN regions' = 1..Len(regions')
    BY <2>2
  <2> QED
    BY <2>2, <2>3
<1>5. /\ \A k \in 1..(last - 1) : old(k) \in 1..last /\ old(k) # i
      /\ \A j, k \in 1..(last - 1) : j # k => old(j) # old(k)
  BY <1>3
<1> HIDE DEF last, old
<1>6. r[1] \in Int /\ r[2] \in Int /\ Even(r[1]) /\ r[1] < r[2]
      /\ PagesOf(r[1], r[2]) = {a \in Int : r[1] <= a /\ a < r[2] /\ Even(a)}
  <2>1. r[1] \in Int /\ r[2] \in Int /\ Even(r[1]) /\ r[1] < r[2]
    BY <1>0, <1>1, Bounds DEF TypeOK, AreaShape
  <2> QED
    BY <2>1, PageIn
<1>7. TypeOK'
  BY <1>0, <1>1, <1>4 DEF TypeOK, Shrunk, Tables, AreaSets
<1>8. HeapShape' /\ StepShape' /\ NumbersApart'
  BY <1>0, <1>1, <1>2 DEF HeapShape, StepShape, NumbersApart
<1>9. \A x \in Spaces : areas'[x] \subseteq areas[x] /\ Mapped(x)' \subseteq Mapped(x)
  BY <1>1
<1>10. AreaShape'
  BY <1>0, <1>9 DEF AreaShape
<1>11. InBounds' /\ NoneInHeap'
  BY <1>0, <1>1, <1>2, <1>3, <1>4, <1>5 DEF InBounds, NoneInHeap
<1>12. HeapBacked'
  <2> SUFFICES ASSUME BelowHeap, NEW x \in Spaces
               PROVE  PagesOf(ImageStart, heap[x].end) \subseteq Mapped(x)'
    BY <1>1, <1>2 DEF HeapBacked
  <2>1. /\ PagesOf(ImageStart, heap[x].end) \subseteq Mapped(x)
        /\ \A q \in areas[x] : q[1] < ImageStart => q[2] <= ImageStart
    BY <1>0 DEF HeapBacked, ImageBacked
  <2>2. CASE x = s
    <3>1. heap[x].end \in Int /\ heap[x].end <= HeapMax
      BY <1>0, Bounds DEF HeapShape, TypeOK
    <3>2. PagesOf(ImageStart, heap[x].end) = {a \in Int : ImageStart <= a /\ a < heap[x].end /\ Even(a)}
      BY <3>1, PageIn, Bounds
    <3>3. HeapMax <= r[1] \/ r[2] <= ImageStart
      <4>1. HeapMax <= regions[i].start \/ End(regions[i]) <= ImageStart
        BY <1>0 DEF NoneInHeap
      <4>2. regions[i].start < End(regions[i])
        BY <1>3
      <4>3. HeapMax <= r[1] \/ r[1] < ImageStart
        BY <1>1, <1>3, <4>1, <4>2, Bounds
      <4> QED
        BY <1>1, <2>1, <2>2, <4>3
    <3>4. PagesOf(r[1], r[2]) \cap PagesOf(ImageStart, heap[x].end) = {}
      BY <1>6, <3>1, <3>2, <3>3, Bounds
    <3> QED
      BY <1>1, <1>9, <2>1, <2>2, <3>4
  <2>3. CASE x # s
    BY <1>1, <2>1, <2>3
  <2> QED
    BY <2>2, <2>3
<1>19. ImageBacked'
  <2>1. \A x \in Spaces : \A q \in areas[x] : q[1] < ImageStart => q[2] <= ImageStart
    BY <1>0 DEF ImageBacked
  <2>2. HeapStart <= r[1] \/ r[2] <= ImageStart
    <3>1. HeapStart <= regions[i].start \/ End(regions[i]) <= ImageStart
      BY <1>0 DEF ImageBacked
    <3>2. regions[i].start < End(regions[i])
      BY <1>3
    <3>3. HeapStart <= r[1] \/ r[1] < ImageStart
      BY <1>1, <1>3, <3>1, <3>2, Bounds
    <3> QED
      BY <1>1, <2>1, <3>3
  <2>3. PagesOf(r[1], r[2]) \cap PagesOf(ImageStart, HeapStart) = {}
    <3>1. PagesOf(ImageStart, HeapStart) = {a \in Int : ImageStart <= a /\ a < HeapStart /\ Even(a)}
      BY PageIn, Bounds
    <3> QED
      BY <1>6, <2>2, <3>1, Bounds
  <2>4. \A x \in Spaces : PagesOf(ImageStart, HeapStart) \subseteq Mapped(x)'
    BY <1>0, <1>1, <2>3 DEF ImageBacked
  <2>5. \A k \in DOMAIN regions' :
          regions'[k].len > 0 => HeapStart <= regions'[k].start \/ End(regions'[k]) <= ImageStart
    BY <1>0, <1>3, <1>4, <1>5 DEF ImageBacked
  <2> QED
    BY <1>9, <2>1, <2>4, <2>5 DEF ImageBacked
<1>13. RegionShape'
  <2> SUFFICES ASSUME NoFixed, NEW k \in 1..(last - 1)
               PROVE  LET q == regions'[k]
                      IN  /\ HeapMax <= q.start /\ Even(q.start) /\ Even(q.len) /\ q.map_len = q.len
                          /\ End(q) <= mapStart
                          /\ \A j \in 1..(last - 1) : k # j => Apart(q.start, End(q), regions'[j])
                          /\ \A t \in Tasks : pc[t] = "vdso_map" =>
                               Apart(arg[t], arg[t] + FRAME, q) \/ (q.start = arg[t] /\ q.len = FRAME)
    BY <1>1, <1>2, <1>4 DEF RegionShape, Apart, End
  <2>1. LET q == regions[old(k)]
        IN  /\ HeapMax <= q.start /\ Even(q.start) /\ Even(q.len) /\ q.map_len = q.len
            /\ End(q) <= mapStart
            /\ \A j \in 1..last : old(k) # j => Apart(q.start, End(q), regions[j])
            /\ \A t \in Tasks : pc[t] = "vdso_map" =>
                 Apart(arg[t], arg[t] + FRAME, q) \/ (q.start = arg[t] /\ q.len = FRAME)
    BY <1>0, <1>3, <1>5 DEF RegionShape
  <2>2. \A j \in 1..(last - 1) : k # j => Apart(regions[old(k)].start, End(regions[old(k)]), regions'[j])
    BY <1>4, <1>5, <2>1
  <2> QED
    BY <1>4, <2>1, <2>2
<1>14. AreasMatch'
  <2> SUFFICES ASSUME NoFixed, NEW x \in Spaces
               PROVE  /\ \A a \in Mapped(x)' : a < mapStart
                      /\ \A a \in Mapped(x)' : heap[x].end <= a => HeapMax <= a
                      /\ \A q \in areas'[x] :
                           \/ q[2] <= HeapMax
                           \/ /\ HeapMax <= q[1] /\ q[2] <= mapStart
                              /\ \A k \in 1..(last - 1) :
                                   \/ q = <<regions'[k].start, End(regions'[k])>>
                                   \/ Apart(q[1], q[2], regions'[k])
    BY <1>1, <1>2, <1>4 DEF AreasMatch, Apart, End
  <2>1. /\ \A a \in Mapped(x) : a < mapStart
        /\ \A a \in Mapped(x) : heap[x].end <= a => HeapMax <= a
        /\ \A q \in areas[x] :
             \/ q[2] <= HeapMax
             \/ /\ HeapMax <= q[1] /\ q[2] <= mapStart
                /\ \A j \in 1..last : q = <<regions[j].start, End(regions[j])>> \/ Apart(q[1], q[2], regions[j])
    BY <1>0, <1>3 DEF AreasMatch
  <2> QED
    BY <1>4, <1>5, <1>9, <2>1
<1>15. NoFixed => r = <<regions[i].start, End(regions[i])>>
  <2> SUFFICES ASSUME NoFixed
               PROVE  r = <<regions[i].start, End(regions[i])>>
    OBVIOUS
  <2>1. HeapMax <= r[1]
    BY <1>0, <1>1 DEF RegionShape
  <2>2. r = <<regions[i].start, End(regions[i])>> \/ Apart(r[1], r[2], regions[i])
    BY <1>0, <1>1, <1>6, <2>1, Bounds DEF AreasMatch
  <2>3. ~Apart(r[1], r[2], regions[i])
    BY <1>1, <1>3, <1>6, SMTT(40) DEF Apart
  <2> QED
    BY <2>2, <2>3
<1>16. ASSUME NoFixed, NEW k \in 1..(last - 1)
       PROVE  /\ regions[old(k)].start \in Int /\ End(regions[old(k)]) \in Int /\ Even(regions[old(k)].start)
              /\ r[2] <= regions[old(k)].start \/ End(regions[old(k)]) <= r[1]
  <2>1. Apart(regions[i].start, End(regions[i]), regions[old(k)]) /\ Even(regions[old(k)].start)
    BY <1>0, <1>3, <1>5, <1>16 DEF RegionShape
  <2> QED
    BY <1>3, <1>5, <1>15, <1>16, <2>1, SMTT(40) DEF Apart
<1>17. OwnersHave'
  <2> SUFFICES ASSUME NoFixed, NEW k \in 1..(last - 1)
               PROVE  LET q == regions[old(k)]
                          x == q.by[1]
                      IN  /\ x \in Used /\ q.by[2] <= execs[x]
                          /\ q.by[2] = execs[x] /\ <<x, q.start>> \notin Pending
                               => \A p \in PagesOf(q.start, End(q)) : <<x, p>> \in Backed'
    BY <1>1, <1>2, <1>4 DEF OwnersHave
  <2> DEFINE q == regions[old(k)]
  <2>1. /\ q.by[1] \in Used /\ q.by[2] <= execs[q.by[1]]
        /\ q.by[2] = execs[q.by[1]] /\ <<q.by[1], q.start>> \notin Pending
             => \A p \in PagesOf(q.start, End(q)) : <<q.by[1], p>> \in Backed
    BY <1>0, <1>3, <1>5 DEF OwnersHave
  <2>2. PagesOf(r[1], r[2]) \cap PagesOf(q.start, End(q)) = {}
    BY <1>6, <1>16, PagesApart
  <2>3. \A b \in Backed : b[2] \notin PagesOf(r[1], r[2]) => b \in Backed'
    BY <1>1 DEF Backed, Mapped
  <2> QED
    BY <2>1, <2>2, <2>3
<1>18. PlainShape'
  <2> SUFFICES ASSUME Plain
               PROVE  /\ panic = "no"
                      /\ \A t \in Tasks : pc[t] \in {"idle", "brk"}
                      /\ \A t, u \in Live : space[t] = space[u]
                      /\ \A x \in Spaces : execs[x] = 0 /\ traps[x] \subseteq 0..(threads[x] - 1)
                      /\ \A k \in 1..(last - 1) :
                           LET q == regions'[k]
                           IN  q.len > 0 => <<q.start, End(q)>> \in areas'[q.by[1]]
    BY <1>1, <1>2, <1>4 DEF PlainShape
  <2>1. ASSUME NEW k \in 1..(last - 1), regions'[k].len > 0
        PROVE  <<regions'[k].start, End(regions'[k])>> \in areas'[regions'[k].by[1]]
    <3> DEFINE q == regions[old(k)]
    <3>1. q.by[1] \in Spaces /\ q.len > 0 /\ regions'[k] = q
      BY <1>3, <1>4, <1>5, <2>1, RegionTypes
    <3>2. <<q.start, End(q)>> \in areas[q.by[1]]
      BY <1>0, <1>3, <1>5, <3>1 DEF PlainShape
    <3>3. <<q.start, End(q)>> # r
      <4>1. NoFixed
        BY <1>0 DEF Plain, NoFixed, PlainShape
      <4>2. q.start < End(q)
        BY <1>3, <1>5, <2>1, <3>1, SMTT(40)
      <4> QED
        BY <1>6, <1>16, <2>1, <4>1, <4>2, SMTT(40)
    <3> QED
      BY <1>1, <3>1, <3>2, <3>3
  <2> QED
    BY <1>0, <2>1 DEF PlainShape
<1> QED
  BY <1>7, <1>8, <1>10, <1>11, <1>12, <1>13, <1>14, <1>17, <1>18, <1>19 DEF MemInv

\* The break moves, and the heap grows over free pages up to where mmap begins.
LEMMA GrowKeeps ==
  ASSUME MemInv, panic = "no", NEW s \in Spaces, NEW x \in Int, NEW e \in Int, HeapStart <= x, x <= e,
         heap[s].end <= e, e <= HeapMax, Even(e), Grown(s, heap[s].end, e),
         heap' = [heap EXCEPT ![s].current = x, ![s].end = e],
         CallsFit, CallsStay, UNCHANGED <<mapStart, regions, world>>
  PROVE  MemInv'
<1> DEFINE b == heap[s].end
<1>0. TypeOK /\ HeapShape /\ AreaShape /\ InBounds /\ StepShape /\ NumbersApart /\ HeapBacked
      /\ ImageBacked /\ NoneInHeap
      /\ RegionShape /\ AreasMatch /\ OwnersHave /\ PlainShape
  BY DEF MemInv
<1>1. /\ UNCHANGED <<traps, space, number, threads, execs, panic, world, mapStart, regions>>
      /\ Live \subseteq Tasks
      /\ \A y \in Spaces : Mapped(y)' = IF y = s THEN Mapped(s) \cup PagesOf(b, e) ELSE Mapped(y)
      /\ \A y \in Spaces : areas'[y] = IF y = s /\ b < e THEN areas[s] \cup {<<b, e>>} ELSE areas[y]
  BY DEF Grown, taskVars, Live
<1>2. /\ Live' = Live /\ BelowHeap' = BelowHeap /\ Plain' = Plain /\ NoFixed' = NoFixed /\ Used' = Used
      /\ Pending' = Pending
  <2>1. Live' = Live /\ BelowHeap' = BelowHeap /\ Plain' = Plain /\ NoFixed' = NoFixed /\ Used' = Used
    BY <1>1 DEF Live, BelowHeap, Plain, NoFixed, Used
  <2>2. \A u \in Live : (pc'[u] = "vdso_map" <=> pc[u] = "vdso_map") /\ (pc[u] = "vdso_map" => arg'[u] = arg[u])
    BY <1>1 DEF CallsFit, CallsStay
  <2> QED
    BY <1>1, <2>1, <2>2 DEF Pending
<1>3. /\ heap \in [Spaces -> [start : {HeapStart}, current : 0..Top, end : 0..Top]]
      /\ b \in Int /\ HeapStart <= b /\ b <= HeapMax /\ Even(b)
  BY <1>0, Bounds DEF TypeOK, HeapShape
<1>4. /\ heap' \in [Spaces -> [start : {HeapStart}, current : 0..Top, end : 0..Top]]
      /\ heap'[s].current = x /\ heap'[s].end = e
      /\ \A y \in Spaces : y # s => heap'[y] = heap[y]
  <2>1. x \in 0..Top /\ e \in 0..Top
    BY Bounds
  <2> QED
    BY <1>3, <2>1
<1>5. PagesOf(b, e) = {a \in Int : b <= a /\ a < e /\ Even(a)}
  BY <1>3, PageIn
<1> HIDE DEF b
<1>6. TypeOK'
  BY <1>0, <1>1, <1>4 DEF TypeOK, Grown, Tables, AreaSets, CallsFit
<1>7. HeapShape'
  BY <1>0, <1>4 DEF HeapShape
<1>8. AreaShape'
  BY <1>0, <1>1, <1>3 DEF AreaShape
<1>9. StepShape'
  BY <1>0, <1>1 DEF StepShape, CallsFit
<1>10. InBounds' /\ NumbersApart' /\ NoneInHeap'
  BY <1>0, <1>1, <1>2 DEF InBounds, NumbersApart, NoneInHeap
<1>11. HeapBacked'
  <2> SUFFICES ASSUME BelowHeap, NEW y \in Spaces
               PROVE  PagesOf(ImageStart, heap'[y].end) \subseteq Mapped(y)'
    BY <1>2 DEF HeapBacked
  <2>1. PagesOf(ImageStart, heap[y].end) \subseteq Mapped(y)
    BY <1>0 DEF HeapBacked
  <2>3. CASE y = s
    <3>1. PagesOf(ImageStart, e) = {a \in Int : ImageStart <= a /\ a < e /\ Even(a)}
      BY PageIn, Bounds
    <3>2. PagesOf(ImageStart, b) = {a \in Int : ImageStart <= a /\ a < b /\ Even(a)}
      BY <1>3, PageIn, Bounds
    <3>3. PagesOf(ImageStart, e) \subseteq PagesOf(ImageStart, b) \cup PagesOf(b, e)
      BY <1>3, <1>5, <3>1, <3>2
    <3>4. PagesOf(ImageStart, b) \subseteq Mapped(s)
      BY <2>1, <2>3 DEF b
    <3> QED
      BY <1>1, <1>4, <2>3, <3>3, <3>4
  <2>4. CASE y # s
    BY <1>1, <1>4, <2>1, <2>4
  <2> QED
    BY <2>3, <2>4
<1>16. ImageBacked'
  <2>1. \A y \in Spaces : PagesOf(ImageStart, HeapStart) \subseteq Mapped(y)'
    BY <1>0, <1>1 DEF ImageBacked
  <2>2. ASSUME NEW y \in Spaces, NEW r \in areas'[y], r[1] < ImageStart
        PROVE  r[2] <= ImageStart
    <3>1. ~(b < ImageStart)
      BY <1>3, Bounds, SMT DEF FRAME
    <3> QED
      BY <1>0, <1>1, <2>2, <3>1 DEF ImageBacked
  <2> QED
    BY <1>0, <1>1, <2>1, <2>2 DEF ImageBacked
<1>12. RegionShape'
  BY <1>0, <1>1, <1>2 DEF RegionShape, CallsFit
<1>13. AreasMatch'
  <2> SUFFICES ASSUME NoFixed, NEW y \in Spaces
               PROVE  /\ \A a \in Mapped(y)' : a < mapStart
                      /\ \A a \in Mapped(y)' : heap'[y].end <= a => HeapMax <= a
                      /\ \A r \in areas'[y] :
                           \/ r[2] <= HeapMax
                           \/ /\ HeapMax <= r[1] /\ r[2] <= mapStart
                              /\ \A i \in DOMAIN regions : \/ r = <<regions[i].start, End(regions[i])>>
                                                           \/ Apart(r[1], r[2], regions[i])
    BY <1>1, <1>2 DEF AreasMatch
  <2>1. /\ \A a \in Mapped(y) : a \in Int /\ a < mapStart /\ (heap[y].end <= a => HeapMax <= a)
        /\ \A r \in areas[y] :
             \/ r[2] <= HeapMax
             \/ /\ HeapMax <= r[1] /\ r[2] <= mapStart
                /\ \A i \in DOMAIN regions : \/ r = <<regions[i].start, End(regions[i])>>
                                             \/ Apart(r[1], r[2], regions[i])
    BY <1>0, PageIs DEF AreasMatch, Mapped
  <2>2. mapStart \in Int /\ HeapMax <= mapStart /\ HeapMax \in Int
    BY <1>0, Bounds DEF TypeOK
  <2>3. \A a \in PagesOf(b, e) : a \in Int /\ a < mapStart /\ ~(e <= a)
    BY <1>5, <2>2
  <2>4. \A r \in areas'[y] : r \in areas[y] \/ r = <<b, e>>
    BY <1>1
  <2>7. ASSUME NEW r \in areas'[y]
        PROVE  \/ r[2] <= HeapMax
               \/ /\ HeapMax <= r[1] /\ r[2] <= mapStart
                  /\ \A i \in DOMAIN regions : \/ r = <<regions[i].start, End(regions[i])>>
                                               \/ Apart(r[1], r[2], regions[i])
    <3>1. CASE r \in areas[y]
      BY <2>1, <3>1
    <3>2. CASE r = <<b, e>>
      BY <3>2
    <3> QED
      BY <2>4, <2>7, <3>1, <3>2
  <2>5. CASE y = s
    <3>1. \A a \in Mapped(y)' : a \in Mapped(y) \/ a \in PagesOf(b, e)
      BY <1>1, <2>5
    <3>2. \A a \in Mapped(y) : e <= a => HeapMax <= a
      BY <1>3, <2>1, <2>5 DEF b
    <3>3. \A a \in Mapped(y)' : a < mapStart /\ (heap'[y].end <= a => HeapMax <= a)
      BY <1>4, <2>1, <2>3, <2>5, <3>1, <3>2
    <3> QED
      BY <2>7, <3>3, Zenon
  <2>6. CASE y # s
    BY <1>1, <1>4, <2>1, <2>6
  <2> QED
    BY <2>5, <2>6
<1>14. OwnersHave'
  <2>1. Backed \subseteq Backed'
    <3>1. \A y \in Spaces : Mapped(y) \subseteq Mapped(y)'
      BY <1>1
    <3> QED
      BY <3>1 DEF Backed, Mapped
  <2> QED
    BY <1>0, <1>1, <1>2, <2>1 DEF OwnersHave
<1>15. PlainShape'
  <2>1. ASSUME Plain, NEW i \in DOMAIN regions, regions[i].len > 0
        PROVE  <<regions[i].start, End(regions[i])>> \in areas'[regions[i].by[1]]
    <3>1. regions[i].by[1] \in Spaces
      BY <1>0, <2>1, RegionTypes DEF TypeOK
    <3>2. <<regions[i].start, End(regions[i])>> \in areas[regions[i].by[1]]
      BY <1>0, <2>1 DEF PlainShape
    <3> QED
      BY <1>1, <3>1, <3>2 DEF b
  <2> QED
    BY <1>0, <1>1, <1>2, <2>1 DEF PlainShape, CallsFit
<1> QED
  BY <1>6, <1>7, <1>8, <1>9, <1>10, <1>11, <1>12, <1>13, <1>14, <1>15, <1>16 DEF MemInv

\* A new thread gets the next number and its page.
LEMMA ThreadKeeps ==
  ASSUME MemInv, panic = "no", world.thread, NEW t \in Live, NEW u \in Tasks, space[u] = None,
         NEW s, s = space[t], NEW n, n = threads[s], n <= MaxThreads,
         space' = [space EXCEPT ![u] = s], number' = [number EXCEPT ![u] = n],
         threads' = [threads EXCEPT ![s] = @ + 1], traps' = [traps EXCEPT ![s] = @ \cup {n}],
         UNCHANGED <<table, areas, heap, execs, panic, mmapVars, callVars, world>>
  PROVE  MemInv'
<1>0. TypeOK /\ HeapShape /\ AreaShape /\ InBounds /\ StepShape /\ NumbersApart /\ HeapBacked
      /\ ImageBacked /\ NoneInHeap
      /\ RegionShape /\ AreasMatch /\ OwnersHave /\ PlainShape
  BY DEF MemInv
<1>1. /\ UNCHANGED <<table, areas, heap, execs, panic, mapStart, regions, pc, arg, world>>
      /\ Live \subseteq Tasks /\ s \in Spaces /\ s # None /\ n \in 1..MaxThreads /\ u \notin Live
      /\ MaxThreads \in Nat
  BY <1>0, UserMemoryAssumption DEF mmapVars, callVars, Live, TypeOK
<1>2. /\ \A v \in Tasks : space'[v] = (IF v = u THEN s ELSE space[v])
                          /\ number'[v] = (IF v = u THEN n ELSE number[v])
      /\ \A y \in Spaces : threads'[y] = (IF y = s THEN n + 1 ELSE threads[y])
                           /\ traps'[y] = (IF y = s THEN traps[s] \cup {n} ELSE traps[y])
  BY <1>0, <1>1 DEF TypeOK
<1>3. TypeOK'
  <2>1. space' \in [Tasks -> Spaces \cup {None}] /\ number' \in [Tasks -> 0..MaxThreads]
    BY <1>0, <1>1 DEF TypeOK
  <2>2. threads' \in [Spaces -> 1..(MaxThreads + 1)] /\ traps' \in [Spaces -> SUBSET (0..MaxThreads)]
    BY <1>0, <1>1 DEF TypeOK
  <2> QED
    BY <1>0, <1>1, <2>1, <2>2 DEF TypeOK
<1>4. Live' = Live \cup {u} /\ BelowHeap' = BelowHeap /\ Plain' = Plain /\ NoFixed' = NoFixed
  BY <1>1, <1>2 DEF Live, BelowHeap, Plain, NoFixed
<1>5. Used' = Used /\ Pending \subseteq Pending' /\ Backed' = Backed
  <2>1. Used' = Used
    BY <1>1, <1>2, <1>4 DEF Used
  <2>2. Pending \subseteq Pending'
    BY <1>1, <1>2, <1>4 DEF Pending
  <2> QED
    BY <1>1, <2>1, <2>2 DEF Backed
<1>6. HeapShape' /\ AreaShape' /\ InBounds' /\ StepShape' /\ ImageBacked' /\ HeapBacked' /\ NoneInHeap'
      /\ RegionShape' /\ AreasMatch'
  BY <1>0, <1>1, <1>4 DEF HeapShape, AreaShape, InBounds, StepShape, ImageBacked, HeapBacked, NoneInHeap, RegionShape,
                          AreasMatch, Mapped
<1>7. NumbersApart'
  <2> SUFFICES ASSUME NEW v \in Live'
               PROVE  /\ number'[v] < threads'[space'[v]]
                      /\ number'[v] \in traps'[space'[v]] \/ (world.thread /\ world.exec)
                      /\ \A w \in Live' \ {v} : space'[w] = space'[v] => number'[w] # number'[v]
    BY <1>1 DEF NumbersApart
  <2>1. \A w \in Live : /\ space[w] \in Spaces /\ number[w] \in Int /\ threads[space[w]] \in Int
                        /\ number[w] < threads[space[w]]
                        /\ number[w] \in traps[space[w]] \/ (world.thread /\ world.exec)
                        /\ \A y \in Live \ {w} : space[y] = space[w] => number[y] # number[w]
                        /\ space[w] = s => number[w] < n
    <3>1. \A w \in Live : w \in Tasks /\ space[w] \in Spaces
      BY <1>0 DEF TypeOK, Live
    <3>2. \A w \in Tasks : number[w] \in Int
      BY <1>0, <1>1 DEF TypeOK
    <3>3. \A y \in Spaces : threads[y] \in Int
      BY <1>0, <1>1 DEF TypeOK
    <3> QED
      BY <1>0, <3>1, <3>2, <3>3 DEF NumbersApart
  <2>2. CASE v = u
    <3>1. space'[v] = s /\ number'[v] = n /\ threads'[s] = n + 1 /\ n \in traps'[s]
      BY <1>1, <1>2, <2>2
    <3>2. ASSUME NEW w \in Live' \ {v}, space'[w] = s
          PROVE  number'[w] # n
      <4>1. w \in Live /\ w \in Tasks /\ w # u
        BY <1>1, <1>4, <2>2, <3>2
      <4> QED
        BY <1>1, <1>2, <2>1, <3>2, <4>1
    <3> QED
      BY <1>1, <3>1, <3>2
  <2>3. CASE v # u
    <3>1. v \in Live /\ v \in Tasks /\ space'[v] = space[v] /\ number'[v] = number[v]
      BY <1>1, <1>2, <1>4, <2>3
    <3>2. number[v] < threads'[space[v]] /\ (number[v] \in traps'[space[v]] \/ (world.thread /\ world.exec))
      BY <1>1, <1>2, <2>1, <3>1
    <3>3. ASSUME NEW w \in Live' \ {v}, space'[w] = space[v]
          PROVE  number'[w] # number[v]
      <4>1. CASE w = u
        BY <1>1, <1>2, <2>1, <3>1, <3>3, <4>1
      <4>2. CASE w # u
        BY <1>1, <1>2, <1>4, <2>1, <3>1, <3>3, <4>2
      <4> QED
        BY <4>1, <4>2
    <3> QED
      BY <3>1, <3>2, <3>3
  <2> QED
    BY <2>2, <2>3
<1>8. OwnersHave'
  BY <1>0, <1>1, <1>4, <1>5 DEF OwnersHave
<1>9. PlainShape'
  <2> SUFFICES ASSUME Plain
               PROVE  /\ \A v, w \in Live' : space'[v] = space'[w]
                      /\ \A y \in Spaces : traps'[y] \subseteq 0..(threads'[y] - 1)
    BY <1>0, <1>1, <1>4 DEF PlainShape
  <2>1. \A v \in Live' : space'[v] = s
    BY <1>0, <1>1, <1>2, <1>4 DEF PlainShape
  <2>2. \A y \in Spaces : threads[y] \in Int /\ traps[y] \subseteq 0..(threads[y] - 1)
    BY <1>0 DEF PlainShape, TypeOK
  <2> QED
    BY <1>1, <1>2, <2>1, <2>2
<1> QED
  BY <1>3, <1>6, <1>7, <1>8, <1>9 DEF MemInv

\* A forked process has a copy of the space, in a space of its own; the regions stay their owners'.
LEMMA ForkKeeps ==
  ASSUME MemInv, panic = "no", world.fork, NEW t \in Live, NEW u \in Tasks, space[u] = None,
         NEW s, s = space[t], number[t] = 0, NEW c \in Spaces, c \notin Used,
         space' = [space EXCEPT ![u] = c], number' = [number EXCEPT ![u] = 0],
         threads' = [threads EXCEPT ![c] = 1],
         table' = [table EXCEPT ![c] = table[s]], areas' = [areas EXCEPT ![c] = areas[s]],
         traps' = [traps EXCEPT ![c] = traps[s]], heap' = [heap EXCEPT ![c] = heap[s]],
         UNCHANGED <<execs, panic, mmapVars, callVars, world>>
  PROVE  MemInv'
<1>0. TypeOK /\ HeapShape /\ AreaShape /\ InBounds /\ StepShape /\ NumbersApart /\ HeapBacked
      /\ ImageBacked /\ NoneInHeap
      /\ RegionShape /\ AreasMatch /\ OwnersHave /\ PlainShape
  BY DEF MemInv
<1>1. /\ UNCHANGED <<execs, panic, mapStart, regions, pc, arg, world>>
      /\ Live \subseteq Tasks /\ s \in Spaces /\ u \notin Live /\ MaxThreads \in Nat /\ c # None
  BY <1>0, UserMemoryAssumption DEF mmapVars, callVars, Live, TypeOK
<1> DEFINE from(y) == IF y = c THEN s ELSE y
<1>2. /\ \A v \in Tasks : space'[v] = (IF v = u THEN c ELSE space[v])
                          /\ number'[v] = (IF v = u THEN 0 ELSE number[v])
      /\ \A y \in Spaces : /\ threads'[y] = (IF y = c THEN 1 ELSE threads[y])
                           /\ table'[y] = table[from(y)] /\ areas'[y] = areas[from(y)]
                           /\ traps'[y] = traps[from(y)] /\ heap'[y] = heap[from(y)]
                           /\ from(y) \in Spaces /\ (y # c => from(y) = y) /\ from(c) = s
  BY <1>0, <1>1 DEF TypeOK
<1>3. TypeOK'
  <2>1. space' \in [Tasks -> Spaces \cup {None}] /\ number' \in [Tasks -> 0..MaxThreads]
    BY <1>0, <1>1 DEF TypeOK
  <2>2. threads' \in [Spaces -> 1..(MaxThreads + 1)] /\ traps' \in [Spaces -> SUBSET (0..MaxThreads)]
    BY <1>0, <1>1 DEF TypeOK
  <2>3. /\ table' \in [Spaces -> [Pages -> Prots \cup {None}]]
        /\ areas' \in [Spaces -> SUBSET ((0..Top) \X (0..Top))]
        /\ heap' \in [Spaces -> [start : {HeapStart}, current : 0..Top, end : 0..Top]]
    BY <1>0, <1>1, SMTT(40) DEF TypeOK
  <2> QED
    BY <1>0, <1>1, <2>1, <2>2, <2>3 DEF TypeOK
<1> HIDE DEF from
<1>4. Live' = Live \cup {u} /\ BelowHeap' = BelowHeap /\ ~Plain' /\ NoFixed' = NoFixed
  BY <1>1, <1>2 DEF Live, BelowHeap, Plain, NoFixed
<1>5. Used \subseteq Used' /\ Pending \subseteq Pending'
      /\ \A b \in Backed : b[1] # c => b \in Backed'
  <2>1. Used \subseteq Used'
    BY <1>1, <1>2, <1>4 DEF Used
  <2>2. Pending \subseteq Pending'
    BY <1>1, <1>2, <1>4 DEF Pending
  <2>3. \A b \in Backed : b[1] # c => b \in Backed'
    BY <1>2 DEF Backed
  <2> QED
    BY <2>1, <2>2, <2>3
<1>6. \A y \in Spaces : Mapped(y)' = Mapped(from(y))
  <2> SUFFICES ASSUME NEW y \in Spaces
               PROVE  Mapped(y)' = Mapped(from(y))
    OBVIOUS
  <2>1. table'[y] = table[from(y)]
    BY <1>2
  <2> QED
    BY <2>1 DEF Mapped
<1>7. HeapShape' /\ AreaShape'
  BY <1>0, <1>2 DEF HeapShape, AreaShape
<1>8. InBounds' /\ StepShape' /\ NoneInHeap' /\ RegionShape'
  BY <1>0, <1>1, <1>4 DEF InBounds, StepShape, NoneInHeap, RegionShape
<1>9. HeapBacked' /\ ImageBacked'
  BY <1>0, <1>1, <1>2, <1>4, <1>6 DEF HeapBacked, ImageBacked
<1>10. AreasMatch'
  <2> SUFFICES ASSUME NoFixed, NEW y \in Spaces
               PROVE  /\ \A a \in Mapped(y)' : a < mapStart
                      /\ \A a \in Mapped(y)' : heap'[y].end <= a => HeapMax <= a
                      /\ \A r \in areas'[y] :
                           \/ r[2] <= HeapMax
                           \/ /\ HeapMax <= r[1] /\ r[2] <= mapStart
                              /\ \A i \in DOMAIN regions : \/ r = <<regions[i].start, End(regions[i])>>
                                                           \/ Apart(r[1], r[2], regions[i])
    BY <1>1, <1>4 DEF AreasMatch
  <2>1. from(y) \in Spaces /\ heap'[y] = heap[from(y)] /\ areas'[y] = areas[from(y)] /\ Mapped(y)' = Mapped(from(y))
    BY <1>2, <1>6
  <2> QED
    BY <1>0, <2>1 DEF AreasMatch
<1>11. NumbersApart'
  <2> SUFFICES ASSUME NEW v \in Live'
               PROVE  /\ number'[v] < threads'[space'[v]]
                      /\ number'[v] \in traps'[space'[v]] \/ (world.thread /\ world.exec)
                      /\ ~world.thread => number'[v] = 0
                      /\ \A w \in Live' \ {v} : space'[w] = space'[v] => number'[w] # number'[v]
    BY <1>1 DEF NumbersApart
  <2>1. \A w \in Live : /\ space[w] \in Spaces /\ space[w] # c /\ number[w] \in Int
                        /\ number[w] < threads[space[w]]
                        /\ number[w] \in traps[space[w]] \/ (world.thread /\ world.exec)
                        /\ ~world.thread => number[w] = 0
                        /\ \A y \in Live \ {w} : space[y] = space[w] => number[y] # number[w]
    <3>1. \A w \in Live : w \in Tasks /\ space[w] \in Spaces
      BY <1>0 DEF TypeOK, Live
    <3>2. \A w \in Tasks : number[w] \in Int
      BY <1>0, <1>1 DEF TypeOK
    <3>3. \A w \in Live : space[w] # c
      BY DEF Used
    <3> QED
      BY <1>0, <3>1, <3>2, <3>3 DEF NumbersApart
  <2>2. CASE v = u
    <3>1. space'[v] = c /\ number'[v] = 0 /\ threads'[c] = 1 /\ traps'[c] = traps[s]
      BY <1>1, <1>2, <2>2
    <3>2. \A w \in Live' \ {v} : space'[w] # c
      BY <1>1, <1>2, <1>4, <2>1, <2>2
    <3> QED
      BY <2>1, <3>1, <3>2
  <2>3. CASE v # u
    <3>1. v \in Live /\ v \in Tasks /\ space'[v] = space[v] /\ number'[v] = number[v]
      BY <1>1, <1>2, <1>4, <2>3
    <3>2. \A w \in Live' \ {v} : space'[w] = space[v] => w \in Live /\ w # v /\ space[w] = space[v] /\ number'[w] = number[w]
      BY <1>1, <1>2, <1>4, <2>1, <3>1
    <3>3. threads'[space[v]] = threads[space[v]] /\ traps'[space[v]] = traps[space[v]]
      BY <1>2, <2>1, <3>1
    <3> QED
      BY <2>1, <3>1, <3>2, <3>3
  <2> QED
    BY <2>2, <2>3
<1>12. OwnersHave'
  <2> SUFFICES ASSUME NoFixed, NEW i \in DOMAIN regions
               PROVE  LET r == regions[i]
                          x == r.by[1]
                      IN  /\ x \in Used' /\ r.by[2] <= execs[x]
                          /\ r.by[2] = execs[x] /\ <<x, r.start>> \notin Pending'
                               => \A p \in PagesOf(r.start, End(r)) : <<x, p>> \in Backed'
    BY <1>1, <1>4 DEF OwnersHave
  <2>1. /\ regions[i].by[1] \in Used /\ regions[i].by[2] <= execs[regions[i].by[1]]
        /\ regions[i].by[2] = execs[regions[i].by[1]] /\ <<regions[i].by[1], regions[i].start>> \notin Pending
             => \A p \in PagesOf(regions[i].start, End(regions[i])) : <<regions[i].by[1], p>> \in Backed
    BY <1>0 DEF OwnersHave
  <2> QED
    BY <1>5, <2>1
<1>13. PlainShape'
  BY <1>4 DEF PlainShape
<1> QED
  BY <1>3, <1>7, <1>8, <1>9, <1>10, <1>11, <1>12, <1>13 DEF MemInv

\* What a new address space has: program and stack, an empty heap.
LEMMA ImageFits ==
  /\ ImageTable \in [Pages -> Prots \cup {None}]
  /\ {a \in Pages : ImageTable[a] # None} = PagesOf(ImageStart, HeapStart)
  /\ PagesOf(ImageStart, HeapStart) = {a \in Int : ImageStart <= a /\ a < HeapStart /\ Even(a)}
  /\ {<<ImageStart, HeapStart>>} \in SUBSET ((0..Top) \X (0..Top))
  /\ HeapNew \in [start : {HeapStart}, current : 0..Top, end : 0..Top]
  /\ HeapNew.current = HeapStart /\ HeapNew.end = HeapStart
<1>1. PagesOf(ImageStart, HeapStart) = {a \in Int : ImageStart <= a /\ a < HeapStart /\ Even(a)}
  BY PageIn, Bounds
<1>2. PagesOf(ImageStart, HeapStart) \subseteq Pages
  BY <1>1, PageIs, Bounds
<1>3. {"r", "w"} \in Prots /\ None \notin Prots
  BY UserMemoryAssumption DEF Prots
<1>4. ImageTable \in [Pages -> Prots \cup {None}]
  BY <1>3 DEF ImageTable
<1>5. {a \in Pages : ImageTable[a] # None} = PagesOf(ImageStart, HeapStart)
  BY <1>2, <1>3 DEF ImageTable
<1>6. ImageStart \in 0..Top /\ HeapStart \in 0..Top
  BY Bounds, SMT DEF FRAME
<1> QED
  BY <1>1, <1>4, <1>5, <1>6 DEF HeapNew

\* execve in the first thread: the space is new, no region has pages in it any more.
LEMMA ExecKeeps ==
  ASSUME MemInv, panic = "no", world.exec, NEW t \in Live, pc[t] = "idle", NEW s, s = space[t], number[t] = 0,
         execs[s] = 0,
         table' = [table EXCEPT ![s] = ImageTable], areas' = [areas EXCEPT ![s] = {<<ImageStart, HeapStart>>}],
         traps' = [traps EXCEPT ![s] = {0}], heap' = [heap EXCEPT ![s] = HeapNew],
         execs' = [execs EXCEPT ![s] = 1], pc' = [pc EXCEPT ![t] = "vdso"],
         UNCHANGED <<taskVars, panic, arg, mmapVars, world>>
  PROVE  MemInv'
<1>0. TypeOK /\ HeapShape /\ AreaShape /\ InBounds /\ StepShape /\ NumbersApart /\ HeapBacked
      /\ ImageBacked /\ NoneInHeap
      /\ RegionShape /\ AreasMatch /\ OwnersHave /\ PlainShape
  BY DEF MemInv
<1>1. /\ UNCHANGED <<space, number, threads, panic, mapStart, regions, arg, world>>
      /\ Live \subseteq Tasks /\ s \in Spaces /\ MaxThreads \in Nat
  BY <1>0, UserMemoryAssumption DEF mmapVars, taskVars, Live, TypeOK
<1>2. /\ \A v \in Tasks : pc'[v] = (IF v = t THEN "vdso" ELSE pc[v])
      /\ \A y \in Spaces : /\ table'[y] = (IF y = s THEN ImageTable ELSE table[y])
                           /\ areas'[y] = (IF y = s THEN {<<ImageStart, HeapStart>>} ELSE areas[y])
                           /\ traps'[y] = (IF y = s THEN {0} ELSE traps[y])
                           /\ heap'[y] = (IF y = s THEN HeapNew ELSE heap[y])
                           /\ execs'[y] = (IF y = s THEN 1 ELSE execs[y])
  BY <1>0, <1>1 DEF TypeOK
<1>3. TypeOK'
  <2>1. traps' \in [Spaces -> SUBSET (0..MaxThreads)] /\ execs' \in [Spaces -> {0, 1}]
        /\ pc' \in [Tasks -> {"idle", "brk", "vdso", "vdso_map"}]
    BY <1>0, <1>1 DEF TypeOK
  <2>2. table' \in [Spaces -> [Pages -> Prots \cup {None}]]
    BY <1>0, <1>1, ImageFits DEF TypeOK
  <2>3. areas' \in [Spaces -> SUBSET ((0..Top) \X (0..Top))]
    BY <1>0, <1>1, ImageFits DEF TypeOK
  <2>4. heap' \in [Spaces -> [start : {HeapStart}, current : 0..Top, end : 0..Top]]
    BY <1>0, <1>1, ImageFits DEF TypeOK
  <2> QED
    BY <1>0, <1>1, <2>1, <2>2, <2>3, <2>4 DEF TypeOK
<1>4. Live' = Live /\ BelowHeap' = BelowHeap /\ ~Plain' /\ NoFixed' = NoFixed /\ Used' = Used
  BY <1>1, <1>2 DEF Live, BelowHeap, Plain, NoFixed, Used
<1>5. Pending' = Pending /\ \A b \in Backed : b[1] # s => b \in Backed'
  <2>1. Pending' = Pending
    BY <1>1, <1>2, <1>4 DEF Pending
  <2>2. \A b \in Backed : b[1] # s => b \in Backed'
    BY <1>2 DEF Backed
  <2> QED
    BY <2>1, <2>2
<1>6. \A y \in Spaces : Mapped(y)' = IF y = s THEN PagesOf(ImageStart, HeapStart) ELSE Mapped(y)
  <2>1. \A y \in Spaces : Mapped(y)' = {a \in Pages : table'[y][a] # None}
    BY DEF Mapped
  <2> QED
    BY <1>2, <2>1, ImageFits DEF Mapped
<1>7. HeapShape' /\ AreaShape'
  BY <1>0, <1>2, ImageFits, Bounds, SMT DEF HeapShape, AreaShape, FRAME
<1>8. InBounds' /\ NoneInHeap'
  BY <1>0, <1>1, <1>4 DEF InBounds, NoneInHeap
<1>9. StepShape'
  BY <1>0, <1>1, <1>2 DEF StepShape
<1>10. RegionShape'
  BY <1>0, <1>1, <1>2, <1>4 DEF RegionShape
<1>11. HeapBacked'
  <2> SUFFICES ASSUME BelowHeap, NEW y \in Spaces
               PROVE  PagesOf(ImageStart, heap'[y].end) \subseteq Mapped(y)'
    BY <1>4 DEF HeapBacked
  <2>1. CASE y = s
    BY <1>2, <1>6, <2>1, ImageFits, Bounds
  <2>2. CASE y # s
    BY <1>0, <1>2, <1>6, <2>2 DEF HeapBacked
  <2> QED
    BY <2>1, <2>2
<1>16. ImageBacked'
  <2>1. ASSUME NEW y \in Spaces
        PROVE  /\ PagesOf(ImageStart, HeapStart) \subseteq Mapped(y)'
               /\ panic = "no" => \A r \in areas'[y] : r[1] < ImageStart => r[2] <= ImageStart
    <3>1. CASE y = s
      BY <1>2, <1>6, <3>1, ImageFits, Bounds
    <3>2. CASE y # s
      BY <1>0, <1>2, <1>6, <3>2 DEF ImageBacked
    <3> QED
      BY <3>1, <3>2
  <2> QED
    BY <1>0, <1>1, <2>1 DEF ImageBacked
<1>12. AreasMatch'
  <2> SUFFICES ASSUME NoFixed, NEW y \in Spaces
               PROVE  /\ \A a \in Mapped(y)' : a < mapStart
                      /\ \A a \in Mapped(y)' : heap'[y].end <= a => HeapMax <= a
                      /\ \A r \in areas'[y] :
                           \/ r[2] <= HeapMax
                           \/ /\ HeapMax <= r[1] /\ r[2] <= mapStart
                              /\ \A i \in DOMAIN regions : \/ r = <<regions[i].start, End(regions[i])>>
                                                           \/ Apart(r[1], r[2], regions[i])
    BY <1>1, <1>4 DEF AreasMatch
  <2>1. CASE y = s
    <3>1. \A a \in Mapped(y)' : a \in Int /\ a < HeapStart
      BY <1>6, <2>1, ImageFits
    <3>2. HeapStart <= HeapMax /\ HeapMax <= mapStart /\ mapStart \in Int /\ HeapMax \in Int /\ HeapStart \in Int
      BY <1>0, Bounds DEF TypeOK
    <3> QED
      BY <1>2, <2>1, <3>1, <3>2, ImageFits
  <2>2. CASE y # s
    <3>1. heap'[y] = heap[y] /\ areas'[y] = areas[y] /\ Mapped(y)' = Mapped(y)
      BY <1>2, <1>6, <2>2
    <3> QED
      BY <1>0, <3>1 DEF AreasMatch
  <2> QED
    BY <2>1, <2>2
<1>13. NumbersApart'
  <2> SUFFICES ASSUME NEW v \in Live, space[v] = s, v # t
               PROVE  world.thread
    <3>1. \A v \in Live : space[v] \in Spaces
      BY <1>0 DEF TypeOK, Live
    <3> QED
      BY <1>0, <1>1, <1>2, <1>4, <3>1 DEF NumbersApart
  <2> QED
    BY <1>0 DEF NumbersApart
<1>14. OwnersHave'
  <2> SUFFICES ASSUME NoFixed, NEW i \in DOMAIN regions
               PROVE  LET r == regions[i]
                          x == r.by[1]
                      IN  /\ x \in Used /\ r.by[2] <= execs'[x]
                          /\ r.by[2] = execs'[x] /\ <<x, r.start>> \notin Pending
                               => \A p \in PagesOf(r.start, End(r)) : <<x, p>> \in Backed'
    BY <1>1, <1>4, <1>5 DEF OwnersHave
  <2> DEFINE x == regions[i].by[1]
  <2>1. /\ x \in Used /\ regions[i].by[2] <= execs[x] /\ x \in Spaces /\ regions[i].by[2] \in {0, 1}
        /\ regions[i].by[2] = execs[x] /\ <<x, regions[i].start>> \notin Pending
             => \A p \in PagesOf(regions[i].start, End(regions[i])) : <<x, p>> \in Backed
    BY <1>0, RegionTypes DEF OwnersHave, TypeOK
  <2>2. CASE x = s
    BY <1>2, <2>1, <2>2
  <2>3. CASE x # s
    BY <1>2, <1>5, <2>1, <2>3
  <2> QED
    BY <2>2, <2>3
<1>15. PlainShape'
  BY <1>4 DEF PlainShape
<1> QED
  BY <1>3, <1>7, <1>8, <1>9, <1>10, <1>11, <1>12, <1>13, <1>14, <1>15, <1>16 DEF MemInv

\* The vDSO gets the next addresses and a region before it gets its page.
LEMMA ReserveKeeps ==
  ASSUME MemInv, panic = "no", NEW t \in Live, pc[t] = "vdso", NEW s, s = space[t], NEW lo, lo = mapStart,
         lo + FRAME <= Top, mapStart' = lo + FRAME,
         regions' = Append(regions, Region(s, lo, FRAME, FRAME, {"r"})),
         pc' = [pc EXCEPT ![t] = "vdso_map"], arg' = [arg EXCEPT ![t] = lo],
         UNCHANGED <<taskVars, memVars, execs, panic, world>>
  PROVE  MemInv'
<1> DEFINE new == Region(s, lo, FRAME, FRAME, {"r"})
<1> DEFINE n == Len(regions) + 1
<1>0. TypeOK /\ HeapShape /\ AreaShape /\ InBounds /\ StepShape /\ NumbersApart /\ HeapBacked
      /\ ImageBacked /\ NoneInHeap
      /\ RegionShape /\ AreasMatch /\ OwnersHave /\ PlainShape
  BY DEF MemInv
<1>1. /\ UNCHANGED <<space, number, threads, table, areas, traps, heap, execs, panic, world>>
      /\ Live \subseteq Tasks /\ s \in Spaces /\ s \in Used
      /\ lo \in HeapMax..Top /\ Even(lo) /\ lo + FRAME \in HeapMax..Top /\ Even(lo + FRAME)
      /\ HeapMax \in Nat /\ Top \in Nat /\ FRAME = 2
  <2>1. /\ UNCHANGED <<space, number, threads, table, areas, traps, heap, execs, panic, world>>
        /\ Live \subseteq Tasks /\ s \in Spaces /\ s \in Used
    BY <1>0 DEF memVars, taskVars, Live, TypeOK, Used
  <2>2. lo \in HeapMax..Top /\ Even(lo) /\ HeapMax \in Nat /\ Top \in Nat
    BY <1>0, Bounds DEF TypeOK, StepShape
  <2> QED
    BY <2>1, <2>2, SMT DEF Even, FRAME
<1>2. /\ new \in Regions /\ new.start = lo /\ new.len = FRAME /\ new.map_len = FRAME /\ End(new) = lo + FRAME
      /\ new.by[1] = s /\ new.by[2] = execs[s]
  <2>1. execs[s] \in {0, 1} /\ FRAME \in 0..Top /\ {"r"} \in Prots
    BY <1>0, <1>1 DEF TypeOK, Prots
  <2> QED
    BY <1>1, <2>1 DEF Region, Regions, End
<1> HIDE DEF new
<1>3. /\ regions' \in Seq(Regions) /\ DOMAIN regions' = DOMAIN regions \cup {n} /\ n \notin DOMAIN regions
      /\ regions'[n] = new /\ \A i \in DOMAIN regions : regions'[i] = regions[i]
  <2>1. regions' = Append(regions, new) /\ regions \in Seq(Regions)
    BY <1>0 DEF TypeOK, new
  <2> QED
    BY <1>2, <2>1
<1> HIDE DEF n
<1>4. \A v \in Tasks : pc'[v] = (IF v = t THEN "vdso_map" ELSE pc[v]) /\ arg'[v] = (IF v = t THEN lo ELSE arg[v])
  BY <1>0, <1>1 DEF TypeOK
<1>5. Live' = Live /\ BelowHeap' = BelowHeap /\ Plain' = Plain /\ NoFixed' = NoFixed /\ Used' = Used /\ Backed' = Backed
  BY <1>1 DEF Live, BelowHeap, Plain, NoFixed, Used, Backed
<1>6. Pending \subseteq Pending' /\ <<s, lo>> \in Pending'
  <2>1. \A v \in Live : pc[v] = "vdso_map" => pc'[v] = "vdso_map" /\ arg'[v] = arg[v]
    BY <1>1, <1>4
  <2> QED
    BY <1>1, <1>4, <1>5, <2>1 DEF Pending
<1>7. TypeOK'
  <2>1. pc' \in [Tasks -> {"idle", "brk", "vdso", "vdso_map"}] /\ arg' \in [Tasks -> 0..Top]
    BY <1>0, <1>1 DEF TypeOK
  <2> QED
    BY <1>0, <1>1, <1>3, <2>1 DEF TypeOK
<1>8. HeapShape' /\ AreaShape' /\ NumbersApart'
  BY <1>0, <1>1, <1>5 DEF HeapShape, AreaShape, NumbersApart
<1>9. HeapBacked'
  BY <1>0, <1>1, <1>5 DEF HeapBacked, Mapped
<1>19. ImageBacked'
  <2>1. \A y \in Spaces : PagesOf(ImageStart, HeapStart) \subseteq Mapped(y)'
    BY <1>0, <1>1 DEF ImageBacked, Mapped
  <2>2. panic = "no" => \A i \in DOMAIN regions' :
          regions'[i].len > 0 => HeapStart <= regions'[i].start \/ End(regions'[i]) <= ImageStart
    BY <1>0, <1>1, <1>2, <1>3, Bounds DEF ImageBacked
  <2> QED
    BY <1>0, <1>1, <2>1, <2>2 DEF ImageBacked
<1>10. StepShape'
  <2>1. \A v \in Tasks : arg[v] \in Int
    BY <1>0 DEF TypeOK
  <2> QED
    BY <1>0, <1>1, <1>4, <2>1 DEF StepShape
<1>11. InBounds'
  BY <1>0, <1>1, <1>2, <1>3 DEF InBounds
<1>12. NoneInHeap'
  BY <1>0, <1>1, <1>2, <1>3, <1>5 DEF NoneInHeap
<1>13. ASSUME NoFixed, NEW i \in DOMAIN regions
       PROVE  /\ regions[i].start \in Int /\ End(regions[i]) \in Int
              /\ HeapMax <= regions[i].start /\ End(regions[i]) <= lo
  BY <1>0, <1>13, RegionTypes DEF RegionShape, TypeOK
<1>14. RegionShape'
  <2> SUFFICES ASSUME NoFixed, NEW i \in DOMAIN regions'
               PROVE  LET r == regions'[i]
                      IN  /\ HeapMax <= r.start /\ Even(r.start) /\ Even(r.len) /\ r.map_len = r.len
                          /\ End(r) <= lo + FRAME
                          /\ \A j \in DOMAIN regions' : i # j => Apart(r.start, End(r), regions'[j])
                          /\ \A v \in Tasks : pc'[v] = "vdso_map" =>
                               Apart(arg'[v], arg'[v] + FRAME, r) \/ (r.start = arg'[v] /\ r.len = FRAME)
    BY <1>5 DEF RegionShape, Apart, End
  <2>1. CASE i = n
    <3>1. HeapMax <= lo /\ Even(FRAME)
      BY <1>1, SMT DEF Even
    <3>2. \A j \in DOMAIN regions : Apart(lo, lo + FRAME, regions[j])
      BY <1>13 DEF Apart
    <3>3. \A v \in Tasks : pc[v] = "vdso_map" => Apart(arg[v], arg[v] + FRAME, new)
      BY <1>0, <1>2 DEF StepShape, Apart
    <3> QED
      BY <1>1, <1>2, <1>3, <1>4, <2>1, <3>1, <3>2, <3>3
  <2>2. CASE i \in DOMAIN regions
    <3>1. LET r == regions[i]
          IN  /\ HeapMax <= r.start /\ Even(r.start) /\ Even(r.len) /\ r.map_len = r.len
              /\ End(r) <= mapStart
              /\ \A j \in DOMAIN regions : i # j => Apart(r.start, End(r), regions[j])
              /\ \A v \in Tasks : pc[v] = "vdso_map" =>
                   Apart(arg[v], arg[v] + FRAME, r) \/ (r.start = arg[v] /\ r.len = FRAME)
      BY <1>0, <2>2 DEF RegionShape
    <3>2. Apart(regions[i].start, End(regions[i]), new) /\ Apart(lo, lo + FRAME, regions[i])
      BY <1>2, <1>13, <2>2 DEF Apart
    <3>3. End(regions[i]) <= lo + FRAME
      BY <1>1, <1>13, <2>2
    <3> QED
      BY <1>3, <1>4, <2>2, <3>1, <3>2, <3>3
  <2> QED
    BY <1>3, <2>1, <2>2
<1>15. AreasMatch'
  <2> SUFFICES ASSUME NoFixed, NEW x \in Spaces
               PROVE  /\ \A a \in Mapped(x) : a < lo + FRAME
                      /\ \A a \in Mapped(x) : heap[x].end <= a => HeapMax <= a
                      /\ \A r \in areas[x] :
                           \/ r[2] <= HeapMax
                           \/ /\ HeapMax <= r[1] /\ r[2] <= lo + FRAME
                              /\ \A i \in DOMAIN regions' :
                                   \/ r = <<regions'[i].start, End(regions'[i])>>
                                   \/ Apart(r[1], r[2], regions'[i])
    BY <1>1, <1>5 DEF AreasMatch, Mapped, Apart, End
  <2>1. \A a \in Mapped(x) : a \in Int /\ a < lo /\ (heap[x].end <= a => HeapMax <= a)
    BY <1>0, PageIs DEF AreasMatch, Mapped
  <2>2. ASSUME NEW r \in areas[x]
        PROVE  \/ r[2] <= HeapMax
               \/ /\ HeapMax <= r[1] /\ r[2] <= lo + FRAME
                  /\ \A i \in DOMAIN regions' : \/ r = <<regions'[i].start, End(regions'[i])>>
                                                \/ Apart(r[1], r[2], regions'[i])
    <3>1. r[1] \in Int /\ r[2] \in Int
      BY <1>0 DEF TypeOK
    <3>2. \/ r[2] <= HeapMax
          \/ /\ HeapMax <= r[1] /\ r[2] <= lo
             /\ \A i \in DOMAIN regions : r = <<regions[i].start, End(regions[i])>> \/ Apart(r[1], r[2], regions[i])
      BY <1>0 DEF AreasMatch
    <3>3. r[2] <= lo => Apart(r[1], r[2], new) /\ r[2] <= lo + FRAME
      BY <1>1, <1>2, <3>1 DEF Apart
    <3> QED
      BY <1>3, <3>2, <3>3
  <2> QED
    BY <1>1, <2>1, <2>2
<1>16. OwnersHave'
  <2> SUFFICES ASSUME NoFixed, NEW i \in DOMAIN regions'
               PROVE  LET r == regions'[i]
                          x == r.by[1]
                      IN  /\ x \in Used /\ r.by[2] <= execs[x]
                          /\ r.by[2] = execs[x] /\ <<x, r.start>> \notin Pending'
                               => \A p \in PagesOf(r.start, End(r)) : <<x, p>> \in Backed
    BY <1>1, <1>5, SMTT(40) DEF OwnersHave
  <2>1. CASE i = n
    <3>1. execs[s] \in {0, 1}
      BY <1>0, <1>1 DEF TypeOK
    <3> QED
      <4>1. regions'[i].by[1] = s /\ regions'[i].by[2] = execs[s] /\ regions'[i].start = lo
        BY <1>2, <1>3, <2>1
      <4>2. regions'[i].by[2] <= execs[s]
        BY <3>1, <4>1
      <4>3. <<regions'[i].by[1], regions'[i].start>> \in Pending'
        BY <1>6, <4>1
      <4> QED
        BY <1>1, <4>1, <4>2, <4>3
  <2>2. CASE i \in DOMAIN regions
    BY <1>0, <1>3, <1>6, <2>2 DEF OwnersHave
  <2> QED
    BY <1>3, <2>1, <2>2
<1>17. ~Plain'
  BY <1>0, <1>1, <1>5 DEF PlainShape
<1>18. PlainShape'
  BY <1>17 DEF PlainShape
<1> QED
  BY <1>7, <1>8, <1>9, <1>10, <1>11, <1>12, <1>14, <1>15, <1>16, <1>18, <1>19 DEF MemInv

\* The vDSO's page is mapped, unless it is or its region is gone.
LEMMA VdsoKeeps ==
  ASSUME MemInv, panic = "no", NEW t \in Live, pc[t] = "vdso_map", NEW s, s = space[t], NEW lo, lo = arg[t],
         SameRegions, UNCHANGED <<heap, traps, taskVars, execs, panic, mapStart, world>>,
         table' \in Tables, areas' \in [Spaces -> AreaSets],
         \A x \in Spaces : Mapped(x) \subseteq Mapped(x)' /\ \A a \in Mapped(x)' : a \in Mapped(x) \/ a = lo,
         \A x \in Spaces : \A r \in areas'[x] : r \in areas[x] \/ r = <<lo, lo + FRAME>>,
         NoFixed => \A i \in DOMAIN regions : regions[i].start = lo /\ regions[i].len = FRAME => lo \in Mapped(s)',
         pc' = [pc EXCEPT ![t] = "idle"], arg' = [arg EXCEPT ![t] = 0]
  PROVE  MemInv'
<1>0. TypeOK /\ HeapShape /\ AreaShape /\ InBounds /\ StepShape /\ NumbersApart /\ HeapBacked
      /\ ImageBacked /\ NoneInHeap
      /\ RegionShape /\ AreasMatch /\ OwnersHave /\ PlainShape
  BY DEF MemInv
<1>1. /\ UNCHANGED <<heap, traps, space, number, threads, execs, panic, mapStart, world>>
      /\ Live \subseteq Tasks /\ t \in Tasks /\ s \in Spaces
      /\ lo \in Nat /\ HeapMax <= lo /\ Even(lo) /\ lo + FRAME <= mapStart
      /\ mapStart \in HeapMax..Top /\ HeapMax \in Nat /\ Top \in Nat /\ FRAME = 2
  <2>1. /\ UNCHANGED <<heap, traps, space, number, threads, execs, panic, mapStart, world>>
        /\ Live \subseteq Tasks /\ t \in Tasks /\ s \in Spaces
    BY <1>0 DEF taskVars, Live, TypeOK
  <2>2. lo \in Nat /\ HeapMax <= lo /\ Even(lo) /\ lo + FRAME <= mapStart
    BY <1>0, <2>1, Bounds DEF TypeOK, StepShape
  <2> QED
    BY <1>0, <2>1, <2>2, Bounds DEF TypeOK, FRAME
<1>2. \A v \in Tasks : pc'[v] = (IF v = t THEN "idle" ELSE pc[v]) /\ arg'[v] = (IF v = t THEN 0 ELSE arg[v])
  BY <1>0, <1>1 DEF TypeOK
<1>3. /\ regions' \in Seq(Regions) /\ DOMAIN regions' = DOMAIN regions
      /\ \A i \in DOMAIN regions :
           /\ regions'[i].start = regions[i].start /\ regions'[i].len = regions[i].len
           /\ regions'[i].map_len = regions[i].map_len /\ regions'[i].by = regions[i].by
           /\ End(regions'[i]) = End(regions[i]) /\ regions[i].start \in Nat /\ End(regions[i]) \in Nat
           /\ End(regions[i]) = regions[i].start + regions[i].len
  BY <1>0, RegionTypes DEF SameRegions, End, TypeOK
<1>4. Live' = Live /\ BelowHeap' = BelowHeap /\ Plain' = Plain /\ NoFixed' = NoFixed /\ Used' = Used
  BY <1>1 DEF Live, BelowHeap, Plain, NoFixed, Used
<1>5. ~Plain
  BY <1>0, <1>1 DEF PlainShape
<1>6. /\ \A q \in Pending : q \in Pending' \/ q = <<s, lo>>
      /\ Backed \subseteq Backed'
  <2>1. \A v \in Live : pc[v] = "vdso_map" => v = t \/ (pc'[v] = "vdso_map" /\ arg'[v] = arg[v])
    BY <1>1, <1>2
  <2>2. \A q \in Pending : q \in Pending' \/ q = <<s, lo>>
    BY <1>1, <1>4, <2>1 DEF Pending
  <2>3. Backed \subseteq Backed'
    BY DEF Backed, Mapped
  <2> QED
    BY <2>2, <2>3
<1>7. TypeOK'
  <2>1. pc' \in [Tasks -> {"idle", "brk", "vdso", "vdso_map"}] /\ arg' \in [Tasks -> 0..Top]
    BY <1>0, <1>1 DEF TypeOK
  <2> QED
    BY <1>0, <1>1, <1>3, <2>1 DEF TypeOK, Tables, AreaSets
<1>8. HeapShape' /\ NumbersApart'
  BY <1>0, <1>1, <1>4 DEF HeapShape, NumbersApart
<1>9. AreaShape'
  <2>1. LET r == <<lo, lo + FRAME>> IN r[1] < r[2] /\ Even(r[1]) /\ Even(r[2])
    BY <1>1, SMT DEF Even
  <2> QED
    BY <1>0, <2>1 DEF AreaShape
<1>10. StepShape'
  BY <1>0, <1>1, <1>2 DEF StepShape
<1>11. InBounds' /\ NoneInHeap'
  BY <1>0, <1>1, <1>3, <1>4 DEF InBounds, NoneInHeap
<1>12. HeapBacked'
  <2> SUFFICES ASSUME BelowHeap, NEW x \in Spaces
               PROVE  PagesOf(ImageStart, heap[x].end) \subseteq Mapped(x)'
    BY <1>1, <1>4 DEF HeapBacked
  <2> QED
    BY <1>0 DEF HeapBacked
<1>18. ImageBacked'
  <2>1. \A y \in Spaces : PagesOf(ImageStart, HeapStart) \subseteq Mapped(y)'
    BY <1>0 DEF ImageBacked
  <2>2. ~(lo < ImageStart)
    BY <1>1, Bounds
  <2>3. \A y \in Spaces : panic = "no" => \A r \in areas'[y] : r[1] < ImageStart => r[2] <= ImageStart
    BY <1>0, <2>2 DEF ImageBacked
  <2> QED
    BY <1>0, <1>1, <1>3, <2>1, <2>3 DEF ImageBacked
<1>13. NoFixed => \A i \in DOMAIN regions :
         \/ Apart(lo, lo + FRAME, regions[i])
         \/ regions[i].start = lo /\ regions[i].len = FRAME /\ End(regions[i]) = lo + FRAME
  BY <1>0, <1>1, <1>3 DEF RegionShape
<1>14. RegionShape'
  <2> SUFFICES ASSUME NoFixed, NEW i \in DOMAIN regions
               PROVE  LET r == regions'[i]
                      IN  /\ HeapMax <= r.start /\ Even(r.start) /\ Even(r.len) /\ r.map_len = r.len
                          /\ End(r) <= mapStart
                          /\ \A j \in DOMAIN regions : i # j => Apart(r.start, End(r), regions'[j])
                          /\ \A v \in Tasks : pc'[v] = "vdso_map" =>
                               Apart(arg'[v], arg'[v] + FRAME, r) \/ (r.start = arg'[v] /\ r.len = FRAME)
    BY <1>1, <1>3, <1>4 DEF RegionShape, Apart, End
  <2>1. \A v \in Tasks : pc'[v] = "vdso_map" =>
          Apart(arg'[v], arg'[v] + FRAME, regions'[i]) \/ (regions'[i].start = arg'[v] /\ regions'[i].len = FRAME)
    BY <1>0, <1>2, <1>3, SMTT(40) DEF RegionShape, Apart
  <2>2. \A j \in DOMAIN regions : i # j => Apart(regions[i].start, End(regions[i]), regions'[j])
    BY <1>0, <1>3 DEF RegionShape, Apart
  <2> QED
    BY <1>0, <1>3, <2>1, <2>2 DEF RegionShape
<1>15. AreasMatch'
  <2> SUFFICES ASSUME NoFixed, NEW x \in Spaces
               PROVE  /\ \A a \in Mapped(x)' : a < mapStart
                      /\ \A a \in Mapped(x)' : heap[x].end <= a => HeapMax <= a
                      /\ \A r \in areas'[x] :
                           \/ r[2] <= HeapMax
                           \/ /\ HeapMax <= r[1] /\ r[2] <= mapStart
                              /\ \A i \in DOMAIN regions : \/ r = <<regions'[i].start, End(regions'[i])>>
                                                           \/ Apart(r[1], r[2], regions'[i])
    BY <1>1, <1>3, <1>4 DEF AreasMatch, Apart, End
  <2>1. /\ \A a \in Mapped(x) : a < mapStart
        /\ \A a \in Mapped(x) : heap[x].end <= a => HeapMax <= a
        /\ \A r \in areas[x] :
             \/ r[2] <= HeapMax
             \/ /\ HeapMax <= r[1] /\ r[2] <= mapStart
                /\ \A i \in DOMAIN regions : \/ r = <<regions[i].start, End(regions[i])>>
                                             \/ Apart(r[1], r[2], regions[i])
    BY <1>0 DEF AreasMatch
  <2>2. \A a \in Mapped(x)' : a < mapStart /\ (heap[x].end <= a => HeapMax <= a)
    <3>1. lo < mapStart
      BY <1>1
    <3> QED
      BY <1>1, <2>1, <3>1
  <2>3. ASSUME NEW r \in areas'[x]
        PROVE  \/ r[2] <= HeapMax
               \/ /\ HeapMax <= r[1] /\ r[2] <= mapStart
                  /\ \A i \in DOMAIN regions : \/ r = <<regions'[i].start, End(regions'[i])>>
                                               \/ Apart(r[1], r[2], regions'[i])
    <3>1. CASE r \in areas[x]
      BY <1>3, <2>1, <3>1 DEF Apart
    <3>2. CASE r = <<lo, lo + FRAME>>
      BY <1>1, <1>3, <1>13, <3>2 DEF Apart
    <3> QED
      BY <2>3, <3>1, <3>2
  <2> QED
    BY <2>2, <2>3
<1>16. OwnersHave'
  <2> SUFFICES ASSUME NoFixed, NEW i \in DOMAIN regions
               PROVE  LET r == regions[i]
                          x == r.by[1]
                      IN  /\ x \in Used /\ r.by[2] <= execs[x]
                          /\ r.by[2] = execs[x] /\ <<x, r.start>> \notin Pending'
                               => \A p \in PagesOf(r.start, End(r)) : <<x, p>> \in Backed'
    BY <1>1, <1>3, <1>4 DEF OwnersHave
  <2> DEFINE x == regions[i].by[1]
  <2>1. /\ x \in Used /\ regions[i].by[2] <= execs[x] /\ x \in Spaces
        /\ regions[i].by[2] = execs[x] /\ <<x, regions[i].start>> \notin Pending
             => \A p \in PagesOf(regions[i].start, End(regions[i])) : <<x, p>> \in Backed
    BY <1>0, RegionTypes DEF OwnersHave, TypeOK
  <2>2. CASE <<x, regions[i].start>> = <<s, lo>>
    <3>1. regions[i].start = lo /\ x = s
      BY <2>2
    <3>2. PagesOf(lo, End(regions[i])) = {a \in Int : lo <= a /\ a < End(regions[i]) /\ Even(a)}
      BY <1>1, <1>3, PageIn
    <3>3. CASE Apart(lo, lo + FRAME, regions[i])
      BY <1>1, <1>3, <2>1, <3>1, <3>2, <3>3 DEF Apart
    <3>4. CASE regions[i].len = FRAME /\ End(regions[i]) = lo + FRAME
      <4>1. lo \in Mapped(s)'
        BY <3>1, <3>4
      <4>2. \A p \in PagesOf(lo, End(regions[i])) : p = lo
        BY <1>1, <3>2, <3>4, SMT DEF Even
      <4>3. <<s, lo>> \in Backed'
        BY <1>1, <4>1 DEF Backed, Mapped
      <4> QED
        BY <2>1, <3>1, <4>2, <4>3
    <3> QED
      BY <1>13, <3>3, <3>4
  <2>3. CASE <<x, regions[i].start>> # <<s, lo>>
    BY <1>6, <2>1, <2>3
  <2> QED
    BY <2>2, <2>3
<1>17. PlainShape'
  BY <1>4, <1>5 DEF PlainShape
<1> QED
  BY <1>7, <1>8, <1>9, <1>10, <1>11, <1>12, <1>14, <1>15, <1>16, <1>17, <1>18 DEF MemInv

-----------------------------------------------------------------------------
(* The actions                                                              *)

\* A task that runs has a space.
LEMMA Called ==
  ASSUME MemInv, NEW t \in Live
  PROVE  /\ t \in Tasks /\ space[t] \in Spaces /\ space[t] \in Used
         /\ world.top \in 0..Top /\ world.fixed \subseteq Starts
         /\ heap[space[t]].start = HeapStart
<1>1. TypeOK
  BY DEF MemInv
<1>2. t \in Tasks /\ space[t] \in Spaces /\ space[t] \in Used
  BY <1>1 DEF TypeOK, Live, Used
<1>3. world \in [thread : BOOLEAN, fork : BOOLEAN, exec : BOOLEAN, fixed : SUBSET Starts, top : 0..Top, tasks : Nat, regions : Nat]
  BY <1>1, UserMemoryAssumption DEF TypeOK
<1>4. heap[space[t]] \in [start : {HeapStart}, current : 0..Top, end : 0..Top]
  BY <1>1, <1>2 DEF TypeOK
<1> QED
  BY <1>2, <1>3, <1>4

\* Calls in progress go on as they were.
LEMMA SameCalls ==
  ASSUME MemInv, UNCHANGED callVars
  PROVE  CallsFit /\ CallsStay
  BY DEF MemInv, TypeOK, StepShape, PlainShape, CallsFit, CallsStay, callVars

\* A process that does nothing unusual has all its regions mapped, each as one area.
LEMMA PlainFacts ==
  ASSUME MemInv, Plain
  PROVE  /\ NoFixed /\ BelowHeap
         /\ \A t \in Live, i \in DOMAIN regions :
              /\ regions[i].by[1] = space[t] /\ regions[i].by[2] = execs[space[t]]
              /\ PagesOf(regions[i].start, End(regions[i])) \subseteq Mapped(space[t])
              /\ regions[i].len > 0 => <<regions[i].start, End(regions[i])>> \in areas[space[t]]
<1>1. NoFixed /\ BelowHeap
  BY DEF MemInv, PlainShape, Plain, NoFixed, BelowHeap
<1>2. ASSUME NEW t \in Live, NEW i \in DOMAIN regions
      PROVE  /\ regions[i].by[1] = space[t] /\ regions[i].by[2] = execs[space[t]]
             /\ PagesOf(regions[i].start, End(regions[i])) \subseteq Mapped(space[t])
             /\ regions[i].len > 0 => <<regions[i].start, End(regions[i])>> \in areas[space[t]]
  <2>1. TypeOK /\ OwnersHave /\ PlainShape
    BY DEF MemInv
  <2>2. space[t] \in Spaces /\ Live \subseteq Tasks /\ regions[i].by[2] \in {0, 1}
    BY <1>2, <2>1, Called, RegionTypes DEF TypeOK, Live
  <2>3. regions[i].by[1] = space[t]
    <3>1. regions[i].by[1] \in Used
      BY <1>1, <1>2, <2>1 DEF OwnersHave
    <3>2. PICK u \in Live : space[u] = regions[i].by[1]
      BY <3>1 DEF Used
    <3>3. \A v, w \in Live : space[v] = space[w]
      BY <2>1 DEF PlainShape
    <3> QED
      BY <1>2, <3>2, <3>3
  <2>4. regions[i].by[2] = execs[space[t]]
    <3>1. regions[i].by[2] <= execs[regions[i].by[1]]
      BY <1>1, <1>2, <2>1 DEF OwnersHave
    <3>2. execs[space[t]] = 0
      BY <2>1, <2>2 DEF PlainShape
    <3> QED
      BY <2>2, <2>3, <3>1, <3>2
  <2>5. Pending = {}
    BY <2>1, <2>2 DEF Pending, PlainShape
  <2>6. PagesOf(regions[i].start, End(regions[i])) \subseteq Mapped(space[t])
    <3>1. \A p \in PagesOf(regions[i].start, End(regions[i])) : <<space[t], p>> \in Backed
      BY <1>1, <1>2, <2>1, <2>3, <2>4, <2>5 DEF OwnersHave
    <3> QED
      BY <3>1 DEF Backed, Mapped
  <2> QED
    BY <1>2, <2>1, <2>3, <2>4, <2>6 DEF PlainShape
<1> QED
  BY <1>1, <1>2

\* Mapping the next addresses that alloc gives.
LEMMA AllocKeeps ==
  ASSUME MemInv, NEW t \in Tasks, Ready(t), NEW n \in Nat, Even(n), NEW prot \in Prots,
         alloc(n).end <= world.top, mapStart' = alloc(n).end,
         AddRegion(t, alloc(n).start, alloc(n).end, n, prot), UNCHANGED <<callVars, world>>
  PROVE  MemInv'
<1> DEFINE s == space[t]
<1> DEFINE hi == alloc(n).end
<1>0. TypeOK /\ StepShape /\ AreasMatch /\ InBounds
  BY DEF MemInv
<1>1. t \in Live /\ panic = "no" /\ s \in Spaces /\ s \in Used /\ world.top \in 0..Top
  BY Called DEF Ready
<1>2. /\ mapStart \in HeapMax..Top /\ mapStart \in 0..Top /\ Even(mapStart) /\ alloc(n).start = mapStart
      /\ hi = mapStart + n /\ hi \in HeapMax..Top /\ hi \in 0..Top /\ Even(hi) /\ mapStart <= hi /\ hi - mapStart = n
  <2>1. mapStart \in HeapMax..Top /\ mapStart \in 0..Top /\ Even(mapStart)
    BY <1>0, Bounds DEF TypeOK, StepShape
  <2>2. mapStart + n \in Int /\ Even(mapStart + n)
    BY <2>1, Bounds, SMT DEF Even, FRAME
  <2>3. hi = mapStart + n /\ alloc(n).start = mapStart
    BY <2>2, Rounding DEF alloc
  <2> QED
    BY <1>1, <2>1, <2>2, <2>3, Bounds
<1> HIDE DEF hi
<1>3. /\ regions' = Append(regions, Region(s, mapStart, n, hi - mapStart, prot))
      /\ VmMap(s, mapStart, hi, prot) /\ heap' = heap
  BY <1>2 DEF AddRegion, hi
<1>4. regions' = Append(regions, Region(s, mapStart, hi - mapStart, hi - mapStart, prot))
  BY <1>2, <1>3
<1>5. \/ Stopped("map") /\ PagesOf(mapStart, hi) \cap Mapped(s) # {}
      \/ Grown(s, mapStart, hi)
  BY <1>0, <1>1, <1>2, <1>3, MapEffect
<1>6. CallsFit /\ UNCHANGED <<pc, arg, world>>
  BY SameCalls DEF callVars
<1>7. CASE Grown(s, mapStart, hi)
  BY <1>1, <1>2, <1>3, <1>4, <1>6, <1>7, AddKeeps DEF hi
<1>8. CASE Stopped("map") /\ PagesOf(mapStart, hi) \cap Mapped(s) # {}
  <2>1. ~Plain
    <3> SUFFICES ASSUME Plain
                 PROVE  FALSE
      OBVIOUS
    <3>1. NoFixed
      BY PlainFacts
    <3>2. \A a \in Mapped(s) : a < mapStart
      BY <1>0, <1>1, <3>1 DEF AreasMatch
    <3>3. \A a \in PagesOf(mapStart, hi) : a \in Int /\ mapStart <= a
      BY <1>2, PageIn, Bounds
    <3> QED
      BY <1>2, <1>8, <3>2, <3>3, Bounds
  <2> DEFINE new == Region(s, mapStart, n, hi - mapStart, prot)
  <2>2. new \in Regions /\ End(new) = hi
    <3>1. execs[s] \in {0, 1} /\ n \in 0..Top
      BY <1>0, <1>1, <1>2, Bounds, SMTT(40) DEF TypeOK
    <3> QED
      BY <1>1, <1>2, <3>1 DEF Region, Regions, End
  <2> HIDE DEF new
  <2>3. regions \in Seq(Regions) /\ regions' = Append(regions, new)
    BY <1>0, <1>3 DEF TypeOK, new
  <2>4. regions' \in Seq(Regions) /\ InBounds'
    BY <1>0, <1>2, <2>2, <2>3 DEF InBounds
  <2> QED
    BY <1>2, <1>6, <1>8, <2>1, <2>4, PanicKeeps DEF hi
<1> QED
  BY <1>5, <1>7, <1>8

\* mmap with neither PROT_EXEC nor MAP_FIXED, and of a device.
LEMMA MmapKeeps ==
  ASSUME MemInv, NEW t \in Tasks,
         \/ \E len \in Lens, prot \in Prots : do_mmap(t, len, prot)
         \/ do_mmap_device(t)
  PROVE  MemInv'
<1>1. ASSUME NEW len \in Lens, NEW prot \in Prots, do_mmap(t, len, prot)
      PROVE  MemInv'
  <2>1. len \in 0..Top /\ Top \in Nat
    BY UserMemoryAssumption, Bounds
  <2>2. AlignUp(len) \in Nat /\ Even(AlignUp(len))
    BY <2>1, Rounding
  <2> QED
    BY <1>1, <2>2, AllocKeeps DEF do_mmap
<1>2. CASE do_mmap_device(t)
  <2>1. FRAME \in Nat /\ Even(FRAME) /\ {"r", "w"} \in Prots
    BY SMT DEF FRAME, Even, Prots
  <2> QED
    BY <1>2, <2>1, AllocKeeps DEF do_mmap_device
<1> QED
  BY <1>1, <1>2

\* Mapping addresses that the program chose.
LEMMA FixedKeeps ==
  ASSUME MemInv, NEW t \in Tasks, Ready(t), NEW start \in world.fixed, NEW len \in Lens, NEW prot \in Prots,
         AlignDown(start) <= heap[space[t]].start, NEW lo \in {AlignDown(start), FRAME},
         AddRegion(t, lo, lo + AlignUp(len), AlignUp(len), prot), UNCHANGED <<mapStart, callVars, world>>
  PROVE  MemInv'
<1> DEFINE s == space[t]
<1> DEFINE n == AlignUp(len)
<1> DEFINE hi == lo + n
<1>0. TypeOK /\ StepShape /\ InBounds
  BY DEF MemInv
<1>1. t \in Live /\ panic = "no" /\ s \in Spaces /\ s \in Used /\ start \in Starts /\ heap[s].start = HeapStart
  BY Called DEF Ready
<1>2. /\ lo \in 0..Top /\ hi \in 0..Top /\ Even(lo) /\ Even(hi) /\ lo <= hi /\ hi - lo = n /\ n \in 0..Top
      /\ BelowHeap => lo < HeapStart
  <2>1. start \in 0..HeapStart /\ len \in 0..Top /\ HeapStart + n <= Top
    BY <1>1, UserMemoryAssumption
  <2>2. n \in Nat /\ Even(n)
    BY <2>1, Rounding, Bounds
  <2>3. /\ AlignDown(start) \in Int /\ Even(AlignDown(start)) /\ AlignDown(start) <= HeapStart
        /\ start < AlignDown(start) + FRAME
    BY <1>1, <2>1, Rounding, Bounds
  <2>4. ~(AlignDown(start) < 0)
    BY <2>1, <2>3, SMT DEF Even, FRAME
  <2>5. FRAME < HeapStart /\ FRAME \in Nat /\ Even(FRAME)
    BY Bounds, SMT DEF FRAME, Even
  <2>6. lo \in Nat /\ Even(lo) /\ lo <= HeapStart
    BY <2>3, <2>4, <2>5, Bounds
  <2>7. BelowHeap => lo < HeapStart
    BY <2>5 DEF BelowHeap
  <2>8. hi \in Int /\ Even(hi)
    BY <2>2, <2>6, SMT DEF Even, FRAME
  <2> HIDE DEF n
  <2> QED
    BY <2>1, <2>2, <2>6, <2>7, <2>8, Bounds
<1>3. /\ regions' = Append(regions, Region(s, lo, n, hi - lo, prot))
      /\ VmMap(s, lo, hi, prot) /\ heap' = heap
  BY DEF AddRegion
<1> HIDE DEF n, hi
<1>4. regions' = Append(regions, Region(s, lo, hi - lo, hi - lo, prot))
  BY <1>2, <1>3
<1>5. Stopped("map") \/ Grown(s, lo, hi)
  BY <1>0, <1>1, <1>2, <1>3, MapEffect
<1>6. CallsFit /\ UNCHANGED <<pc, arg, world>>
  BY SameCalls DEF callVars
<1>7. CASE Grown(s, lo, hi)
  BY <1>1, <1>2, <1>3, <1>4, <1>6, <1>7, AddKeeps
<1>8. CASE Stopped("map")
  <2>1. ~Plain
    BY DEF Plain
  <2> DEFINE new == Region(s, lo, n, hi - lo, prot)
  <2>2. new \in Regions /\ End(new) = hi
    <3>1. execs[s] \in {0, 1}
      BY <1>0, <1>1 DEF TypeOK
    <3>2. lo + n = hi
      BY <1>2, Bounds
    <3> QED
      BY <1>1, <1>2, <3>1, <3>2 DEF Region, Regions, End
  <2> HIDE DEF new
  <2>3. regions \in Seq(Regions) /\ regions' = Append(regions, new)
    BY <1>0, <1>3 DEF TypeOK, new
  <2>4. regions' \in Seq(Regions) /\ InBounds'
    BY <1>0, <1>2, <2>2, <2>3 DEF InBounds
  <2>5. mapStart' \in HeapMax..Top /\ Even(mapStart') /\ mapStart <= mapStart'
    BY <1>0, Bounds DEF TypeOK, StepShape
  <2> QED
    BY <1>6, <1>8, <2>1, <2>4, <2>5, PanicKeeps
<1> QED
  BY <1>5, <1>7, <1>8

\* mmap with PROT_EXEC, and with MAP_FIXED beside the regions or inside one.
LEMMA MmapFixedKeeps ==
  ASSUME MemInv, NEW t \in Tasks, NEW start \in Starts, NEW len \in Lens, NEW prot \in Prots,
         do_mmap_exec(t, start, len) \/ do_mmap_fixed(t, start, len, prot)
  PROVE  MemInv'
<1>1. CASE do_mmap_exec(t, start, len)
  <2>1. {"r", "x"} \in Prots
    BY DEF Prots
  <2> QED
    BY <1>1, <2>1, FixedKeeps DEF do_mmap_exec
<1>2. CASE do_mmap_fixed(t, start, len, prot)
  <2> DEFINE a == AlignDown(start)
  <2> DEFINE i == get_region(a)
  <2>1. /\ Ready(t) /\ start \in world.fixed /\ a <= heap[space[t]].start
        /\ UNCHANGED <<mapStart, callVars, world>>
    BY <1>2 DEF do_mmap_fixed
  <2>2. CASE AddRegion(t, a, a + AlignUp(len), AlignUp(len), prot)
    BY <2>1, <2>2, FixedKeeps
  <2>3. CASE i # 0 /\ Recut(i, a, AlignUp(len), prot) /\ UNCHANGED <<memVars, taskVars, execs, panic>>
    <3>1. regions \in Seq(Regions) /\ panic = "no" /\ world.fixed # {}
      BY <2>1 DEF MemInv, TypeOK, Ready
    <3>2. i \in DOMAIN regions /\ InRegion(regions[i], a)
      BY <2>3, <3>1, Found
    <3>3. a \in Int /\ Even(a)
      BY Rounding, UserMemoryAssumption, Bounds
    <3>4. AlignUp(len) \in Nat /\ Even(AlignUp(len))
      <4>1. len \in 0..Top
        BY UserMemoryAssumption
      <4> QED
        BY <4>1, Rounding, Bounds
    <3> HIDE DEF a, i
    <3> QED
      BY <2>1, <2>3, <3>1, <3>2, <3>3, <3>4, RecutKeeps
  <2> QED
    BY <1>2, <2>2, <2>3 DEF do_mmap_fixed
<1> QED
  BY <1>1, <1>2

\* What a call that names a region finds of it.
LEMMA Named ==
  ASSUME MemInv, NEW a, get_region(a) # 0
  PROVE  /\ get_region(a) \in DOMAIN regions /\ InRegion(regions[get_region(a)], a)
         /\ regions \in Seq(Regions)
  BY Found DEF MemInv, TypeOK

\* A panic of a call that leaves the list alone, or shortens it.
LEMMA StopKeeps ==
  ASSUME MemInv, NEW why \in {"map", "unmap", "protect", "copy", "fork", "execve"}, Stopped(why), ~Plain,
         regions' \in Seq(Regions), InBounds', CallsFit, UNCHANGED <<mapStart, world>>
  PROVE  MemInv'
<1>1. mapStart' \in HeapMax..Top /\ Even(mapStart') /\ mapStart <= mapStart'
  BY Bounds DEF MemInv, TypeOK, StepShape
<1> QED
  BY <1>1, PanicKeeps

\* munmap
LEMMA MunmapKeeps ==
  ASSUME MemInv, NEW t \in Tasks, NEW start, NEW len, do_munmap(t, start, len)
  PROVE  MemInv'
<1> DEFINE i == get_region(start)
<1> DEFINE s == space[t]
<1>0. TypeOK /\ StepShape /\ InBounds /\ AreaShape
  BY DEF MemInv
<1>1. /\ t \in Live /\ panic = "no" /\ s \in Spaces /\ s \in Used
      /\ i \in DOMAIN regions /\ InRegion(regions[i], start) /\ regions \in Seq(Regions)
  BY Called, Named DEF do_munmap, Ready
<1>2. /\ regions[i].start = start /\ VmUnmap(s, start) /\ regions' = remove_region(start)
      /\ UNCHANGED <<mapStart, callVars, world>>
  BY DEF do_munmap
<1>8. regions' = RemoveAt(regions, i)
  BY <1>1, <1>2, SMT DEF remove_region
<1> HIDE DEF i
<1>3. regions[i].len > 0
  BY <1>1, <1>2, RegionTypes DEF InRegion
<1>4. CallsFit /\ UNCHANGED <<pc, arg, world>>
  BY <1>2, SameCalls DEF callVars
<1>5. \/ Stopped("unmap") /\ \A r \in areas[s] : r[1] # start
      \/ \E r \in areas[s] : Shrunk(s, start, r)
  BY <1>0, <1>1, <1>2, UnmapEffect
<1>6. ASSUME NEW r \in areas[s], Shrunk(s, start, r)
      PROVE  MemInv'
  BY <1>1, <1>2, <1>3, <1>4, <1>6, <1>8, UnmapKeeps
<1>7. CASE Stopped("unmap") /\ \A r \in areas[s] : r[1] # start
  <2>1. ~Plain
    <3> SUFFICES ASSUME Plain
                 PROVE  FALSE
      OBVIOUS
    <3>1. <<regions[i].start, End(regions[i])>> \in areas[s]
      BY <1>1, <1>3, PlainFacts
    <3> QED
      BY <1>2, <1>7, <3>1
  <2>2. /\ RemoveAt(regions, i) \in Seq(Regions) /\ Len(RemoveAt(regions, i)) = Len(regions) - 1
        /\ \A j \in 1..(Len(regions) - 1) : RemoveAt(regions, i)[j] = regions[IF j < i THEN j ELSE j + 1]
    BY <1>1, Removed
  <2>3. /\ regions' \in Seq(Regions) /\ Len(regions') = Len(regions) - 1
        /\ \A j \in 1..(Len(regions) - 1) : regions'[j] = regions[IF j < i THEN j ELSE j + 1]
    BY <1>8, <2>2, Zenon
  <2>4. InBounds'
    <3> SUFFICES ASSUME NEW j \in DOMAIN regions'
                 PROVE  End(regions'[j]) <= Top
      BY DEF InBounds
    <3>1. j \in 1..(Len(regions) - 1)
      BY <2>3
    <3>2. (IF j < i THEN j ELSE j + 1) \in DOMAIN regions
      BY <1>1, <3>1
    <3> QED
      BY <1>0, <2>3, <3>1, <3>2 DEF InBounds
  <2> QED
    BY <1>2, <1>4, <1>7, <2>1, <2>3, <2>4, StopKeeps
<1> QED
  BY <1>5, <1>6, <1>7

\* mprotect and page faults: rights change, of pages that the region has.
LEMMA RightsKeep ==
  ASSUME MemInv, NEW t \in Tasks, Ready(t), NEW P, NEW prot \in Prots, VmProtect(space[t], P, prot),
         Plain => P \subseteq Mapped(space[t]), SameRegions, UNCHANGED <<mapStart, callVars, world>>
  PROVE  MemInv'
<1> DEFINE s == space[t]
<1>0. TypeOK /\ InBounds
  BY DEF MemInv
<1>1. t \in Live /\ panic = "no" /\ s \in Spaces
  BY Called DEF Ready
<1>2. \/ Stopped("protect") /\ ~ P \subseteq Mapped(s)
      \/ SamePages /\ table' \in Tables /\ UNCHANGED <<areas, traps, heap, taskVars, execs, panic>>
  BY <1>0, <1>1, ProtectEffect
<1>3. CallsFit /\ CallsStay
  BY SameCalls
<1>4. CASE SamePages /\ table' \in Tables /\ UNCHANGED <<areas, traps, heap, taskVars, execs, panic>>
  BY <1>1, <1>3, <1>4, QuietKeeps
<1>5. CASE Stopped("protect") /\ ~ P \subseteq Mapped(s)
  <2>1. ~Plain
    BY <1>5
  <2>2. regions' \in Seq(Regions) /\ InBounds'
    <3>1. /\ regions \in Seq(Regions) /\ DOMAIN regions' = DOMAIN regions
          /\ \A i \in DOMAIN regions : regions'[i].start = regions[i].start /\ regions'[i].len = regions[i].len
      BY <1>0 DEF SameRegions, TypeOK
    <3>2. \A i \in DOMAIN regions : End(regions'[i]) = End(regions[i])
      BY <3>1 DEF End
    <3> QED
      BY <1>0, <3>1, <3>2 DEF SameRegions, InBounds
  <2> QED
    BY <1>3, <1>5, <2>1, <2>2, StopKeeps
<1> QED
  BY <1>2, <1>4, <1>5

\* mprotect of addresses of a region
LEMMA MprotectKeeps ==
  ASSUME MemInv, NEW t \in Tasks, NEW j \in DOMAIN regions, NEW prot \in NewProts,
         NEW addr \in regions[j].start .. (End(regions[j]) - 1), NEW len \in 0 .. (End(regions[j]) - addr),
         do_mprotect(t, addr, len, prot)
  PROVE  MemInv'
<1> DEFINE i == get_region(addr)
<1> DEFINE P == PagesOf(addr, AlignUp(addr + len))
<1>0. TypeOK /\ RegionShape
  BY DEF MemInv
<1>1. /\ t \in Live /\ panic = "no" /\ i \in DOMAIN regions /\ InRegion(regions[i], addr)
      /\ regions \in Seq(Regions) /\ prot \in Prots
  BY Called, Named, UserMemoryAssumption DEF do_mprotect, Ready
<1>2. /\ regions' = [regions EXCEPT ![i].prot = prot] /\ VmProtect(space[t], P, prot) /\ Ready(t)
      /\ UNCHANGED <<mapStart, callVars, world>>
  BY DEF do_mprotect
<1> HIDE DEF i
<1>3. /\ \A k \in DOMAIN regions : /\ regions[k].start \in Nat /\ End(regions[k]) \in Nat
                                   /\ regions[k].len \in Nat /\ End(regions[k]) = regions[k].start + regions[k].len
  BY <1>1, RegionTypes
<1>4. SameRegions
  <2> DEFINE new == [regions[i] EXCEPT !.prot = prot]
  <2>1. regions[i] \in Regions
    BY <1>1, RegionTypes
  <2>2. /\ new \in Regions /\ new.start = regions[i].start /\ new.len = regions[i].len
        /\ new.map_len = regions[i].map_len /\ new.by = regions[i].by
    BY <1>1, <2>1 DEF Regions
  <2>3. regions' = [regions EXCEPT ![i] = new]
    BY <1>2
  <2> HIDE DEF new
  <2>4. /\ regions' \in Seq(Regions) /\ Len(regions') = Len(regions)
        /\ \A k \in DOMAIN regions : regions'[k] = IF k = i THEN new ELSE regions[k]
    BY <1>1, <2>2, <2>3
  <2> QED
    BY <2>2, <2>4 DEF SameRegions
<1>5. ASSUME Plain
      PROVE  P \subseteq Mapped(space[t])
  <2>1. NoFixed /\ PagesOf(regions[j].start, End(regions[j])) \subseteq Mapped(space[t])
    BY <1>1, <1>5, PlainFacts
  <2>2. Even(regions[j].start) /\ Even(regions[j].len)
    BY <1>0, <2>1 DEF RegionShape
  <2>3. addr \in Int /\ len \in Int /\ regions[j].start <= addr /\ addr < End(regions[j]) /\ addr + len <= End(regions[j])
    BY <1>3
  <2>4. /\ AlignDown(addr) \in Int /\ Even(AlignDown(addr)) /\ addr < AlignDown(addr) + FRAME
        /\ AlignUp(addr + len) \in Int /\ Even(AlignUp(addr + len)) /\ AlignUp(addr + len) < addr + len + FRAME
    BY <2>3, Rounding
  <2>5. regions[j].start <= AlignDown(addr) /\ AlignUp(addr + len) <= End(regions[j])
    BY <1>3, <2>2, <2>3, <2>4, SMT DEF Even, FRAME
  <2>6. PagesOf(regions[j].start, End(regions[j])) =
          {p \in Int : regions[j].start <= p /\ p < End(regions[j]) /\ Even(p)}
    BY <1>3, <2>2, PageIn
  <2>7. \A p \in P : p \in Int /\ AlignDown(addr) <= p /\ p < AlignUp(addr + len) /\ Even(p)
    BY <2>4 DEF PagesOf, Even
  <2> QED
    BY <1>3, <2>1, <2>4, <2>5, <2>6, <2>7
<1> QED
  BY <1>1, <1>2, <1>4, <1>5, RightsKeep

\* page fault on an address of a region
LEMMA FaultKeeps ==
  ASSUME MemInv, NEW t \in Tasks, NEW j \in DOMAIN regions,
         NEW addr \in PagesOf(regions[j].start, End(regions[j])), do_load_page_fault(t, addr)
  PROVE  MemInv'
<1> DEFINE i == get_region(addr)
<1>0. TypeOK
  BY DEF MemInv
<1>1. /\ t \in Live /\ panic = "no" /\ i \in DOMAIN regions /\ InRegion(regions[i], addr)
      /\ regions \in Seq(Regions) /\ regions[i].prot \in Prots
  BY Called, Named, RegionTypes DEF do_load_page_fault, Ready
<1>2. VmProtect(space[t], {AlignDown(addr)}, regions[i].prot) /\ Ready(t) /\ UNCHANGED <<mmapVars, callVars, world>>
  BY DEF do_load_page_fault
<1>3. SameRegions /\ mapStart' = mapStart
  BY <1>1, <1>2 DEF SameRegions, mmapVars
<1>4. ASSUME Plain
      PROVE  {AlignDown(addr)} \subseteq Mapped(space[t])
  <2>1. AlignDown(addr) = addr
    <3>1. addr \in Int /\ Even(addr)
      <4>1. regions[j].start \in Int /\ End(regions[j]) \in Int
        BY <1>1, RegionTypes
      <4>2. AlignDown(regions[j].start) \in Int
        BY <4>1, Rounding
      <4> QED
        BY <4>1, <4>2 DEF PagesOf, Even
    <3> QED
      BY <3>1, Rounding
  <2> QED
    BY <1>1, <1>4, <2>1, PlainFacts, ZenonT(60)
<1> QED
  BY <1>1, <1>2, <1>3, <1>4, RightsKeep

\* copies to and from the heap and the regions
LEMMA CopyKeeps ==
  ASSUME MemInv, NEW t \in Live, NEW addr \in Pointers(t), UserCopy(t, addr)
  PROVE  MemInv'
<1> DEFINE s == space[t]
<1> DEFINE own == {r \in ToSet(regions) : r.by = <<s, execs[s]>>}
<1>0. TypeOK /\ InBounds /\ HeapShape /\ HeapBacked /\ RegionShape
  BY DEF MemInv
<1>1. s \in Spaces /\ t \in Tasks /\ heap[s].start = HeapStart /\ regions \in Seq(Regions)
  BY <1>0, Called DEF TypeOK
<1>2. Stopped("copy") /\ AlignDown(addr) \notin Mapped(s) /\ UNCHANGED <<mmapVars, callVars, world>>
  BY DEF UserCopy, Panic, Stopped
<1>3. ~Plain
  <2> SUFFICES ASSUME Plain
               PROVE  AlignDown(addr) \in Mapped(s)
    BY <1>2
  <2>1. NoFixed /\ BelowHeap
    BY PlainFacts
  <2>2. addr \in heap[s].start .. (heap[s].current - 1) \/ \E r \in own : addr \in r.start .. (End(r) - 1)
    BY DEF Pointers
  <2>3. CASE addr \in heap[s].start .. (heap[s].current - 1)
    <3>1. heap[s].current \in Int /\ heap[s].end \in Int /\ heap[s].current <= heap[s].end /\ HeapStart \in Int
      BY <1>0, <1>1, Bounds DEF TypeOK, HeapShape
    <3>2. addr \in Int /\ HeapStart <= addr /\ addr < heap[s].end
      BY <1>1, <2>3, <3>1
    <3>3. AlignDown(addr) \in Int /\ Even(AlignDown(addr)) /\ AlignDown(addr) <= addr /\ addr < AlignDown(addr) + FRAME
      BY <3>2, Rounding
    <3>4. ImageStart <= AlignDown(addr)
      BY <3>2, <3>3, Bounds, SMT DEF FRAME
    <3>5. PagesOf(ImageStart, heap[s].end) = {a \in Int : ImageStart <= a /\ a < heap[s].end /\ Even(a)}
      BY <3>1, PageIn, Bounds
    <3>6. AlignDown(addr) \in PagesOf(ImageStart, heap[s].end)
      BY <3>1, <3>2, <3>3, <3>4, <3>5
    <3> QED
      BY <1>0, <1>1, <2>1, <3>6 DEF HeapBacked
  <2>4. ASSUME NEW r \in own, addr \in r.start .. (End(r) - 1)
        PROVE  AlignDown(addr) \in Mapped(s)
    <3>1. PICK i \in DOMAIN regions : regions[i] = r
      BY <1>1, <2>4 DEF ToSet
    <3>2. /\ r.start \in Int /\ End(r) \in Int /\ Even(r.start)
          /\ PagesOf(r.start, End(r)) \subseteq Mapped(s)
      <4>1. r.start \in Int /\ End(r) \in Int
        BY <1>1, <3>1, RegionTypes
      <4>2. Even(r.start)
        BY <1>0, <2>1, <3>1 DEF RegionShape
      <4>3. PagesOf(regions[i].start, End(regions[i])) \subseteq Mapped(s)
        BY PlainFacts
      <4> QED
        BY <3>1, <4>1, <4>2, <4>3
    <3>3. addr \in Int /\ r.start <= addr /\ addr < End(r)
      BY <2>4, <3>2
    <3>4. AlignDown(addr) \in Int /\ Even(AlignDown(addr)) /\ AlignDown(addr) <= addr /\ addr < AlignDown(addr) + FRAME
      BY <3>3, Rounding
    <3>5. r.start <= AlignDown(addr)
      BY <3>2, <3>3, <3>4, SMT DEF Even, FRAME
    <3>6. PagesOf(r.start, End(r)) = {a \in Int : r.start <= a /\ a < End(r) /\ Even(a)}
      BY <3>2, PageIn
    <3> QED
      BY <3>2, <3>3, <3>4, <3>5, <3>6
  <2> QED
    BY <2>2, <2>3, <2>4
<1>4. CallsFit
  BY <1>2, SameCalls
<1>5. regions' \in Seq(Regions) /\ InBounds' /\ UNCHANGED <<mapStart, world>>
  BY <1>0, <1>1, <1>2 DEF InBounds, mmapVars
<1> QED
  BY <1>2, <1>3, <1>4, <1>5, StopKeeps

\* The first step of brk
LEMMA BrkKeeps ==
  ASSUME MemInv, NEW t \in Tasks, NEW addr \in HeapStart..HeapLimit, sys_brk(t, addr)
  PROVE  MemInv'
<1>0. TypeOK /\ StepShape /\ PlainShape
  BY DEF MemInv
<1>1. /\ panic = "no" /\ pc[t] = "idle"
      /\ pc' = [pc EXCEPT ![t] = "brk"] /\ arg' = [arg EXCEPT ![t] = addr]
      /\ UNCHANGED <<taskVars, memVars, mmapVars, execs, panic, world>>
  BY DEF sys_brk, Ready
<1>2. addr \in 0..Top
  BY Bounds
<1>3. CallsFit /\ CallsStay
  BY <1>0, <1>1, <1>2 DEF CallsFit, CallsStay, TypeOK, StepShape, PlainShape
<1>4. SamePages /\ table' \in Tables
  BY <1>0, <1>1 DEF SamePages, Mapped, Tables, TypeOK, memVars
<1>5. SameRegions
  BY <1>0, <1>1 DEF SameRegions, TypeOK, mmapVars
<1> QED
  BY <1>1, <1>3, <1>4, <1>5, QuietKeeps DEF memVars, mmapVars

\* The second step of brk
LEMMA ExtendKeeps ==
  ASSUME MemInv, NEW t \in Tasks, extend_heap(t)
  PROVE  MemInv'
<1> DEFINE s == space[t]
<1> DEFINE b == heap[s].end
<1> DEFINE x == arg[t]
<1> DEFINE e == b + AlignUp(x - b)
<1>0. TypeOK /\ StepShape /\ PlainShape /\ HeapShape /\ AreasMatch /\ InBounds
  BY DEF MemInv
<1>1. /\ t \in Live /\ panic = "no" /\ pc[t] = "brk" /\ s \in Spaces
      /\ pc' = [pc EXCEPT ![t] = "idle"] /\ arg' = [arg EXCEPT ![t] = 0]
      /\ UNCHANGED <<mmapVars, world>>
  BY Called DEF extend_heap
<1>2. /\ x \in HeapStart..HeapLimit /\ x \in Int /\ b \in Int /\ HeapStart <= b /\ b <= HeapMax /\ Even(b)
      /\ heap \in [Spaces -> [start : {HeapStart}, current : 0..Top, end : 0..Top]]
  <2>1. x \in HeapStart..HeapLimit
    BY <1>0, <1>1 DEF StepShape
  <2>2. b \in Int /\ HeapStart <= b /\ b <= HeapMax /\ Even(b)
        /\ heap \in [Spaces -> [start : {HeapStart}, current : 0..Top, end : 0..Top]]
    BY <1>0, <1>1, Bounds DEF HeapShape, TypeOK
  <2> QED
    BY <2>1, <2>2, Bounds
<1>3. CallsFit /\ CallsStay
  <2>1. 0 \in 0..Top
    BY Bounds
  <2> QED
    BY <1>0, <1>1, <2>1 DEF CallsFit, CallsStay, TypeOK, StepShape, PlainShape
<1> HIDE DEF s, b, x, e
<1>4. CASE x < b /\ heap' = [heap EXCEPT ![s].current = x]
           /\ UNCHANGED <<table, areas, traps, taskVars, execs, panic>>
  <2>1. heap' = [heap EXCEPT ![s].current = x, ![s].end = b]
    BY <1>1, <1>2, <1>4 DEF b
  <2>2. PagesOf(b, b) = {}
    <3>1. PagesOf(b, b) = {a \in Int : b <= a /\ a < b /\ Even(a)}
      BY <1>2, PageIn
    <3> QED
      BY <1>2, <3>1
  <2>3. \A y \in Spaces : Mapped(y)' = Mapped(y)
    BY <1>4 DEF Mapped
  <2>4. Grown(s, b, b)
    BY <1>0, <1>2, <1>4, <2>2, <2>3 DEF Grown, Tables, AreaSets, TypeOK
  <2>5. HeapStart <= x /\ x <= b
    BY <1>2, <1>4, Bounds
  <2> HIDE DEF b
  <2>6. Grown(s, heap[s].end, b) /\ heap[s].end <= b
    BY <1>2, <2>4 DEF b
  <2> QED
    BY <1>1, <1>2, <1>3, <2>1, <2>5, <2>6, GrowKeeps DEF mmapVars
<1>5. CASE x >= b /\ VmMap(s, b, e, {"r", "w"})
           /\ heap' = IF panic' = "no" THEN [heap EXCEPT ![s].current = x, ![s].end = e] ELSE heap
  <2>1. e \in Int /\ x <= e /\ b <= e /\ e <= HeapMax /\ Even(e)
    <3>1. HeapLimit \in Int /\ HeapLimit <= AlignUp(HeapLimit) /\ Even(AlignUp(HeapLimit)) /\ AlignUp(HeapLimit) \in Int
          /\ AlignUp(HeapLimit) <= HeapMax /\ HeapMax \in Int
      BY Bounds, Rounding
    <3>2. /\ AlignUp(x - b) \in Int /\ Even(AlignUp(x - b)) /\ x - b <= AlignUp(x - b)
          /\ AlignUp(x - b) < x - b + FRAME
      BY <1>2, Rounding
    <3>3. HeapStart \in Int
      BY Bounds
    <3> DEFINE up == AlignUp(x - b)
    <3> DEFINE lim == AlignUp(HeapLimit)
    <3>4. e = b + up /\ up \in Int /\ Even(up) /\ x - b <= up /\ up < x - b + FRAME
      BY <3>2 DEF e
    <3>5. lim \in Int /\ Even(lim) /\ HeapLimit <= lim /\ lim <= HeapMax
      BY <3>1
    <3> HIDE DEF up, lim
    <3> QED
      BY <1>2, <1>5, <3>1, <3>3, <3>4, <3>5, SMT DEF Even, FRAME
  <2>2. b \in 0..Top /\ e \in 0..Top /\ {"r", "w"} \in Prots
    BY <1>2, <2>1, Bounds DEF Prots
  <2>3. \/ Stopped("map") /\ PagesOf(b, e) \cap Mapped(s) # {}
        \/ Grown(s, b, e)
    <3>1. heap' = heap \/ panic' = "no"
      BY <1>5
    <3>2. CASE PagesOf(b, e) \cap Mapped(s) # {}
      BY <1>5, <3>2 DEF VmMap, Panic, Stopped
    <3>3. CASE PagesOf(b, e) \cap Mapped(s) = {}
      BY <1>0, <1>1, <1>2, <1>5, <2>2, <3>3, MapEffect
    <3> QED
      BY <3>2, <3>3
  <2>4. CASE Grown(s, b, e)
    <3>1. panic' = "no"
      BY <1>1, <2>4 DEF Grown
    <3>2. Grown(s, heap[s].end, e) /\ heap[s].end <= e
      BY <2>1, <2>4 DEF b
    <3>3. heap' = [heap EXCEPT ![s].current = x, ![s].end = e]
      BY <1>5, <3>1
    <3>4. HeapStart <= x
      BY <1>2, Bounds
    <3> QED
      BY <1>1, <1>2, <1>3, <2>1, <3>2, <3>3, <3>4, GrowKeeps DEF mmapVars
  <2>5. CASE Stopped("map") /\ PagesOf(b, e) \cap Mapped(s) # {}
    <3>1. ~Plain
      <4> SUFFICES ASSUME Plain
                   PROVE  FALSE
        OBVIOUS
      <4>1. NoFixed
        BY PlainFacts
      <4>2. \A a \in Mapped(s) : b <= a => HeapMax <= a
        BY <1>0, <1>1, <4>1 DEF AreasMatch, b
      <4>3. \A a \in PagesOf(b, e) : a \in Int /\ b <= a /\ a < e
        BY <1>2, <2>1, PageIn
      <4> QED
        BY <2>1, <2>5, <4>2, <4>3, Bounds
    <3>2. regions' \in Seq(Regions) /\ InBounds' /\ UNCHANGED <<mapStart, world>>
      BY <1>0, <1>1 DEF InBounds, mmapVars, TypeOK
    <3> QED
      BY <1>3, <2>5, <3>1, <3>2, StopKeeps
  <2> QED
    BY <2>3, <2>4, <2>5
<1> QED
  BY <1>4, <1>5 DEF extend_heap, s, b, x, e

\* clone
LEMMA CloneKeeps ==
  ASSUME MemInv, NEW t \in Tasks, NEW u \in Tasks, CloneThread(t, u) \/ CloneProcess(t, u)
  PROVE  MemInv'
<1> DEFINE s == space[t]
<1> DEFINE n == threads[s]
<1>0. TypeOK /\ InBounds /\ PlainShape /\ NumbersApart
  BY DEF MemInv
<1>1. t \in Live /\ panic = "no" /\ s \in Spaces /\ space[u] = None /\ UNCHANGED <<mmapVars, callVars, world>>
  BY Called DEF CloneThread, CloneProcess, Ready, NewTask
<1>2. CallsFit
  BY <1>1, SameCalls
<1>3. regions' \in Seq(Regions) /\ InBounds' /\ UNCHANGED <<mapStart, world>>
  BY <1>0, <1>1 DEF InBounds, mmapVars, TypeOK
<1>4. CASE CloneThread(t, u)
  <2>1. CASE n \in traps[s]
    <3>1. Stopped("map")
      BY <1>4, <2>1 DEF CloneThread, Panic, Stopped
    <3>2. ~Plain
      <4>1. n \in Int
        BY <1>0, <1>1 DEF TypeOK
      <4> QED
        BY <1>0, <1>1, <2>1, <4>1 DEF PlainShape
    <3> QED
      BY <1>2, <1>3, <3>1, <3>2, StopKeeps
  <2>2. CASE n \notin traps[s]
    BY <1>1, <1>4, <2>2, ThreadKeeps DEF CloneThread
  <2> QED
    BY <2>1, <2>2
<1>5. CASE CloneProcess(t, u)
  <2>0. world.fork /\ ~Plain
    BY <1>5 DEF CloneProcess, Plain
  <2>1. CASE number[t] # 0
    <3>1. Stopped("fork")
      BY <1>5, <2>1 DEF CloneProcess, Panic, Stopped
    <3> QED
      BY <1>2, <1>3, <2>0, <3>1, StopKeeps
  <2>2. CASE number[t] = 0
    <3>1. PICK c \in Spaces \ Used :
            /\ space' = [space EXCEPT ![u] = c] /\ number' = [number EXCEPT ![u] = 0]
            /\ threads' = [threads EXCEPT ![c] = 1]
            /\ table' = [table EXCEPT ![c] = table[s]] /\ areas' = [areas EXCEPT ![c] = areas[s]]
            /\ traps' = [traps EXCEPT ![c] = traps[s]] /\ heap' = [heap EXCEPT ![c] = heap[s]]
            /\ UNCHANGED <<execs, panic>>
      BY <1>5, <2>2 DEF CloneProcess, Used
    <3> QED
      BY <1>1, <2>0, <2>2, <3>1, ForkKeeps
  <2> QED
    BY <2>1, <2>2
<1> QED
  BY <1>4, <1>5

\* execve, as far as the new space
LEMMA ExecveKeeps ==
  ASSUME MemInv, NEW t \in Tasks, do_execve(t)
  PROVE  MemInv'
<1> DEFINE s == space[t]
<1>0. TypeOK /\ InBounds
  BY DEF MemInv
<1>1. /\ t \in Live /\ panic = "no" /\ pc[t] = "idle" /\ s \in Spaces /\ world.exec /\ execs[s] = 0
      /\ UNCHANGED <<mmapVars, world>>
  BY Called DEF do_execve, Ready
<1>2. CASE number[t] # 0
  <2>1. Stopped("execve") /\ UNCHANGED callVars /\ ~Plain
    BY <1>1, <1>2 DEF do_execve, Panic, Stopped, Plain
  <2>2. CallsFit
    BY <2>1, SameCalls
  <2>3. regions' \in Seq(Regions) /\ InBounds' /\ UNCHANGED <<mapStart, world>>
    BY <1>0, <1>1 DEF InBounds, mmapVars, TypeOK
  <2> QED
    BY <2>1, <2>2, <2>3, StopKeeps
<1>3. CASE number[t] = 0
  BY <1>1, <1>3, ExecKeeps DEF do_execve
<1> QED
  BY <1>2, <1>3

\* execve: the pages of the vDSO.
LEMMA VdsoMapKeeps ==
  ASSUME MemInv, panic = "no", NEW t \in Live, NEW s \in Spaces, s = space[t], NEW lo, lo = arg[t],
         vdso_map_user_pages(t)
  PROVE  MemInv'
<1>0. TypeOK /\ StepShape /\ RegionShape /\ InBounds
  BY DEF MemInv
<1> DEFINE i == get_region(lo)
<1> DEFINE ok == i # 0 /\ lo + FRAME <= regions[i].start + regions[i].map_len
<1>1. /\ pc[t] = "vdso_map" /\ pc' = [pc EXCEPT ![t] = "idle"] /\ arg' = [arg EXCEPT ![t] = 0]
      /\ regions' = IF ok THEN [regions EXCEPT ![i].prot = {"r", "x"}] ELSE regions
      /\ IF ok /\ lo \notin Mapped(s)
         THEN VmMap(s, lo, lo + FRAME, {"r", "x"}) /\ UNCHANGED heap
         ELSE UNCHANGED <<memVars, taskVars, execs, panic>>
      /\ UNCHANGED <<mapStart, world>>
  BY DEF vdso_map_user_pages
<1>2. regions \in Seq(Regions) /\ Live \subseteq Tasks
  BY <1>0 DEF TypeOK, Live
<1>3. /\ i \in 0..Len(regions)
      /\ i # 0 => i \in DOMAIN regions /\ InRegion(regions[i], lo)
      /\ i = 0 => \A j \in DOMAIN regions : ~InRegion(regions[j], lo)
  BY <1>2, Found
<1>4. /\ HeapMax <= lo /\ Even(lo) /\ lo + FRAME <= mapStart /\ lo \in 0..Top /\ lo + FRAME \in 0..Top
      /\ FRAME = 2 /\ mapStart \in 0..Top
  <2>1. HeapMax <= lo /\ Even(lo) /\ lo + FRAME <= mapStart
    BY <1>0, <1>1, <1>2 DEF StepShape
  <2>2. lo \in 0..Top /\ mapStart \in HeapMax..Top
    BY <1>0, <1>2 DEF TypeOK
  <2> QED
    BY <2>1, <2>2, Bounds DEF FRAME
<1> HIDE DEF i, ok
<1>5. SameRegions
  <2>1. CASE ok
    <3> DEFINE new == [regions[i] EXCEPT !.prot = {"r", "x"}]
    <3>1. i \in DOMAIN regions /\ regions[i] \in Regions
      BY <1>2, <1>3, <2>1, RegionTypes DEF ok
    <3>2. /\ new \in Regions /\ new.start = regions[i].start /\ new.len = regions[i].len
          /\ new.map_len = regions[i].map_len /\ new.by = regions[i].by
      BY <3>1 DEF Regions, Prots
    <3>3. regions' = [regions EXCEPT ![i] = new]
      BY <1>1, <2>1
    <3> HIDE DEF new
    <3>4. /\ regions' \in Seq(Regions) /\ Len(regions') = Len(regions)
          /\ \A k \in DOMAIN regions : regions'[k] = IF k = i THEN new ELSE regions[k]
      BY <1>2, <3>1, <3>2, <3>3
    <3> QED
      BY <3>2, <3>4 DEF SameRegions
  <2>2. CASE ~ok
    BY <1>1, <1>2, <2>2 DEF SameRegions
  <2> QED
    BY <2>1, <2>2
<1>6. \A j \in DOMAIN regions :
        /\ regions[j].start \in Nat /\ End(regions[j]) \in Nat /\ regions[j].len \in Nat
        /\ End(regions[j]) = regions[j].start + regions[j].len
  BY <1>2, RegionTypes
<1>7. CASE ok /\ lo \notin Mapped(s)
  <2>1. VmMap(s, lo, lo + FRAME, {"r", "x"}) /\ heap' = heap /\ {"r", "x"} \in Prots
    BY <1>1, <1>7 DEF Prots
  <2>2. PagesOf(lo, lo + FRAME) = {lo}
    <3>1. PagesOf(lo, lo + FRAME) = {a \in Int : lo <= a /\ a < lo + FRAME /\ Even(a)}
      BY <1>4, PageIn
    <3>2. \A a \in Int : lo <= a /\ a < lo + FRAME /\ Even(a) <=> a = lo
      BY <1>4, SMT DEF Even
    <3> QED
      BY <1>4, <3>1, <3>2
  <2>3. Grown(s, lo, lo + FRAME)
    <3>1. \/ Stopped("map") /\ PagesOf(lo, lo + FRAME) \cap Mapped(s) # {}
          \/ Grown(s, lo, lo + FRAME)
      BY <1>0, <1>1, <1>4, <2>1, MapEffect
    <3> QED
      BY <1>7, <2>2, <3>1
  <2>4. table' \in Tables /\ areas' \in [Spaces -> AreaSets] /\ UNCHANGED <<traps, taskVars, execs, panic>>
    BY <2>3 DEF Grown
  <2>5. \A x \in Spaces : Mapped(x) \subseteq Mapped(x)' /\ \A a \in Mapped(x)' : a \in Mapped(x) \/ a = lo
    BY <2>2, <2>3 DEF Grown
  <2>6. \A x \in Spaces : \A r \in areas'[x] : r \in areas[x] \/ r = <<lo, lo + FRAME>>
    BY <2>3 DEF Grown
  <2>7. lo \in Mapped(s)'
    BY <2>2, <2>3 DEF Grown
  <2> QED
    BY <1>0, <1>1, <1>5, <2>1, <2>4, <2>5, <2>6, <2>7, VdsoKeeps, ZenonT(60)
<1>8. CASE ~(ok /\ lo \notin Mapped(s))
  <2>1. UNCHANGED <<table, areas, traps, heap, taskVars, execs, panic>>
    BY <1>1, <1>8 DEF memVars
  <2>2. table' \in Tables /\ areas' \in [Spaces -> AreaSets] /\ \A x \in Spaces : Mapped(x)' = Mapped(x)
    BY <1>0, <2>1 DEF Tables, AreaSets, TypeOK, Mapped
  <2>3. ASSUME NoFixed, NEW j \in DOMAIN regions, regions[j].start = lo, regions[j].len = FRAME
        PROVE  lo \in Mapped(s)'
    <3>1. InRegion(regions[j], lo)
      BY <1>4, <1>6, <2>3 DEF InRegion
    <3>2. i \in DOMAIN regions /\ InRegion(regions[i], lo)
      BY <1>3, <3>1
    <3>3. /\ Apart(lo, lo + FRAME, regions[i]) \/ (regions[i].start = lo /\ regions[i].len = FRAME)
          /\ regions[i].map_len = regions[i].len
      BY <1>0, <1>1, <1>2, <2>3, <3>2 DEF RegionShape
    <3>4. ~Apart(lo, lo + FRAME, regions[i])
      BY <1>4, <1>6, <3>2 DEF Apart, InRegion
    <3>5. ok
      <4>1. i # 0
        BY <1>2, <3>2
      <4>2. regions[i].start = lo /\ regions[i].map_len = FRAME
        BY <3>3, <3>4
      <4>3. lo + FRAME <= lo + FRAME
        BY <1>4
      <4> QED
        BY <4>1, <4>2, <4>3 DEF ok
    <3> QED
      BY <1>8, <2>2, <3>5
  <2> QED
    <3>1. /\ \A x \in Spaces : Mapped(x) \subseteq Mapped(x)' /\ \A a \in Mapped(x)' : a \in Mapped(x) \/ a = lo
          /\ \A x \in Spaces : \A r \in areas'[x] : r \in areas[x] \/ r = <<lo, lo + FRAME>>
          /\ UNCHANGED <<heap, traps, taskVars, execs, panic, mapStart, world>>
      BY <1>1, <2>1, <2>2
    <3>2. NoFixed => \A j \in DOMAIN regions : regions[j].start = lo /\ regions[j].len = FRAME => lo \in Mapped(s)'
      BY <2>3
    <3> QED
      BY <1>1, <1>5, <2>2, <3>1, <3>2, VdsoKeeps, ZenonT(60)
<1> QED
  BY <1>7, <1>8

\* execve: the vDSO
LEMMA VdsoStepsKeep ==
  ASSUME MemInv, NEW t \in Tasks, vdso_reserve_user_vaddr(t) \/ vdso_map_user_pages(t)
  PROVE  MemInv'
<1> DEFINE s == space[t]
<1>0. TypeOK /\ StepShape /\ RegionShape /\ InBounds
  BY DEF MemInv
<1>1. t \in Live /\ panic = "no" /\ s \in Spaces /\ world.top \in 0..Top
  BY Called DEF vdso_reserve_user_vaddr, vdso_map_user_pages
<1>2. CASE vdso_reserve_user_vaddr(t)
  <2> DEFINE lo == mapStart
  <2>1. /\ pc[t] = "vdso" /\ alloc(FRAME).start = lo
        /\ mapStart' = alloc(FRAME).end /\ alloc(FRAME).end <= world.top
        /\ regions' = Append(regions, Region(s, lo, FRAME, FRAME, {"r"}))
        /\ pc' = [pc EXCEPT ![t] = "vdso_map"] /\ arg' = [arg EXCEPT ![t] = lo]
        /\ UNCHANGED <<taskVars, memVars, execs, panic, world>>
    BY <1>2 DEF vdso_reserve_user_vaddr, alloc
  <2>2. alloc(FRAME).end = lo + FRAME /\ lo + FRAME \in Int
    <3>1. lo \in Int /\ Even(lo)
      BY <1>0, Bounds DEF StepShape, TypeOK
    <3>2. lo + FRAME \in Int /\ Even(lo + FRAME)
      BY <3>1, SMT DEF Even, FRAME
    <3> QED
      BY <3>2, Rounding DEF alloc
  <2>3. lo + FRAME <= Top
    BY <1>1, <2>1, <2>2, Bounds
  <2> QED
    BY <1>1, <2>1, <2>2, <2>3, ReserveKeeps
<1>3. CASE vdso_map_user_pages(t)
  BY <1>1, <1>3, VdsoMapKeeps
<1> QED
  BY <1>2, <1>3

-----------------------------------------------------------------------------
(* The theorems                                                             *)

\* The first task has the program it was built for, an empty heap and no regions.
LEMMA StartHolds ==
  ASSUME Init
  PROVE  MemInv
<1> DEFINE s0 == CHOOSE s \in Spaces : TRUE
<1>1. s0 \in Spaces /\ FirstTask \in Tasks /\ None \notin Spaces
  BY UserMemoryAssumption
<1> HIDE DEF s0
<1>2. /\ space = [t \in Tasks |-> IF t = FirstTask THEN s0 ELSE None]
      /\ number = [t \in Tasks |-> 0] /\ threads = [s \in Spaces |-> 1]
      /\ table = [s \in Spaces |-> ImageTable] /\ areas = [s \in Spaces |-> {<<ImageStart, HeapStart>>}]
      /\ traps = [s \in Spaces |-> {0}] /\ heap = [s \in Spaces |-> HeapNew]
      /\ mapStart = HeapMax /\ regions = <<>>
      /\ pc = [t \in Tasks |-> "idle"] /\ arg = [t \in Tasks |-> 0]
      /\ execs = [s \in Spaces |-> 0] /\ panic = "no" /\ world \in Worlds
  BY DEF Init, s0
<1>3. /\ {ImageStart, HeapStart, HeapMax, Top} \subseteq Nat /\ FRAME = 2 /\ MaxThreads \in Nat
      /\ ImageStart < HeapStart /\ HeapStart <= HeapMax /\ HeapMax <= Top
      /\ Even(ImageStart) /\ Even(HeapStart) /\ Even(HeapMax)
  BY Bounds, UserMemoryAssumption DEF FRAME
<1>4. Live = {FirstTask} /\ DOMAIN regions = {}
  BY <1>1, <1>2 DEF Live
<1>5. \A s \in Spaces : Mapped(s) = PagesOf(ImageStart, HeapStart)
  BY <1>2, ImageFits DEF Mapped
<1>6. TypeOK
  <2>1. /\ space \in [Tasks -> Spaces \cup {None}] /\ number \in [Tasks -> 0..MaxThreads]
        /\ threads \in [Spaces -> 1..(MaxThreads + 1)] /\ traps \in [Spaces -> SUBSET (0..MaxThreads)]
        /\ pc \in [Tasks -> {"idle", "brk", "vdso", "vdso_map"}] /\ arg \in [Tasks -> 0..Top]
        /\ execs \in [Spaces -> {0, 1}] /\ mapStart \in HeapMax..Top /\ regions \in Seq(Regions)
    BY <1>1, <1>2, <1>3
  <2>2. /\ table \in [Spaces -> [Pages -> Prots \cup {None}]]
        /\ areas \in [Spaces -> SUBSET ((0..Top) \X (0..Top))]
        /\ heap \in [Spaces -> [start : {HeapStart}, current : 0..Top, end : 0..Top]]
    BY <1>2, ImageFits
  <2> QED
    BY <1>2, <2>1, <2>2 DEF TypeOK
<1>7. HeapShape /\ AreaShape
  BY <1>2, <1>3, ImageFits DEF HeapShape, AreaShape
<1>8. InBounds /\ NoneInHeap /\ RegionShape /\ OwnersHave
  BY <1>4 DEF InBounds, NoneInHeap, RegionShape, OwnersHave
<1>9. StepShape
  BY <1>2, <1>3 DEF StepShape
<1>10. NumbersApart
  BY <1>1, <1>2, <1>4 DEF NumbersApart
<1>11. HeapBacked /\ ImageBacked
  BY <1>2, <1>3, <1>4, <1>5, ImageFits DEF HeapBacked, ImageBacked
<1>12. AreasMatch
  <2>1. \A s \in Spaces : \A a \in Mapped(s) : a \in Int /\ a < HeapStart
    BY <1>5, ImageFits
  <2> QED
    BY <1>2, <1>3, <1>4, <2>1, ImageFits DEF AreasMatch
<1>13. PlainShape
  BY <1>1, <1>2, <1>4 DEF PlainShape
<1> QED
  BY <1>6, <1>7, <1>8, <1>9, <1>10, <1>11, <1>12, <1>13 DEF MemInv

\* No call of a program, page fault or step of a call breaks the invariant.
LEMMA NextKeeps ==
  ASSUME MemInv, [Next]_vars
  PROVE  MemInv'
<1>1. CASE UNCHANGED vars
  <2>1. UNCHANGED <<space, number, threads, table, areas, traps, heap, mapStart, regions, pc, arg, execs, panic, world>>
    BY <1>1 DEF vars, taskVars, memVars, mmapVars, callVars
  <2>2. TypeOK' /\ HeapShape' /\ AreaShape' /\ InBounds' /\ StepShape'
    BY <2>1 DEF MemInv, TypeOK, HeapShape, AreaShape, InBounds, StepShape
  <2>3. /\ Live' = Live /\ BelowHeap' = BelowHeap /\ Plain' = Plain /\ NoFixed' = NoFixed /\ Used' = Used
        /\ Pending' = Pending /\ Backed' = Backed /\ \A s \in Spaces : Mapped(s)' = Mapped(s)
    BY <2>1 DEF Live, BelowHeap, Plain, NoFixed, Used, Pending, Backed, Mapped
  <2>4. NumbersApart' /\ ImageBacked' /\ HeapBacked' /\ NoneInHeap'
    BY <2>1, <2>3 DEF MemInv, NumbersApart, ImageBacked, HeapBacked, NoneInHeap
  <2>5. RegionShape' /\ AreasMatch' /\ OwnersHave' /\ PlainShape'
    BY <2>1, <2>3 DEF MemInv, RegionShape, AreasMatch, OwnersHave, PlainShape
  <2> QED
    BY <2>2, <2>4, <2>5 DEF MemInv
<1>0. MapProts \subseteq Prots
  BY UserMemoryAssumption
<1>2. ASSUME NEW t \in Tasks, NEW len \in Lens, NEW prot \in MapProts, do_mmap(t, len, prot)
      PROVE  MemInv'
  BY <1>0, <1>2, MmapKeeps
<1>3. ASSUME NEW t \in Tasks, do_mmap_device(t)
      PROVE  MemInv'
  BY <1>3, MmapKeeps
<1>4. ASSUME NEW t \in Tasks, NEW start \in Starts, NEW len \in Lens, do_mmap_exec(t, start, len)
      PROVE  MemInv'
  <2>1. {"r", "x"} \in Prots
    BY DEF Prots
  <2> QED
    BY <1>4, <2>1, MmapFixedKeeps
<1>5. ASSUME NEW t \in Tasks, NEW start \in Starts, NEW len \in Lens, NEW prot \in MapProts,
             do_mmap_fixed(t, start, len, prot)
      PROVE  MemInv'
  BY <1>0, <1>5, MmapFixedKeeps
<1>6. ASSUME NEW t \in Tasks, NEW start, NEW len, do_munmap(t, start, len)
      PROVE  MemInv'
  BY <1>6, MunmapKeeps
<1>7. ASSUME NEW t \in Tasks, NEW j \in DOMAIN regions, NEW prot \in NewProts,
             NEW addr \in regions[j].start .. (End(regions[j]) - 1), NEW len \in 0 .. (End(regions[j]) - addr),
             do_mprotect(t, addr, len, prot)
      PROVE  MemInv'
  BY <1>7, MprotectKeeps
<1>8. ASSUME NEW t \in Tasks, NEW j \in DOMAIN regions,
             NEW addr \in PagesOf(regions[j].start, End(regions[j])), do_load_page_fault(t, addr)
      PROVE  MemInv'
  BY <1>8, FaultKeeps
<1>9. ASSUME NEW t \in Live, NEW addr \in Pointers(t), UserCopy(t, addr)
      PROVE  MemInv'
  BY <1>9, CopyKeeps
<1>10. ASSUME NEW t \in Tasks, NEW addr \in HeapStart..HeapLimit, sys_brk(t, addr)
       PROVE  MemInv'
  BY <1>10, BrkKeeps
<1>11. ASSUME NEW t \in Tasks, NEW u \in Tasks, CloneThread(t, u) \/ CloneProcess(t, u)
       PROVE  MemInv'
  BY <1>11, CloneKeeps
<1>12. ASSUME NEW t \in Tasks,
              extend_heap(t) \/ do_execve(t) \/ vdso_reserve_user_vaddr(t) \/ vdso_map_user_pages(t)
       PROVE  MemInv'
  BY <1>12, ExtendKeeps, ExecveKeeps, VdsoStepsKeep
<1>13. ASSUME NEW t \in Tasks, NEW i \in DOMAIN regions,
              LET r == regions[i]
              IN  \/ \E start \in PagesOf(r.start, End(r)) : do_munmap(t, start, r.len)
                  \/ \E prot \in NewProts, addr \in {a \in r.start .. (End(r) - 1) : a % FRAME = 0} :
                       \E len \in 0 .. (End(r) - addr) : do_mprotect(t, addr, len, prot)
                  \/ \E addr \in PagesOf(r.start, End(r)) : do_load_page_fault(t, addr)
       PROVE  MemInv'
  BY <1>6, <1>7, <1>8, <1>13
<1>14. CASE Next
  BY <1>1, <1>2, <1>3, <1>4, <1>5, <1>9, <1>10, <1>11, <1>12, <1>13, <1>14 DEF Next, Halted
<1> QED
  BY <1>1, <1>14

\* In every state of every run the page tables, the areas, the heaps and the list of regions are in
\* step, as far as the calls that the programs make allow.
THEOREM InvariantHolds == Spec => []MemInv
<1>1. Init => MemInv
  BY StartHolds
<1>2. MemInv /\ [Next]_vars => MemInv'
  BY NextKeeps
<1> QED
  BY <1>1, <1>2, PTL DEF Spec

\* What the invariant says of the tasks: their heap, trap page and regions are mapped.
LEMMA InvariantImplies ==
  ASSUME MemInv
  PROVE  AddressSpaceHolds
<1>0. TypeOK /\ HeapShape /\ NumbersApart /\ ImageBacked /\ HeapBacked /\ OwnersHave
  BY DEF MemInv
<1>1. \A t \in Live : space[t] \in Spaces /\ heap[space[t]].start = HeapStart
  BY Called
<1>2. HeapIsMapped
  <2> SUFFICES ASSUME NEW t \in Live
               PROVE  /\ heap[space[t]].current <= heap[space[t]].end
                      /\ BelowHeap => PagesOf(HeapStart, heap[space[t]].end) \subseteq Mapped(space[t])
    BY <1>1 DEF HeapIsMapped
  <2> DEFINE s == space[t]
  <2>1. /\ s \in Spaces /\ heap[s].current <= heap[s].end /\ heap[s].end \in Int
        /\ BelowHeap => PagesOf(ImageStart, heap[s].end) \subseteq Mapped(s)
    BY <1>0, <1>1 DEF HeapShape, HeapBacked, TypeOK
  <2> HIDE DEF s
  <2>2. PagesOf(HeapStart, heap[s].end) \subseteq PagesOf(ImageStart, heap[s].end)
    BY <2>1, PageIn, Bounds, SMT DEF FRAME
  <2> QED
    BY <2>1, <2>2 DEF s
<1>5. ImageIsMapped
  BY <1>0, <1>1 DEF ImageBacked, ImageIsMapped
<1>3. TrapPageIsOwn
  BY <1>0 DEF NumbersApart, TrapPageIsOwn
<1>4. OwnedRegionIsMapped
  <2> SUFFICES ASSUME panic = "no", world.fixed = {}, NEW i \in DOMAIN regions, NEW t \in Live,
                      regions[i].by = <<space[t], execs[space[t]]>>,
                      \A u \in Live : space[u] = space[t] => pc[u] # "vdso_map" \/ arg[u] # regions[i].start
               PROVE  PagesOf(regions[i].start, End(regions[i])) \subseteq Mapped(space[t])
    BY DEF OwnedRegionIsMapped
  <2> DEFINE s == space[t]
  <2>1. <<s, regions[i].start>> \notin Pending
    BY DEF Pending
  <2>2. \A p \in PagesOf(regions[i].start, End(regions[i])) : <<s, p>> \in Backed
    BY <1>0, <2>1 DEF OwnersHave, NoFixed
  <2> QED
    BY <2>2 DEF Backed, Mapped
<1> QED
  BY <1>0, <1>2, <1>3, <1>4, <1>5 DEF AddressSpaceHolds

\* What a task believes of its memory - program, stack, heap, trap context, regions - is mapped in its space,
\* for all orders of mmap, munmap, mprotect, brk, clone and execve of any number of tasks.
THEOREM SpacesHold == Spec => []AddressSpaceHolds
<1>1. MemInv => AddressSpaceHolds
  BY InvariantImplies
<1> QED
  BY <1>1, InvariantHolds, PTL

\* A program that neither forks nor execs and names no fixed address cannot make an unwrap in the
\* task domain fail, whatever its threads map, unmap, protect, copy and add to the heap.
THEOREM PlainNeverPanics == Spec => []PlainProgramNeverPanics
<1>1. MemInv => PlainProgramNeverPanics
  BY DEF MemInv, PlainShape, Plain, PlainProgramNeverPanics
<1> QED
  BY <1>1, InvariantHolds, PTL

\* MAP_FIXED over a region brings no address into the list, and keeps every address of a list whose
\* regions lie apart, and them apart.
THEOREM CutsKeepTheTiling == Spec => CutKeepsTheTiling
<1> DEFINE Cut == (\E t \in Tasks, start \in Starts, len \in Lens, prot \in Prots :
                     get_region(AlignDown(start)) # 0 /\ do_mmap_fixed(t, start, len, prot))
                    => /\ Covered(regions') \subseteq Covered(regions)
                       /\ Disjoint(regions) => Covered(regions') = Covered(regions) /\ Disjoint(regions')
<1>1. MemInv /\ [Next]_vars => [Cut]_vars
  <2> SUFFICES ASSUME MemInv, NEW t \in Tasks, NEW start \in Starts, NEW len \in Lens, NEW prot \in Prots,
                      get_region(AlignDown(start)) # 0, do_mmap_fixed(t, start, len, prot)
               PROVE  /\ Covered(regions') \subseteq Covered(regions)
                      /\ Disjoint(regions) => Covered(regions') = Covered(regions) /\ Disjoint(regions')
    OBVIOUS
  <2> DEFINE a == AlignDown(start)
  <2> DEFINE i == get_region(a)
  <2>1. start \in Int /\ len \in Int /\ 0 <= len /\ len \in 0..Top
    BY UserMemoryAssumption, Bounds
  <2>2. a \in Int /\ Even(a) /\ AlignUp(len) \in Nat /\ Even(AlignUp(len))
    BY <2>1, Rounding
  <2>3. i \in DOMAIN regions /\ InRegion(regions[i], a) /\ regions \in Seq(Regions) /\ End(regions[i]) <= Top
    BY Named DEF MemInv, InBounds
  <2>4. Recut(i, a, AlignUp(len), prot)
    BY DEF do_mmap_fixed
  <2> HIDE DEF a, i
  <2>5. regions[i].len > 0
    BY <2>2, <2>3, RegionTypes DEF InRegion
  <2>6. PICK first \in DOMAIN regions : /\ remove_region(regions[i].start) = RemoveAt(regions, first)
                                        /\ Disjoint(regions) => first = i
    BY <2>3, <2>5, FirstOne
  <2> QED
    BY <2>2, <2>3, <2>4, <2>6, CutTiles
<1> QED
  BY <1>1, InvariantHolds, PTL DEF Spec, CutKeepsTheTiling

-----------------------------------------------------------------------------
(* The image: what holds of it while it is made                             *)

\* Where the call is: nothing has happened to the task before the image is complete, and reading
\* can only come to grief when the file changes or libc.so cannot be opened.
ControlShape ==
  /\ exe \in Exes
  /\ result # Nil => phase = "done"
  /\ result = "error" => image = "old"
  /\ result = "panic_read" => edits > 0 \/ "libc" \notin exe.call.opens
  /\ phase \in {"open", "read", "parse", "load", "commit"} => image = "old" /\ stack = <<>> /\ item = 0
  /\ phase = "read" /\ edits = 0 => size = flen /\ offset <= size

\* Nothing is loaded before the file is read.
BlankShape ==
  /\ phase \in {"open", "read", "parse"} => /\ seg = 1 /\ page = Nil /\ brk = 0
                                            /\ \A a \in Addrs : mem[a] = Nil
                                            /\ \A p \in ImagePages : perm[p] = Nil
  /\ phase \in {"open", "read", "parse", "load"} => low = 0

\* addresses of a segment, and the ones its data goes to
MemOf(s) == {a \in Int : Start(s) <= a /\ a < Start(s) + s.memsz}
DataOf(s) == {a \in Int : Start(s) <= a /\ a < Start(s) + s.filesz}
\* segments that have a break of their own already, and those that have got the page of address a
Begun(k) == k < seg \/ (k = seg /\ page # Nil)
Seen(k, a) == k < seg \/ (k = seg /\ page # Nil /\ FrameDown(a) < page)

\* The segments up to the page at hand are there.
LoadShape ==
  phase = "load" =>
    /\ page # Nil => /\ page % FRAME_SIZE = 0 /\ seg <= Len(Segs)
                     /\ FrameDown(Start(Segs[seg])) <= page
    /\ \A k \in DOMAIN Segs : Begun(k) => LET s == Segs[k]
                                          IN  s.filesz <= s.memsz /\ Start(s) + s.memsz <= brk
    /\ brk = 0 \/ \E k \in DOMAIN Segs : Begun(k) /\ brk = Start(Segs[k]) + Segs[k].memsz
    /\ \A p \in ImagePages : perm[p] # Nil => p < FrameUp(brk)
    /\ \A a \in Addrs : (mem[a] = Nil) <=> (perm[FrameDown(a)] = Nil)
    /\ \A k \in DOMAIN Segs : \A a \in MemOf(Segs[k]) :
         Seen(k, a) => perm[FrameDown(a)] # Nil /\ Segs[k].perm \subseteq perm[FrameDown(a)]

\* A word that is there is that of the last segment which has data for it, or 0.
DataShape ==
  phase = "load" =>
    \A a \in Addrs : mem[a] # Nil =>
      LET over == {k \in DOMAIN Segs : Seen(k, a) /\ a \in DataOf(Segs[k])}
      IN  \/ mem[a] = 0 /\ over = {}
          \/ \E k \in over : (\A j \in over : j <= k) /\ mem[a] = Segs[k].offset + (a - Start(Segs[k])) + 1

\* What the program is when its image is complete; the addend of an entry of .rela.plt is not used.
Early == {"open", "read", "parse", "load"}
RelWord(i) ==
  Bias + (IF i <= Len(Elf.dyn) THEN Entries[i].add ELSE 0)
       + (IF Entries[i].kind = "relative" THEN 0 ELSE Entries[i].sym)
WordShape(a) ==
  LET over == {k \in DOMAIN Segs : a \in DataOf(Segs[k])}
      rel == {i \in DOMAIN Entries : Entries[i].at + Bias = a}
  IN  \/ rel = {} /\ over = {} /\ mem[a] = 0
      \/ /\ rel = {}
         /\ \E k \in over : (\A j \in over : j <= k) /\ mem[a] = Segs[k].offset + (a - Start(Segs[k])) + 1
      \/ \E i \in rel : (\A j \in rel : j <= i) /\ mem[a] = RelWord(i)
LoadedShape ==
  phase \notin Early /\ low > 0 =>
    /\ DOMAIN Entries \subseteq Nat
    /\ \A k \in DOMAIN Segs : \A a \in MemOf(Segs[k]) : Segs[k].perm \subseteq perm[FrameDown(a)] /\ WordShape(a)
    /\ \A p \in ImagePages : perm[p] # Nil =>
         \/ p < low - FRAME_SIZE
         \/ p \in exe.core /\ (p >= low \/ \E k \in DOMAIN Segs : Segs[k].memsz = 0)

\* what is pushed above the strings, from the top down
EnvLen == Len(exe.call.envp)
PairWord(j) == LET k == Keys[j \div 2 + 1] IN IF j % 2 = 0 THEN <<"value", k>> ELSE k
Word(j) ==
  LET K == 2 * Len(Keys) IN
  IF j \in {0, K + 1, K + EnvLen + 2} THEN 0
  ELSE IF j <= K THEN PairWord(j - 1)
  ELSE IF j <= K + EnvLen + 1 THEN ptrs.envp[j - (K + 1)]
  ELSE IF j <= K + EnvLen + Len(argv) + 2 THEN ptrs.argv[j - (K + EnvLen + 2)]
  ELSE Len(argv)

\* how many of those words are pushed before item i of phase p
DepthAt(p, i) ==
  LET K == 2 * Len(Keys)
      m == EnvLen
      n == Len(argv)
  IN  CASE p = "aux" -> IF i = 4 THEN 1 ELSE 0
        [] p = "auxv" -> 1 + i
        [] p = "nul1" -> K + 1 + i
        [] p = "envptr" -> K + 2 + i
        [] p = "nul2" -> K + m + 2 + i
        [] p = "argptr" -> K + m + 3 + i
        [] p = "argc" -> K + m + n + 3 + i
        [] p = "done" -> K + m + n + 4
        [] OTHER -> 0
Depth == DepthAt(phase, item)

\* strings with their tag, number and length, and the words on the stack
StringSet == {"env", "arg", "libc"} \X Nat \X (Nat \ {0})
KeyWords == {Keys[i] : i \in DOMAIN Keys} \cup {<<"value", Keys[i]>> : i \in DOMAIN Keys}
WordSet == Nat \cup {"random", "platform", "path"} \cup StringSet \cup KeyWords

\* a list of positions in st, where the members of p lie from the last one on
PointsInto(st, list, p) ==
  \A k \in 1..Len(list) : list[k] \in 1..Len(st) /\ st[list[k]] = p[Len(p) + 1 - k]
Pointed(list, p) == PointsInto(stack, list, p)

\* how many items a phase has
ItemsOf ==
  [open |-> 0, read |-> 0, parse |-> 0, load |-> 0, commit |-> 0, done |-> 0,
   envp |-> EnvLen, argv |-> Len(argv), aux |-> 4, auxv |-> 2 * Len(Keys), nul1 |-> 1, envptr |-> EnvLen,
   nul2 |-> 1, argptr |-> Len(argv), argc |-> 1]

\* the phases before the strings are pushed
NoStack == {"open", "read", "parse", "load", "commit"}

StackTypes ==
  /\ argv \in Seq(StringSet) /\ stack \in Seq(WordSet)
  /\ ptrs \in [argv : Seq(Nat), envp : Seq(Nat)]
  /\ Len(stack) <= exe.call.stack + 1

\* The strings lie where the pointers say, and above them what has been pushed.
StackShape ==
  result \in {Nil, "ok"} =>
    /\ phase # "done" => item \in 0..ItemsOf[phase]
    /\ Pointed(ptrs.envp, Strings("env", exe.call.envp)) /\ Pointed(ptrs.argv, argv)
    /\ Len(ptrs.envp) = IF phase \in NoStack THEN 0 ELSE IF phase = "envp" THEN item ELSE EnvLen
    /\ Len(ptrs.argv) = IF phase \in NoStack \cup {"envp"} THEN 0 ELSE IF phase = "argv" THEN item ELSE Len(argv)
    /\ Depth <= Len(stack) /\ \A j \in 0..(Depth - 1) : stack[Len(stack) - Depth + 1 + j] = Word(j)

ImageInv ==
  /\ ImageTypeOK /\ ControlShape /\ BlankShape /\ LoadShape /\ DataShape /\ LoadedShape
  /\ StackTypes /\ StackShape

-----------------------------------------------------------------------------
(* The image: frames and files                                              *)

\* Division by the frame size.
LEMMA FrameDiv ==
  ASSUME NEW a \in Int
  PROVE  a = FRAME_SIZE * (a \div FRAME_SIZE) + (a % FRAME_SIZE) /\ a % FRAME_SIZE \in 0..(FRAME_SIZE - 1)
         /\ a \div FRAME_SIZE \in Int
<1>1. FRAME_SIZE \in Nat \ {0}
  BY UserImageAssumption
<1> QED
  BY <1>1, SMT

\* Two frames do not overlap.
LEMMA FrameGap ==
  ASSUME NEW p \in Int, NEW q \in Int, p % FRAME_SIZE = 0, q % FRAME_SIZE = 0, p < q
  PROVE  p + FRAME_SIZE <= q
<1>1. FRAME_SIZE \in Nat \ {0}
  BY UserImageAssumption
<1>2. /\ p = FRAME_SIZE * (p \div FRAME_SIZE) /\ q = FRAME_SIZE * (q \div FRAME_SIZE)
      /\ p \div FRAME_SIZE \in Int /\ q \div FRAME_SIZE \in Int
  BY <1>1, FrameDiv
<1>3. p \div FRAME_SIZE < q \div FRAME_SIZE
  BY <1>1, <1>2, SMT
<1>4. FRAME_SIZE * (p \div FRAME_SIZE) + FRAME_SIZE <= FRAME_SIZE * (q \div FRAME_SIZE)
  BY <1>1, <1>2, <1>3, SMT
<1> QED
  BY <1>2, <1>4

\* Remainder and quotient are unique.
LEMMA FrameRemainder ==
  ASSUME NEW a \in Int, NEW k \in Int, a = FRAME_SIZE * k
  PROVE  a % FRAME_SIZE = 0
<1>1. FRAME_SIZE \in Nat \ {0}
  BY UserImageAssumption
<1> DEFINE d == a \div FRAME_SIZE
<1> DEFINE m == a % FRAME_SIZE
<1>2. a = FRAME_SIZE * d + m /\ m \in 0..(FRAME_SIZE - 1) /\ d \in Int
  BY FrameDiv
<1> HIDE DEF d, m
<1>3. FRAME_SIZE * (k - d) = m
  BY <1>1, <1>2, SMT
<1>4. ~ k > d
  <2>1. ASSUME k > d
        PROVE  FRAME_SIZE * (k - d) >= FRAME_SIZE
    BY <1>1, <1>2, <2>1, SMT
  <2> QED
    BY <1>1, <1>2, <1>3, <2>1
<1>5. ~ k < d
  <2>1. ASSUME k < d
        PROVE  FRAME_SIZE * (k - d) <= -FRAME_SIZE
    BY <1>1, <1>2, <2>1, SMT
  <2> QED
    BY <1>1, <1>2, <1>3, <2>1
<1>6. m = 0
  <2>1. k = d
    BY <1>2, <1>4, <1>5
  <2> QED
    BY <1>1, <1>2, <1>3, <2>1, SMT
<1> QED
  BY <1>6 DEF m

\* The frames next to a frame.
LEMMA FrameNext ==
  ASSUME NEW p \in Int, p % FRAME_SIZE = 0
  PROVE  (p + FRAME_SIZE) % FRAME_SIZE = 0 /\ (p - FRAME_SIZE) % FRAME_SIZE = 0
<1>1. FRAME_SIZE \in Nat \ {0}
  BY UserImageAssumption
<1>2. p = FRAME_SIZE * (p \div FRAME_SIZE) /\ p \div FRAME_SIZE \in Int
  BY <1>1, FrameDiv
<1> DEFINE d == p \div FRAME_SIZE
<1> HIDE DEF d
<1>3. d \in Int /\ p = FRAME_SIZE * d
  BY <1>2 DEF d
<1>4. p + FRAME_SIZE = FRAME_SIZE * (d + 1) /\ p - FRAME_SIZE = FRAME_SIZE * (d - 1)
  BY <1>1, <1>3, SMT
<1> QED
  BY <1>1, <1>3, <1>4, FrameRemainder

\* Rounding to a frame.
LEMMA FrameFacts ==
  ASSUME NEW a \in Int
  PROVE  /\ FrameDown(a) \in Int /\ FrameDown(a) % FRAME_SIZE = 0
         /\ FrameDown(a) <= a /\ a < FrameDown(a) + FRAME_SIZE
         /\ FrameUp(a) \in Int /\ FrameUp(a) % FRAME_SIZE = 0 /\ a <= FrameUp(a) /\ FrameUp(a) < a + FRAME_SIZE
         /\ 0 <= a => 0 <= FrameDown(a)
<1>1. FRAME_SIZE \in Nat \ {0}
  BY UserImageAssumption
<1>2. ASSUME NEW x \in Int
      PROVE  /\ FrameDown(x) \in Int /\ FrameDown(x) % FRAME_SIZE = 0
             /\ FrameDown(x) <= x /\ x < FrameDown(x) + FRAME_SIZE
  <2>1. x = FRAME_SIZE * (x \div FRAME_SIZE) + (x % FRAME_SIZE) /\ x % FRAME_SIZE \in 0..(FRAME_SIZE - 1)
        /\ x \div FRAME_SIZE \in Int
    BY FrameDiv
  <2>2. FrameDown(x) = FRAME_SIZE * (x \div FRAME_SIZE) /\ FrameDown(x) \in Int
    BY <1>1, <2>1, SMT DEF FrameDown
  <2>3. FrameDown(x) % FRAME_SIZE = 0
    BY <2>1, <2>2, FrameRemainder
  <2> QED
    BY <1>1, <2>1, <2>3 DEF FrameDown
<1>3. a + FRAME_SIZE - 1 \in Int
  BY <1>1
<1>4. 0 <= a => 0 <= FrameDown(a)
  <2>1. 0 % FRAME_SIZE = 0
    BY <1>1, FrameRemainder
  <2>2. 0 <= a /\ FrameDown(a) < 0 => FrameDown(a) + FRAME_SIZE <= 0
    BY <1>2, <2>1, FrameGap
  <2> QED
    BY <1>1, <1>2, <2>2
<1> QED
  BY <1>1, <1>2, <1>3, <1>4 DEF FrameUp

\* The frame of an address is the one that it lies in.
LEMMA FrameOf ==
  ASSUME NEW p \in Int, NEW a \in Int, p % FRAME_SIZE = 0, p <= a, a < p + FRAME_SIZE
  PROVE  FrameDown(a) = p
<1>1. FRAME_SIZE \in Nat \ {0}
  BY UserImageAssumption
<1> DEFINE f == FrameDown(a)
<1>2. f \in Int /\ f % FRAME_SIZE = 0 /\ f <= a /\ a < f + FRAME_SIZE
  BY FrameFacts
<1> HIDE DEF f
<1>3. ~ f < p
  <2>1. f < p => f + FRAME_SIZE <= p
    BY <1>2, FrameGap
  <2> QED
    BY <1>1, <1>2, <2>1
<1>4. ~ p < f
  <2>1. p < f => p + FRAME_SIZE <= f
    BY <1>2, FrameGap
  <2> QED
    BY <1>1, <1>2, <2>1
<1>5. f = p
  BY <1>2, <1>3, <1>4
<1> QED
  BY <1>5 DEF f

\* Rounding respects the order.
LEMMA FrameOrder ==
  ASSUME NEW a \in Int, NEW b \in Int, a <= b
  PROVE  FrameDown(a) <= FrameDown(b) /\ FrameUp(a) <= FrameUp(b)
<1>1. FRAME_SIZE \in Nat \ {0}
  BY UserImageAssumption
<1>2. ASSUME NEW x \in Int, NEW y \in Int, x <= y
      PROVE  FrameDown(x) <= FrameDown(y)
  <2>1. FrameDown(y) < FrameDown(x) => FrameDown(y) + FRAME_SIZE <= FrameDown(x)
    BY FrameFacts, FrameGap
  <2>2. /\ FrameDown(x) \in Int /\ FrameDown(y) \in Int
        /\ FrameDown(x) <= x /\ y < FrameDown(y) + FRAME_SIZE
    BY FrameFacts
  <2> QED
    BY <1>1, <1>2, <2>1, <2>2
<1>3. a + FRAME_SIZE - 1 \in Int /\ b + FRAME_SIZE - 1 \in Int /\ a + FRAME_SIZE - 1 <= b + FRAME_SIZE - 1
  BY <1>1
<1> QED
  BY <1>2, <1>3 DEF FrameUp

\* An address of the image lies on a page of it.
LEMMA PageOf ==
  ASSUME NEW a \in Addrs
  PROVE  a \in Int /\ FrameDown(a) \in ImagePages /\ FrameDown(a) \in Nat
<1>1. a \in Int /\ 0 <= a /\ a < Space /\ Space \in Nat
  BY UserImageAssumption DEF Addrs
<1>2. FrameDown(a) \in Int /\ FrameDown(a) % FRAME_SIZE = 0 /\ FrameDown(a) <= a /\ 0 <= FrameDown(a)
  BY <1>1, FrameFacts
<1> QED
  BY <1>1, <1>2 DEF ImagePages, Addrs

\* The pages of the image lie below its end.
LEMMA PageBelow ==
  ASSUME NEW p \in Int, p % FRAME_SIZE = 0, 0 <= p, NEW e \in Int, e <= Space, p < FrameUp(e)
  PROVE  p \in ImagePages
<1>1. FRAME_SIZE \in Nat \ {0} /\ Space \in Nat /\ Space % FRAME_SIZE = 0
  BY UserImageAssumption
<1>2. FrameUp(Space) = Space
  <2>1. FrameUp(Space) \in Int /\ FrameUp(Space) % FRAME_SIZE = 0 /\ Space <= FrameUp(Space)
        /\ FrameUp(Space) < Space + FRAME_SIZE
    <3>1. Space \in Int
      BY <1>1
    <3> QED
      BY <3>1, FrameFacts, Zenon
  <2>2. Space < FrameUp(Space) => Space + FRAME_SIZE <= FrameUp(Space)
    BY <1>1, <2>1, FrameGap
  <2> QED
    BY <1>1, <2>1, <2>2
<1>3. FrameUp(e) <= FrameUp(Space) /\ FrameUp(e) \in Int
  BY <1>1, FrameOrder, FrameFacts
<1> QED
  BY <1>1, <1>2, <1>3 DEF ImagePages, Addrs

\* The file at hand.
LEMMA ElfFacts ==
  ASSUME exe \in Exes, cur \in {"prog", "libc"}
  PROVE  /\ Elf \in File /\ Bias \in Nat /\ Segs \in Seq(Segment) /\ Len(Segs) \in Nat
         /\ DOMAIN Segs = 1..Len(Segs)
         /\ \A k \in DOMAIN Segs : LET s == Segs[k]
                                   IN  /\ {s.offset, s.start, s.filesz, s.memsz} \subseteq Nat
                                       /\ s.perm \in SUBSET Rights
                                       /\ Start(s) \in Nat /\ Start(s) + s.memsz <= Space
<1>1. Elf \in File /\ Fits(Elf) /\ BIAS \in Nat /\ Space \in Nat
  BY UserImageAssumption DEF Elf
<1>2. Bias \in {0, BIAS}
  BY DEF Bias
<1>3. Segs \in Seq(Segment)
  BY <1>1 DEF Segs, File
<1>4. Len(Segs) \in Nat /\ DOMAIN Segs = 1..Len(Segs)
  BY <1>3
<1>5. ASSUME NEW k \in DOMAIN Segs
      PROVE  LET s == Segs[k]
             IN  /\ {s.offset, s.start, s.filesz, s.memsz} \subseteq Nat
                 /\ s.perm \in SUBSET Rights
                 /\ Start(s) \in Nat /\ Start(s) + s.memsz <= Space
  <2> DEFINE s == Segs[k]
  <2>1. s \in Segment
    BY <1>3, <1>5
  <2> HIDE DEF s
  <2>2. {s.offset, s.start, s.filesz, s.memsz} \subseteq Nat /\ s.perm \in SUBSET Rights
    BY <2>1 DEF Segment
  <2>3. BIAS + s.start + s.memsz <= Space
    BY <1>1 DEF Fits, s, Segs
  <2>4. Start(s) \in Nat /\ Start(s) + s.memsz <= Space
    BY <1>1, <1>2, <2>2, <2>3 DEF Start
  <2> QED
    BY <2>2, <2>4 DEF s
<1> QED
  BY <1>1, <1>2, <1>3, <1>4, <1>5

-----------------------------------------------------------------------------
(* The image: reading and the ends of a call                                *)

\* The parts of the invariant that do not change once the image is loaded.
LEMMA LoadKept ==
  ASSUME ImageInv, phase \notin Early, phase' \notin Early, UNCHANGED <<exe, fileVars, loadVars>>
  PROVE  BlankShape' /\ LoadShape' /\ DataShape' /\ LoadedShape'
<1>1. UNCHANGED <<exe, cur, seg, page, mem, perm, brk, low>>
  BY DEF fileVars, loadVars
<1>2. LoadedShape
  BY DEF ImageInv
<1>3. BlankShape' /\ LoadShape' /\ DataShape'
  BY DEF Early, BlankShape, LoadShape, DataShape
<1>4. LoadedShape'
  <2>1. Segs' = Segs /\ Bias' = Bias /\ Entries' = Entries /\ Elf' = Elf
    BY <1>1 DEF Segs, Bias, Entries, Elf
  <2>2. \A s : Start(s)' = Start(s) /\ MemOf(s)' = MemOf(s) /\ DataOf(s)' = DataOf(s)
    BY <2>1 DEF Start, MemOf, DataOf
  <2>3. \A i : RelWord(i)' = RelWord(i)
    BY <2>1 DEF RelWord
  <2>4. \A a : WordShape(a)' <=> WordShape(a)
    BY <1>1, <2>1, <2>2, <2>3 DEF WordShape
  <2> QED
    BY <1>1, <1>2, <2>1, <2>2, <2>4 DEF LoadedShape
<1> QED
  BY <1>3, <1>4

\* Nothing is pushed before the image is in place.
LEMMA StackKept ==
  ASSUME ImageInv, phase \in Early \cup {"commit"}, phase' \in Early \cup {"commit", "envp"}, result' = Nil,
         UNCHANGED <<exe, stackVars>>, argv' \in Seq(StringSet)
  PROVE  StackTypes' /\ StackShape'
<1>1. UNCHANGED <<exe, stack, ptrs, item>> /\ result = Nil
  BY DEF ImageInv, ControlShape, Early, stackVars
<1>2. StackTypes' /\ stack = <<>> /\ item = 0
  <2>1. stack = <<>> /\ item = 0
    BY DEF ImageInv, ControlShape, Early
  <2>2. stack' \in Seq(WordSet')
    BY <1>1, <2>1
  <2> QED
    BY <1>1, <2>1, <2>2 DEF ImageInv, StackTypes
<1>3. Len(ptrs.envp) = 0 /\ Len(ptrs.argv) = 0 /\ ptrs.envp \in Seq(Nat) /\ ptrs.argv \in Seq(Nat)
  BY <1>1 DEF ImageInv, StackTypes, StackShape, Early, NoStack
<1>4. DOMAIN ptrs.envp = {} /\ DOMAIN ptrs.argv = {}
  BY <1>3
<1>5. Depth' = 0 /\ Len(stack') = 0
  BY <1>1, <1>2 DEF Depth, DepthAt, Early
<1>6. EnvLen' \in Nat /\ Len(argv') \in Nat /\ item' \in 0..ItemsOf[phase]'
  <2>1. exe.call.envp \in Seq(Nat \ {0})
    BY UserImageAssumption DEF ImageInv, ControlShape
  <2>2. EnvLen \in Nat /\ EnvLen' = EnvLen
    BY <1>1, <2>1 DEF EnvLen
  <2>3. phase' \in NoStack => ItemsOf'[phase'] = 0
    BY DEF ItemsOf, NoStack
  <2>4. phase' = "envp" => ItemsOf'[phase'] = EnvLen
    BY <2>2 DEF ItemsOf
  <2> QED
    BY <1>1, <1>2, <2>2, <2>3, <2>4 DEF Early, NoStack
<1>7. /\ Pointed(ptrs.envp, Strings("env", exe.call.envp))' /\ Pointed(ptrs.argv, argv)'
  BY <1>1, <1>3 DEF Pointed, PointsInto
<1>8. StackShape'
  BY <1>1, <1>2, <1>3, <1>5, <1>6, <1>7 DEF StackShape, Early, NoStack
<1> QED
  BY <1>2, <1>8

\* An end without an image.
LEMMA FinishKeeps ==
  ASSUME ImageInv, phase \in Early, NEW r \in {"error", "panic", "panic_read"}, Finish(r),
         r = "panic_read" => edits > 0 \/ "libc" \notin exe.call.opens
  PROVE  ImageInv'
<1>1. /\ phase' = "done" /\ result' = r /\ low = 0 /\ image = "old"
      /\ UNCHANGED <<exe, cur, flen, edits, size, offset, seg, page, mem, perm, brk, low, argv, stack, ptrs, item, image>>
  BY DEF ImageInv, BlankShape, ControlShape, Early, Finish, fileVars, loadVars, stackVars
<1>2. ImageTypeOK'
  BY <1>1 DEF ImageInv, ImageTypeOK, Segs, Elf
<1>3. ControlShape' /\ BlankShape' /\ LoadShape' /\ DataShape' /\ LoadedShape'
  BY <1>1 DEF ImageInv, ControlShape, BlankShape, LoadShape, DataShape, LoadedShape
<1>4. r \notin {Nil, "ok"}
  BY UserImageAssumption
<1>5. StackTypes' /\ StackShape'
  <2>1. WordSet' = WordSet
    BY <1>1 DEF WordSet, KeyWords, Keys, KeySet
  <2> QED
    BY <1>1, <1>4, <2>1 DEF ImageInv, StackTypes, StackShape
<1> QED
  BY <1>2, <1>3, <1>5 DEF ImageInv

\* A step before the segments are loaded.
LEMMA BlankKept ==
  ASSUME ImageInv, phase \in {"open", "read", "parse"}, phase' \in {"open", "read", "parse"},
         cur' \in {"prog", "libc"}, UNCHANGED <<exe, loadVars>>
  PROVE  BlankShape' /\ LoadShape' /\ DataShape' /\ LoadedShape' /\ seg' \in 1..(Len(Segs') + 1)
<1>1. UNCHANGED <<exe, seg, page, mem, perm, brk, low>> /\ seg = 1 /\ low = 0
  BY DEF ImageInv, BlankShape, loadVars
<1>2. BlankShape' /\ LoadShape' /\ DataShape' /\ LoadedShape'
  BY <1>1 DEF ImageInv, BlankShape, LoadShape, DataShape, LoadedShape, Early
<1>3. Len(Segs)' \in Nat
  <2>1. exe' \in Exes /\ Libc \in File
    BY <1>1, UserImageAssumption DEF ImageInv, ControlShape
  <2>2. exe'.file \in File
    BY <2>1, UserImageAssumption
  <2>3. Elf' \in File
    BY <2>1, <2>2 DEF Elf
  <2>4. Elf'.segs \in Seq(Segment)
    BY <2>3 DEF File
  <2> QED
    BY <2>4 DEF Segs
<1> QED
  BY <1>1, <1>2, <1>3

\* Open keeps the invariant.
LEMMA OpenKeeps ==
  ASSUME ImageInv, Open
  PROVE  ImageInv'
<1>1. phase = "open" /\ result = Nil /\ image = "old"
  BY DEF ImageInv, ControlShape, Open
<1>2. CASE cur = "prog" /\ Finish("error")
  BY <1>1, <1>2, FinishKeeps DEF Early
<1>4. CASE cur \notin exe.call.opens /\ ReadFails
  BY <1>1, <1>4, FinishKeeps DEF ReadFails, Early, ImageInv, ImageTypeOK
<1>3. CASE size' = flen /\ offset' = 0 /\ Go("read") /\ UNCHANGED <<cur, flen, edits, loadVars, argv, stackVars, image>>
  <2>1. UNCHANGED <<exe, result, seg, page, mem, perm, brk, low, stack, ptrs, item>> /\ phase' = "read"
    BY <1>3 DEF Go, loadVars, stackVars
  <2>2. BlankShape' /\ LoadShape' /\ DataShape' /\ LoadedShape' /\ seg' \in 1..(Len(Segs') + 1)
    BY <1>1, <1>3, <2>1, BlankKept DEF ImageInv, ImageTypeOK, Go
  <2>3. ImageTypeOK'
    BY <1>3, <2>1, <2>2 DEF ImageInv, ImageTypeOK, Segs
  <2>4. ControlShape'
    BY <1>1, <1>3, <2>1 DEF ImageInv, ControlShape, ImageTypeOK
  <2>5. StackTypes' /\ StackShape'
    BY <1>1, <1>3, <2>1, StackKept DEF ImageInv, StackTypes, Early
  <2> QED
    BY <2>2, <2>3, <2>4, <2>5 DEF ImageInv
<1> QED
  BY <1>2, <1>3, <1>4 DEF Open, ReadFails

\* The file changes.
LEMMA EditKeeps ==
  ASSUME ImageInv, Edit
  PROVE  ImageInv'
<1>1. /\ phase \in {"open", "read"} /\ phase' = phase /\ result' = result /\ result = Nil /\ cur' = cur
      /\ flen' \in Nat /\ edits' \in 1..MaxEdits
      /\ UNCHANGED <<exe, size, offset, seg, page, mem, perm, brk, low, argv, stack, ptrs, item, image>>
  BY UserImageAssumption DEF ImageInv, ControlShape, ImageTypeOK, Edit, loadVars, stackVars
<1>2. BlankShape' /\ LoadShape' /\ DataShape' /\ LoadedShape' /\ seg' \in 1..(Len(Segs') + 1)
  BY <1>1, BlankKept DEF ImageInv, ImageTypeOK, loadVars
<1>3. ImageTypeOK'
  BY <1>1, <1>2 DEF ImageInv, ImageTypeOK, Segs
<1>4. ControlShape'
  BY <1>1 DEF ImageInv, ControlShape
<1>5. StackTypes' /\ StackShape'
  BY <1>1, StackKept DEF ImageInv, StackTypes, Early, stackVars
<1> QED
  BY <1>2, <1>3, <1>4, <1>5 DEF ImageInv

\* A chunk keeps the invariant; only a file that changed is longer or shorter than it was.
LEMMA ReadKeeps ==
  ASSUME ImageInv, Read
  PROVE  ImageInv'
<1> DEFINE n == IF offset >= flen THEN 0 ELSE IF flen - offset < CHUNK THEN flen - offset ELSE CHUNK
<1>1. /\ phase = "read" /\ result = Nil /\ image = "old" /\ edits \in 0..MaxEdits /\ MaxEdits \in Nat
      /\ flen \in Nat /\ size \in Nat /\ offset \in Nat /\ CHUNK \in Nat \ {0} /\ cur \in {"prog", "libc"}
      /\ edits = 0 => size = flen /\ offset <= size
  BY UserImageAssumption DEF ImageInv, ControlShape, ImageTypeOK, Read
<1>2. n \in Nat /\ (n = 0 => offset >= flen) /\ (offset < flen => offset + n <= flen)
  BY <1>1
<1>3. \/ offset < size /\ n = 0 /\ ReadFails
      \/ /\ offset < size /\ n > 0 /\ offset' = offset + n /\ Go("read")
         /\ UNCHANGED <<cur, flen, edits, size, loadVars, argv, stackVars, image>>
      \/ offset > size /\ Finish("panic_read")
      \/ offset = size /\ Go("parse") /\ UNCHANGED <<fileVars, loadVars, argv, stackVars, image>>
  BY DEF Read
<1> HIDE DEF n
<1>4. CASE offset < size /\ n = 0 /\ ReadFails
  <2>1. edits > 0
    BY <1>1, <1>2, <1>4
  <2> QED
    BY <1>1, <1>4, <2>1, FinishKeeps DEF ReadFails, Early
<1>5. CASE offset > size /\ Finish("panic_read")
  <2>1. edits > 0
    BY <1>1, <1>5
  <2> QED
    BY <1>1, <1>5, <2>1, FinishKeeps DEF Early
<1>6. CASE /\ phase' \in {"read", "parse"} /\ offset' \in Nat /\ (edits = 0 => offset' <= size)
           /\ UNCHANGED <<exe, result, cur, flen, edits, size, loadVars, argv, stackVars, image>>
  <2>1. UNCHANGED <<exe, result, cur, flen, edits, size, seg, page, mem, perm, brk, low, argv, stack, ptrs, item, image>>
    BY <1>6 DEF loadVars, stackVars
  <2>2. BlankShape' /\ LoadShape' /\ DataShape' /\ LoadedShape' /\ seg' \in 1..(Len(Segs') + 1)
    BY <1>1, <1>6, BlankKept
  <2>3. ImageTypeOK'
    BY <1>1, <1>6, <2>1, <2>2 DEF ImageInv, ImageTypeOK
  <2>4. ControlShape'
    BY <1>1, <1>6, <2>1 DEF ImageInv, ControlShape
  <2>5. StackTypes' /\ StackShape'
    BY <1>1, <1>6, <2>1, StackKept DEF ImageInv, StackTypes, Early
  <2> QED
    BY <2>2, <2>3, <2>4, <2>5 DEF ImageInv
<1>7. CASE offset < size /\ n > 0 /\ offset' = offset + n /\ Go("read")
           /\ UNCHANGED <<cur, flen, edits, size, loadVars, argv, stackVars, image>>
  <2>1. offset' \in Nat /\ (edits = 0 => offset' <= size)
    BY <1>1, <1>2, <1>7
  <2> QED
    BY <1>6, <1>7, <2>1 DEF Go
<1>8. CASE offset = size /\ Go("parse") /\ UNCHANGED <<fileVars, loadVars, argv, stackVars, image>>
  <2>1. offset' = offset /\ offset' \in Nat /\ (edits = 0 => offset' <= size)
    BY <1>1, <1>8 DEF fileVars
  <2> QED
    BY <1>6, <1>8, <2>1 DEF Go, fileVars
<1> QED
  BY <1>3, <1>4, <1>5, <1>7, <1>8

\* The head of the file keeps the invariant.
LEMMA ParseKeeps ==
  ASSUME ImageInv, Parse
  PROVE  ImageInv'
<1>1. phase = "parse" /\ result = Nil /\ image = "old"
  BY DEF ImageInv, ControlShape, Parse
<1>2. CASE Finish("error")
  BY <1>1, <1>2, FinishKeeps DEF Early
<1>3. CASE /\ argv' = <<<<"libc", 1, 1>>>> \o argv
           /\ cur' = "libc" /\ flen' = Libc.len /\ edits' = 0 /\ size' = 0 /\ offset' = 0 /\ Go("open")
           /\ UNCHANGED <<loadVars, stackVars, image>>
  <2>1. /\ UNCHANGED <<exe, result, seg, page, mem, perm, brk, low, stack, ptrs, item, image>> /\ phase' = "open"
    BY <1>3 DEF Go, loadVars, stackVars
  <2>2. BlankShape' /\ LoadShape' /\ DataShape' /\ LoadedShape' /\ seg' \in 1..(Len(Segs') + 1)
    BY <1>1, <1>3, <2>1, BlankKept
  <2>3. argv' \in Seq(StringSet)
    <3>1. <<"libc", 1, 1>> \in StringSet
      BY DEF StringSet
    <3>2. <<<<"libc", 1, 1>>>> \in Seq(StringSet)
      BY <3>1
    <3>3. argv \in Seq(StringSet)
      BY DEF ImageInv, StackTypes
    <3> QED
      BY <1>3, <3>2, <3>3
  <2>4. flen' \in Nat /\ MaxEdits \in Nat
    <3>1. Libc \in File /\ MaxEdits \in Nat
      BY UserImageAssumption
    <3>2. Libc.len \in Nat
      BY <3>1 DEF File
    <3> QED
      BY <1>3, <3>1, <3>2
  <2>5. ImageTypeOK'
    <3>1. cur' \in {"prog", "libc"} /\ {flen, size, offset}' \subseteq Nat /\ edits' \in 0..MaxEdits
      BY <1>3, <2>4
    <3>2. ImageTypeOK
      BY DEF ImageInv
    <3> QED
      BY <2>1, <2>2, <3>1, <3>2 DEF ImageTypeOK
  <2>6. ControlShape'
    <3>1. Nil # "panic_read"
      BY UserImageAssumption
    <3> QED
      BY <1>1, <1>3, <2>1, <3>1 DEF ImageInv, ControlShape
  <2>7. StackTypes' /\ StackShape'
    BY <1>1, <1>3, <2>1, <2>3, StackKept DEF Early
  <2> QED
    BY <2>2, <2>5, <2>6, <2>7 DEF ImageInv
<1>4. CASE Go("load") /\ UNCHANGED <<fileVars, loadVars, argv, stackVars, image>>
  <2>1. /\ UNCHANGED <<exe, result, cur, flen, edits, size, offset, seg, page, mem, perm, brk, low, argv, stack, ptrs, item, image>>
        /\ phase' = "load"
    BY <1>4 DEF Go, fileVars, loadVars, stackVars
  <2>2. /\ seg = 1 /\ page = Nil /\ brk = 0 /\ low = 0
        /\ (\A a \in Addrs : mem[a] = Nil) /\ (\A p \in ImagePages : perm[p] = Nil)
    BY <1>1 DEF ImageInv, BlankShape
  <2>3. ImageTypeOK'
    BY <2>1 DEF ImageInv, ImageTypeOK, Segs, Elf
  <2>4. ControlShape'
    BY <1>1, <2>1 DEF ImageInv, ControlShape
  <2>5. BlankShape' /\ LoadedShape'
    BY <2>1, <2>2 DEF BlankShape, LoadedShape, Early
  <2>6. exe' \in Exes /\ cur' \in {"prog", "libc"}
    BY <2>1 DEF ImageInv, ControlShape, ImageTypeOK
  <2>7. \A k \in DOMAIN Segs' : k \in Int /\ k >= 1
    <3>1. DOMAIN Segs = 1..Len(Segs) /\ Len(Segs) \in Nat /\ Segs' = Segs
      BY <2>1, <2>6, ElfFacts DEF Segs, Elf
    <3> QED
      BY <3>1
  <2>8. \A k \in DOMAIN Segs' : ~Begun(k)' /\ \A a : ~Seen(k, a)'
    BY <2>1, <2>2, <2>7 DEF Begun, Seen
  <2>9. LoadShape'
    <3>1. \A a \in Addrs : (mem'[a] = Nil) <=> (perm'[FrameDown(a)] = Nil)
      BY <2>1, <2>2, PageOf
    <3> QED
      BY <2>1, <2>2, <2>8, <3>1 DEF LoadShape
  <2>10. DataShape'
    BY <2>1, <2>2 DEF DataShape
  <2>11. StackTypes' /\ StackShape'
    BY <1>1, <1>4, <2>1, StackKept DEF ImageInv, StackTypes, Early
  <2> QED
    BY <2>3, <2>4, <2>5, <2>9, <2>10, <2>11 DEF ImageInv
<1> QED
  BY <1>2, <1>3, <1>4 DEF Parse

\* So does refusing a segment.
LEMMA RefuseKeeps ==
  ASSUME ImageInv, Refuse \/ MapStackPanics
  PROVE  ImageInv'
  BY FinishKeeps DEF Refuse, MapStackPanics, Early

-----------------------------------------------------------------------------
(* The image: the segments                                                  *)

\* What loading a page or ending a segment leaves alone.
LEMMA LoadStep ==
  ASSUME ImageInv, phase = "load", Go("load"), UNCHANGED <<fileVars, low, argv, stackVars, image>>
  PROVE  /\ ControlShape' /\ BlankShape' /\ LoadedShape' /\ StackTypes' /\ StackShape'
         /\ UNCHANGED <<exe, cur, size, low, result>> /\ phase' = "load" /\ result = Nil /\ low = 0
         /\ Segs' = Segs /\ Bias' = Bias
         /\ \A s : Start(s)' = Start(s) /\ MemOf(s)' = MemOf(s) /\ DataOf(s)' = DataOf(s)
<1>1. /\ phase' = "load" /\ result = Nil /\ low = 0
      /\ UNCHANGED <<exe, cur, flen, edits, size, offset, low, argv, stack, ptrs, item, image, result>>
  BY DEF ImageInv, ControlShape, BlankShape, Go, fileVars, stackVars
<1>2. ControlShape' /\ BlankShape' /\ LoadedShape'
  BY <1>1 DEF ImageInv, ControlShape, BlankShape, LoadedShape, Early
<1>3. StackTypes' /\ StackShape'
  BY <1>1, StackKept DEF ImageInv, StackTypes, Early, stackVars
<1>4. Segs' = Segs /\ Bias' = Bias
  BY <1>1 DEF Segs, Bias, Elf
<1> QED
  BY <1>1, <1>2, <1>3, <1>4 DEF Start, MemOf, DataOf

\* The pages of a segment begin.
LEMMA BeginKeeps ==
  ASSUME ImageInv, Begin
  PROVE  ImageInv'
<1> DEFINE s == Segs[seg]
<1>1. /\ phase = "load" /\ seg <= Len(Segs) /\ page = Nil /\ s.filesz <= s.memsz
      /\ page' = FrameDown(Start(s))
      /\ brk' = IF Start(s) + s.memsz > brk THEN Start(s) + s.memsz ELSE brk
      /\ seg' = seg /\ mem' = mem /\ perm' = perm
  BY DEF Begin
<1>2. /\ ControlShape' /\ BlankShape' /\ LoadedShape' /\ StackTypes' /\ StackShape'
      /\ UNCHANGED <<exe, cur, size, low, result>> /\ phase' = "load" /\ result = Nil /\ low = 0
      /\ Segs' = Segs /\ Bias' = Bias
      /\ \A x : Start(x)' = Start(x) /\ MemOf(x)' = MemOf(x) /\ DataOf(x)' = DataOf(x)
  BY <1>1, LoadStep DEF Begin
<1>3. /\ exe \in Exes /\ cur \in {"prog", "libc"} /\ seg \in 1..(Len(Segs) + 1) /\ brk \in Nat
      /\ ImageTypeOK /\ LoadShape /\ DataShape
  BY DEF ImageInv, ControlShape, ImageTypeOK
<1>4. /\ Len(Segs) \in Nat /\ DOMAIN Segs = 1..Len(Segs)
      /\ \A k \in DOMAIN Segs : {Segs[k].memsz, Segs[k].filesz} \subseteq Nat /\ Start(Segs[k]) \in Nat
  BY <1>3, ElfFacts
<1>5. seg \in DOMAIN Segs /\ Start(s) \in Nat /\ s.memsz \in Nat /\ Start(s) + s.memsz \in Nat
  BY <1>1, <1>3, <1>4
<1>6. /\ page' \in Nat /\ page' # Nil /\ page' % FRAME_SIZE = 0
  <2>1. FrameDown(Start(s)) \in Int /\ FrameDown(Start(s)) % FRAME_SIZE = 0 /\ 0 <= FrameDown(Start(s))
    BY <1>5, FrameFacts
  <2> QED
    BY <1>1, <2>1, UserImageAssumption
<1>7. brk' \in Nat /\ brk <= brk' /\ Start(s) + s.memsz <= brk'
  BY <1>1, <1>3, <1>5
<1>8. ImageTypeOK'
  <2>1. UNCHANGED <<flen, edits, offset, image, item>>
    BY DEF Begin, fileVars, stackVars
  <2> QED
    BY <1>1, <1>2, <1>3, <1>6, <1>7, <2>1 DEF ImageTypeOK
<1>9. \A k \in DOMAIN Segs : Begun(k)' <=> Begun(k) \/ k = seg
  BY <1>1, <1>3, <1>6 DEF Begun
<1>10. ASSUME NEW k \in DOMAIN Segs, NEW a \in Int, k = seg => Start(s) <= a
       PROVE  Seen(k, a)' <=> Seen(k, a)
  <2>1. FrameDown(Start(s)) <= FrameDown(a) \/ k # seg
    BY <1>5, <1>10, FrameOrder
  <2>2. FrameDown(Start(s)) \in Int /\ FrameDown(a) \in Int
    BY <1>5, FrameFacts
  <2> QED
    BY <1>1, <2>1, <2>2 DEF Seen
<1>11. LoadShape'
  <2>1. FrameUp(brk) <= FrameUp(brk') /\ FrameUp(brk) \in Int /\ FrameUp(brk') \in Int
    <3>1. brk \in Int /\ brk' \in Int /\ brk <= brk'
      BY <1>3, <1>7
    <3> QED
      BY <3>1, FrameOrder, FrameFacts, Zenon
  <2>2. page' # Nil => /\ page' % FRAME_SIZE = 0 /\ seg' <= Len(Segs')
                       /\ FrameDown(Start(Segs[seg])') <= page'
    <3>1. Start(Segs[seg])' = Start(s)
      BY <1>1, <1>2 DEF Start
    <3>2. FrameDown(Start(s)) \in Int
      BY <1>5, FrameFacts
    <3> QED
      BY <1>1, <1>2, <1>5, <1>6, <3>1, <3>2
  <2>3. \A k \in DOMAIN Segs : Begun(k)' => Segs[k].filesz <= Segs[k].memsz /\ Start(Segs[k]) + Segs[k].memsz <= brk'
    <3>1. ASSUME NEW k \in DOMAIN Segs, Begun(k)
          PROVE  Segs[k].filesz <= Segs[k].memsz /\ Start(Segs[k]) + Segs[k].memsz <= brk'
      <4>1. Segs[k].filesz <= Segs[k].memsz /\ Start(Segs[k]) + Segs[k].memsz <= brk
        BY <1>1, <1>3, <3>1 DEF LoadShape
      <4> QED
        BY <1>3, <1>4, <1>7, <4>1
    <3> QED
      BY <1>1, <1>7, <1>9, <3>1
  <2>4. brk' = 0 \/ \E k \in DOMAIN Segs : Begun(k)' /\ brk' = Start(Segs[k]) + Segs[k].memsz
    BY <1>1, <1>3, <1>5, <1>9 DEF LoadShape
  <2>5. \A p \in ImagePages : perm'[p] # Nil => p < FrameUp(brk')
    <3>1. \A p \in ImagePages : p \in Int
      BY UserImageAssumption DEF ImagePages, Addrs
    <3> QED
      BY <1>1, <1>3, <2>1, <3>1 DEF LoadShape
  <2>6. \A k \in DOMAIN Segs : \A a \in MemOf(Segs[k]) :
          Seen(k, a)' => perm'[FrameDown(a)] # Nil /\ Segs[k].perm \subseteq perm'[FrameDown(a)]
    BY <1>1, <1>3, <1>10 DEF LoadShape, MemOf
  <2> QED
    BY <1>1, <1>2, <1>3, <2>2, <2>3, <2>4, <2>5, <2>6 DEF LoadShape
<1>12. DataShape'
  <2>1. ASSUME NEW k \in DOMAIN Segs, NEW a \in Addrs
        PROVE  Seen(k, a)' /\ a \in DataOf(Segs[k])' <=> Seen(k, a) /\ a \in DataOf(Segs[k])
    <3>1. a \in Int
      BY PageOf
    <3>2. a \in DataOf(Segs[k]) /\ k = seg => Start(s) <= a
      BY DEF DataOf
    <3> QED
      BY <1>2, <1>10, <3>1, <3>2
  <2> QED
    BY <1>1, <1>2, <1>3, <2>1 DEF DataShape
<1> QED
  BY <1>2, <1>8, <1>11, <1>12 DEF ImageInv

\* A page of a segment.
LEMMA LoadPageKeeps ==
  ASSUME ImageInv, LoadPage
  PROVE  ImageInv'
<1> DEFINE s == Segs[seg]
<1> DEFINE here == page .. (page + FRAME_SIZE - 1)
<1>1. /\ phase = "load" /\ page # Nil /\ seg <= Len(Segs) /\ page < FrameUp(Start(s) + s.memsz)
      /\ perm' = [perm EXCEPT ![page] = IF @ = Nil THEN s.perm ELSE @ \cup s.perm]
      /\ mem' = [a \in Addrs |->
                   IF a \in Copied(s, page) THEN s.offset + (a - Start(s)) + 1
                   ELSE IF a \in here /\ mem[a] = Nil THEN 0 ELSE mem[a]]
      /\ page' = page + FRAME_SIZE /\ seg' = seg /\ brk' = brk
  BY DEF LoadPage
<1>2. /\ ControlShape' /\ BlankShape' /\ LoadedShape' /\ StackTypes' /\ StackShape'
      /\ UNCHANGED <<exe, cur, size, low, result>> /\ phase' = "load" /\ result = Nil /\ low = 0
      /\ Segs' = Segs /\ Bias' = Bias
      /\ \A x : Start(x)' = Start(x) /\ MemOf(x)' = MemOf(x) /\ DataOf(x)' = DataOf(x)
  BY <1>1, LoadStep DEF LoadPage
<1>3. /\ exe \in Exes /\ cur \in {"prog", "libc"} /\ seg \in 1..(Len(Segs) + 1) /\ brk \in Nat /\ page \in Nat
      /\ mem \in [Addrs -> Nat \cup {Nil}] /\ perm \in [ImagePages -> (SUBSET Rights) \cup {Nil}]
      /\ ImageTypeOK /\ LoadShape /\ DataShape /\ page % FRAME_SIZE = 0 /\ FrameDown(Start(s)) <= page
  BY <1>1 DEF ImageInv, ControlShape, ImageTypeOK, LoadShape
<1>4. /\ Len(Segs) \in Nat /\ DOMAIN Segs = 1..Len(Segs)
      /\ \A k \in DOMAIN Segs : /\ {Segs[k].offset, Segs[k].memsz, Segs[k].filesz} \subseteq Nat
                                /\ Start(Segs[k]) \in Nat /\ Start(Segs[k]) + Segs[k].memsz <= Space
                                /\ Segs[k].perm \in SUBSET Rights
  BY <1>3, ElfFacts
<1>5. /\ seg \in DOMAIN Segs /\ s.offset \in Nat /\ Start(s) \in Nat /\ s.memsz \in Nat /\ s.filesz \in Nat
      /\ s.perm \in SUBSET Rights /\ Start(s) + s.memsz \in Int /\ Start(s) + s.memsz <= Space
  BY <1>1, <1>3, <1>4
<1>6. FRAME_SIZE \in Nat \ {0} /\ Nil \notin Nat /\ Nil \notin SUBSET Rights
  BY UserImageAssumption
<1>7. page \in ImagePages /\ page \in Int
  BY <1>1, <1>3, <1>5, PageBelow
<1>8. page' \in Nat /\ page' # Nil /\ page' % FRAME_SIZE = 0
  <2>1. page \in Nat /\ page' = page + FRAME_SIZE /\ page % FRAME_SIZE = 0
    BY <1>1, <1>3, <1>7
  <2>2. page' \in Nat
    BY <1>6, <2>1
  <2>3. (page + FRAME_SIZE) % FRAME_SIZE = 0
    BY <1>7, <2>1, FrameNext
  <2>4. page' # Nil
    BY <1>6, <2>2
  <2> QED
    BY <2>1, <2>2, <2>3, <2>4
<1>9. ASSUME NEW a \in Int
      PROVE  (a \in here) <=> (FrameDown(a) = page)
  <2>1. FrameDown(a) \in Int /\ FrameDown(a) <= a /\ a < FrameDown(a) + FRAME_SIZE
    BY FrameFacts
  <2>2. a \in here => FrameDown(a) = page
    BY <1>3, <1>6, <1>7, FrameOf
  <2> QED
    BY <1>6, <1>7, <2>1, <2>2
<1>10. \A a \in Int : a \in Copied(s, page) <=> (FrameDown(a) = page /\ a \in DataOf(s))
  BY <1>9 DEF Copied, DataOf
<1>11. /\ perm' \in [ImagePages -> (SUBSET Rights) \cup {Nil}]
       /\ perm'[page] # Nil /\ s.perm \subseteq perm'[page]
       /\ perm[page] # Nil => perm[page] \subseteq perm'[page]
       /\ \A p \in ImagePages : p # page => perm'[p] = perm[p]
  <2>1. perm[page] \in (SUBSET Rights) \cup {Nil}
    BY <1>3, <1>7
  <2> DEFINE new == IF perm[page] = Nil THEN s.perm ELSE perm[page] \cup s.perm
  <2>2. new \in SUBSET Rights /\ s.perm \subseteq new /\ (perm[page] # Nil => perm[page] \subseteq new)
    BY <1>5, <2>1
  <2>3. perm' = [perm EXCEPT ![page] = new]
    BY <1>1
  <2> HIDE DEF new
  <2> QED
    BY <1>3, <1>6, <1>7, <2>2, <2>3
<1>12. \A a \in Addrs : mem'[a] = IF FrameDown(a) = page /\ a \in DataOf(s) THEN s.offset + (a - Start(s)) + 1
                                  ELSE IF FrameDown(a) = page /\ mem[a] = Nil THEN 0 ELSE mem[a]
  <2>1. \A a \in Addrs : a \in Int
    BY PageOf
  <2> QED
    BY <1>1, <1>9, <1>10, <2>1
<1>13. \A a \in DataOf(s) : s.offset + (a - Start(s)) + 1 \in Nat
  BY <1>5 DEF DataOf
<1>14. mem' \in [Addrs -> Nat \cup {Nil}]
  <2>1. \A a \in Addrs : mem'[a] \in Nat \cup {Nil}
    BY <1>3, <1>12, <1>13
  <2>2. mem' = [a \in Addrs |-> mem'[a]]
    BY <1>1
  <2> HIDE DEF here
  <2> QED
    BY <2>1, <2>2
<1>15. ImageTypeOK'
  <2>1. UNCHANGED <<flen, edits, offset, image, item>>
    BY DEF LoadPage, fileVars, stackVars
  <2> QED
    BY <1>1, <1>2, <1>3, <1>8, <1>11, <1>14, <2>1 DEF ImageTypeOK
<1> HIDE DEF s, here
<1>16. \A k \in DOMAIN Segs : Begun(k)' <=> Begun(k)
  BY <1>1, <1>8 DEF Begun
<1>17. ASSUME NEW k \in DOMAIN Segs, NEW a \in Int
       PROVE  Seen(k, a)' <=> Seen(k, a) \/ (k = seg /\ FrameDown(a) = page)
  <2>1. FrameDown(a) \in Int /\ FrameDown(a) % FRAME_SIZE = 0
    BY FrameFacts
  <2>2. page < FrameDown(a) => page + FRAME_SIZE <= FrameDown(a)
    BY <1>3, <1>7, <2>1, FrameGap
  <2> QED
    BY <1>1, <1>6, <1>7, <1>8, <2>1, <2>2 DEF Seen
<1>18. Begun(seg) /\ s.filesz <= s.memsz /\ Start(s) + s.memsz <= brk
  <2>1. Begun(seg)
    BY <1>1 DEF Begun
  <2> QED
    BY <1>1, <1>3, <1>5, <2>1 DEF LoadShape, s
<1>19. \A k \in DOMAIN Segs : \A a \in DataOf(Segs[k]) : Seen(k, a) => a \in MemOf(Segs[k])
  <2>1. \A k \in DOMAIN Segs, a \in Int : Seen(k, a) => Begun(k)
    BY DEF Seen, Begun
  <2>2. \A k \in DOMAIN Segs : Begun(k) => Segs[k].filesz <= Segs[k].memsz
    BY <1>1, <1>3 DEF LoadShape
  <2> QED
    BY <1>4, <2>1, <2>2 DEF DataOf, MemOf
<1>20. LoadShape'
  <2>1. page' # Nil => /\ page' % FRAME_SIZE = 0 /\ seg' <= Len(Segs')
                       /\ FrameDown(Start(Segs[seg])') <= page'
    <3>1. Start(Segs[seg])' = Start(s)
      BY <1>1, <1>2 DEF Start, s
    <3>2. FrameDown(Start(s)) \in Int
      BY <1>5, FrameFacts
    <3> QED
      BY <1>1, <1>2, <1>3, <1>6, <1>8, <3>1, <3>2
  <2>2. \A k \in DOMAIN Segs : Begun(k)' => Segs[k].filesz <= Segs[k].memsz /\ Start(Segs[k]) + Segs[k].memsz <= brk'
    BY <1>1, <1>3, <1>16 DEF LoadShape
  <2>3. brk' = 0 \/ \E k \in DOMAIN Segs : Begun(k)' /\ brk' = Start(Segs[k]) + Segs[k].memsz
    BY <1>1, <1>3, <1>16 DEF LoadShape
  <2>4. page < FrameUp(brk)
    <3>1. brk \in Int
      BY <1>3
    <3>2. FrameUp(Start(s) + s.memsz) <= FrameUp(brk)
      BY <1>5, <1>18, <3>1, FrameOrder
    <3>3. FrameUp(Start(s) + s.memsz) \in Int /\ FrameUp(brk) \in Int
      BY <1>5, <3>1, FrameFacts
    <3> QED
      BY <1>1, <1>7, <3>2, <3>3 DEF s
  <2>5. \A p \in ImagePages : perm'[p] # Nil => p < FrameUp(brk')
    BY <1>1, <1>3, <1>11, <2>4 DEF LoadShape
  <2>6. ASSUME NEW a \in Addrs
        PROVE  (mem'[a] = Nil) <=> (perm'[FrameDown(a)] = Nil)
    <3>1. FrameDown(a) \in ImagePages
      BY PageOf
    <3>2. (mem[a] = Nil) <=> (perm[FrameDown(a)] = Nil)
      BY <1>1, <1>3 DEF LoadShape
    <3> QED
      BY <1>6, <1>11, <1>12, <1>13, <3>1, <3>2
  <2>7. ASSUME NEW k \in DOMAIN Segs, NEW a \in MemOf(Segs[k]), Seen(k, a)'
        PROVE  perm'[FrameDown(a)] # Nil /\ Segs[k].perm \subseteq perm'[FrameDown(a)]
    <3>1. a \in Int /\ a \in Addrs
      BY <1>4, UserImageAssumption DEF MemOf, Addrs
    <3>2. FrameDown(a) \in ImagePages
      BY <3>1, PageOf
    <3>3. CASE k = seg /\ FrameDown(a) = page
      BY <1>11, <3>3 DEF s
    <3>4. CASE Seen(k, a)
      <4>1. perm[FrameDown(a)] # Nil /\ Segs[k].perm \subseteq perm[FrameDown(a)]
        BY <1>1, <1>3, <3>4 DEF LoadShape
      <4> QED
        BY <1>11, <3>2, <4>1
    <3> QED
      BY <1>17, <2>7, <3>1, <3>3, <3>4
  <2> QED
    BY <1>1, <1>2, <2>1, <2>2, <2>3, <2>5, <2>6, <2>7 DEF LoadShape
<1>21. DataShape'
  <2> SUFFICES ASSUME NEW a \in Addrs, mem'[a] # Nil
               PROVE  LET over == {k \in DOMAIN Segs : Seen(k, a)' /\ a \in DataOf(Segs[k])}
                      IN  \/ mem'[a] = 0 /\ over = {}
                          \/ \E k \in over : /\ \A j \in over : j <= k
                                             /\ mem'[a] = Segs[k].offset + (a - Start(Segs[k])) + 1
    BY <1>2 DEF DataShape
  <2>1. a \in Int /\ FrameDown(a) \in ImagePages
    BY PageOf
  <2>2. \A k \in DOMAIN Segs : Seen(k, a)' <=> Seen(k, a) \/ (k = seg /\ FrameDown(a) = page)
    BY <1>17, <2>1
  <2>3. \A k \in DOMAIN Segs : Seen(k, a) => k <= seg /\ (k = seg => FrameDown(a) < page)
    BY <1>3, <1>4 DEF Seen
  <2>4. CASE FrameDown(a) = page /\ a \in DataOf(s)
    <3>1. mem'[a] = s.offset + (a - Start(s)) + 1
      BY <1>12, <2>4
    <3>2. \A k \in DOMAIN Segs : Seen(k, a)' => k <= seg
      BY <1>3, <1>4, <2>2, <2>3
    <3> QED
      BY <1>5, <2>2, <2>4, <3>1, <3>2 DEF s
  <2>5. CASE ~(FrameDown(a) = page /\ a \in DataOf(s))
    <3>1. \A k \in DOMAIN Segs : Seen(k, a)' /\ a \in DataOf(Segs[k]) <=> Seen(k, a) /\ a \in DataOf(Segs[k])
      BY <2>2, <2>5 DEF s
    <3>2. CASE mem[a] = Nil
      <4>1. mem'[a] = 0
        BY <1>12, <2>5, <3>2
      <4>2. perm[FrameDown(a)] = Nil
        BY <1>1, <1>3, <3>2 DEF LoadShape
      <4>3. \A k \in DOMAIN Segs : ~(Seen(k, a) /\ a \in DataOf(Segs[k]))
        BY <1>1, <1>3, <1>19, <4>2 DEF LoadShape
      <4> QED
        BY <3>1, <4>1, <4>3
    <3>3. CASE mem[a] # Nil
      <4>1. mem'[a] = mem[a]
        BY <1>12, <2>5, <3>3
      <4>2. LET over == {k \in DOMAIN Segs : Seen(k, a) /\ a \in DataOf(Segs[k])}
            IN  \/ mem[a] = 0 /\ over = {}
                \/ \E k \in over : (\A j \in over : j <= k) /\ mem[a] = Segs[k].offset + (a - Start(Segs[k])) + 1
        BY <1>1, <1>3, <3>3 DEF DataShape
      <4> QED
        BY <3>1, <4>1, <4>2
    <3> QED
      BY <3>2, <3>3
  <2> QED
    BY <2>4, <2>5
<1> QED
  BY <1>2, <1>15, <1>20, <1>21 DEF ImageInv

\* The end of a segment.
LEMMA NextSegmentKeeps ==
  ASSUME ImageInv, NextSegment
  PROVE  ImageInv'
<1> DEFINE s == Segs[seg]
<1>1. /\ phase = "load" /\ page # Nil /\ page >= FrameUp(Start(s) + s.memsz)
      /\ seg' = seg + 1 /\ page' = Nil /\ brk' = brk /\ mem' = mem /\ perm' = perm
  BY DEF NextSegment
<1>2. /\ ControlShape' /\ BlankShape' /\ LoadedShape' /\ StackTypes' /\ StackShape'
      /\ UNCHANGED <<exe, cur, size, low, result>> /\ phase' = "load" /\ result = Nil /\ low = 0
      /\ Segs' = Segs /\ Bias' = Bias
      /\ \A x : Start(x)' = Start(x) /\ MemOf(x)' = MemOf(x) /\ DataOf(x)' = DataOf(x)
  BY <1>1, LoadStep DEF NextSegment
<1>3. /\ exe \in Exes /\ cur \in {"prog", "libc"} /\ seg \in 1..(Len(Segs) + 1) /\ page \in Nat
      /\ ImageTypeOK /\ LoadShape /\ DataShape /\ seg <= Len(Segs)
  BY <1>1 DEF ImageInv, ControlShape, ImageTypeOK, LoadShape
<1>4. /\ Len(Segs) \in Nat /\ DOMAIN Segs = 1..Len(Segs)
      /\ \A k \in DOMAIN Segs : {Segs[k].memsz, Segs[k].filesz} \subseteq Nat /\ Start(Segs[k]) \in Nat
  BY <1>3, ElfFacts
<1>5. seg \in DOMAIN Segs /\ Start(s) \in Nat /\ s.memsz \in Nat /\ s.filesz \in Nat /\ Start(s) + s.memsz \in Int
  BY <1>3, <1>4
<1>6. ImageTypeOK'
  <2>1. UNCHANGED <<flen, edits, offset, image, item>> /\ seg' \in 1..(Len(Segs) + 1)
    BY <1>1, <1>3, <1>4 DEF NextSegment, fileVars, stackVars
  <2> QED
    BY <1>1, <1>2, <1>3, <2>1 DEF ImageTypeOK
<1>7. \A k \in DOMAIN Segs : Begun(k)' <=> Begun(k)
  BY <1>1, <1>3, <1>4 DEF Begun
<1>8. ASSUME NEW k \in DOMAIN Segs, NEW a \in Int, k = seg => a < Start(s) + s.memsz
      PROVE  Seen(k, a)' <=> Seen(k, a)
  <2>1. k = seg => FrameDown(a) < page
    <3>1. FrameDown(a) \in Int /\ FrameDown(a) <= a /\ FrameUp(Start(s) + s.memsz) \in Int
          /\ Start(s) + s.memsz <= FrameUp(Start(s) + s.memsz)
      BY <1>5, FrameFacts
    <3> QED
      BY <1>1, <1>3, <1>5, <1>8, <3>1
  <2> QED
    BY <1>1, <1>3, <1>4, <2>1 DEF Seen
<1>9. s.filesz <= s.memsz
  <2>1. Begun(seg)
    BY <1>1 DEF Begun
  <2> QED
    BY <1>1, <1>3, <1>5, <2>1 DEF LoadShape
<1>10. LoadShape'
  <2>1. \A k \in DOMAIN Segs : \A a \in MemOf(Segs[k]) :
          Seen(k, a)' => perm'[FrameDown(a)] # Nil /\ Segs[k].perm \subseteq perm'[FrameDown(a)]
    <3>1. \A k \in DOMAIN Segs : \A a \in MemOf(Segs[k]) : Seen(k, a)' <=> Seen(k, a)
      BY <1>8 DEF MemOf
    <3> QED
      BY <1>1, <1>3, <3>1 DEF LoadShape
  <2> QED
    BY <1>1, <1>2, <1>3, <1>7, <2>1 DEF LoadShape
<1>11. DataShape'
  <2>1. ASSUME NEW k \in DOMAIN Segs, NEW a \in Addrs
        PROVE  Seen(k, a)' /\ a \in DataOf(Segs[k])' <=> Seen(k, a) /\ a \in DataOf(Segs[k])
    <3>1. a \in Int
      BY PageOf
    <3>2. a \in DataOf(Segs[k]) /\ k = seg => a < Start(s) + s.memsz
      BY <1>5, <1>9 DEF DataOf
    <3> QED
      BY <1>2, <1>8, <3>1, <3>2
  <2> QED
    BY <1>1, <1>2, <1>3, <2>1 DEF DataShape
<1> QED
  BY <1>2, <1>6, <1>10, <1>11 DEF ImageInv

\* A set of positions of a sequence has a last one.
LEMMA LastOf ==
  ASSUME NEW n \in Nat, NEW I \in SUBSET (1..n), I # {}
  PROVE  \E x \in I : \A y \in I : y <= x
<1> DEFINE T == {n - x : x \in I}
<1>1. T \in SUBSET Nat /\ T # {}
  <2>1. \A x \in I : n - x \in Nat
    OBVIOUS
  <2>2. T # {}
    OBVIOUS
  <2> QED
    BY <2>1, <2>2
<1>2. PICK t \in T : \A u \in T : t <= u
  <2> HIDE DEF T
  <2> QED
    BY <1>1, LeastOf
<1>3. PICK x \in I : t = n - x
  OBVIOUS
<1>4. \A y \in I : n - y \in T
  OBVIOUS
<1>5. \A y \in I : n - x <= n - y
  BY <1>2, <1>3, <1>4
<1> QED
  BY <1>3, <1>5

\* One sequence after another.
LEMMA Glued ==
  ASSUME NEW S, NEW x \in Seq(S), NEW y \in Seq(S)
  PROVE  /\ x \o y \in Seq(S) /\ Len(x \o y) = Len(x) + Len(y) /\ DOMAIN (x \o y) = 1..(Len(x) + Len(y))
         /\ \A i \in 1..(Len(x) + Len(y)) : (x \o y)[i] = IF i <= Len(x) THEN x[i] ELSE y[i - Len(x)]
  OBVIOUS

\* The relocations of a file are its entries, in order, and each that is known writes its word.
LEMMA RelocationsAre ==
  ASSUME ImageInv, ~RelocationFails
  PROVE  /\ Entries \in Seq(Entry) /\ DOMAIN Relocations = DOMAIN Entries
         /\ \A i \in DOMAIN Entries : /\ Relocations[i].at = Entries[i].at + Bias
                                      /\ Relocations[i].word = RelWord(i) /\ RelWord(i) \in Nat
<1>1. /\ Elf \in File /\ Bias \in Nat
  BY ElfFacts DEF ImageInv, ControlShape, ImageTypeOK
<1>2. CASE Bias = 0
  BY <1>2 DEF Entries, Relocations
<1>3. CASE Bias # 0
  <2> DEFINE d == Elf.dyn
  <2> DEFINE p == IF Elf.plt = Nil THEN <<>> ELSE Elf.plt
  <2> DEFINE word(e) == IF exe.arch = "riscv64" THEN riscv64_relocate_dyn(e) ELSE x86_64_relocate_dyn(e)
  <2> DEFINE dd == [i \in DOMAIN d |-> [at |-> d[i].at + Bias, word |-> word(d[i])]]
  <2> DEFINE pp == [i \in DOMAIN p |-> [at |-> p[i].at + Bias, word |-> relocate_plt(p[i])]]
  <2>1. d \in Seq(Entry) /\ p \in Seq(Entry)
    <3>1. Elf.dyn # Nil
      BY <1>3 DEF RelocationFails
    <3>2. Elf.dyn \in Seq(Entry) \cup {Nil} /\ Elf.plt \in Seq(Entry) \cup {Nil}
      BY <1>1 DEF File
    <3> QED
      BY <3>1, <3>2
  <2>2. Entries = d \o p
    BY <1>3 DEF Entries
  <2>3. Relocations = dd \o pp
    <3>1. Elf.plt = Nil => DOMAIN p = {}
      OBVIOUS
    <3>2. Elf.plt = Nil => pp = <<>>
      BY <3>1
    <3> QED
      BY <1>3, <3>2 DEF Relocations
  <2> HIDE DEF p
  <2>4. Len(d) \in Nat /\ Len(p) \in Nat /\ DOMAIN d = 1..Len(d) /\ DOMAIN p = 1..Len(p)
    BY <2>1
  <2> DEFINE W == {word(d[i]) : i \in DOMAIN d} \cup {relocate_plt(p[i]) : i \in DOMAIN p}
  <2> DEFINE R == [at : Nat, word : W]
  <2>5. \A i \in DOMAIN d : d[i] \in Entry
    BY <2>1
  <2>6. \A i \in DOMAIN p : p[i] \in Entry
    BY <2>1
  <2>7. dd \in Seq(R) /\ Len(dd) = Len(d)
    <3>1. \A i \in 1..Len(d) : [at |-> d[i].at + Bias, word |-> word(d[i])] \in R
      BY <1>1, <2>4, <2>5 DEF Entry
    <3>2. dd \in [1..Len(d) -> R]
      <4> HIDE DEF R, word
      <4> QED
        BY <2>4, <3>1
    <3> HIDE DEF R, dd
    <3> QED
      BY <2>4, <3>2
  <2>8. pp \in Seq(R) /\ Len(pp) = Len(p)
    <3>1. \A i \in 1..Len(p) : [at |-> p[i].at + Bias, word |-> relocate_plt(p[i])] \in R
      BY <1>1, <2>4, <2>6 DEF Entry
    <3>2. pp \in [1..Len(p) -> R]
      <4> HIDE DEF R, word
      <4> QED
        BY <2>4, <3>1
    <3> HIDE DEF R, pp
    <3> QED
      BY <2>4, <3>2
  <2>9. /\ Entries \in Seq(Entry) /\ Len(Entries) = Len(d) + Len(p)
        /\ \A i \in 1..(Len(d) + Len(p)) : Entries[i] = IF i <= Len(d) THEN d[i] ELSE p[i - Len(d)]
    <3> HIDE DEF d
    <3> QED
      BY <2>1, <2>2, <2>4
  <2>10. /\ Len(Relocations) = Len(d) + Len(p) /\ DOMAIN Relocations = 1..(Len(d) + Len(p))
         /\ \A i \in 1..(Len(d) + Len(p)) : Relocations[i] = IF i <= Len(d) THEN dd[i] ELSE pp[i - Len(d)]
    <3> HIDE DEF d, dd, pp, R
    <3>1. /\ Len(dd \o pp) = Len(dd) + Len(pp) /\ DOMAIN (dd \o pp) = 1..(Len(dd) + Len(pp))
          /\ \A i \in 1..(Len(dd) + Len(pp)) : (dd \o pp)[i] = IF i <= Len(dd) THEN dd[i] ELSE pp[i - Len(dd)]
      BY <2>7, <2>8, Glued
    <3> QED
      BY <2>3, <2>7, <2>8, <3>1
  <2>11. DOMAIN Entries = 1..(Len(d) + Len(p))
    <3> HIDE DEF d
    <3> QED
      BY <2>9
  <2>12. ASSUME NEW i \in 1..(Len(d) + Len(p))
         PROVE  /\ Relocations[i].at = Entries[i].at + Bias
                /\ Relocations[i].word = RelWord(i) /\ RelWord(i) \in Nat
    <3> DEFINE e == Entries[i]
    <3>1. Relocations[i].word # Nil
      BY <1>3, <2>10 DEF RelocationFails
    <3>2. CASE i <= Len(d)
      <4>1. i \in DOMAIN d /\ e = d[i] /\ Relocations[i] = dd[i]
        <5> HIDE DEF d, dd, pp
        <5> QED
          BY <2>4, <2>9, <2>10, <3>2
      <4>2. e \in Entry /\ Relocations[i].at = e.at + Bias /\ Relocations[i].word = word(e)
        BY <2>5, <4>1
      <4>3. word(e) \in {Nil, Bias + e.add + (IF e.kind = "relative" THEN 0 ELSE e.sym)}
            /\ (word(e) # Nil => e.kind = "relative" \/ e.sym # Nil)
        <5>1. e.add \in Nat /\ e.at \in Nat /\ e.sym \in Nat \cup {Nil}
          BY <4>2 DEF Entry
        <5> HIDE DEF e
        <5> QED
          BY <1>1, <5>1 DEF riscv64_relocate_dyn, x86_64_relocate_dyn
      <4>4. RelWord(i) = Bias + e.add + (IF e.kind = "relative" THEN 0 ELSE e.sym)
        BY <3>2 DEF RelWord
      <4>5. e.add \in Nat /\ e.sym \in Nat \cup {Nil}
        BY <4>2 DEF Entry
      <4> HIDE DEF e, word
      <4>6. RelWord(i) \in Nat /\ Relocations[i].word = RelWord(i)
        BY <1>1, <3>1, <4>2, <4>3, <4>4, <4>5
      <4> QED
        BY <4>2, <4>6 DEF e
    <3>3. CASE ~ i <= Len(d)
      <4>1. i - Len(d) \in DOMAIN p /\ e = p[i - Len(d)] /\ Relocations[i] = pp[i - Len(d)]
        <5> HIDE DEF d, dd, pp
        <5> QED
          BY <2>4, <2>9, <2>10, <3>3
      <4>2. e \in Entry /\ Relocations[i].at = e.at + Bias /\ Relocations[i].word = relocate_plt(e)
        BY <2>6, <4>1
      <4>3. e.kind = "plt" /\ e.sym # Nil /\ relocate_plt(e) = Bias + e.sym
        BY <3>1, <4>2 DEF relocate_plt
      <4>4. RelWord(i) = Bias + 0 + e.sym
        BY <3>3, <4>3 DEF RelWord
      <4>5. e.sym \in Nat
        BY <4>2, <4>3 DEF Entry
      <4> HIDE DEF e
      <4>6. RelWord(i) \in Nat /\ Relocations[i].word = RelWord(i)
        BY <1>1, <4>2, <4>3, <4>4, <4>5
      <4> QED
        BY <4>2, <4>6 DEF e
    <3> QED
      BY <3>2, <3>3
  <2> QED
    BY <2>9, <2>10, <2>11, <2>12
<1> QED
  BY <1>2, <1>3

\* The guard page: the kernel core and the per-CPU mirror are too long for the room between the
\* program and the stack.
LEMMA GuardHolds ==
  ASSUME ImageInv, phase = "load", page = Nil, seg > Len(Segs), exe.core \cap Taken = {},
         NEW p \in ImagePages, perm[p] # Nil \/ p \in exe.core
  PROVE  /\ StackLow \in Nat /\ StackLow > 0
         /\ \/ p < StackLow - FRAME_SIZE
            \/ p \in exe.core /\ (p >= StackLow \/ \E k \in DOMAIN Segs : Segs[k].memsz = 0)
<1> DEFINE b == FrameUp(brk)
<1> DEFINE F == FRAME_SIZE
<1>1. /\ exe \in Exes /\ cur \in {"prog", "libc"} /\ seg \in 1..(Len(Segs) + 1) /\ brk \in Nat /\ LoadShape
  BY DEF ImageInv, ControlShape, ImageTypeOK
<1>2. F \in Nat \ {0} /\ Space \in Nat /\ exe.call.stack \in Nat \ {0} /\ exe.core \subseteq ImagePages
  BY <1>1, UserImageAssumption
<1>3. b \in Int /\ b % F = 0 /\ brk <= b /\ b < brk + F
  <2>1. brk \in Int
    BY <1>1
  <2> QED
    BY <2>1, FrameFacts
<1>4. StackLow = b + F + F
  <2>1. brk + F \in Int /\ brk + F + F - 1 \in Int
    BY <1>1, <1>2
  <2> DEFINE u == FrameUp(brk + F)
  <2>2. u \in Int /\ u % F = 0 /\ brk + F <= u /\ u < brk + F + F
    BY <2>1, FrameFacts
  <2>3. (b + F) % F = 0 /\ b + F \in Int
    BY <1>2, <1>3, FrameNext
  <2> HIDE DEF u, b, F
  <2>4. u < b + F => u + F <= b + F
    BY <2>2, <2>3, FrameGap DEF F
  <2>5. b + F < u => b + F + F <= u
    BY <2>2, <2>3, FrameGap DEF F
  <2>6. u = b + F
    BY <1>1, <1>2, <1>3, <2>2, <2>4, <2>5
  <2> QED
    BY <2>6 DEF StackLow, u, F
<1>5. \A q \in ImagePages : q \in Int /\ q % F = 0 /\ 0 <= q /\ q < Space
  BY <1>2 DEF ImagePages, Addrs
<1> HIDE DEF b, F
<1>6. StackLow \in Nat /\ StackLow > 0
  BY <1>1, <1>2, <1>3, <1>4
<1>7. CASE perm[p] # Nil
  <2>1. p < b
    BY <1>1, <1>7 DEF LoadShape, b
  <2> QED
    BY <1>2, <1>3, <1>4, <1>5, <1>6, <2>1 DEF F
<1>8. CASE p \in exe.core
  <2>1. PICK q \in exe.core : p \in {q, q + F, q + 2 * F} /\ {q, q + F, q + 2 * F} \subseteq exe.core
    <3>1. \E q \in exe.core : LET three == {q, q + F, q + 2 * F} IN p \in three /\ three \subseteq exe.core
      BY <1>1, <1>8, UserImageAssumption DEF F
    <3> QED
      BY <3>1
  <2>2. CASE p >= StackLow \/ p < StackLow - F \/ \E k \in DOMAIN Segs : Segs[k].memsz = 0
    BY <1>6, <1>8, <2>2 DEF F
  <2>3. CASE ~(p >= StackLow \/ p < StackLow - F \/ \E k \in DOMAIN Segs : Segs[k].memsz = 0)
    <3>1. p = b + F
      <4>1. (b + F) % F = 0 /\ b + F \in Int
        BY <1>2, <1>3, FrameNext DEF F
      <4>2. p \in Int /\ p % F = 0
        BY <1>5
      <4>3. b + F < p => b + F + F <= p
        BY <4>1, <4>2, FrameGap DEF F
      <4> QED
        BY <1>2, <1>3, <1>4, <2>3, <4>1, <4>2, <4>3
    <3>2. \A x \in exe.core : x \in ImagePages /\ x \notin StackPages /\ perm[x] = Nil
      BY <1>2 DEF Taken
    <3>3. b + F + F \notin exe.core
      <4>1. b + F + F < FrameUp(StackLow + exe.call.stack)
        <5>1. StackLow + exe.call.stack \in Int /\ StackLow < StackLow + exe.call.stack
          BY <1>2, <1>6
        <5>2. StackLow + exe.call.stack <= FrameUp(StackLow + exe.call.stack) /\ FrameUp(StackLow + exe.call.stack) \in Int
          BY <5>1, FrameFacts
        <5> QED
          BY <1>4, <1>6, <5>1, <5>2
      <4>2. b + F + F \in ImagePages => b + F + F \in StackPages
        BY <1>2, <1>3, <1>4, <1>6, <4>1 DEF StackPages
      <4> QED
        BY <3>2, <4>2
    <3>4. q + F + F = p /\ q = b - F /\ q \in Int
      <4>1. q \in Int /\ q + 2 * F = (q + F) + F /\ q + F \in Int
        BY <1>2, <1>5
      <4>2. p # q
        BY <1>2, <1>3, <2>1, <3>1, <3>3, <4>1
      <4>3. p # q + F
        BY <1>2, <1>3, <2>1, <3>1, <3>3, <4>1
      <4>4. p = q + F + F
        BY <2>1, <4>1, <4>2, <4>3
      <4> QED
        BY <1>2, <1>3, <3>1, <4>1, <4>4
    <3>5. perm[q] = Nil /\ 0 <= q
      BY <1>2, <1>5, <3>2
    <3>6. PICK k \in DOMAIN Segs : Begun(k) /\ brk = Start(Segs[k]) + Segs[k].memsz
      <4>1. brk # 0
        BY <1>2, <1>3, <3>4, <3>5
      <4> QED
        BY <1>1, <4>1 DEF LoadShape
    <3>7. /\ Start(Segs[k]) \in Nat /\ Segs[k].memsz \in Nat /\ Segs[k].memsz # 0 /\ k \in Int /\ k < seg
      <4>1. Len(Segs) \in Nat /\ DOMAIN Segs = 1..Len(Segs) /\ Segs[k].memsz \in Nat /\ Start(Segs[k]) \in Nat
        BY <1>1, ElfFacts
      <4> QED
        BY <1>1, <2>3, <4>1
    <3>8. brk - 1 \in MemOf(Segs[k]) /\ Seen(k, brk - 1)
      BY <1>1, <3>6, <3>7 DEF MemOf, Seen
    <3>9. FrameDown(brk - 1) = q
      <4>1. brk - 1 \in Int /\ q <= brk - 1 /\ brk - 1 < q + F
        BY <1>1, <1>2, <1>3, <3>4, SMTT(40)
      <4>2. q % F = 0
        BY <1>5, <1>2
      <4> QED
        BY <3>4, <4>1, <4>2, FrameOf DEF F
    <3>10. perm[q] # Nil
      BY <1>1, <3>8, <3>9 DEF LoadShape
    <3> QED
      BY <3>5, <3>10
  <2> QED
    BY <2>2, <2>3
<1> QED
  BY <1>6, <1>7, <1>8

\* The image is complete.
LEMMA MapStackKeeps ==
  ASSUME ImageInv, MapStack
  PROVE  ImageInv'
<1>1. /\ phase = "load" /\ page = Nil /\ seg > Len(Segs) /\ result = Nil /\ image = "old" /\ low = 0
      /\ UNCHANGED <<exe, fileVars, seg, page, brk, argv, stackVars, image>>
  BY DEF MapStack, ImageInv, ControlShape, BlankShape
<1>2. Nil # "error"
  BY UserImageAssumption
<1>3. \/ Finish("error")
      \/ /\ exe.core \cap Taken = {} /\ ~RelocationFails
         /\ perm' = [p \in ImagePages |-> IF p \in exe.core THEN {} ELSE perm[p]]
         /\ result' = Nil /\ low' = StackLow /\ mem' = Relocate /\ phase' = "commit"
  <2>1. CASE exe.core \cap Taken # {}
    BY <1>1, <1>2, <2>1 DEF MapStack, map_extra_user_regions, Finish, loadVars
  <2>2. CASE exe.core \cap Taken = {}
    BY <1>2, <2>2 DEF MapStack, map_extra_user_regions
  <2> QED
    BY <2>1, <2>2
<1>4. CASE Finish("error")
  BY <1>1, <1>4, FinishKeeps DEF Early
<1>5. CASE /\ exe.core \cap Taken = {} /\ ~RelocationFails
           /\ perm' = [p \in ImagePages |-> IF p \in exe.core THEN {} ELSE perm[p]]
           /\ result' = Nil /\ low' = StackLow /\ mem' = Relocate /\ phase' = "commit"
  <2>1. /\ UNCHANGED <<exe, cur, flen, edits, size, offset, seg, page, brk, argv, stack, ptrs, item, image, result>>
    BY <1>1, <1>5 DEF fileVars, stackVars
  <2>2. /\ exe \in Exes /\ cur \in {"prog", "libc"} /\ seg \in 1..(Len(Segs) + 1)
        /\ mem \in [Addrs -> Nat \cup {Nil}] /\ perm \in [ImagePages -> (SUBSET Rights) \cup {Nil}]
        /\ ImageTypeOK /\ LoadShape /\ DataShape
    BY DEF ImageInv, ControlShape, ImageTypeOK
  <2>3. /\ Len(Segs) \in Nat /\ DOMAIN Segs = 1..Len(Segs)
        /\ \A k \in DOMAIN Segs : /\ {Segs[k].memsz, Segs[k].filesz} \subseteq Nat /\ Start(Segs[k]) \in Nat
                                  /\ Start(Segs[k]) + Segs[k].memsz <= Space
    BY <2>2, ElfFacts
  <2>4. \A k \in DOMAIN Segs : Begun(k) /\ \A a : Seen(k, a)
    BY <1>1, <2>2, <2>3 DEF Begun, Seen
  <2>5. /\ Segs' = Segs /\ Bias' = Bias /\ Elf' = Elf /\ Entries' = Entries
        /\ \A x : Start(x)' = Start(x) /\ MemOf(x)' = MemOf(x) /\ DataOf(x)' = DataOf(x)
    BY <2>1 DEF Segs, Bias, Elf, Entries, Start, MemOf, DataOf
  <2>6. \A i : RelWord(i)' = RelWord(i)
    BY <2>5 DEF RelWord
  <2>7. /\ Entries \in Seq(Entry) /\ DOMAIN Relocations = DOMAIN Entries
        /\ \A i \in DOMAIN Entries : /\ Relocations[i].at = Entries[i].at + Bias
                                     /\ Relocations[i].word = RelWord(i) /\ RelWord(i) \in Nat
    BY <1>5, RelocationsAre
  <2>8. DOMAIN Entries = 1..Len(Entries) /\ Len(Entries) \in Nat
    BY <2>7
  <2>9. \A p \in ImagePages : perm[p] # Nil => perm'[p] = perm[p]
    BY <1>5 DEF Taken
  <2>10. ASSUME NEW a \in Addrs
         PROVE  \/ mem'[a] = mem[a] /\ (mem[a] # Nil => \A i \in DOMAIN Entries : Entries[i].at + Bias # a)
                \/ \E i \in DOMAIN Entries : /\ Entries[i].at + Bias = a /\ mem'[a] = RelWord(i)
                                             /\ \A j \in DOMAIN Entries : Entries[j].at + Bias = a => j <= i
    <3> DEFINE I == {i \in DOMAIN Relocations : Relocations[i].at = a}
    <3>1. mem'[a] = IF I = {} \/ mem[a] = Nil THEN mem[a]
                    ELSE Relocations[CHOOSE i \in I : \A j \in I : j <= i].word
      BY <1>5 DEF Relocate
    <3>2. \A i \in DOMAIN Entries : i \in I <=> Entries[i].at + Bias = a
      BY <2>7
    <3>3. CASE I = {} \/ mem[a] = Nil
      BY <3>1, <3>2, <3>3
    <3>4. CASE ~(I = {} \/ mem[a] = Nil)
      <4>1. I \in SUBSET (1..Len(Entries))
        BY <2>7, <2>8
      <4> HIDE DEF I
      <4>2. \E i \in I : \A j \in I : j <= i
        BY <2>8, <3>4, <4>1, LastOf
      <4> DEFINE i == CHOOSE i \in I : \A j \in I : j <= i
      <4>3. i \in I /\ \A j \in I : j <= i
        BY <4>2
      <4>4. mem'[a] = Relocations[i].word
        BY <3>1, <3>4
      <4> HIDE DEF i
      <4>5. i \in DOMAIN Entries
        BY <2>8, <4>1, <4>3
      <4> QED
        BY <2>7, <3>2, <4>3, <4>4, <4>5
    <3> QED
      BY <3>3, <3>4
  <2>11. mem' \in [Addrs -> Nat \cup {Nil}]
    <3>1. \A a \in Addrs : mem'[a] \in Nat \cup {Nil}
      BY <2>2, <2>7, <2>10
    <3>2. mem' = [a \in Addrs |-> mem'[a]]
      BY <1>5 DEF Relocate
    <3> QED
      BY <3>1, <3>2
  <2>12. perm' \in [ImagePages -> (SUBSET Rights) \cup {Nil}]
    <3>1. {} \in SUBSET Rights
      OBVIOUS
    <3> QED
      BY <1>5, <2>2, <3>1
  <2>13. StackLow \in Nat
    <3>1. brk \in Int /\ 0 <= brk /\ FRAME_SIZE \in Nat \ {0}
      BY <2>2, UserImageAssumption DEF ImageTypeOK
    <3>2. brk + FRAME_SIZE \in Int
      BY <3>1
    <3>3. FrameUp(brk + FRAME_SIZE) \in Int /\ brk + FRAME_SIZE <= FrameUp(brk + FRAME_SIZE)
      BY <3>2, FrameFacts
    <3> QED
      BY <3>1, <3>3 DEF StackLow
  <2>14. ImageTypeOK'
    BY <1>5, <2>1, <2>2, <2>5, <2>11, <2>12, <2>13 DEF ImageTypeOK
  <2>15. ControlShape' /\ BlankShape' /\ LoadShape' /\ DataShape'
    BY <1>1, <1>5, <2>1 DEF ImageInv, ControlShape, BlankShape, LoadShape, DataShape
  <2>16. StackTypes' /\ StackShape'
    BY <1>1, <1>5, <2>1, StackKept DEF ImageInv, StackTypes, Early, stackVars
  <2>17. ASSUME NEW k \in DOMAIN Segs, NEW a \in MemOf(Segs[k])
         PROVE  Segs[k].perm \subseteq perm'[FrameDown(a)] /\ WordShape(a)'
    <3>1. a \in Int /\ a \in Addrs
      BY <2>3, UserImageAssumption DEF MemOf, Addrs
    <3>2. FrameDown(a) \in ImagePages
      BY <3>1, PageOf
    <3>3. perm[FrameDown(a)] # Nil /\ Segs[k].perm \subseteq perm[FrameDown(a)] /\ mem[a] # Nil
      BY <1>1, <2>2, <2>4, <3>1 DEF LoadShape
    <3>4. Segs[k].perm \subseteq perm'[FrameDown(a)]
      BY <2>9, <3>2, <3>3
    <3>5. LET over == {j \in DOMAIN Segs : a \in DataOf(Segs[j])}
          IN  \/ mem[a] = 0 /\ over = {}
              \/ \E j \in over : (\A i \in over : i <= j) /\ mem[a] = Segs[j].offset + (a - Start(Segs[j])) + 1
      BY <1>1, <2>2, <2>4, <3>1, <3>3 DEF DataShape
    <3>6. WordShape(a)'
      BY <2>5, <2>6, <2>10, <3>1, <3>3, <3>5 DEF WordShape
    <3> QED
      BY <3>4, <3>6
  <2>18. ASSUME NEW p \in ImagePages, perm'[p] # Nil
         PROVE  \/ p < low' - FRAME_SIZE
                \/ p \in exe.core /\ (p >= low' \/ \E k \in DOMAIN Segs : Segs[k].memsz = 0)
    <3>1. perm[p] # Nil \/ p \in exe.core
      BY <1>5, <2>18
    <3> QED
      BY <1>1, <1>5, <3>1, GuardHolds
  <2>19. LoadedShape'
    BY <2>1, <2>5, <2>8, <2>17, <2>18 DEF LoadedShape
  <2> QED
    BY <2>14, <2>15, <2>16, <2>19 DEF ImageInv
<1> QED
  BY <1>3, <1>4, <1>5

-----------------------------------------------------------------------------
(* The image: the stack                                                     *)

\* The lists that are pushed.
LEMMA ListFacts ==
  ASSUME ImageInv
  PROVE  /\ exe \in Exes /\ argv \in Seq(StringSet) /\ Len(argv) \in Nat
         /\ EnvLen \in Nat /\ Len(Keys) \in Nat /\ DOMAIN Keys = 1..Len(Keys)
         /\ Strings("env", exe.call.envp) \in Seq(StringSet) /\ Len(Strings("env", exe.call.envp)) = EnvLen
         /\ exe.call.stack \in Nat /\ Len(stack) \in Nat /\ stack \in Seq(WordSet)
         /\ ptrs \in [argv : Seq(Nat), envp : Seq(Nat)] /\ item \in Nat
<1>1. exe \in Exes /\ argv \in Seq(StringSet) /\ stack \in Seq(WordSet) /\ ptrs \in [argv : Seq(Nat), envp : Seq(Nat)]
      /\ item \in Nat
  BY DEF ImageInv, ControlShape, StackTypes, ImageTypeOK
<1>2. exe.call.envp \in Seq(Nat \ {0}) /\ exe.call.stack \in Nat
  BY <1>1, UserImageAssumption
<1>3. /\ Strings("env", exe.call.envp) \in Seq(StringSet) /\ Len(Strings("env", exe.call.envp)) = EnvLen
      /\ EnvLen \in Nat
  <2> DEFINE l == exe.call.envp
  <2>1. l \in Seq(Nat \ {0}) /\ Len(l) \in Nat /\ DOMAIN l = 1..Len(l)
    BY <1>2
  <2> HIDE DEF l
  <2>2. \A i \in 1..Len(l) : <<"env", i, l[i]>> \in StringSet
    BY <2>1 DEF StringSet
  <2>3. [i \in 1..Len(l) |-> <<"env", i, l[i]>>] \in Seq(StringSet)
    BY <2>1, <2>2
  <2>4. Strings("env", l) = [i \in 1..Len(l) |-> <<"env", i, l[i]>>]
    BY <2>1 DEF Strings
  <2> DEFINE f == [i \in 1..Len(l) |-> <<"env", i, l[i]>>]
  <2>5. DOMAIN f = 1..Len(l)
    OBVIOUS
  <2> HIDE DEF f
  <2>6. Len(f) = Len(l)
    BY <2>1, <2>3, <2>5 DEF f
  <2> QED
    BY <2>1, <2>3, <2>4, <2>6 DEF l, f, EnvLen
<1>4. Len(Keys) \in Nat /\ DOMAIN Keys = 1..Len(Keys)
  <2>1. IsFiniteSet(KeySet)
    <3>1. StackKeys \subseteq ElfKeys \cup StackKeys
      OBVIOUS
    <3>2. IsFiniteSet(ElfKeys \cup StackKeys)
      BY UserImageAssumption
    <3>3. IsFiniteSet(StackKeys)
      BY <3>1, <3>2, FS_Subset
    <3> QED
      BY <3>2, <3>3 DEF KeySet
  <2>2. Cardinality(KeySet) \in Nat
    BY <2>1, FS_CardinalityType
  <2> DEFINE c == Cardinality(KeySet)
  <2>3. DOMAIN Keys = 1..c
    BY DEF Keys
  <2> DEFINE val(i) == CHOOSE k \in KeySet : Cardinality({x \in KeySet : x <= k}) = i
  <2> DEFINE vals == {val(i) : i \in 1..c}
  <2>4. Keys \in Seq(vals)
    <3>1. Keys = [i \in 1..c |-> val(i)]
      BY DEF Keys
    <3>2. \A i \in 1..c : val(i) \in vals
      OBVIOUS
    <3> HIDE DEF c, val, vals
    <3> QED
      BY <2>2, <3>1, <3>2 DEF c
  <2> HIDE DEF val, vals
  <2> HIDE DEF c
  <2>5. Len(Keys) = c
    BY <2>2, <2>3, <2>4 DEF c
  <2> QED
    BY <2>2, <2>3, <2>5 DEF c
<1> QED
  BY <1>1, <1>2, <1>3, <1>4

\* n times the same word.
LEMMA WordsAre ==
  ASSUME NEW v \in WordSet, NEW n \in Nat
  PROVE  Words(v, n) \in Seq(WordSet) /\ Len(Words(v, n)) = n /\ \A k \in 1..n : Words(v, n)[k] = v
<1>1. Words(v, n) = [i \in 1..n |-> v]
  BY DEF Words
<1>2. [i \in 1..n |-> v] \in Seq(WordSet)
  OBVIOUS
<1> QED
  BY <1>1, <1>2

\* Pointers stay right when words are pushed.
LEMMA PointsGrow ==
  ASSUME NEW S, NEW st \in Seq(S), NEW w \in Seq(S), NEW l \in Seq(Nat), NEW p, PointsInto(st, l, p)
  PROVE  PointsInto(st \o w, l, p)
<1>1. /\ Len(st \o w) = Len(st) + Len(w) /\ Len(st) \in Nat /\ Len(w) \in Nat
      /\ \A i \in 1..Len(st) : (st \o w)[i] = st[i]
  BY Glued
<1> DEFINE t == st \o w
<1> HIDE DEF t
<1>2. Len(t) = Len(st) + Len(w) /\ \A i \in 1..Len(st) : t[i] = st[i]
  BY <1>1 DEF t
<1>3. \A x \in 1..Len(st) : x \in 1..Len(t)
  BY <1>1, <1>2
<1>4. PointsInto(t, l, p)
  BY <1>2, <1>3 DEF PointsInto
<1> QED
  BY <1>4 DEF t

\* So does one more, to the word that was pushed last.
LEMMA PointsMore ==
  ASSUME NEW t, NEW l \in Seq(Nat), NEW p, PointsInto(t, l, p), Len(t) \in Nat \ {0}, Len(p) \in Nat,
         t[Len(t)] = p[Len(p) - Len(l)]
  PROVE  Append(l, Len(t)) \in Seq(Nat) /\ Len(Append(l, Len(t))) = Len(l) + 1 /\ PointsInto(t, Append(l, Len(t)), p)
<1> DEFINE m == Append(l, Len(t))
<1>1. m \in Seq(Nat) /\ Len(m) = Len(l) + 1 /\ Len(l) \in Nat /\ m[Len(l) + 1] = Len(t) /\ \A k \in 1..Len(l) : m[k] = l[k]
  OBVIOUS
<1> HIDE DEF m
<1>2. ASSUME NEW k \in 1..(Len(l) + 1)
      PROVE  m[k] \in 1..Len(t) /\ t[m[k]] = p[Len(p) + 1 - k]
  <2>1. CASE k = Len(l) + 1
    <3>1. Len(p) + 1 - k = Len(p) - Len(l)
      BY <1>1, <2>1
    <3> QED
      BY <1>1, <2>1, <3>1
  <2>2. CASE k # Len(l) + 1
    <3>1. k \in 1..Len(l)
      BY <1>1, <2>2
    <3> QED
      BY <1>1, <3>1 DEF PointsInto
  <2> QED
    BY <2>1, <2>2
<1> QED
  BY <1>1, <1>2 DEF PointsInto, m

\* What a step of this part leaves alone.
LEMMA PushStep ==
  ASSUME ImageInv, phase \in DOMAIN After \cup {"argc"}, NEW p \in DOMAIN After \cup {"argc", "done"}, NEW i \in Nat,
         Turn(p, i), result' \in {Nil, "ok", "panic", "nospace"}, result' # Nil => p = "done"
  PROVE  /\ ImageTypeOK' /\ ControlShape' /\ BlankShape' /\ LoadShape' /\ DataShape' /\ LoadedShape'
         /\ UNCHANGED <<exe, argv>> /\ EnvLen' = EnvLen /\ Keys' = Keys /\ WordSet' = WordSet /\ ItemsOf' = ItemsOf
         /\ phase' = p /\ item' = i /\ result = Nil
<1>1. /\ phase \notin Early \cup {"commit", "done"} /\ p \notin Early \cup {"commit"}
  BY DEF After, Early
<1>2. /\ phase' = p /\ item' = i /\ result = Nil
      /\ UNCHANGED <<exe, fileVars, loadVars, argv, image>>
      /\ UNCHANGED <<exe, cur, flen, edits, size, offset, seg, page, mem, perm, brk, low, argv, image>>
  BY <1>1 DEF Turn, ImageInv, ControlShape, fileVars, loadVars
<1>3. BlankShape' /\ LoadShape' /\ DataShape' /\ LoadedShape'
  BY <1>1, <1>2, LoadKept
<1>4. ImageTypeOK'
  <2>1. Segs' = Segs
    BY <1>2 DEF Segs, Elf
  <2> QED
    BY <1>2, <2>1 DEF ImageInv, ImageTypeOK
<1>5. ControlShape'
  <2>1. Nil \notin {"panic_read", "error"}
    BY UserImageAssumption
  <2> QED
    BY <1>1, <1>2, <2>1 DEF ImageInv, ControlShape, Early
<1>6. EnvLen' = EnvLen /\ Keys' = Keys
  BY <1>2 DEF EnvLen, Keys, KeySet
<1> QED
  BY <1>2, <1>3, <1>4, <1>5, <1>6 DEF WordSet, KeyWords, ItemsOf

\* A call that ends without success.
LEMMA StopKeepsImage ==
  ASSUME ImageInv, phase \in DOMAIN After \cup {"argc"}, NEW i \in Nat, Turn("done", i), result' \in {"panic", "nospace"},
         UNCHANGED ptrs, stack' \in Seq(WordSet), Len(stack') <= exe.call.stack + 1
  PROVE  ImageInv'
<1>1. result' \notin {Nil, "ok"}
  BY UserImageAssumption
<1>2. /\ ImageTypeOK' /\ ControlShape' /\ BlankShape' /\ LoadShape' /\ DataShape' /\ LoadedShape'
      /\ UNCHANGED <<exe, argv>> /\ WordSet' = WordSet
  BY PushStep
<1>3. StackTypes' /\ StackShape'
  BY <1>1, <1>2 DEF ImageInv, StackTypes, StackShape
<1> QED
  BY <1>2, <1>3 DEF ImageInv

\* The next phase.
LEMMA PhaseKeeps ==
  ASSUME ImageInv, phase \in DOMAIN After, NextPhase, item = ItemsOf[phase]
  PROVE  ImageInv'
<1> DEFINE p == After[phase]
<1>1. p \in DOMAIN After \cup {"argc"} /\ result = Nil /\ UNCHANGED <<stack, ptrs, result>> /\ Turn(p, 0)
  BY DEF NextPhase, After, ImageInv, ControlShape
<1>2. /\ ImageTypeOK' /\ ControlShape' /\ BlankShape' /\ LoadShape' /\ DataShape' /\ LoadedShape'
      /\ UNCHANGED <<exe, argv>> /\ EnvLen' = EnvLen /\ Keys' = Keys /\ WordSet' = WordSet /\ ItemsOf' = ItemsOf
      /\ phase' = p /\ item' = 0
  BY <1>1, PushStep
<1>3. /\ Len(argv) \in Nat /\ EnvLen \in Nat /\ Len(Keys) \in Nat
  BY ListFacts
<1>4. StackTypes'
  BY <1>1, <1>2 DEF ImageInv, StackTypes
<1>5. StackShape
  BY DEF ImageInv
<1>6. Depth' = Depth
  <2>1. Depth' = DepthAt(p, 0)
    BY <1>2 DEF Depth, DepthAt
  <2>2. DepthAt(p, 0) = DepthAt(phase, ItemsOf[phase])
    BY <1>3 DEF DepthAt, After, ItemsOf
  <2> QED
    BY <2>1, <2>2 DEF Depth
<1>7. \A j : Word(j)' = Word(j)
  BY <1>1, <1>2 DEF Word, PairWord
<1>8. 0 \in 0..ItemsOf[p]
  BY <1>3 DEF After, ItemsOf
<1>9. Pointed(ptrs.envp, Strings("env", exe.call.envp))' /\ Pointed(ptrs.argv, argv)'
  BY <1>1, <1>2, <1>5 DEF StackShape, Pointed, PointsInto, Strings
<1>10. /\ Len(ptrs'.envp) = IF p \in NoStack THEN 0 ELSE IF p = "envp" THEN 0 ELSE EnvLen
       /\ Len(ptrs'.argv) = IF p \in NoStack \cup {"envp"} THEN 0 ELSE IF p = "argv" THEN 0 ELSE Len(argv)
  BY <1>1, <1>5 DEF StackShape, After, ItemsOf, NoStack
<1>11. StackShape'
  BY <1>1, <1>2, <1>5, <1>6, <1>7, <1>8, <1>9, <1>10 DEF StackShape
<1> QED
  BY <1>2, <1>4, <1>11 DEF ImageInv

\* The depth is a number.
LEMMA DepthIs ==
  ASSUME NEW p \in {"aux", "auxv", "nul1", "envptr", "nul2", "argptr", "argc"}, NEW i \in Nat,
         EnvLen \in Nat, Len(Keys) \in Nat, Len(argv) \in Nat
  PROVE  DepthAt(p, i) \in Nat
<1>1. CASE p = "aux"
  BY <1>1 DEF DepthAt
<1>2. CASE p = "auxv"
  BY <1>2 DEF DepthAt
<1>3. CASE p = "nul1"
  BY <1>3 DEF DepthAt
<1>4. CASE p = "envptr"
  BY <1>4 DEF DepthAt
<1>5. CASE p = "nul2"
  BY <1>5 DEF DepthAt
<1>6. CASE p = "argptr"
  BY <1>6 DEF DepthAt
<1>7. CASE p = "argc"
  BY <1>7 DEF DepthAt
<1> QED
  BY <1>1, <1>2, <1>3, <1>4, <1>5, <1>6, <1>7

\* Words above the strings.
LEMMA PlainPush ==
  ASSUME ImageInv, phase \in {"aux", "auxv", "nul1", "envptr", "nul2", "argptr", "argc"}, NEW w \in Seq(WordSet),
         stack' = stack \o w, Len(stack') <= exe.call.stack + 1, result' = Nil, Turn(phase, item + 1),
         UNCHANGED ptrs, item + 1 \in 0..ItemsOf[phase],
         \/ DepthAt(phase, item + 1) = 0
         \/ DepthAt(phase, item + 1) = Depth + 1 /\ Len(w) = 1 /\ w[1] = Word(Depth)
  PROVE  ImageInv'
<1>1. /\ Len(argv) \in Nat /\ EnvLen \in Nat /\ Len(Keys) \in Nat /\ item \in Nat
      /\ stack \in Seq(WordSet) /\ Len(stack) \in Nat /\ Len(w) \in Nat
  BY ListFacts
<1>2. item + 1 \in Nat /\ phase \in DOMAIN After \cup {"argc"} /\ phase # "done"
  BY <1>1 DEF After
<1>3. /\ ImageTypeOK' /\ ControlShape' /\ BlankShape' /\ LoadShape' /\ DataShape' /\ LoadedShape'
      /\ UNCHANGED <<exe, argv>> /\ EnvLen' = EnvLen /\ Keys' = Keys /\ WordSet' = WordSet /\ ItemsOf' = ItemsOf
      /\ phase' = phase /\ item' = item + 1 /\ result = Nil
  BY <1>2, PushStep
<1>4. /\ stack' \in Seq(WordSet) /\ Len(stack') = Len(stack) + Len(w)
      /\ \A i \in 1..Len(stack) : stack'[i] = stack[i]
      /\ \A i \in 1..Len(w) : stack'[Len(stack) + i] = w[i]
  BY <1>1, Glued
<1>5. StackTypes'
  BY <1>3, <1>4 DEF ImageInv, StackTypes
<1>6. StackShape
  BY DEF ImageInv
<1>7. \A j : Word(j)' = Word(j)
  BY <1>3 DEF Word, PairWord
<1>8. Depth' = DepthAt(phase, item + 1)
  BY <1>3 DEF Depth, DepthAt
<1>9. Depth \in Nat /\ Depth <= Len(stack) /\ \A j \in 0..(Depth - 1) : stack[Len(stack) - Depth + 1 + j] = Word(j)
  <2>1. Depth \in Nat
    BY <1>1, DepthIs DEF Depth
  <2> QED
    BY <1>3, <1>6, <2>1 DEF StackShape
<1>10. Depth' <= Len(stack') /\ \A j \in 0..(Depth' - 1) : stack'[Len(stack') - Depth' + 1 + j] = Word(j)'
  <2>1. CASE DepthAt(phase, item + 1) = 0
    BY <1>1, <1>4, <1>8, <2>1
  <2>2. CASE DepthAt(phase, item + 1) = Depth + 1 /\ Len(w) = 1 /\ w[1] = Word(Depth)
    <3> DEFINE d == Depth
    <3>1. Depth' = d + 1 /\ Len(stack') = Len(stack) + 1 /\ d \in Nat /\ d <= Len(stack)
      BY <1>4, <1>8, <1>9, <2>2
    <3>2. stack'[Len(stack) + 1] = Word(d)
      BY <1>4, <2>2
    <3>3. \A j \in 0..(d - 1) : stack[Len(stack) - d + 1 + j] = Word(j)
      BY <1>9
    <3> HIDE DEF d
    <3>4. ASSUME NEW j \in 0..d
          PROVE  stack'[(Len(stack) + 1) - (d + 1) + 1 + j] = Word(j)
      <4>1. CASE j = d
        <5>1. (Len(stack) + 1) - (d + 1) + 1 + j = Len(stack) + 1
          BY <1>1, <3>1, <4>1
        <5> QED
          BY <3>2, <4>1, <5>1
      <4>2. CASE j < d
        <5>1. (Len(stack) + 1) - (d + 1) + 1 + j = Len(stack) - d + 1 + j /\ Len(stack) - d + 1 + j \in 1..Len(stack)
              /\ j \in 0..(d - 1)
          BY <1>1, <3>1, <4>2
        <5> QED
          BY <1>4, <3>3, <5>1
      <4> QED
        BY <3>1, <4>1, <4>2
    <3> QED
      BY <1>1, <1>7, <3>1, <3>4
  <2> QED
    BY <2>1, <2>2
<1>11. Pointed(ptrs.envp, Strings("env", exe.call.envp))' /\ Pointed(ptrs.argv, argv)'
  <2>1. Pointed(ptrs.envp, Strings("env", exe.call.envp)) /\ Pointed(ptrs.argv, argv)
    BY <1>3, <1>6 DEF StackShape
  <2>2. Strings("env", exe.call.envp)' = Strings("env", exe.call.envp)
    BY <1>3 DEF Strings
  <2>3. ptrs.envp \in Seq(Nat) /\ ptrs.argv \in Seq(Nat)
    BY ListFacts
  <2>4. PointsInto(stack', ptrs.envp, Strings("env", exe.call.envp)) /\ PointsInto(stack', ptrs.argv, argv)
    BY <1>1, <2>1, <2>3, PointsGrow DEF Pointed
  <2> QED
    BY <1>3, <2>2, <2>4 DEF Pointed
<1>12. StackShape'
  BY <1>2, <1>3, <1>6, <1>10, <1>11 DEF StackShape, NoStack
<1> QED
  BY <1>3, <1>5, <1>12 DEF ImageInv

\* A word of 64 bits above the strings.
LEMMA PushKeeps ==
  ASSUME ImageInv, phase \in {"aux", "auxv", "nul1", "envptr", "nul2", "argptr", "argc"}, NEW v \in WordSet,
         push_u64(v), Pushed(item + 1), UNCHANGED ptrs, item + 1 \in 0..ItemsOf[phase],
         DepthAt(phase, item + 1) = Depth + 1, v = Word(Depth)
  PROVE  ImageInv'
<1>1. Nil \notin {"nospace", "panic"}
  BY UserImageAssumption
<1>2. item + 1 \in Nat /\ phase \in DOMAIN After \cup {"argc"} /\ stack \in Seq(WordSet) /\ Len(stack) \in Nat
      /\ exe.call.stack \in Nat
  BY ListFacts DEF After
<1>3. Append(stack, v) = stack \o <<v>> /\ <<v>> \in Seq(WordSet) /\ Len(<<v>>) = 1 /\ <<v>>[1] = v
      /\ Append(stack, v) \in Seq(WordSet) /\ Len(Append(stack, v)) = Len(stack) + 1
  BY <1>2
<1>4. CASE Len(stack) > exe.call.stack
  <2>1. stack' = stack /\ result' = "nospace" /\ Turn("done", item + 1)
    BY <1>1, <1>4 DEF push_u64, Pushed
  <2>2. Len(stack) <= exe.call.stack + 1
    BY DEF ImageInv, StackTypes
  <2> QED
    BY <1>2, <2>1, <2>2, StopKeepsImage
<1>5. CASE ~(Len(stack) > exe.call.stack)
  <2>1. stack' = Append(stack, v) /\ Len(stack') <= exe.call.stack + 1
    BY <1>2, <1>3, <1>5 DEF push_u64
  <2>2. CASE Len(stack) + 1 > exe.call.stack
    <3>1. result' = "panic" /\ Turn("done", item + 1)
      BY <1>1, <1>5, <2>2 DEF push_u64, Pushed
    <3> QED
      BY <1>2, <1>3, <2>1, <3>1, StopKeepsImage
  <2>3. CASE ~(Len(stack) + 1 > exe.call.stack)
    <3>1. result' = Nil /\ Turn(phase, item + 1)
      BY <1>5, <2>3 DEF push_u64, Pushed
    <3> QED
      BY <1>3, <2>1, <3>1, PlainPush
  <2> QED
    BY <2>2, <2>3
<1> QED
  BY <1>4, <1>5

\* Bytes of the auxiliary vector.
LEMMA BytesKeep ==
  ASSUME ImageInv, phase = "aux", NEW v \in WordSet, NEW n \in Nat, push_bytes(v, n), Pushed(item + 1),
         UNCHANGED ptrs, item + 1 \in 0..3
  PROVE  ImageInv'
<1>1. Nil # "nospace"
  BY UserImageAssumption
<1>2. item + 1 \in Nat /\ phase \in DOMAIN After \cup {"argc"} /\ stack \in Seq(WordSet) /\ Len(stack) \in Nat
      /\ exe.call.stack \in Nat
  BY ListFacts DEF After
<1>3. Words(v, n) \in Seq(WordSet) /\ Len(Words(v, n)) = n
  BY WordsAre
<1>4. Len(stack \o Words(v, n)) = Len(stack) + n
  BY <1>2, <1>3, Glued
<1>5. CASE Len(stack) + n > exe.call.stack
  <2>1. stack' = stack /\ result' = "nospace" /\ Turn("done", item + 1)
    BY <1>1, <1>5 DEF push_bytes, Pushed
  <2>2. Len(stack) <= exe.call.stack + 1
    BY DEF ImageInv, StackTypes
  <2> QED
    BY <1>2, <2>1, <2>2, StopKeepsImage
<1>6. CASE ~(Len(stack) + n > exe.call.stack)
  <2>1. stack' = stack \o Words(v, n) /\ result' = Nil /\ Turn(phase, item + 1)
    BY <1>6 DEF push_bytes, Pushed
  <2>2. Len(stack') <= exe.call.stack + 1
    BY <1>2, <1>4, <1>6, <2>1
  <2>3. item + 1 \in 0..ItemsOf[phase] /\ DepthAt(phase, item + 1) = 0
    BY DEF ItemsOf, DepthAt
  <2> QED
    BY <1>3, <2>1, <2>2, <2>3, PlainPush
<1> QED
  BY <1>5, <1>6

\* A string, with its address.
LEMMA StringKeeps ==
  ASSUME ImageInv, NEW p \in {"envp", "argv"}, NEW list \in Seq(StringSet),
         list = (IF p = "envp" THEN Strings("env", exe.call.envp) ELSE argv), PushString(list, p)
  PROVE  ImageInv'
<1> DEFINE i == Len(list) - item
<1> DEFINE v == list[i]
<1> DEFINE n == list[i][3]
<1>1. /\ phase = p /\ phase \in DOMAIN After /\ result = Nil /\ Nil # "nospace" /\ StackShape
  BY UserImageAssumption DEF PushString, After, ImageInv, ControlShape
<1>2. /\ Len(argv) \in Nat /\ EnvLen \in Nat /\ item \in Nat /\ stack \in Seq(WordSet) /\ Len(stack) \in Nat
      /\ ptrs \in [argv : Seq(Nat), envp : Seq(Nat)] /\ exe.call.stack \in Nat /\ Len(list) \in Nat
      /\ Len(Strings("env", exe.call.envp)) = EnvLen
  BY ListFacts
<1>3. ItemsOf[p] = Len(list) /\ item \in 0..Len(list) /\ Depth = 0
  <2>1. ItemsOf[p] = Len(list)
    BY <1>2 DEF ItemsOf
  <2> QED
    BY <1>1, <2>1 DEF StackShape, Depth, DepthAt
<1>4. CASE i = 0
  <2>1. NextPhase
    BY <1>4 DEF PushString
  <2>2. item = ItemsOf[phase]
    BY <1>1, <1>2, <1>3, <1>4
  <2> QED
    BY <1>1, <2>1, <2>2, PhaseKeeps
<1>5. CASE i > 0
  <2>1. /\ push_bytes(v, n) /\ ptrs' = (IF result' = Nil THEN [ptrs EXCEPT ![p] = Append(@, Len(stack'))] ELSE ptrs)
        /\ Pushed(item + 1)
    BY <1>2, <1>5 DEF PushString
  <2>2. i \in 1..Len(list) /\ v \in StringSet /\ v \in WordSet /\ n \in Nat /\ n > 0
    <3>1. i \in 1..Len(list) /\ v \in StringSet
      BY <1>2, <1>3, <1>5
    <3> QED
      BY <3>1 DEF StringSet, WordSet
  <2> HIDE DEF i, v, n
  <2>3. /\ Words(v, n) \in Seq(WordSet) /\ Len(Words(v, n)) = n /\ \A k \in 1..n : Words(v, n)[k] = v
    BY <2>2, WordsAre
  <2>4. CASE Len(stack) + n > exe.call.stack
    <3>1. stack' = stack /\ result' = "nospace" /\ Turn("done", item + 1) /\ ptrs' = ptrs
      BY <1>1, <2>1, <2>4 DEF push_bytes, Pushed
    <3>2. Len(stack) <= exe.call.stack + 1
      BY DEF ImageInv, StackTypes
    <3>3. item + 1 \in Nat
      BY <1>2
    <3> QED
      BY <1>1, <1>2, <3>1, <3>2, <3>3, StopKeepsImage
  <2>5. CASE ~(Len(stack) + n > exe.call.stack)
    <3>1. stack' = stack \o Words(v, n) /\ result' = Nil /\ Turn(phase, item + 1)
      BY <2>1, <2>5 DEF push_bytes, Pushed
    <3>2. ptrs' = [ptrs EXCEPT ![p] = Append(@, Len(stack'))]
      BY <2>1, <3>1
    <3>3. item + 1 \in Nat
      BY <1>2
    <3>4. /\ ImageTypeOK' /\ ControlShape' /\ BlankShape' /\ LoadShape' /\ DataShape' /\ LoadedShape'
          /\ UNCHANGED <<exe, argv>> /\ EnvLen' = EnvLen /\ Keys' = Keys /\ WordSet' = WordSet /\ ItemsOf' = ItemsOf
          /\ phase' = p /\ item' = item + 1
      BY <1>1, <3>1, <3>3, PushStep
    <3>5. /\ stack' \in Seq(WordSet) /\ Len(stack') = Len(stack) + n
          /\ \A k \in 1..Len(stack) : stack'[k] = stack[k]
          /\ stack'[Len(stack')] = v /\ Len(stack') \in Nat
      <4>1. /\ stack' \in Seq(WordSet) /\ Len(stack') = Len(stack) + n
            /\ \A k \in 1..(Len(stack) + n) : stack'[k] = IF k <= Len(stack) THEN stack[k] ELSE Words(v, n)[k - Len(stack)]
        BY <1>2, <2>3, <3>1, Glued
      <4>2. stack'[Len(stack) + n] = Words(v, n)[n]
        BY <1>2, <2>2, <4>1
      <4> QED
        BY <1>2, <2>2, <2>3, <4>1, <4>2
    <3> DEFINE old == ptrs[p]
    <3> DEFINE new == Append(old, Len(stack'))
    <3>6. /\ ptrs.envp \in Seq(Nat) /\ ptrs.argv \in Seq(Nat) /\ old \in Seq(Nat) /\ Len(old) = item
          /\ Pointed(ptrs.envp, Strings("env", exe.call.envp)) /\ Pointed(ptrs.argv, argv)
      BY <1>1, <1>2 DEF StackShape, NoStack
    <3>7. /\ PointsInto(stack', ptrs.envp, Strings("env", exe.call.envp)) /\ PointsInto(stack', ptrs.argv, argv)
          /\ PointsInto(stack', old, list)
      BY <1>2, <2>3, <3>1, <3>6, PointsGrow DEF Pointed
    <3>8. new \in Seq(Nat) /\ Len(new) = item + 1 /\ PointsInto(stack', new, list)
      <4>1. Len(stack') \in Nat \ {0} /\ stack'[Len(stack')] = list[Len(list) - Len(old)]
        BY <1>2, <2>2, <3>5, <3>6 DEF i, v
      <4> HIDE DEF old
      <4> QED
        BY <1>2, <3>6, <3>7, <4>1, PointsMore
    <3>9. /\ ptrs' \in [argv : Seq(Nat), envp : Seq(Nat)] /\ ptrs'[p] = new
          /\ p = "envp" => ptrs'.argv = ptrs.argv
          /\ p = "argv" => ptrs'.envp = ptrs.envp
      <4>1. ptrs' = [ptrs EXCEPT ![p] = new]
        BY <3>2
      <4> HIDE DEF new
      <4> QED
        BY <1>2, <3>8, <4>1
    <3> HIDE DEF old, new
    <3>11. Pointed(ptrs.envp, Strings("env", exe.call.envp))' /\ Pointed(ptrs.argv, argv)'
      <4>1. Strings("env", exe.call.envp)' = Strings("env", exe.call.envp)
        BY <3>4 DEF Strings
      <4>2. PointsInto(stack', ptrs'.envp, Strings("env", exe.call.envp)) /\ PointsInto(stack', ptrs'.argv, argv)
        BY <3>7, <3>8, <3>9
      <4> QED
        BY <3>4, <4>1, <4>2 DEF Pointed
    <3>12. Depth' = 0
      BY <3>4 DEF Depth, DepthAt
    <3>13. item' \in 0..ItemsOf'[phase']
      BY <1>2, <1>3, <2>2, <3>4 DEF i
    <3>14. /\ Len(ptrs'.envp) = IF p = "envp" THEN item' ELSE EnvLen
           /\ Len(ptrs'.argv) = IF p = "argv" THEN item' ELSE 0
      BY <1>1, <3>4, <3>8, <3>9 DEF StackShape, NoStack
    <3>15. StackTypes'
      <4>1. Len(stack') <= exe.call.stack + 1
        BY <1>2, <2>2, <2>5, <3>5
      <4>2. argv \in Seq(StringSet)
        BY ListFacts
      <4> QED
        BY <3>4, <3>5, <3>9, <4>1, <4>2 DEF StackTypes
    <3>16. StackShape'
      BY <1>2, <3>4, <3>5, <3>11, <3>12, <3>13, <3>14 DEF StackShape, NoStack
    <3> QED
      BY <3>4, <3>15, <3>16 DEF ImageInv
  <2> QED
    BY <2>4, <2>5
<1> QED
  BY <1>2, <1>3, <1>4, <1>5

\* Putting the image in place keeps the invariant.
LEMMA CommitKeeps ==
  ASSUME ImageInv, Commit \/ CommitFirst
  PROVE  ImageInv'
<1>1. /\ phase = "commit" /\ phase' = "envp" /\ image' = "new" /\ result = Nil /\ result' = Nil
      /\ argv' = argv \/ argv' = <<>>
      /\ UNCHANGED <<exe, fileVars, loadVars, stackVars>>
  BY DEF Commit, CommitFirst, Go, ImageInv, ControlShape
<1>2. UNCHANGED <<exe, cur, flen, edits, size, offset, seg, page, mem, perm, brk, low, stack, ptrs, item>>
  BY <1>1 DEF fileVars, loadVars, stackVars
<1>3. BlankShape' /\ LoadShape' /\ DataShape' /\ LoadedShape'
  BY <1>1, LoadKept DEF Early
<1>4. argv' \in Seq(StringSet)
  <2>1. argv \in Seq(StringSet) /\ <<>> \in Seq(StringSet)
    BY DEF ImageInv, StackTypes
  <2> QED
    BY <1>1, <2>1
<1>5. StackTypes' /\ StackShape'
  BY <1>1, <1>4, StackKept
<1>6. ImageTypeOK'
  BY <1>1, <1>2 DEF ImageInv, ImageTypeOK, Segs, Elf, After
<1>7. ControlShape'
  <2>1. Nil \notin {"error", "panic_read"}
    BY UserImageAssumption
  <2> QED
    BY <1>1, <1>2, <2>1 DEF ImageInv, ControlShape
<1> QED
  BY <1>3, <1>5, <1>6, <1>7 DEF ImageInv

\* The strings of the auxiliary vector and its end.
LEMMA AuxKeeps ==
  ASSUME ImageInv, Aux
  PROVE  ImageInv'
<1>1. /\ phase = "aux" /\ phase \in DOMAIN After /\ UNCHANGED ptrs /\ ItemsOf[phase] = 4
  BY DEF Aux, After, ItemsOf
<1>2. {"random", "platform", "path", 0} \subseteq WordSet
  BY DEF WordSet
<1>3. CASE item = 0 /\ push_bytes("random", 3) /\ Pushed(1)
  BY <1>1, <1>2, <1>3, BytesKeep
<1>4. CASE item = 1 /\ push_bytes("platform", 1) /\ Pushed(2)
  BY <1>1, <1>2, <1>4, BytesKeep
<1>5. CASE item = 2 /\ push_bytes("path", 1) /\ Pushed(3)
  BY <1>1, <1>2, <1>5, BytesKeep
<1>6. CASE item = 3 /\ push_u64(0) /\ Pushed(4)
  <2>1. Depth = 0 /\ DepthAt(phase, item + 1) = Depth + 1
    BY <1>1, <1>6 DEF Depth, DepthAt
  <2>2. Word(Depth) = 0
    BY <2>1 DEF Word
  <2>3. item + 1 = 4 /\ item + 1 \in 0..ItemsOf[phase]
    BY <1>1, <1>6
  <2> QED
    BY <1>1, <1>2, <1>6, <2>1, <2>2, <2>3, PushKeeps
<1>7. CASE item = 4 /\ NextPhase
  BY <1>1, <1>7, PhaseKeeps
<1> QED
  BY <1>3, <1>4, <1>5, <1>6, <1>7 DEF Aux

\* The pairs of the auxiliary vector.
LEMMA AuxvKeeps ==
  ASSUME ImageInv, Auxv
  PROVE  ImageInv'
<1>1. /\ phase = "auxv" /\ phase \in DOMAIN After /\ UNCHANGED ptrs /\ ItemsOf[phase] = 2 * Len(Keys)
  BY DEF Auxv, After, ItemsOf
<1>2. Len(Keys) \in Nat /\ DOMAIN Keys = 1..Len(Keys) /\ item \in Nat
  BY ListFacts
<1>3. CASE item = 2 * Len(Keys) /\ NextPhase
  BY <1>1, <1>3, PhaseKeeps
<1>4. CASE item < 2 * Len(Keys) /\ push_u64(PairWord(item)) /\ Pushed(item + 1)
  <2>1. item + 1 \in 0..ItemsOf[phase]
    BY <1>1, <1>2, <1>4
  <2>2. Depth = 1 + item /\ DepthAt(phase, item + 1) = Depth + 1
    BY <1>1, <1>2 DEF Depth, DepthAt
  <2>3. item \div 2 + 1 \in DOMAIN Keys
    BY <1>2, <1>4
  <2>4. PairWord(item) \in WordSet
    BY <2>3 DEF PairWord, WordSet, KeyWords
  <2>5. Word(Depth) = PairWord(item)
    <3>1. EnvLen \in Nat
      BY ListFacts
    <3>2. Depth \in Int /\ Depth # 0 /\ Depth <= 2 * Len(Keys) /\ Depth - 1 = item
      BY <1>2, <1>4, <2>2
    <3> QED
      BY <1>2, <3>1, <3>2 DEF Word
  <2> QED
    BY <1>1, <1>4, <2>1, <2>2, <2>4, <2>5, PushKeeps
<1> QED
  BY <1>3, <1>4 DEF Auxv, PairWord

\* The ends of the lists.
LEMMA NulKeeps ==
  ASSUME ImageInv, Nul
  PROVE  ImageInv'
<1>1. /\ phase \in {"nul1", "nul2"} /\ phase \in DOMAIN After /\ UNCHANGED ptrs /\ ItemsOf[phase] = 1
  BY DEF Nul, After, ItemsOf
<1>2. CASE item = 1 /\ NextPhase
  BY <1>1, <1>2, PhaseKeeps
<1>3. CASE item = 0 /\ push_u64(0) /\ Pushed(1)
  <2>1. Len(Keys) \in Nat /\ EnvLen \in Nat /\ 0 \in WordSet
    BY ListFacts DEF WordSet
  <2>2. DepthAt(phase, 1) = Depth + 1 /\ Word(Depth) = 0
    <3>1. CASE phase = "nul1"
      BY <1>3, <2>1, <3>1 DEF Depth, DepthAt, Word
    <3>2. CASE phase = "nul2"
      BY <1>3, <2>1, <3>2 DEF Depth, DepthAt, Word
    <3> QED
      BY <1>1, <3>1, <3>2
  <2>3. item + 1 = 1 /\ item + 1 \in 0..ItemsOf[phase]
    BY <1>1, <1>3
  <2> QED
    BY <1>1, <1>3, <2>1, <2>2, <2>3, PushKeeps
<1> QED
  BY <1>2, <1>3 DEF Nul

\* The addresses of the strings.
LEMMA PointersKeep ==
  ASSUME ImageInv, PushPointers(ptrs.envp, "envptr") \/ PushPointers(ptrs.argv, "argptr")
  PROVE  ImageInv'
<1>1. PICK list, p : /\ PushPointers(list, p) /\ p \in {"envptr", "argptr"}
                     /\ list = IF p = "envptr" THEN ptrs.envp ELSE ptrs.argv
  OBVIOUS
<1>2. /\ phase = p /\ phase \in DOMAIN After /\ UNCHANGED ptrs /\ result = Nil /\ StackShape
  BY <1>1 DEF PushPointers, After, ImageInv, ControlShape
<1>3. /\ Len(Keys) \in Nat /\ EnvLen \in Nat /\ Len(argv) \in Nat /\ item \in Nat
      /\ ptrs \in [argv : Seq(Nat), envp : Seq(Nat)]
  BY ListFacts
<1>4. Len(list) = ItemsOf[phase] /\ list \in Seq(Nat) /\ Len(list) \in Nat
      /\ Len(list) = IF p = "envptr" THEN EnvLen ELSE Len(argv)
  BY <1>1, <1>2, <1>3 DEF StackShape, ItemsOf, NoStack
<1>5. CASE item = Len(list) /\ NextPhase
  BY <1>2, <1>4, <1>5, PhaseKeeps
<1>6. CASE item < Len(list) /\ push_u64(list[item + 1]) /\ Pushed(item + 1)
  <2>1. item + 1 \in 1..Len(list) /\ item + 1 \in 0..ItemsOf[phase]
    BY <1>3, <1>4, <1>6
  <2>2. list[item + 1] \in WordSet
    BY <1>4, <2>1 DEF WordSet
  <2>3. DepthAt(phase, item + 1) = Depth + 1 /\ Word(Depth) = list[item + 1]
    <3> DEFINE K == 2 * Len(Keys)
    <3>1. K \in Nat
      BY <1>3
    <3>2. CASE p = "envptr"
      <4>1. Depth = K + 2 + item /\ DepthAt(phase, item + 1) = K + 2 + (item + 1)
        BY <1>2, <3>2 DEF Depth, DepthAt
      <4>2. item < EnvLen /\ list = ptrs.envp
        BY <1>1, <1>4, <1>6, <3>2
      <4>3. \A j : Word(j) = IF j \in {0, K + 1, K + EnvLen + 2} THEN 0
                             ELSE IF j <= K THEN PairWord(j - 1)
                             ELSE IF j <= K + EnvLen + 1 THEN ptrs.envp[j - (K + 1)]
                             ELSE IF j <= K + EnvLen + Len(argv) + 2 THEN ptrs.argv[j - (K + EnvLen + 2)]
                             ELSE Len(argv)
        BY DEF Word
      <4> HIDE DEF K
      <4>4. Depth \notin {0, K + 1, K + EnvLen + 2} /\ ~(Depth <= K) /\ Depth <= K + EnvLen + 1 /\ Depth - (K + 1) = item + 1
        BY <1>3, <3>1, <4>1, <4>2
      <4>5. Word(Depth) = list[item + 1]
        BY <4>2, <4>3, <4>4
      <4> QED
        BY <1>3, <3>1, <4>1, <4>5
    <3>3. CASE p = "argptr"
      <4>1. Depth = K + EnvLen + 3 + item /\ DepthAt(phase, item + 1) = K + EnvLen + 3 + (item + 1)
        BY <1>2, <3>3 DEF Depth, DepthAt
      <4>2. item < Len(argv) /\ list = ptrs.argv
        BY <1>1, <1>4, <1>6, <3>3
      <4>3. \A j : Word(j) = IF j \in {0, K + 1, K + EnvLen + 2} THEN 0
                             ELSE IF j <= K THEN PairWord(j - 1)
                             ELSE IF j <= K + EnvLen + 1 THEN ptrs.envp[j - (K + 1)]
                             ELSE IF j <= K + EnvLen + Len(argv) + 2 THEN ptrs.argv[j - (K + EnvLen + 2)]
                             ELSE Len(argv)
        BY DEF Word
      <4> HIDE DEF K
      <4>4. /\ Depth \notin {0, K + 1, K + EnvLen + 2} /\ ~(Depth <= K) /\ ~(Depth <= K + EnvLen + 1)
            /\ Depth <= K + EnvLen + Len(argv) + 2 /\ Depth - (K + EnvLen + 2) = item + 1
        BY <1>3, <3>1, <4>1, <4>2
      <4>5. Word(Depth) = list[item + 1]
        BY <4>2, <4>3, <4>4
      <4> QED
        BY <1>3, <3>1, <4>1, <4>5
    <3> QED
      BY <1>1, <3>2, <3>3
  <2>4. phase \in {"aux", "auxv", "nul1", "envptr", "nul2", "argptr", "argc"}
    BY <1>1, <1>2
  <2> QED
    BY <1>2, <1>6, <2>1, <2>2, <2>3, <2>4, PushKeeps
<1> QED
  BY <1>1, <1>5, <1>6 DEF PushPointers

\* The number of arguments, and the end.
LEMMA ArgcKeeps ==
  ASSUME ImageInv, Argc
  PROVE  ImageInv'
<1>1. phase = "argc" /\ UNCHANGED ptrs /\ ItemsOf[phase] = 1 /\ StackShape /\ result = Nil
  BY DEF Argc, ItemsOf, ImageInv, ControlShape
<1>2. Len(Keys) \in Nat /\ EnvLen \in Nat /\ Len(argv) \in Nat /\ stack \in Seq(WordSet) /\ Len(stack) \in Nat
  BY ListFacts
<1>3. CASE item = 0 /\ push_u64(Len(argv)) /\ Pushed(1)
  <2>1. DepthAt(phase, 1) = Depth + 1 /\ Word(Depth) = Len(argv)
    BY <1>1, <1>2, <1>3, SMTT(40) DEF Depth, DepthAt, Word
  <2>2. item + 1 = 1 /\ item + 1 \in 0..ItemsOf[phase] /\ Len(argv) \in WordSet
    BY <1>1, <1>2, <1>3 DEF WordSet
  <2> QED
    BY <1>1, <1>3, <2>1, <2>2, PushKeeps
<1>4. CASE item = 1 /\ stack' = stack /\ result' = "ok" /\ Turn("done", 0)
  <2>1. /\ ImageTypeOK' /\ ControlShape' /\ BlankShape' /\ LoadShape' /\ DataShape' /\ LoadedShape'
        /\ UNCHANGED <<exe, argv>> /\ EnvLen' = EnvLen /\ Keys' = Keys /\ WordSet' = WordSet /\ ItemsOf' = ItemsOf
        /\ phase' = "done" /\ item' = 0
    BY <1>1, <1>4, PushStep
  <2>2. StackTypes'
    BY <1>1, <1>4, <2>1 DEF ImageInv, StackTypes
  <2>3. \A j : Word(j)' = Word(j)
    BY <1>1, <2>1 DEF Word, PairWord
  <2>4. Depth' = Depth
    <3>1. Depth' = DepthAt("done", 0)
      BY <2>1 DEF Depth, DepthAt
    <3>2. DepthAt("done", 0) = DepthAt("argc", 1)
      BY <1>2 DEF DepthAt
    <3> QED
      BY <1>1, <1>4, <3>1, <3>2 DEF Depth
  <2>5. Pointed(ptrs.envp, Strings("env", exe.call.envp))' /\ Pointed(ptrs.argv, argv)'
    BY <1>1, <1>4, <2>1 DEF StackShape, Pointed, PointsInto, Strings
  <2>6. Len(ptrs'.envp) = EnvLen' /\ Len(ptrs'.argv) = Len(argv')
    BY <1>1, <2>1 DEF StackShape, NoStack
  <2>7. StackShape'
    BY <1>1, <1>4, <2>1, <2>3, <2>4, <2>5, <2>6 DEF StackShape, NoStack
  <2> QED
    BY <2>1, <2>2, <2>7 DEF ImageInv
<1> QED
  BY <1>3, <1>4 DEF Argc

-----------------------------------------------------------------------------
(* The image: what it promises                                              *)

\* The call begins with the invariant.
LEMMA ImageBegins ==
  ASSUME ImageInit
  PROVE  ImageInv
<1>1. /\ exe \in Exes /\ phase = "open" /\ cur = "prog" /\ flen = exe.file.len /\ edits = 0 /\ size = 0 /\ offset = 0
      /\ seg = 1 /\ page = Nil /\ mem = [a \in Addrs |-> Nil] /\ perm = [a \in ImagePages |-> Nil]
      /\ brk = 0 /\ low = 0 /\ argv = Strings("arg", exe.call.argv)
      /\ stack = <<>> /\ ptrs = [argv |-> <<>>, envp |-> <<>>] /\ item = 0
      /\ image = "old" /\ result = Nil
  BY DEF ImageInit
<1>2. /\ exe.file \in File /\ exe.call.argv \in Seq(Nat \ {0}) /\ exe.call.envp \in Seq(Nat \ {0}) /\ exe.call.stack \in Nat
      /\ MaxEdits \in Nat /\ Nil \notin {"ok", "error", "panic", "panic_read", "nospace"}
  BY <1>1, UserImageAssumption
<1>3. Len(Segs) \in Nat
  BY <1>1, ElfFacts
<1>4. ImageTypeOK
  <2>1. flen \in Nat
    BY <1>1, <1>2 DEF File
  <2> QED
    BY <1>1, <1>2, <1>3, <2>1 DEF ImageTypeOK
<1>5. ControlShape /\ BlankShape /\ LoadShape /\ DataShape /\ LoadedShape
  BY <1>1, <1>2 DEF ControlShape, BlankShape, LoadShape, DataShape, LoadedShape, Early
<1>6. argv \in Seq(StringSet) /\ Len(argv) \in Nat
  <2> DEFINE l == exe.call.argv
  <2>1. Len(l) \in Nat /\ DOMAIN l = 1..Len(l) /\ \A i \in 1..Len(l) : l[i] \in Nat \ {0}
    BY <1>2
  <2>2. argv = [i \in 1..Len(l) |-> <<"arg", i, l[i]>>]
    BY <1>1, <2>1 DEF Strings
  <2> HIDE DEF l
  <2>3. \A i \in 1..Len(l) : <<"arg", i, l[i]>> \in StringSet
    BY <2>1 DEF StringSet
  <2>4. [i \in 1..Len(l) |-> <<"arg", i, l[i]>>] \in Seq(StringSet)
    BY <2>1, <2>3
  <2> QED
    BY <2>2, <2>4
<1>7. StackTypes
  BY <1>1, <1>2, <1>6 DEF StackTypes
<1>8. StackShape
  <2>1. item \in 0..ItemsOf[phase] /\ Depth = 0
    BY <1>1 DEF ItemsOf, Depth, DepthAt
  <2>2. Pointed(ptrs.envp, Strings("env", exe.call.envp)) /\ Pointed(ptrs.argv, argv)
    BY <1>1 DEF Pointed, PointsInto
  <2> QED
    BY <1>1, <2>1, <2>2 DEF StackShape, NoStack
<1> QED
  BY <1>4, <1>5, <1>7, <1>8 DEF ImageInv

\* Every step of the call, and of those who write to the file, keeps the invariant.
LEMMA ImageKeeps ==
  ASSUME ImageInv, [ImageNext]_imageVars
  PROVE  ImageInv'
<1>1. CASE UNCHANGED imageVars
  <2>1. UNCHANGED <<exe, phase, cur, flen, edits, size, offset, seg, page, mem, perm, brk, low, argv, stack, ptrs, item,
                    image, result>>
    BY <1>1 DEF imageVars, fileVars, loadVars, stackVars
  <2>2. /\ Segs' = Segs /\ Bias' = Bias /\ Elf' = Elf /\ Entries' = Entries
        /\ \A x : Start(x)' = Start(x) /\ MemOf(x)' = MemOf(x) /\ DataOf(x)' = DataOf(x)
    BY <2>1 DEF Segs, Bias, Elf, Entries, Start, MemOf, DataOf
  <2>3. ImageTypeOK' /\ ControlShape' /\ BlankShape'
    BY <2>1, <2>2 DEF ImageInv, ImageTypeOK, ControlShape, BlankShape
  <2>4. LoadShape' /\ DataShape'
    BY <2>1, <2>2 DEF ImageInv, LoadShape, DataShape, Begun, Seen
  <2>5. LoadedShape'
    <3>1. \A a : WordShape(a)' <=> WordShape(a)
      BY <2>1, <2>2 DEF WordShape, RelWord
    <3> QED
      BY <2>1, <2>2, <3>1 DEF ImageInv, LoadedShape
  <2>6. /\ KeySet' = KeySet /\ Keys' = Keys /\ EnvLen' = EnvLen /\ WordSet' = WordSet /\ ItemsOf' = ItemsOf
    BY <2>1 DEF Keys, KeySet, EnvLen, WordSet, KeyWords, ItemsOf
  <2>7. Depth' = Depth /\ \A j : Word(j)' = Word(j)
    BY <2>1, <2>6 DEF Depth, DepthAt, Word, PairWord
  <2>8. StackTypes' /\ StackShape'
    BY <2>1, <2>6, <2>7 DEF ImageInv, StackTypes, StackShape, Pointed, PointsInto, Strings
  <2> QED
    BY <2>3, <2>4, <2>5, <2>8 DEF ImageInv
<1>2. ASSUME NEW p \in {"envp", "argv"}, NEW list,
             list = (IF p = "envp" THEN Strings("env", exe.call.envp) ELSE argv), PushString(list, p)
      PROVE  ImageInv'
  <2>1. list \in Seq(StringSet)
    BY <1>2, ListFacts
  <2> QED
    BY <1>2, <2>1, StringKeeps
<1>3. CASE PushString(Strings("env", exe.call.envp), "envp")
  BY <1>2, <1>3
<1>4. CASE PushString(argv, "argv")
  BY <1>2, <1>4
<1> QED
  BY <1>1, <1>3, <1>4, OpenKeeps, EditKeeps, ReadKeeps, ParseKeeps, RefuseKeeps, BeginKeeps, LoadPageKeeps, NextSegmentKeeps,
     MapStackKeeps, CommitKeeps, AuxKeeps, AuxvKeeps, NulKeeps, PointersKeep, ArgcKeeps DEF ImageNext, Step, Done

\* The invariant holds throughout the call.
THEOREM ImageInvHolds == ImageSpec => []ImageInv
<1>1. ImageInit => ImageInv
  BY ImageBegins
<1>2. ImageInv /\ [ImageNext]_imageVars => ImageInv'
  BY ImageKeeps
<1> QED
  BY <1>1, <1>2, PTL DEF ImageSpec

\* The last of a set of numbers is the only one.
LEMMA LastIs ==
  ASSUME NEW S \in SUBSET Int, NEW x \in S, \A y \in S : y <= x
  PROVE  (CHOOSE z \in S : \A y \in S : y <= z) = x
<1> DEFINE c == CHOOSE z \in S : \A y \in S : y <= z
<1>1. c \in S /\ \A y \in S : y <= c
  OBVIOUS
<1> HIDE DEF c
<1>2. c = x
  BY <1>1
<1> QED
  BY <1>2 DEF c

\* Where the words above the strings are read: the lists of n arguments and m strings of the environment,
\* K words of the vector.
LEMMA Spots ==
  ASSUME NEW K \in Nat, NEW m \in Nat, NEW n \in Nat
  PROVE  /\ \A x \in {0, n + 1, n + m + 2, n + m + 3 + K} : x \in 0..(K + m + n + 3)
         /\ (K + m + n + 3) - (n + 1) = K + m + 2
         /\ (K + m + n + 3) - (n + m + 2) = K + 1
         /\ (K + m + n + 3) - (n + m + 3 + K) = 0
         /\ \A i \in 1..n : LET j == (K + m + n + 3) - i
                            IN  /\ j \notin {0, K + 1, K + m + 2} /\ ~(j <= K) /\ ~(j <= K + m + 1) /\ j <= K + m + n + 2
                                /\ j - (K + m + 2) = n + 1 - i /\ i \in 0..(K + m + n + 3)
         /\ \A i \in 1..m : LET j == (K + m + 2) - i
                            IN  /\ j \notin {0, K + 1, K + m + 2} /\ ~(j <= K) /\ j <= K + m + 1 /\ j - (K + 1) = m + 1 - i
                                /\ n + 1 + i \in 0..(K + m + n + 3) /\ (K + m + n + 3) - (n + 1 + i) = j
  OBVIOUS

\* Where word j of the vector is read.
LEMMA SpotOfPair ==
  ASSUME NEW K \in Nat, NEW m \in Nat, NEW n \in Nat, NEW j \in 1..K
  PROVE  /\ j \in Int /\ j <= K /\ j \notin {0, K + 1, K + m + 2}
         /\ n + m + 3 + (K - j) \in 0..(K + m + n + 3) /\ (K + m + n + 3) - (n + m + 3 + (K - j)) = j
  OBVIOUS

\* The key and the value of a pair, L pairs in all.
LEMMA Pairs ==
  ASSUME NEW L \in Nat, NEW r \in Nat, NEW i \in 1..L
  PROVE  /\ 2 * L + 2 - 2 * i \in 1..(2 * L) /\ 2 * L + 1 - 2 * i \in 1..(2 * L)
         /\ r + (2 * L - (2 * L + 2 - 2 * i)) = r + 2 * (i - 1)
         /\ r + (2 * L - (2 * L + 1 - 2 * i)) = r + 2 * i - 1
         /\ ((2 * L + 2 - 2 * i) - 1) % 2 = 1 /\ ((2 * L + 2 - 2 * i) - 1) \div 2 + 1 = L + 1 - i
         /\ ((2 * L + 1 - 2 * i) - 1) % 2 = 0 /\ ((2 * L + 1 - 2 * i) - 1) \div 2 + 1 = L + 1 - i
         /\ L + 1 - i \in 1..L
  OBVIOUS

\* What is read from the stack pointer up is what was pushed.
LEMMA ReadBack ==
  ASSUME ImageInv, result = "ok", NEW d, d = 2 * Len(Keys) + EnvLen + Len(argv) + 4
  PROVE  \A i \in 0..(d - 1) : stack[Len(stack) - i] = Word(d - 1 - i)
<1>1. phase = "done" /\ StackShape
  BY UserImageAssumption DEF ImageInv, ControlShape
<1>2. Len(Keys) \in Nat /\ EnvLen \in Nat /\ Len(argv) \in Nat /\ Len(stack) \in Nat
  BY ListFacts
<1>3. Depth = d /\ d \in Nat
  BY <1>1, <1>2 DEF Depth, DepthAt
<1>4. \A j \in 0..(d - 1) : stack[Len(stack) - d + 1 + j] = Word(j)
  BY <1>1, <1>3 DEF StackShape
<1>5. ASSUME NEW i \in 0..(d - 1)
      PROVE  stack[Len(stack) - i] = Word(d - 1 - i)
  <2>1. d - 1 - i \in 0..(d - 1) /\ Len(stack) - d + 1 + (d - 1 - i) = Len(stack) - i
    BY <1>2, <1>3
  <2> QED
    BY <1>4, <2>1
<1> QED
  BY <1>5

\* The invariant says that the program finds what it was called with.
LEMMA ArgumentsAreThere ==
  ASSUME ImageInv
  PROVE  ArgumentsReadBack
<1> SUFFICES ASSUME result = "ok"
             PROVE  ArgumentsReadBack
  BY DEF ArgumentsReadBack
<1> DEFINE K == 2 * Len(Keys)
<1> DEFINE m == EnvLen
<1> DEFINE n == Len(argv)
<1> DEFINE at(i) == stack[Len(stack) - i]
<1>1. phase = "done" /\ StackShape
  BY UserImageAssumption DEF ImageInv, ControlShape
<1>2. Len(Keys) \in Nat /\ K \in Nat /\ m \in Nat /\ n \in Nat /\ DOMAIN Keys = 1..Len(Keys)
      /\ m = Len(exe.call.envp) /\ Len(Strings("env", exe.call.envp)) = m
  BY ListFacts DEF EnvLen
<1>3. \A i \in 0..(K + m + n + 3) : at(i) = Word((K + m + n + 3) - i)
  <2>1. \A i \in 0..((K + m + n + 4) - 1) : stack[Len(stack) - i] = Word((K + m + n + 4) - 1 - i)
    BY ReadBack
  <2>2. (K + m + n + 4) - 1 = K + m + n + 3
    BY <1>2
  <2> QED
    BY <2>1, <2>2
<1>4. \A j : Word(j) = IF j \in {0, K + 1, K + m + 2} THEN 0
                       ELSE IF j <= K THEN PairWord(j - 1)
                       ELSE IF j <= K + m + 1 THEN ptrs.envp[j - (K + 1)]
                       ELSE IF j <= K + m + n + 2 THEN ptrs.argv[j - (K + m + 2)]
                       ELSE n
  BY DEF Word
<1>5. /\ Len(ptrs.envp) = m /\ \A k \in 1..m : stack[ptrs.envp[k]] = Strings("env", exe.call.envp)[m + 1 - k]
      /\ Len(ptrs.argv) = n /\ \A k \in 1..n : stack[ptrs.argv[k]] = argv[n + 1 - k]
  BY <1>1, <1>2 DEF StackShape, Pointed, PointsInto, NoStack
<1> HIDE DEF K, m, n, at
<1>6. at(0) = n /\ at(n + 1) = 0 /\ at(n + m + 2) = 0 /\ at(n + m + 3 + K) = 0
  <2>1. at(0) = n
    <3>1. 0 \in 0..(K + m + n + 3) /\ (K + m + n + 3) - 0 = K + m + n + 3 /\ K + m + n + 3 \notin {0, K + 1, K + m + 2}
          /\ ~(K + m + n + 3 <= K) /\ ~(K + m + n + 3 <= K + m + 1) /\ ~(K + m + n + 3 <= K + m + n + 2)
      BY <1>2, Spots
    <3>2. at(0) = Word(K + m + n + 3)
      BY <1>3, <3>1
    <3> QED
      BY <1>4, <3>1, <3>2
  <2>2. Word(K + m + 2) = 0 /\ Word(K + 1) = 0 /\ Word(0) = 0
    BY <1>4
  <2>3. \A x \in {n + 1, n + m + 2, n + m + 3 + K} : at(x) = Word((K + m + n + 3) - x)
    BY <1>2, <1>3, Spots
  <2> QED
    BY <1>2, <2>1, <2>2, <2>3, Spots
<1>7. ASSUME NEW i \in 1..n
      PROVE  stack[at(i)] = argv[i]
  <2> DEFINE j == (K + m + n + 3) - i
  <2>1. /\ j \notin {0, K + 1, K + m + 2} /\ ~(j <= K) /\ ~(j <= K + m + 1) /\ j <= K + m + n + 2
        /\ j - (K + m + 2) = n + 1 - i /\ i \in 0..(K + m + n + 3)
    BY <1>2, <1>7, Spots
  <2>2. at(i) = Word(j)
    BY <1>3, <2>1
  <2> HIDE DEF j
  <2>3. at(i) = ptrs.argv[n + 1 - i]
    BY <1>4, <2>1, <2>2
  <2>4. n + 1 - i \in 1..n /\ n + 1 - (n + 1 - i) = i
    BY <1>2, <1>7
  <2> QED
    BY <1>5, <2>3, <2>4
<1>8. ASSUME NEW i \in 1..m
      PROVE  stack[at(n + 1 + i)] = Strings("env", exe.call.envp)[i]
  <2> DEFINE j == (K + m + 2) - i
  <2>1. /\ j \notin {0, K + 1, K + m + 2} /\ ~(j <= K) /\ j <= K + m + 1 /\ j - (K + 1) = m + 1 - i
        /\ n + 1 + i \in 0..(K + m + n + 3) /\ (K + m + n + 3) - (n + 1 + i) = j
    BY <1>2, <1>8, Spots
  <2> HIDE DEF j
  <2>2. at(n + 1 + i) = Word(j)
    BY <1>3, <2>1
  <2>3. at(n + 1 + i) = ptrs.envp[m + 1 - i]
    BY <1>4, <2>1, <2>2
  <2>4. m + 1 - i \in 1..m /\ m + 1 - (m + 1 - i) = i
    BY <1>2, <1>8
  <2> QED
    BY <1>5, <2>3, <2>4
<1>9. ASSUME NEW j \in 1..K
      PROVE  at(n + m + 3 + (K - j)) = PairWord(j - 1)
  <2>1. /\ j \in Int /\ j <= K /\ j \notin {0, K + 1, K + m + 2}
        /\ n + m + 3 + (K - j) \in 0..(K + m + n + 3) /\ (K + m + n + 3) - (n + m + 3 + (K - j)) = j
    <3>1. K \in Nat /\ m \in Nat /\ n \in Nat
      BY <1>2
    <3> QED
      BY <1>9, <3>1, SpotOfPair
  <2>2. at(n + m + 3 + (K - j)) = Word(j)
    BY <1>3, <2>1
  <2> QED
    BY <1>4, <2>1, <2>2
<1>10. ASSUME NEW i \in DOMAIN Keys
       PROVE  /\ at(n + m + 3 + 2 * (i - 1)) = Keys[Len(Keys) + 1 - i]
              /\ at(n + m + 3 + 2 * i - 1) = <<"value", Keys[Len(Keys) + 1 - i]>>
              /\ Len(Keys) + 1 - i \in DOMAIN Keys
  <2> DEFINE L == Len(Keys)
  <2> DEFINE r == n + m + 3
  <2>1. L \in Nat /\ r \in Nat /\ i \in 1..L /\ K = 2 * L
    BY <1>2, <1>10 DEF K
  <2> HIDE DEF L, r
  <2>2. /\ 2 * L + 2 - 2 * i \in 1..(2 * L) /\ 2 * L + 1 - 2 * i \in 1..(2 * L)
        /\ r + (2 * L - (2 * L + 2 - 2 * i)) = r + 2 * (i - 1)
        /\ r + (2 * L - (2 * L + 1 - 2 * i)) = r + 2 * i - 1
        /\ ((2 * L + 2 - 2 * i) - 1) % 2 = 1 /\ ((2 * L + 2 - 2 * i) - 1) \div 2 + 1 = L + 1 - i
        /\ ((2 * L + 1 - 2 * i) - 1) % 2 = 0 /\ ((2 * L + 1 - 2 * i) - 1) \div 2 + 1 = L + 1 - i
        /\ L + 1 - i \in 1..L
    BY <2>1, Pairs
  <2>3. /\ PairWord((2 * L + 2 - 2 * i) - 1) = Keys[L + 1 - i]
        /\ PairWord((2 * L + 1 - 2 * i) - 1) = <<"value", Keys[L + 1 - i]>>
    BY <2>2 DEF PairWord
  <2>4. \A j \in 1..(2 * L) : at(r + (2 * L - j)) = PairWord(j - 1)
    BY <1>9, <2>1 DEF r
  <2>5. at(r + 2 * (i - 1)) = PairWord((2 * L + 2 - 2 * i) - 1)
    BY <2>2, <2>4
  <2>6. at(r + 2 * i - 1) = PairWord((2 * L + 1 - 2 * i) - 1)
    BY <2>2, <2>4
  <2> QED
    BY <1>2, <2>2, <2>3, <2>5, <2>6 DEF L, r
<1>11. {at(n + m + 3 + 2 * (i - 1)) : i \in DOMAIN Keys} = ToSet(Keys)
  <2>1. \A i \in DOMAIN Keys : \E j \in DOMAIN Keys : at(n + m + 3 + 2 * (i - 1)) = Keys[j]
    BY <1>10
  <2>2. \A j \in DOMAIN Keys : \E i \in DOMAIN Keys : at(n + m + 3 + 2 * (i - 1)) = Keys[j]
    <3>1. ASSUME NEW j \in DOMAIN Keys
          PROVE  \E i \in DOMAIN Keys : at(n + m + 3 + 2 * (i - 1)) = Keys[j]
      <4>1. Len(Keys) + 1 - j \in DOMAIN Keys /\ Len(Keys) + 1 - (Len(Keys) + 1 - j) = j
        BY <1>2, <3>1
      <4> QED
        BY <1>10, <4>1
    <3> QED
      BY <3>1
  <2>3. ToSet(Keys) = {Keys[j] : j \in DOMAIN Keys}
    BY DEF ToSet
  <2> QED
    BY <2>1, <2>2, <2>3
<1>12. \A i \in DOMAIN Keys : at(n + m + 3 + 2 * i - 1) = <<"value", at(n + m + 3 + 2 * (i - 1))>>
  BY <1>10
<1>13. at(n + m + 3 + 2 * Len(Keys)) = 0
  BY <1>6 DEF K
<1> QED
  BY <1>2, <1>6, <1>7, <1>8, <1>11, <1>12, <1>13 DEF ArgumentsReadBack, at, n, m, EnvLen

\* The invariant says that the image is the program.
LEMMA ImageIsThere ==
  ASSUME ImageInv
  PROVE  ImageIsLoaded /\ GuardBelowStack
<1> SUFFICES ASSUME Loaded
             PROVE  ImageIsLoaded /\ GuardBelowStack
  BY DEF ImageIsLoaded, GuardBelowStack
<1>1. /\ DOMAIN Entries \subseteq Nat
      /\ \A k \in DOMAIN Segs : \A a \in MemOf(Segs[k]) : Segs[k].perm \subseteq perm[FrameDown(a)] /\ WordShape(a)
      /\ \A p \in ImagePages : perm[p] # Nil =>
           \/ p < low - FRAME_SIZE
           \/ p \in exe.core /\ (p >= low \/ \E k \in DOMAIN Segs : Segs[k].memsz = 0)
  BY DEF Loaded, ImageInv, LoadedShape, Early
<1>2. /\ DOMAIN Segs = 1..Len(Segs) /\ Len(Segs) \in Nat
      /\ \A k \in DOMAIN Segs : Start(Segs[k]) \in Nat /\ Segs[k].memsz \in Nat
  BY ElfFacts DEF ImageInv, ControlShape, ImageTypeOK
<1>3. GuardBelowStack
  BY <1>1 DEF GuardBelowStack
<1>4. ASSUME NEW k \in DOMAIN Segs, NEW a \in Start(Segs[k]) .. (Start(Segs[k]) + Segs[k].memsz - 1)
      PROVE  LET s == Segs[k]
                 over == {j \in DOMAIN Segs : a >= Start(Segs[j]) /\ a < Start(Segs[j]) + Segs[j].filesz}
                 rel == {i \in DOMAIN Entries : Entries[i].at + Bias = a}
                 add(i) == IF i <= Len(Elf.dyn) THEN Entries[i].add ELSE 0
             IN  /\ s.perm \subseteq perm[FrameDown(a)]
                 /\ rel = {} /\ over = {} => mem[a] = 0
                 /\ rel = {} /\ over # {} =>
                      LET j == CHOOSE j \in over : \A i \in over : i <= j
                      IN  mem[a] = Segs[j].offset + (a - Start(Segs[j])) + 1
                 /\ rel # {} => LET i == CHOOSE i \in rel : \A j \in rel : j <= i
                                IN  mem[a] = Bias + add(i) + (IF Entries[i].kind = "relative" THEN 0 ELSE Entries[i].sym)
  <2> DEFINE over == {j \in DOMAIN Segs : a >= Start(Segs[j]) /\ a < Start(Segs[j]) + Segs[j].filesz}
  <2> DEFINE rel == {i \in DOMAIN Entries : Entries[i].at + Bias = a}
  <2>1. a \in Int /\ a \in MemOf(Segs[k])
    BY <1>2, <1>4 DEF MemOf
  <2>2. Segs[k].perm \subseteq perm[FrameDown(a)] /\ WordShape(a)
    BY <1>1, <2>1
  <2>3. over = {j \in DOMAIN Segs : a \in DataOf(Segs[j])}
    BY <1>2, <2>1 DEF DataOf
  <2>4. \/ rel = {} /\ over = {} /\ mem[a] = 0
        \/ /\ rel = {}
           /\ \E j \in over : (\A i \in over : i <= j) /\ mem[a] = Segs[j].offset + (a - Start(Segs[j])) + 1
        \/ \E i \in rel : (\A j \in rel : j <= i) /\ mem[a] = RelWord(i)
    BY <2>2, <2>3 DEF WordShape
  <2>5. over \subseteq Int /\ rel \subseteq Int
    BY <1>1, <1>2
  <2>6. rel = {} /\ over = {} => mem[a] = 0
    BY <2>4
  <2>7. ASSUME rel = {}, over # {}
        PROVE  LET j == CHOOSE j \in over : \A i \in over : i <= j
               IN  mem[a] = Segs[j].offset + (a - Start(Segs[j])) + 1
    <3>1. PICK j \in over : (\A i \in over : i <= j) /\ mem[a] = Segs[j].offset + (a - Start(Segs[j])) + 1
      BY <2>4, <2>7
    <3> HIDE DEF over
    <3>2. (CHOOSE x \in over : \A i \in over : i <= x) = j
      BY <2>5, <3>1, LastIs
    <3> QED
      BY <3>1, <3>2
  <2>8. ASSUME rel # {}
        PROVE  LET i == CHOOSE i \in rel : \A j \in rel : j <= i
               IN  mem[a] = RelWord(i)
    <3>1. PICK i \in rel : (\A j \in rel : j <= i) /\ mem[a] = RelWord(i)
      BY <2>4, <2>8
    <3> HIDE DEF rel
    <3>2. (CHOOSE x \in rel : \A j \in rel : j <= x) = i
      BY <2>5, <3>1, LastIs
    <3> QED
      BY <3>1, <3>2
  <2> HIDE DEF over, rel
  <2>9. rel # {} => LET i == CHOOSE i \in rel : \A j \in rel : j <= i
                    IN  mem[a] = Bias + (IF i <= Len(Elf.dyn) THEN Entries[i].add ELSE 0)
                                      + (IF Entries[i].kind = "relative" THEN 0 ELSE Entries[i].sym)
    BY <2>8 DEF RelWord
  <2> QED
    BY <2>2, <2>6, <2>7, <2>9 DEF over, rel
<1>5. ImageIsLoaded
  BY <1>4 DEF ImageIsLoaded
<1> QED
  BY <1>3, <1>5

\* build_vm_space: for every program, every place of its segments and every edit of the file while it
\* is read, the image is the one the file describes, and the stack lies apart from it.
THEOREM ImagesAreReady == ImageSpec => []ImageIsReady
<1>1. ImageInv => ImageIsReady
  BY ImageIsThere DEF ImageIsReady, ImageInv
<1> QED
  BY <1>1, ImageInvHolds, PTL

\* UserStack::init: for every list of arguments, environment and table of the auxiliary vector, and every
\* size of the stack, the program reads from its stack pointer what it was called with.
THEOREM StacksAreReady == ImageSpec => []StackIsReady
<1>1. ImageInv => StackIsReady
  BY ArgumentsAreThere DEF StackIsReady, OverrunStopsAtGuard, ImageInv, StackTypes
<1> QED
  BY <1>1, ImageInvHolds, PTL

\* do_execve: a call that fails with an error leaves the old program in place, and reading panics only when
\* the file is changed meanwhile or libc.so cannot be opened.
THEOREM FailuresAreContained == ImageSpec => []FailureIsContained
<1>1. ImageInv => FailureIsContained
  BY DEF FailureIsContained, FailedExecKeepsImage, ReadPanicHasCause, ImageInv, ControlShape
<1> QED
  BY <1>1, ImageInvHolds, PTL
=============================================================================
