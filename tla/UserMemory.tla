----------------------------- MODULE UserMemory -----------------------------
(***************************************************************************)
(* The address spaces of user tasks: common/task/task/src/syscall/mmap.rs, *)
(* the heap and the mmap list of resource.rs, and what clone and execve do *)
(* to them in task.rs and elf.rs.                                          *)
(*                                                                         *)
(* Every task that descends from the first one holds the same              *)
(* Arc<Mutex<MMapInfo>>: do_clone clones the Arc also where it copies the  *)
(* address space, and execve keeps it.  So there is one list of regions    *)
(* and one page table per address space, and the calls have to keep the    *)
(* two in step.  VmSpace (crate ptable) is external: it is a page table    *)
(* with a set of areas that map() adds and unmap() removes whole.          *)
(*                                                                         *)
(* Addresses count half frames, so that an address may be unaligned.       *)
(***************************************************************************)
EXTENDS Integers, Sequences, FiniteSets, SequencesExt

CONSTANTS
  Tasks, FirstTask,
  Spaces,      \* names for Arc<Mutex<VmSpace>> and the heap that goes with it
  None,
  ImageStart,  \* the program and its stack are mapped from here to HeapStart
  HeapStart,   \* heap_bottom
  HeapLimit,   \* bound: the last address given to brk
  HeapMax,     \* PROCESS_HEAP_MAX
  Top,         \* bound: the end of what alloc hands out
  Lens, Starts, \* bound: the len and start arguments of mmap
  MaxThreads,  \* bound: thread numbers
  MapProts, NewProts, \* bound: the rights given to mmap and to mprotect
  Worlds       \* the settings to check, see world

FRAME == 2
AlignDown(a) == a - (a % FRAME)
AlignUp(a) == AlignDown(a + FRAME - 1)
PagesOf(lo, hi) == {a \in AlignDown(lo)..(hi - 1) : a % FRAME = 0}
Pages == PagesOf(0, Top)
Prots == {{"r"}, {"r", "w"}, {"r", "x"}}
Regions == [start : 0..Top, len : 0..Top, map_len : 0..Top, prot : Prots, by : Spaces \X {0, 1}]

ASSUME UserMemoryAssumption ==
  /\ FirstTask \in Tasks /\ Spaces # {} /\ None \notin Spaces \cup Prots
  /\ {ImageStart, HeapStart, HeapMax, Top} \subseteq {n \in Nat : n % FRAME = 0}
  /\ 0 < ImageStart /\ ImageStart < HeapStart /\ HeapStart <= HeapLimit /\ HeapLimit \in Nat
  /\ AlignUp(HeapLimit) <= HeapMax /\ HeapMax <= Top /\ Starts \subseteq 0..HeapStart
  /\ Lens \subseteq 0..Top /\ \A len \in Lens : HeapStart + AlignUp(len) <= Top
  /\ MaxThreads \in Nat /\ MapProts \cup NewProts \subseteq Prots
  /\ Worlds \subseteq [thread : BOOLEAN, fork : BOOLEAN, exec : BOOLEAN, fixed : SUBSET Starts,
                     top : 0..Top, tasks : Nat, regions : Nat]

VARIABLES
  space,     \* Task.address_space, None for no task
  number,    \* TaskInner.thread_number
  threads,   \* Task.threads: numbers handed out, per address space (CLONE_VM comes with CLONE_THREAD)
  table,     \* the page table of each space: the rights of a page, None if it is not mapped
  areas,     \* the areas of each VmSpace, <<first, end>>
  traps,     \* the thread numbers whose trap context page is mapped
  heap,      \* Task.heap
  mapStart,  \* MMapInfo.map_start
  regions,   \* MMapInfo.regions
  pc, arg,   \* a call in several steps and its argument
  execs,     \* history: how often the space was replaced by execve (0 or 1)
  panic,     \* what stopped the task domain, "no" while it runs
  world      \* never changes: the calls the programs make, the addresses they give to MAP_FIXED and
             \* PROT_EXEC, how far alloc may go, how many tasks and regions there may be

memVars == <<table, areas, traps, heap>>
mmapVars == <<mapStart, regions>>
taskVars == <<space, number, threads>>
callVars == <<pc, arg>>
vars == <<taskVars, memVars, mmapVars, callVars, execs, panic, world>>

Live == {t \in Tasks : space[t] # None}
Mapped(s) == {a \in Pages : table[s][a] # None}

\* what build_vm_space leaves behind: program, stack, empty heap
ImageTable == [a \in Pages |-> IF a \in PagesOf(ImageStart, HeapStart) THEN {"r", "w"} ELSE None]
HeapNew == [start |-> HeapStart, current |-> HeapStart, end |-> HeapStart]

Init ==
  /\ space = [t \in Tasks |-> IF t = FirstTask THEN CHOOSE s \in Spaces : TRUE ELSE None]
  /\ number = [t \in Tasks |-> 0] /\ threads = [s \in Spaces |-> 1]
  /\ table = [s \in Spaces |-> ImageTable]
  /\ areas = [s \in Spaces |-> {<<ImageStart, HeapStart>>}]
  /\ traps = [s \in Spaces |-> {0}]
  /\ heap = [s \in Spaces |-> HeapNew]
  /\ mapStart = HeapMax /\ regions = <<>>
  /\ pc = [t \in Tasks |-> "idle"] /\ arg = [t \in Tasks |-> 0]
  /\ execs = [s \in Spaces |-> 0] /\ panic = "no" /\ world \in Worlds

-----------------------------------------------------------------------------
(* VmSpace, and the panics of the unwraps around it.                        *)

Panic(why) == panic' = why /\ UNCHANGED <<memVars, taskVars, execs>>

\* VmSpace::map of [lo, hi): refuses a page that is mapped; the callers unwrap
VmMap(s, lo, hi, prot) ==
  IF PagesOf(lo, hi) \cap Mapped(s) # {} THEN Panic("map")
  ELSE /\ table' = [table EXCEPT ![s] = [a \in Pages |-> IF a \in PagesOf(lo, hi) THEN prot ELSE @[a]]]
       /\ areas' = [areas EXCEPT ![s] = IF lo < hi THEN @ \cup {<<lo, hi>>} ELSE @]
       /\ UNCHANGED <<traps, taskVars, execs, panic>>

\* VmSpace::unmap(start): removes the whole area that starts there
VmUnmap(s, lo) ==
  IF \A r \in areas[s] : r[1] # lo THEN Panic("unmap")
  ELSE LET r == CHOOSE r \in areas[s] : r[1] = lo
       IN  /\ table' = [table EXCEPT ![s] = [a \in Pages |-> IF a \in PagesOf(r[1], r[2]) THEN None ELSE @[a]]]
           /\ areas' = [areas EXCEPT ![s] = @ \ {r}]
           /\ UNCHANGED <<traps, heap, taskVars, execs, panic>>

\* VmSpace::protect of the pages P, each of which must be mapped
VmProtect(s, P, prot) ==
  IF ~ P \subseteq Mapped(s) THEN Panic("protect")
  ELSE /\ table' = [table EXCEPT ![s] = [a \in Pages |-> IF a \in P THEN prot ELSE @[a]]]
       /\ UNCHANGED <<areas, traps, heap, taskVars, execs, panic>>

-----------------------------------------------------------------------------
(* MMapInfo                                                                 *)

End(r) == r.start + r.len
InRegion(r, a) == r.start <= a /\ a < End(r)

\* get_region: the index of the first region that contains the address, else 0
get_region(a) == SelectInSeq(regions, LAMBDA r : InRegion(r, a))

\* alloc: the next addresses after the last ones, freed ones are not reused
alloc(len) == [start |-> mapStart, end |-> AlignUp(mapStart + len)]

Region(s, start, len, map_len, prot) ==
  [start |-> start, len |-> len, map_len |-> map_len, prot |-> prot, by |-> <<s, execs[s]>>]

\* mutant: the right part keeps the length of the whole region
split_Long(r, a) ==
  LET n == a - r.start
  IN  <<[r EXCEPT !.len = n, !.map_len = AlignUp(n)], [r EXCEPT !.start = a]>>

\* split at a: [start, a) and [a, end)
split(r, a) ==
  LET n == a - r.start
      m == End(r) - a
  IN  <<[r EXCEPT !.len = n, !.map_len = AlignUp(n)],
        [r EXCEPT !.start = a, !.len = m, !.map_len = AlignUp(m)]>>

-----------------------------------------------------------------------------
(* The system calls.  The mmap lock is held from the lookup of a region to  *)
(* the change of the page table, so each call is one step.                  *)

Ready(t) == t \in Live /\ pc[t] = "idle" /\ panic = "no"

\* bound: a call that adds n regions starts only when they fit
Room(n) == Len(regions) + n <= world.regions

\* HeapInfo::contains
InHeap(s, a) == heap[s].start <= a /\ a < heap[s].end

\* the end of do_mmap: a new region, and an area of fresh frames for it
AddRegion(t, lo, hi, len, prot) ==
  /\ regions' = Append(regions, Region(space[t], lo, len, hi - lo, prot))
  /\ VmMap(space[t], lo, hi, prot) /\ UNCHANGED heap

\* remove_region: without the first region that contains the address, if there is one
remove_region(a) == IF get_region(a) = 0 THEN regions ELSE RemoveAt(regions, get_region(a))

\* MAP_FIXED inside region i: the region is cut at start and, if it goes on, at the end of
\* the new mapping; the new part takes the new rights.  What leaves the list is the first region
\* that contains the start of region i.  The page table is left alone.
Recut(i, start, len, prot) ==
  LET r == regions[i]
      cut == split(r, start)
      rest == remove_region(r.start)
  IN  regions' = IF start + len < cut[2].start + cut[2].map_len
                 THEN LET two == split(cut[2], start + len)
                      IN  rest \o <<cut[1], two[2], [two[1] EXCEPT !.prot = prot]>>
                 ELSE rest \o <<cut[1], [cut[2] EXCEPT !.prot = prot]>>

\* sys_mmap and do_mmap without the addresses that make it return at once: inside the
\* heap the call does nothing, at 0 with MAP_FIXED it fails
Ignored(t, start, len, fixed) ==
  (InHeap(space[t], start) /\ InHeap(space[t], start + len)) \/ (start = 0 /\ fixed)

\* mmap with neither PROT_EXEC nor MAP_FIXED
do_mmap(t, len, prot) ==
  LET n == AlignUp(len)
      v == alloc(n)
  IN  /\ Ready(t) /\ Room(1) /\ "x" \notin prot /\ v.end <= world.top
      /\ mapStart' = v.end
      /\ AddRegion(t, v.start, v.end, n, prot)
      /\ UNCHANGED <<callVars, world>>

\* mmap with PROT_EXEC: the address is the caller's, at or below the heap, in no region
do_mmap_exec(t, start, len) ==
  LET a == AlignDown(start)
      n == AlignUp(len)
      lo == IF a = 0 THEN FRAME ELSE a
  IN  /\ Ready(t) /\ Room(1) /\ start \in world.fixed /\ ~Ignored(t, start, len, FALSE)
      /\ a <= heap[space[t]].start /\ get_region(a) = 0
      /\ AddRegion(t, lo, lo + n, n, {"r", "x"})
      /\ UNCHANGED <<mapStart, callVars, world>>

\* mmap with MAP_FIXED: at or below the heap, over a region or beside all of them
do_mmap_fixed(t, start, len, prot) ==
  LET a == AlignDown(start)
      n == AlignUp(len)
      i == get_region(a)
  IN  /\ Ready(t) /\ Room(2) /\ start \in world.fixed /\ "x" \notin prot /\ ~Ignored(t, start, len, TRUE)
      /\ a <= heap[space[t]].start
      /\ \/ i = 0 /\ AddRegion(t, a, a + n, n, prot)
         \/ i # 0 /\ Recut(i, a, n, prot) /\ UNCHANGED <<memVars, taskVars, execs, panic>>
      /\ UNCHANGED <<mapStart, callVars, world>>

\* do_mmap_device: the frames of a device behind an allocated region
do_mmap_device(t) ==
  LET v == alloc(FRAME)
  IN  /\ Ready(t) /\ Room(1) /\ v.end <= world.top
      /\ mapStart' = v.end
      /\ AddRegion(t, v.start, v.end, FRAME, {"r", "w"})
      /\ UNCHANGED <<callVars, world>>

\* mutant: munmap does not ask for the start of the region
do_munmap_Inside(t, start, len) ==
  LET i == get_region(start)
  IN  /\ Ready(t) /\ i # 0 /\ len = regions[i].len
      /\ VmUnmap(space[t], start)
      /\ regions' = remove_region(start)
      /\ UNCHANGED <<mapStart, callVars, world>>

\* mutant: the region stays in the list
do_munmap_Keep(t, start, len) ==
  LET i == get_region(start)
  IN  /\ Ready(t) /\ i # 0
      /\ regions[i].start = start /\ len = regions[i].len
      /\ VmUnmap(space[t], start)
      /\ UNCHANGED <<mmapVars, callVars, world>>

\* do_munmap: start and length of a region, exactly
do_munmap(t, start, len) ==
  LET i == get_region(start)
  IN  /\ Ready(t) /\ i # 0
      /\ regions[i].start = start /\ len = regions[i].len
      /\ VmUnmap(space[t], start)
      /\ regions' = remove_region(start)
      /\ UNCHANGED <<mapStart, callVars, world>>

\* do_mprotect: the whole region takes the rights, the page table only in the range
do_mprotect(t, addr, len, prot) ==
  LET i == get_region(addr)
  IN  /\ Ready(t) /\ i # 0
      /\ regions' = [regions EXCEPT ![i].prot = prot]
      /\ VmProtect(space[t], PagesOf(addr, AlignUp(addr + len)), prot)
      /\ UNCHANGED <<mapStart, callVars, world>>

\* mutant: the page is left without rights
do_load_page_fault_NoRights(t, addr) ==
  LET i == get_region(addr)
  IN  /\ Ready(t) /\ i # 0
      /\ VmProtect(space[t], {AlignDown(addr)}, {})
      /\ UNCHANGED <<mmapVars, callVars, world>>

\* do_load_page_fault: the faulting page takes the rights of its region
do_load_page_fault(t, addr) ==
  LET i == get_region(addr)
  IN  /\ Ready(t) /\ i # 0
      /\ VmProtect(space[t], {AlignDown(addr)}, regions[i].prot)
      /\ UNCHANGED <<mmapVars, callVars, world>>

\* read_bytes_from_user, write_val_to_user and the like unwrap the copy
UserCopy(t, addr) ==
  /\ Ready(t) /\ AlignDown(addr) \notin Mapped(space[t]) /\ Panic("copy")
  /\ UNCHANGED <<mmapVars, callVars, world>>

-----------------------------------------------------------------------------
(* The heap                                                                 *)

\* sys_brk: heap_info, then the check that the heap does not shrink
sys_brk(t, addr) ==
  LET h == heap[space[t]]
  IN  /\ Ready(t) /\ addr >= h.start /\ addr >= h.current
      /\ pc' = [pc EXCEPT ![t] = "brk"] /\ arg' = [arg EXCEPT ![t] = addr]
      /\ UNCHANGED <<taskVars, memVars, mmapVars, execs, panic, world>>

\* mutant: the end of the heap moves without its frames being mapped to a whole page
extend_heap_Short(t) ==
  LET s == space[t]
      h == heap[s]
      end == arg[t]
  IN  /\ t \in Live /\ pc[t] = "brk" /\ panic = "no"
      /\ pc' = [pc EXCEPT ![t] = "idle"] /\ arg' = [arg EXCEPT ![t] = 0]
      /\ \/ /\ arg[t] < h.end
            /\ heap' = [heap EXCEPT ![s].current = arg[t]]
            /\ UNCHANGED <<table, areas, traps, taskVars, execs, panic>>
         \/ /\ arg[t] >= h.end
            /\ VmMap(s, h.end, AlignDown(end), {"r", "w"})
            /\ heap' = IF panic' = "no" THEN [heap EXCEPT ![s].current = arg[t], ![s].end = end] ELSE heap
      /\ UNCHANGED <<mmapVars, world>>

\* extend_heap, in a later call into the task domain
extend_heap(t) ==
  LET s == space[t]
      h == heap[s]
      end == h.end + AlignUp(arg[t] - h.end)
  IN  /\ t \in Live /\ pc[t] = "brk" /\ panic = "no"
      /\ pc' = [pc EXCEPT ![t] = "idle"] /\ arg' = [arg EXCEPT ![t] = 0]
      /\ \/ /\ arg[t] < h.end
            /\ heap' = [heap EXCEPT ![s].current = arg[t]]
            /\ UNCHANGED <<table, areas, traps, taskVars, execs, panic>>
         \/ /\ arg[t] >= h.end
            /\ VmMap(s, h.end, end, {"r", "w"})
            /\ heap' = IF panic' = "no" THEN [heap EXCEPT ![s].current = arg[t], ![s].end = end] ELSE heap
      /\ UNCHANGED <<mmapVars, world>>

-----------------------------------------------------------------------------
(* clone and execve                                                         *)

NewTask(u) == space[u] = None /\ Cardinality(Live) < world.tasks

\* mutant: the new thread gets the number that was handed out last
CloneThread_SameNumber(t, u) ==
  LET s == space[t]
      n == threads[s] - 1
  IN  /\ Ready(t) /\ world.thread /\ NewTask(u) /\ threads[s] <= MaxThreads
      /\ space' = [space EXCEPT ![u] = s] /\ number' = [number EXCEPT ![u] = n]
      /\ threads' = [threads EXCEPT ![s] = @ + 1] /\ traps' = [traps EXCEPT ![s] = @ \cup {n}]
      /\ UNCHANGED <<table, areas, heap, execs, panic, mmapVars, callVars, world>>

\* do_clone with CLONE_VM and CLONE_THREAD: extend_thread_vm_space maps the page of the
\* next thread number
CloneThread(t, u) ==
  LET s == space[t]
      n == threads[s]
  IN  /\ Ready(t) /\ world.thread /\ NewTask(u) /\ n <= MaxThreads
      /\ IF n \in traps[s] THEN Panic("map")
         ELSE /\ space' = [space EXCEPT ![u] = s] /\ number' = [number EXCEPT ![u] = n]
              /\ threads' = [threads EXCEPT ![s] = @ + 1] /\ traps' = [traps EXCEPT ![s] = @ \cup {n}]
              /\ UNCHANGED <<table, areas, heap, execs, panic>>
      /\ UNCHANGED <<mmapVars, callVars, world>>

\* do_clone without CLONE_VM: clone_vm_space copies every area, the heap is copied, the
\* mmap list is shared; only the first thread of a process may do it
CloneProcess(t, u) ==
  LET s == space[t]
  IN  /\ Ready(t) /\ world.fork /\ NewTask(u)
      /\ IF number[t] # 0 THEN Panic("fork")
         ELSE \E c \in Spaces \ {space[v] : v \in Live} :
                /\ space' = [space EXCEPT ![u] = c] /\ number' = [number EXCEPT ![u] = 0]
                /\ threads' = [threads EXCEPT ![c] = 1]
                /\ table' = [table EXCEPT ![c] = table[s]] /\ areas' = [areas EXCEPT ![c] = areas[s]]
                /\ traps' = [traps EXCEPT ![c] = traps[s]] /\ heap' = [heap EXCEPT ![c] = heap[s]]
                /\ UNCHANGED <<execs, panic>>
      /\ UNCHANGED <<mmapVars, callVars, world>>

\* do_execve: a new address space and heap in place of the old ones, the regions stay.
\* Only thread number 0 may do it.  The kernel then maps the vDSO.
do_execve(t) ==
  LET s == space[t]
  IN  /\ Ready(t) /\ Room(1) /\ world.exec /\ execs[s] = 0 /\ alloc(FRAME).end <= world.top
      /\ IF number[t] # 0 THEN Panic("execve") /\ UNCHANGED callVars
         ELSE /\ table' = [table EXCEPT ![s] = ImageTable]
              /\ areas' = [areas EXCEPT ![s] = {<<ImageStart, HeapStart>>}]
              /\ traps' = [traps EXCEPT ![s] = {0}] /\ heap' = [heap EXCEPT ![s] = HeapNew]
              /\ execs' = [execs EXCEPT ![s] = 1]
              /\ pc' = [pc EXCEPT ![t] = "vdso"]
              /\ UNCHANGED <<taskVars, panic, arg>>
      /\ UNCHANGED <<mmapVars, world>>

\* vdso_reserve_user_vaddr: a region without pages
vdso_reserve_user_vaddr(t) ==
  LET v == alloc(FRAME)
  IN  /\ t \in Live /\ pc[t] = "vdso" /\ panic = "no" /\ v.end <= world.top
      /\ mapStart' = v.end
      /\ regions' = Append(regions, Region(space[t], v.start, FRAME, FRAME, {"r"}))
      /\ pc' = [pc EXCEPT ![t] = "vdso_map"] /\ arg' = [arg EXCEPT ![t] = v.start]
      /\ UNCHANGED <<taskVars, memVars, execs, panic, world>>

\* bound: an execve that is under way finds the frame it needs
NotReserved == \A t \in Tasks : pc[t] # "vdso"

\* vdso_map_user_pages: the pages of the region, unless it is gone; a page that is mapped
\* is an error here, not a panic
vdso_map_user_pages(t) ==
  LET s == space[t]
      lo == arg[t]
      i == get_region(lo)
      ok == i # 0 /\ lo + FRAME <= regions[i].start + regions[i].map_len
  IN  /\ t \in Live /\ pc[t] = "vdso_map" /\ panic = "no"
      /\ pc' = [pc EXCEPT ![t] = "idle"] /\ arg' = [arg EXCEPT ![t] = 0]
      /\ regions' = IF ok THEN [regions EXCEPT ![i].prot = {"r", "x"}] ELSE regions
      /\ IF ok /\ lo \notin Mapped(s)
         THEN VmMap(s, lo, lo + FRAME, {"r", "x"}) /\ UNCHANGED heap
         ELSE UNCHANGED <<memVars, taskVars, execs, panic>>
      /\ UNCHANGED <<mapStart, world>>

\* a panic inside the task domain ends it
Halted == panic # "no" /\ UNCHANGED vars

-----------------------------------------------------------------------------
\* The calls of programs: munmap, mprotect and page faults name addresses of regions of the list, and
\* copies use the heap up to the break and the regions that the program itself mapped.
Pointers(t) ==
  LET s == space[t]
  IN  (heap[s].start .. (heap[s].current - 1))
        \cup UNION {r.start .. (End(r) - 1) : r \in {r \in ToSet(regions) : r.by = <<s, execs[s]>>}}

Next ==
  \/ \E t \in Tasks :
       \/ NotReserved /\ \E len \in Lens, prot \in MapProts : do_mmap(t, len, prot)
       \/ \E start \in Starts, len \in Lens : do_mmap_exec(t, start, len)
       \/ \E start \in Starts, len \in Lens, prot \in MapProts : do_mmap_fixed(t, start, len, prot)
       \/ NotReserved /\ do_mmap_device(t)
       \/ \E i \in DOMAIN regions :
            LET r == regions[i]
            IN  \/ \E start \in PagesOf(r.start, End(r)) : do_munmap(t, start, r.len)
                \/ \E prot \in NewProts, addr \in {a \in r.start .. (End(r) - 1) : a % FRAME = 0} :
                     \E len \in 0 .. (End(r) - addr) : do_mprotect(t, addr, len, prot)
                \/ \E addr \in PagesOf(r.start, End(r)) : do_load_page_fault(t, addr)
       \/ t \in Live /\ \E addr \in Pointers(t) : UserCopy(t, addr)
       \/ \E addr \in HeapStart..HeapLimit : sys_brk(t, addr)
       \/ extend_heap(t)
       \/ \E u \in Tasks \ {t} : CloneThread(t, u) \/ CloneProcess(t, u)
       \/ NotReserved /\ do_execve(t)
       \/ vdso_reserve_user_vaddr(t)
       \/ vdso_map_user_pages(t)
  \/ Halted

Spec == Init /\ [][Next]_vars

-----------------------------------------------------------------------------
(* Properties                                                               *)

\* Every variable has its type: the mmap list only holds regions inside the bounds.
TypeOK ==
  /\ space \in [Tasks -> Spaces \cup {None}] /\ number \in [Tasks -> 0..MaxThreads]
  /\ threads \in [Spaces -> 1..(MaxThreads + 1)]
  /\ table \in [Spaces -> [Pages -> Prots \cup {None}]]
  /\ areas \in [Spaces -> SUBSET ((0..Top) \X (0..Top))]
  /\ traps \in [Spaces -> SUBSET (0..MaxThreads)]
  /\ heap \in [Spaces -> [start : {HeapStart}, current : 0..Top, end : 0..Top]]
  /\ mapStart \in HeapMax..Top /\ regions \in Seq(Regions)
  /\ pc \in [Tasks -> {"idle", "brk", "vdso", "vdso_map"}] /\ arg \in [Tasks -> 0..Top]
  /\ execs \in [Spaces -> {0, 1}] /\ panic \in {"no", "map", "unmap", "protect", "copy", "fork", "execve"}
  /\ world \in Worlds

\* programs map fixed addresses only below the heap
BelowHeap == \A start \in world.fixed : AlignDown(start) < HeapStart

\* The break lies inside the heap and all of the heap is mapped, whatever threads, a forked copy,
\* MAP_FIXED below the heap or two overlapping brk calls do.  do_mmap lets a mapping begin at
\* heap_bottom too; if it is cut and unmapped before the heap grows there, the part that is left in
\* the list still names pages, and unmapping it takes them from the heap.
HeapIsMapped ==
  \A t \in Live : LET h == heap[space[t]]
                  IN  /\ h.current <= h.end
                      /\ BelowHeap => PagesOf(h.start, h.end) \subseteq Mapped(space[t])

\* Nothing takes the program or its stack away: no call unmaps a page between their first address
\* and the heap, also not through a region that another space or a fixed address put into the list.
ImageIsMapped == \A t \in Live : PagesOf(ImageStart, HeapStart) \subseteq Mapped(space[t])

\* Every task finds its trap context page mapped, and no other task of the address space
\* uses it: thread numbers are never handed out twice, also not after a fork copied the
\* pages of threads that the child does not have.  (execve in a process that still has other
\* threads takes their pages away.)
TrapPageIsOwn ==
  \A t \in Live :
    /\ number[t] \in traps[space[t]] \/ (world.thread /\ world.exec)
    /\ \A u \in Live \ {t} : space[u] = space[t] => number[u] # number[t]

\* A region the running program of a space mapped is backed by pages of that space, for as
\* long as it is in the list, whatever the other users of the list do.  (Not with
\* MAP_FIXED, which cuts regions and not areas.)
OwnedRegionIsMapped ==
  panic = "no" /\ world.fixed = {} =>
    \A i \in DOMAIN regions : \A t \in Live :
      LET r == regions[i]
          s == space[t]
      IN  r.by = <<s, execs[s]>> /\ (\A u \in Live : space[u] = s => pc[u] # "vdso_map" \/ arg[u] # r.start)
            => PagesOf(r.start, End(r)) \subseteq Mapped(s)

\* A process that neither forks nor uses MAP_FIXED or PROT_EXEC cannot panic the task domain: maps,
\* unmaps, mprotects inside its regions, copies through valid pointers, page faults and
\* brks of its threads, in any order.
PlainProgramNeverPanics == world.fixed = {} /\ ~world.fork /\ ~world.exec => panic = "no"

Covered(rs) == UNION {rs[i].start .. (End(rs[i]) - 1) : i \in DOMAIN rs}
Disjoint(rs) == \A i, j \in DOMAIN rs : i # j => \A a \in rs[i].start .. (End(rs[i]) - 1) : ~InRegion(rs[j], a)

\* MAP_FIXED over a region brings no address into the list, and where the regions of the list lie
\* beside each other the cut loses none either and makes no two of them overlap.
CutKeepsTheTiling ==
  [][ (\E t \in Tasks, start \in Starts, len \in Lens, prot \in Prots :
         get_region(AlignDown(start)) # 0 /\ do_mmap_fixed(t, start, len, prot))
      => /\ Covered(regions') \subseteq Covered(regions)
         /\ Disjoint(regions) => Covered(regions') = Covered(regions) /\ Disjoint(regions') ]_vars

\* What the task believes of its memory - program, stack, heap, trap context, regions - is mapped in
\* its address space.
AddressSpaceHolds == TypeOK /\ HeapIsMapped /\ ImageIsMapped /\ TrapPageIsOwn /\ OwnedRegionIsMapped
=============================================================================
