# A TLA+ verification project for the AlienOS domains

The repository holds the *domains* of AlienOS: isolated Rust components that the
kernel loads, replaces at run time and calls through interfaces. This directory
models the parts in which several tasks, CPUs, domains or failures meet, checks the
models with TLC on small instances and proves the central theorems with TLAPS.

## Inventory

| Part | State | Operations | What is hard | What makes it correct |
|---|---|---|---|---|
| pipe (`common/vfs/vfs/src/pipe.rs`) | ring buffer, one lock, weak references to both ends | read, write, poll, close, drop | shared ring, end of file decided by the life of references, a drop that locks | bounded FIFO; end of file only when final; blocked calls return after close |
| process life cycle (`common/task`: `do_clone`, `do_exit`, `do_wait4`) | task objects, parent and children links, global task table, tids | fork, thread creation, exit, wait4, waitid | re-parenting while init waits, reference counts, reuse of tids | every task can be reaped, once; parents exist; tids are unique |
| process groups (`task/src/lib.rs`) | two numbers per task | setpgid, setsid | no object stands for a group; copies in threads; tids outlived by group numbers | a group lies in one session |
| task memory (`syscall/mmap.rs`, `resource.rs`, `elf.rs`) | page table per process, one list of mmap regions, heap range, trap pages | brk, mmap, munmap, mprotect, page fault, fork, thread, execve | the list is one `Arc` shared by every fork, the page tables are not | what the list and the heap say is mapped |
| user image (`elf.rs`, `resource.rs`, `arch/`, `vfs_shim.rs`) | the new address space and stack | execve, first process | a file that changes while it is read, segments that share pages, relocation, a stack that is too small | the image is what the file says; a failure leaves the old program |
| file descriptors (`common/task`: `SlotVec`, `FdManager`, `ShimFile`) | table of slots, shared or cloned | open, dup, dup2, close, fcntl | one inode id behind several objects | lowest free slot, close exactly once |
| VFS tables (`common/vfs/vfs/src/{lib,kfile,tree}.rs`) | open files, their shadow in the shared store, positions | open, close, read, write, seek, recovery after a live update | an update between two table edits, positions under separate locks | recovered files are the open ones; no hole in a file |
| generic file system wrapper (`common_lib/generic`, `vfs_common`) | ids of dentries, a dentry cache on each side of the border | lookup, create, link, unlink, rename, mount, drop | life of ids, two caches of one directory | an id names one node while held and is given back |
| eventfd, futex (`eventfd.rs`, `task/src/futex.rs`, `syscall/futex.rs`) | counter and wait queue; queues by address | read, write; wait, wake, requeue, bitset forms | the gap between queueing and sleeping | exact counting; no waiter and no wake lost |
| block cache (`drivers/cache_blk`) | LRU map of frames | read, write, check, evict | the lock is released between check and use, write-back at the limit | transparent: one flat array |
| shadow and block drivers (`shadow_blk`, `virtio_blk`, `mem_block`) | driver domain, device | read, write, restart | a crash of the driver domain, refusals, devices that end inside a frame | one crash is not noticed; no promised byte is lost |
| network stack (`common/net_stack`, `vfs/socket.rs`, `syscall/socket`) | socket table, sockets, pairs, leftover bytes | socket, bind, listen, accept, connect, send, receive, shutdown, close | system calls that loop over a bare id, ids shared by two ends | streams exact, ids and ports given back |
| poll and select (`syscall/fs/basic.rs`) | user masks | ppoll, pselect6 | passes over descriptors that other threads close | the answer is the count of what is reported; due calls return |
| schedulers (`common_scheduler`, `fifo_scheduler`, `random_scheduler`) | one list of tasks | add, fetch, priority, replacement | list taken over by another domain; affinity; priorities at the limit | every ready task is in one place; FIFO serves all |
| interrupt controllers (`plic`, `io_apic`, `local_apic`) | table of devices, timer | claim, dispatch, complete, register, set timer | failing handlers, two harts, shared lines, domains that load late | every claim is completed; the timer stays armed |
| buffered serial line and input (`buf_uart`, `buf_input`, devfs `uart.rs`, `input.rs`) | buffer and wait queue of each device, terminal modes | interrupt, read, ioctl | one wake per byte, drop of the oldest, lookup and take in two calls | input once and in order; no reader sleeps on data |
| syscall layer (`common/syscall`) | none of its own; bare ids between two calls into domains | every system call | ids that go stale between the calls | each call uses the file its descriptor named and closes what it opened |
| epoll, `vfs2`, loggers, register drivers, virtio glue, `cargo domain` | none beyond one map, or none | forwarding, formatting, register access | — | — |

Components interact through calls (system calls into `task`, `vfs` and `net_stack`, `vfs`
into file systems through shims, file systems into `cache_blk`, that through
`shadow_blk` into a driver), through interrupts (controller, buffered device, wait
queue), through `Arc`/`Weak` references whose drops run code, and through the scheduler's
`wait_now`, `wake_up_wait_task`, `yield_now` and `exit_now`, which live in the external
crate `basic`.

## Modules

Most modules have a variable `world` (or `machine`, `exe`) that is chosen at the start and
never changes: what the programs of this setting do, whether there are several CPUs
(`smp`), and bounds that belong to the setting. A property that only holds of some
settings says so. A failing assertion or `unwrap` of the code is a state or a value
`panic`, never a missing step. A definition whose name ends in `_Something` and whose
comment starts with "mutant" is a deliberately wrong variant of the definition after it:
each checked property is known to fail for one of them. The last definitions of a module
join the parts that one run checks together; the parts are stated, each with its comment,
before them.

**Pipe** (with **ByteChannel**, **PipeProofs**). `buf`, `head`, `tail` are
`PipeInodeData`; `lock` is the holder of `PipeInode::data`; `map` the ends still in
`VFS_MAP`. A call goes `Call`, then `Wait` (nothing to transfer: return or yield) or
`Settle`, one `WriteByte`/`ReadByte` per round of the copy loop, `CopyDone`, `Return`.
`Strong(e)` says whether `Weak::upgrade` would succeed. With `SMP` the temporary
reference made by an upgrade lives for one extra step (`DropTemp`, `DropDone`), in which
another CPU may close the end. `ByteChannel` is the promise to the users.

**ProcessTree**, **ProcessGroups** (with **ProcessProofs**). A task is named by its tid; `StrongCount` adds up the
places that hold an `Arc<Task>`: the global table, the children maps (keyed by pid), a
system call in progress, a waiter's frame, and the static `INIT_PROCESS`. `Clone`, `Exit`
with its steps `Reparent`, `ClearChildren`, `Zombie`, `Terminate`, `ExitNow`, and
`WaitCall`, `Filter`, `Reap`, `NotYet` follow the functions; waitid is a wait with other
options. On one CPU the re-parenting loop runs undisturbed (`Undisturbed`). init itself is
taken to loop in `wait4(-1)`, as `/tests/init` does; its exit is a kernel panic by design.
`ProcessGroups` extends the module by the two numbers `process_group` and `session_id`,
which clone copies: `SetPgid`, `SetSid`.

**BlockCache** over **BlockDrivers** (with **FlatDisk**, **BlockCacheProofs**). Frames are arrays of
sectors as in `PageCache`; `order` is the LRU order. `Hit`, `Load` and `Replace` are the
three ways through `check`, one critical section, `Unread` its failure; `Copy` is the
second critical section, and `Panic` its failing `unwrap` of an entry that another caller
evicted. `BlockDrivers` says what the call for one block may answer and leave behind:
`virtio_blk` may refuse it, `mem_block` cuts it at the end of its region, either driver
may crash in it, and `shadow_blk` restarts the driver and repeats a *read* once. `FlatDisk`
is the promise: an array of bytes, accessed in pieces that lie in one frame each; a call
that dies loses at most the bytes of one frame, in the step in which it dies.

**EventFd** (with **EventFdProofs**). `Look` is the loop of read and write, `Push`/`WaitNow` the way to sleep,
`Take` and `Add` the updates. On one CPU a task is not interrupted between them; on several
another task may change the counter after a call has looked at it, which `stale` records. The
counter wraps at `MAX`, which stands for `u64::MAX`.

**Futex** (with **FutexProofs**). `map` is the queue per address. Every operation is atomic under
`FUTEX_WAITER` except that a waiter sleeps in a later step (`WaitNow`). `Store` is the
user program changing a word and owing a wake (`signal`). `StickyWake` says whether the
scheduler remembers a wake that comes before `wait_now`.

**Files** (with **FilesProofs**). From the file system calls of the syscall layer down to the file table of the
vfs domain. `table`, `slots`, `occupied` and `cwd` are the task domain's: the `SlotVec`
behind `Arc<Mutex<FdManager>>`, shared or copied by clone, and the working directory.
`file`, `shadow`, `meta` and `next` are the vfs domain's: `VFS_MAP`, `VFS_MAP_SHADOW`, the
`kfile_` entries and `INODE_ID`; the last three live in a store that outlives the domain.
`Shim(i, k)` is an `Arc<ShimFile>`, `k` telling two `ShimFile`s of one id apart. A
system call is a sequence of steps, one per call into a domain, and keeps bare ids (`ids`)
or an `Arc` (`held`) between them: `OnFd`/`OnPath`, then `VfsEnter` and `VfsLeave`;
`VfsOpen` or `VfsNew`, then `AddFd`, `SetCwd` or `VfsClose`; `GetFile`, then `DoDup`; a
dropped `Arc` goes through `DropShim` to `VfsClose` when it is the last. `VfsOpen` and
`VfsClose` are one step each: nobody knows the id of an open in progress, and the shadow
and the `kfile_` entries are read only by `Update`, which takes place while no task is
inside the vfs domain (`Quiet`: replacing a domain is the kernel's business). An `unwrap`
of a missing file ends the call, as an error does. `Exposed` is true of the calls for which
that can happen: those that take an id from a descriptor of a shared table and enter the vfs
domain with it later, on several CPUs, or again after they were blocked there. `aliased` and `abandoned` record ids
for which the code departs from the rule, so that the properties hold of all others. The
kernel starts without a disk: with one, it keeps one further id open for good
(`tree.rs:128`).

**UserMemory** (with **MemoryProofs**). `table[s]` is the page table of an address space, `areas[s]` the areas of
its `VmSpace` (external: `VmMap`, `VmUnmap`, `VmProtect`), `regions` the one
list of mmap regions that all descendants of the first task share, `heap[s]` the heap,
`traps[s]` the trap context pages. One action per system call; `brk` and the vDSO mapping
of execve are two calls into the task domain, so each is two actions. `remove_region` takes away
the first region that contains an address, also where `Recut` (MAP_FIXED over a region) means
the region it has just cut. Addresses count half
frames, so that they may be unaligned. `panic` names the call that panicked, after which
the domain stays as it is (`Halted`).

**UserImage** (with **MemoryProofs**). One execve, or the first process: `phase` goes from open, read (in chunks of
`CHUNK`, with `Edit` the other processes that change the file), parse and load (one page
of one segment per step, then relocation, the architecture's mappings and the stack) to the
pushes of `UserStack::init`. `exe` is the file and the call: its segments, its interpreter,
its relocation tables, its architecture, and which of the program and of `libc.so`, looked up
from the working directory, can be opened. Word `n` of a file contains `n + 1`.

**FsDomain** (with **FsDomainProofs**). `dmap` and `index` are `dentry_map` and its counter; `dir`, `size` the file
system behind; `fsCache` and `cache` the dentry caches of the two sides; `kf` the open
files with shim, position and flags; `saved` and `mounts` what the new vfs domain and other
file systems know of a mount point. A path call is `StartPath`, then `find` (vfs cache),
`lookup` (file system) and `CacheDentry`, then the operation and `insert` or `remove`.
`read_at` and `write_at` lie between `ReadPos` and `Advance`, since `KernelFile` takes its
locks one by one. `Settle` gives back the ids of the shims that a step has dropped.
`Update` replaces the vfs domain.

**Sockets**, **Polling**. `files` says which `SocketFile` a descriptor has; a read, a write or a
poll holds its `Arc` (`Holds`), and the file is dropped (`drop_file`) by the close or, if such a
call on another CPU has it, at the end of the call (`Release`). `table` is `SOCKET_MAP`, `socks`
the `Socket` or `SocketPair` of an id, `conns` the connection of the external protocol stack, which does what the code
here relies on (`Arrive`, `handle_irq`). `accept`, `connect` and `recvfrom` are loops of an
attempt and a yield that keep a bare id (`Loop`, `Attempt`); a read or write is `Enter`
(`get_file`) and what the file does with the socket, a stream read `ReadTake` and `ReadStore`.
The other calls reach the net domain in one step: a thread that closes the descriptor just
before gives them EINVAL, as a closed descriptor gives EBADF. `strays`, `bytes` record departures, as in Files. `Polling` adds select and
ppoll: passes over the wanted descriptors, three steps for each - the number behind it, the file
behind the number, the answer of the file - and a timer.

**Scheduler**, **BufferedDevices**, **Interrupts**, **Terminal**. `Scheduler` is the
list of tasks under either policy and the kernel that runs them; `BufferedDevices` the
serial line and the input device with buffer, wait queue and readers, and the terminal file
above; `Interrupts` the controllers and the timer; `Terminal` composes them: a program's
read goes down to the buffer and sleeps in the scheduler, an interrupt comes up through the
controller, fills the buffer and wakes it. A byte or event is its number in the order of
arrival.

## Runs

| Run | Shows | Instance |
|---|---|---|
| `pipe` | FIFO refinement (`ImplementsChannel`), the inductive invariant `PipeInv`; end of file, HUP and ERR are final (`EndIsFinal`); blocked calls return after close unless a task is caught in a drop | 2 tasks, several CPUs, every call through either end, 2 slots, 2 byte values, buffers up to 2; fair |
| `process_tree` | no process lost or left with a dead parent, its tid unique, no task released twice, the reaper holds the only reference on one CPU; groups lie in one session; init releases every orphan | 4 tids, 3 clones (2 with groups), programs with and without threads, one CPU and several; fair |
| `block_cache` | the cache is transparent over drivers that crash and refuse, its LRU list well formed; one crash is survived | 2 tasks, 2 of 3 frames cached, 2 sectors of 2 bytes per frame, ranges across sectors and frames; three devices, two of which end inside a frame |
| `eventfd` | exact counting, on several CPUs for every call that no other overtakes between its two locks; no reader asleep on events (one CPU); sleepers stay queued (several) | 3 tasks, counter up to 3, all modes |
| `futex` | waiters queued exactly once, no missed wake, first come first served | 3 threads, 2 addresses, 2 bits |
| `files` | descriptors and working directories name open files, nothing else stays open, calls that are not exposed find their file, slot counts are exact, recovery after an update is exact, ids keep their meaning | 2 tasks; threads or processes on several CPUs with one file, threads on one CPU, one task with two files or a pipe; tables of 3 or 4 slots |
| `files_fchdir` | **violated**: closing a descriptor closes the working directory that fchdir made of it | 1 task, 2 ids |
| `user_memory` | program, stack, heap, trap pages and owned regions are mapped; MAP_FIXED keeps the tiling of regions that lie apart and adds nothing to the list otherwise; a process that does nothing unusual cannot panic the domain | 9 pages, 2 address spaces, lists of 3 or 4 regions; 2 threads; 2 processes that fork and execute; 4 tasks with both; fixed addresses below the heap, with regions that overlap, and at its start |
| `user_image` | the image is what the file says, with shared pages, both relocation tables and the x86_64 kernel core; arguments read back; failures contained; execve ends, and late only for want of room on the stack | 9 pages of 2 words, a file that changes once, stacks that are large enough and too small |
| `fs_domain` | ids valid while used and given back; caches agree with the directory; no hole; writes need the right | 2 tasks, 2 names, 2 files besides the root, 4 nodes, 1 update, seven settings |
| `sockets` | streams in order; ids, ports and requests have one owner, also while a file outlives its descriptor; loops keep their socket; select and ppoll tell the truth, and select panics for two reasons only; due calls return | 2 threads, 3 descriptors, 3 sockets, 2 frames, eight settings; fair |
| `terminal` | no task lost, no reader asleep on data, input and echo exact and events lost only to a full buffer, claims completed, timer armed; FIFO serves all, data reaches readers | 2 tasks, 1 or 2 CPUs, up to 3 bytes or events, a buffer of 2, one driver failure, late drivers, an update of the scheduler, seven settings; fair |

The bounds are enough for the cases that matter. A ring of two slots wraps at every
transfer and is full and empty in turn (larger rings are covered by the proofs); four tids
allow init, a parent with two children, and reuse of a tid; a cache of two frames over
three evicts frames that are dirty, clean and in use; two crashes exceed what the shadow
repeats; a counter up to 3 fills, and three waiters give queues in which wake and requeue
split. In `files` the standard streams are closed at the start (`Closed`); `NewFds` makes
dup2 hit slot 0 and extend the table by a gap. In `user_memory` lengths of 1 and 5 half
frames give regions of one and of three pages that end inside a page, so that a cut leaves
two or three parts; four regions let a list of two be cut, with both regions over the
address or with one beside the other. `user_image` has segments that share a page, that start inside
one, whose memory is larger than their file part, and that are empty. In `terminal` three bytes overrun
the buffer of two events, and `deltas` make the timer count wrap to a multiple of
`2 ^ Width`. In `sockets` a pair holds `PairLimit` 1, so that a write of two exceeds it.

Every bound is named: `MaxLen`, `max_clones`, those of `Files` (`MaxId`, `MaxFds`,
`NewFds`, `MaxAlias`), `UserMemory` (`HeapLimit`, `Top`, `Lens`, `Starts`, `MaxThreads`,
`MapProts`, `NewProts`, and `top`, `tasks` and `regions` of a setting; mprotect begins at a page), `UserImage` (`Space`, `MaxEdits`, `Exes`), `FsDomain` (`MaxId`,
`MaxNode`, `MaxLen`, `MaxUpdates`), `Sockets` (`MaxFd`, `MaxSockets`, `MaxFrames`,
`MaxLength`, `budget`), `Polling` (`Wants`, `FdCounts`) and `Terminal` (`Lengths`, `input`,
`elapsed`, `faults`). Deadlock checking is off where all tasks may legitimately be blocked
or finished; the other modules have a step that stands for a system at rest.

**Fairness.** `Pipe!FairSpec` gives strong fairness to the steps of a task in the kernel:
the schedulers keep every ready task in a queue, and a spinlock that is free again and
again is obtained. `ProcessGroups!FairGroupsSpec` gives the same to tasks inside exit and
wait and assumes that init keeps calling `wait4(-1)` without options. `Polling!Spec` gives
it to tasks inside a call and weak fairness to the timer and the interrupt of the network
card. Strong fairness is needed because a step may be held up again and again by a lock
or, on one CPU, by another task's uninterrupted stretch. `Terminal` assumes no fair
scheduler, since the scheduler is what it models: a CPU goes on with its work
(`WF(Work)`), and a timer or an interrupt that waits while the kernel runs is taken when
the task is back in user mode (`SF(Tick)`, `SF(Trapped)`). `UserImage` only assumes that
the task goes on with its call; `Edit` need never happen.

### What the violated run says

`set_cwd` wraps the id of a descriptor in a second `ShimFile` (`task/src/lib.rs:125`); the
first one dropped closes the file for both, although the type is described as equal to one
shared `Arc`.

### Other departures met while modelling

They are part of the models, as outcomes or as exceptions that a property names, and have
no run of their own.

*Tasks.* `children` is keyed by pid (`task.rs:558`), so a second thread evicts the first, and a
tid in use becomes free, although a tid is called the unique identifier of a task (`task.rs:49`):
`TidIsUnique` fails for programs with threads, which `ReleaseIsSafe` excepts. A thread that forks trips an
assertion; a `CLONE_PARENT` child is never given to init; on several CPUs init may trip
the assertion of `do_wait4` on a child that `do_exit` still holds. `setpgid` takes any
process with the number of the group for its leader. waitid writes its result after the
child was reaped, so with a bad pointer the child is gone and the call fails.

*Sleeping.* An eventfd write blocked on a full counter is not woken by a read, although its
comment says so (`eventfd.rs:100`). On several CPUs two reads may take the same events, and a
write may wrap the counter, when one overtakes the other between its two locks. Futex
timeouts are stored and never used, a wait with bitset 0 is never woken, requeue onto the same
address forgets waiters, and queues are keyed by the virtual address alone.

*Memory.* Where regions overlap - two processes map fixed addresses into the one list, or one
maps below another region - MAP_FIXED over the second deletes the first ("delete the old region",
`mmap.rs:171`), since `remove_region` looks for an address. Forks share the list of regions but not the page tables: a region that one
process maps, another sees, and an unmap or a fault there panics. mprotect of a part
changes the rights of the whole region at the next fault. `do_mmap` lets a fixed mapping
begin at `heap_bottom`: cut and unmapped there, it leaves a region in the list that names
pages which the heap takes afterwards, and unmapping that region takes them away. A child of a process with
threads cannot start a thread. execve under live threads takes their trap pages. Copies
from and to user memory unwrap. Arguments that do not fit are noticed when the old program
is gone. `libc.so` is looked up from the working directory, and a program with an interpreter
panics the domain where it is not found. execve keeps descriptors that are marked `FD_CLOEXEC`.

*Files.* On several CPUs `is_write_wait`/`is_read_wait` may drop the last `Arc<PipeFile>`
under `data`, which `PipeFile::drop` takes again. A thread that closes a descriptor
between the `get_fd` of another's call and the call into the vfs domain makes that unwrap
`None`, in select too, and two threads that read or write one file at once write over each
other's position. A lookup may enter a name that another CPU has just unlinked. An update loses pipes, sockets and
eventfds, and gives two files of one name two shims for one id. rename changes no dentry
cache. `F_SETFL` replaces the access mode. renameat2 mixes up the two results of `fs_info`.

*Block devices.* The cache unwraps an entry that another caller may have evicted, and
unwraps every error of the device.

*Sockets.* Both ends of a pair are one socket and one queue. Two reads of one socket at once mix
up the leftover bytes. bind to a port in use and a
poll of a pair whose other end was closed panic. accept with a bad pointer leaks the
socket; poll does not look at leftover bytes; recvfrom takes the end of the stream for no data
yet; select writes masks back before it has looked at all of them.

*Devices.* A PLIC handler that fails leaves its interrupt claimed for good; `buf_input`
that fails half-way wakes nobody. A second hart can find nothing to claim. A line without a
loaded domain is left asserted, and a second registration adds a device twice.
`local_apic::init` sets up the first CPU only. The search for the highest priority starts
at `i8::MAX`. An unknown ioctl panics under the lock of the terminal.

## Proofs

Each proof module proves its theorems from nothing but the named assumptions of the model.
The table lists what is proved for every value of the constants; the right column is what a
theorem assumes beyond the model's own assumption on its constants.

| Module | Theorems | Assumes besides |
|---|---|---|
| `PipeProofs` | `InvariantHolds`, `PipeImplementsChannel`, `EndsAreFinal` | |
| `EventFdProofs` | `SleepersHold`, `CountingIsExact` | `WakesAreKept` for the first |
| `FutexProofs` | `WaitersAreSafe`, `OrderIsKept` | `StickyWake`; `BitsCanMatch`, `OneWay`; `NoSelfRequeue`; finitely many threads |
| `BlockCacheProofs` | `CacheHolds`, `CrashIsSurvived`, `CacheImplementsDisk` | |
| `FilesProofs` | `TablesHold`, `OpenFilesHold`, `CallsHold`, `IdsHold` | |
| `FsDomainProofs` | `IdsHold`, `CachesHold`, `PositionsStay`, `RightsNeeded` | |
| `ProcessProofs` | `FamilyHolds`, `ReleaseHolds`, `GroupsHold` | |
| `MemoryProofs` | `SpacesHold`, `PlainNeverPanics`, `CutsKeepTheTiling`; `ImagesAreReady`, `StacksAreReady`, `FailuresAreContained` | |

**Pipe.** `PipeInv` is inductive as it stands. `NoShortCopy` is not inductive alone: a byte
copied by another task would use up what is left, so `MutualExclusion` is needed, and
`CallShape` says that nothing was counted before a transfer starts and that `min` fits the
buffer. The refinement maps the queue to the bytes between `head` and `tail`;
`WriteAppends` and `ReadTakesHead` show what one round of a copy loop does to that
sequence, using the arithmetic of the wrapping indices. `EndsAreFinal` adds that an end
that is closed and held by no call stays so (`GoneStaysGone`), which is why a report that
was true stays true.

**EventFd.** `EventInv` adds to the types that one CPU has one task inside, that the decision
of a task that nobody has overtaken (`stale`) is still right when it acts on it, and that sleepers
are queued; the first makes the last step of a call count exactly (`DecisionOf`). The premise
`WakesAreKept` says that the scheduler keeps a wake that comes before `wait_now`, or that
there is one CPU: without it the code does lose a wake on several CPUs.

**Futex.** `QueueInv`: a thread is blocked if and only if it is in exactly one queue once. It
needs `NoSelfRequeue`, since `requeue` onto the same address drops waiters (see above).
`NoMissedWake` also needs that a waiter is where it said it waits or was moved further
(`Placed`). That is only inductive if requeues never lead in a circle (`OneWay`, stated by
numbering the futexes): condition variables requeue to their mutex and nothing requeues
back. `BitsCanMatch` excludes the empty bitset that no wake can match.

**BlockCache.** `CacheInv` adds to `CacheIsSound` where each round of the copy loop of each
call is (`Loop`): a round moves to the next page, which is on the disk only because the call
stays inside the device. The refinement maps the disk to the cached pages over the driver's
sectors; `Load` and `Replace` then stutter although they may crash the driver, because
writing back and reading a frame leaves the bytes as they are, whatever is retried.

**Files.** `FilesInv` is bookkeeping per id (`Accounted`): either one call owns it or
`ShimFile`s do, and only one unless fchdir made a second; what is referred to is open, and
what is open is referred to or was abandoned by an error path. Only with the call steps in
these books (`Owned`, `Known`) is it inductive, since every system call has several steps.
`CallsHold` needs for each call a file that nobody else can close (`KeepsFile`): in processes
any, since the tables are not shared (`Apart`), in threads the one that the call opened itself
or has from the working directory, and on one CPU one that was looked up while no other task was
between its steps (`Alone`).

**FsDomain.** `FsInv` needs that an id that no replacement has aliased has one shim
(`OneShim`): then dropping a shim takes away no id that another use needs, and an entry
of a cache under a free name is impossible, since its id would stand for nothing.
`MapKept` says once what any step leaves of `dentry_map`; `DropsKeepMap` shows it for a
step that only drops references, `HandsOutKeepsMap` for one that gets a fresh id, and each
action is one or the other. `HasRoom` counts what the calls in progress may still take, so
that the bound on ids never cuts a call short. `NamesHold` and `PositionsHold` are
`CachesAreExact` and `NoHole` in the middle of a call; both are about one CPU, where
`OneCall` leaves the other calls idle.

**ProcessTree, ProcessGroups.** `TreeInv` states where a task may be: in the map of its
parent, on the way from a dying parent to init (`Walk`), or in the frame of a waiter
(`Held`). The invariants that a run checks follow from it. `GroupsExtendTree` shows that a
program with groups and sessions is one of the life cycle, so `TreeInv` is used again;
`GroupsInv` needs in addition that a listed process that left the group with its number has
no member there (`LeaderIsMember`), because `setpgid` looks a group up by that number.

**UserMemory.** `MemInv` relates four descriptions of one memory: the page tables, the areas of
each `VmSpace`, the heap and the list of regions. Without fixed addresses a region is a
stretch that `alloc` handed out once (`RegionShape`), an area is a region or lies beside all
of them (`AreasMatch`), and a region that its owner has not lost by execve has its pages
(`OwnersHave`); so no unmap takes pages of another region, whoever calls it. With fixed
addresses below the heap only `NoneInHeap` is left, which keeps every unmap out of the heap.
`StepShape` is what the second half of a brk or of an execve relies on after other tasks ran.
Every call is one of few effects (`QuietKeeps`, `AddKeeps`, `UnmapKeeps`, `GrowKeeps`,
`PanicKeeps`), for each of which the invariant is proved once. That program and stack stay mapped needs that every area lies beside them or is theirs
(`ImageBacked`). `CutTiles` shows of one cut that the parts cover the region and lie beside the
others; in a list of disjoint regions the region removed is the one that was cut.

**UserImage.** `ImageInv` follows the call. While segments are loaded, `LoadShape` and
`DataShape` say of each word whether its page is mapped and that it is the word of the last
segment so far that has data for it (`Seen` is the part of a segment whose pages are done);
`FrameDown` and `FrameUp` are reasoned about by division with remainder (`FrameOf`,
`FrameOrder`, `FrameNext`), since pages may be shared at both ends. `MapStackKeeps` turns this
into `LoadedShape`, which the rest of the call leaves alone: the relocations are the entries
of both tables in order (`RelocationsAre`) and the last write to a word counts. `GuardHolds`
is why the kernel core, a stretch of three pages or more, cannot lie between program and
stack. `StackShape` numbers the words above the strings: word `j` from the end of the
vector upwards is `Word(j)`, `Depth` of them are pushed, and an address that was pushed keeps
pointing at its string (`PointsGrow`). Reading back (`ArgumentsAreThere`) is then counting.
`Space` may be any end of addresses that the moved segments stay below (`Fits`).

Counting slots and queue positions needs the least element of a set of naturals
(`LeastOf`, from well-foundedness), and where a recursive function gives an index,
`UpTo`/`LeastOf` stand in for induction, which the prover cannot use.

The proofs corrected the models: an access of length 0 at the end of the disk is
legal (`FlatDisk`), the set of bytes is not empty, `None` is no id, tids are finite (as
`MAX_THREAD_NUM` makes them), a mapping may begin where the heap does (`BelowHeap`), a new
task inherits its group also when its tid was used by a task that is still leaving
(`Inherit`), a link whose old name was in no cache goes on to make the new name after it has
inserted the old one (`insert` of FsDomain), entries of
`.rela.plt` have no addend (`ImageIsLoaded`), an empty segment moves the end of the program
without a page, so that the kernel core may then end right below the stack
(`GuardBelowStack`), and three pages of kernel core are not enough unless they are adjacent
(`UserImageAssumption`).

Only model-checked: all liveness properties (outside the prover) and the properties of
Sockets and Polling, Terminal and its parts. Terminal folds over sequences, which would
need induction over data; Sockets needs one invariant over the table of ids, the connections
of the stack and all calls in progress.

## Plan

Proofs: `SocketsAreExact` of Sockets.

Modelling left: the composition of Files over Pipe (close on the last descriptor), and the
composition of Futex with several address spaces.

## Not modelled

Register drivers, loggers, path strings, the protocol stack (external crate), the build
tool, and the contents of the small file systems of the kernel, which are filled once at
boot. `vfs2` is a copy of `vfs`. epoll's read and write are `todo!()`: only its map can
be edited. Of the devices: interrupt counts and routing, inter-processor interrupts,
terminal process groups and window sizes, `write_at` and `poll` of the serial line.
System calls that copy a constant or forward their arguments (time, system information,
signal actions, limits) have no state to relate. `PROJECT.json` lists every component with
its status.
