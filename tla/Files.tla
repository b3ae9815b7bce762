-------------------------------- MODULE Files --------------------------------
(***************************************************************************)
(* Open files, from the system call to the file object:                    *)
(*   - common/syscall/syscall/src/fs: one system call is a sequence of     *)
(*     calls into the task domain and the vfs domain;                      *)
(*   - common/task/task/src: the descriptor table of a process (SlotVec of *)
(*     Arc<ShimFile>) and the working directory, an Arc<ShimFile> too;     *)
(*   - common/vfs/vfs/src: VFS_MAP from InodeID to file, VFS_MAP_SHADOW    *)
(*     and the kfile_ entries, which outlive a replacement of the domain.  *)
(*                                                                         *)
(* Between two of those calls a system call keeps a bare InodeID, and      *)
(* other tasks may run.  A ShimFile closes its InodeID when its last Arc   *)
(* is dropped.  What a file contains is left out.                          *)
(***************************************************************************)
EXTENDS Integers, Sequences, FiniteSets

CONSTANTS
  Tasks,
  FirstTask,   \* the only task at the start
  Tables,      \* names for Arc<Mutex<FdManager>>
  None,        \* Option::None
  MaxId,       \* bound: the last InodeID handed out
  MaxFds,      \* bound: slots of a table
  NewFds,      \* bound: the newfd arguments of dup2 and dup3
  MaxAlias,    \* bound: how many ShimFiles fchdir adds to one id at a time
  Closed,      \* sets of standard streams (slots 1..3) closed before the model starts
  Worlds       \* the settings to check, see world

\* VFS_ROOT_ID, VFS_STDIN_ID, VFS_STDOUT_ID, VFS_STDERR_ID
Fixed == 0..3
Ids == 0..MaxId

ASSUME FilesAssumption ==
  /\ FirstTask \in Tasks /\ None \notin Tables /\ Tables # {}
  /\ None \notin Ids \X (0..MaxAlias)
  /\ MaxId \in Nat /\ MaxId > 3 /\ MaxFds \in Nat /\ MaxFds > 3
  /\ NewFds \subseteq 0..(MaxFds - 1) /\ MaxAlias \in Nat
  /\ Closed \subseteq SUBSET (1..3)
  /\ Worlds \subseteq [share : BOOLEAN, smp : BOOLEAN, lastId : Ids, fds : 0..MaxFds,
                     tasks : Nat]

VARIABLES
  table,     \* Task.fd_table: the table of each task, None for no task
  slots,     \* SlotVec.slots: each an Arc<ShimFile> or None
  occupied,  \* SlotVec.num_occupied
  cwd,       \* TaskInner.fs_info.cwd
  held,      \* Arcs that a call of the task is about to drop or insert
  pc, op,    \* the system call of each task and how far it is
  ids,       \* the InodeIDs that call works on
  fd,        \* newfd of dup2 and dup3
  using,     \* Arc<dyn File>s held by a call inside the vfs domain
  file,      \* VFS_MAP: "kernel", "special"; "lost": a special file the update dropped
  shadow,    \* VFS_MAP_SHADOW
  meta,      \* the ids with a kfile_ entry
  next,      \* INODE_ID
  aliased,   \* history: ids given to a second ShimFile
  abandoned, \* history: ids a call opened and neither stored nor closed
  world      \* never changes: share, clone is called with CLONE_FILES; smp, there are
             \* several CPUs; lastId, fds and tasks, the bounds of this setting on ids, slots
             \* and tasks

taskVars == <<table, slots, occupied, cwd>>
vfsVars == <<file, shadow, meta, next>>
callVars == <<held, pc, op, ids, fd, using>>
vars == <<taskVars, vfsVars, callVars, aliased, abandoned, world>>

\* An Arc<ShimFile>: the InodeID and a number that tells two ShimFiles of one id apart.
Shim(i, k) == <<i, k>>
Id(o) == o[1]
Objs == Ids \X (0..MaxAlias)
STDIN == Shim(1, 0)
STDOUT == Shim(2, 0)
ROOT == Shim(0, 0)

Live == {t \in Tasks : table[t] # None}
InTable(b) == {slots[b][i] : i \in DOMAIN slots[b]} \ {None}
Referenced == (UNION {InTable(b) : b \in Tables}) \cup {cwd[t] : t \in Live}
                \cup (UNION {held[t] : t \in Tasks})

\* new_stdio_fd_table, FsContext::new and init_filesystem_before; the first program
\* may have closed some of its standard streams since
Init ==
  /\ table = [t \in Tasks |-> IF t = FirstTask THEN CHOOSE b \in Tables : TRUE ELSE None]
  /\ \E shut \in Closed :
       LET stdio == [i \in 1..3 |-> IF i \in shut THEN None ELSE IF i = 1 THEN STDIN ELSE STDOUT]
       IN  /\ slots = [b \in Tables |-> IF b = table[FirstTask] THEN stdio ELSE <<>>]
           /\ occupied = [b \in Tables |-> IF b = table[FirstTask] THEN 3 - Cardinality(shut) ELSE 0]
  /\ cwd = [t \in Tasks |-> ROOT]
  /\ held = [t \in Tasks |-> {}] /\ using = [t \in Tasks |-> {}]
  /\ pc = [t \in Tasks |-> "idle"] /\ op = [t \in Tasks |-> "none"]
  /\ ids = [t \in Tasks |-> {}] /\ fd = [t \in Tasks |-> 0]
  /\ file = [i \in Ids |-> IF i \in Fixed THEN "kernel" ELSE "none"]
  /\ shadow = Fixed /\ meta = Fixed /\ next = 4
  /\ aliased = {} /\ abandoned = {} /\ world \in Worlds

-----------------------------------------------------------------------------
(* Descriptor tables: SlotVec and the methods of Task that lock it.  Fd n   *)
(* is position n + 1 of the sequence.                                       *)

\* SlotVec::get
Get(t, n) == LET s == slots[table[t]] IN IF n + 1 \in DOMAIN s THEN s[n + 1] ELSE None

\* the ids that get_fd can return to t; a free descriptor is EBADF
FdIds(t) == {Id(o) : o \in InTable(table[t])}

\* mutant: put_at does not count the slot it fills
PutAt_NoCount(b, n, o) ==
  LET s == slots[b]
      long == IF n < Len(s) THEN s ELSE s \o [i \in 1..(n + 1 - Len(s)) |-> None]
  IN  /\ slots' = [slots EXCEPT ![b] = [long EXCEPT ![n + 1] = o]]
      /\ occupied' = occupied

\* SlotVec::put_at: extend the table to slot n, replace its item
PutAt(b, n, o) ==
  LET s == slots[b]
      long == IF n < Len(s) THEN s ELSE s \o [i \in 1..(n + 1 - Len(s)) |-> None]
  IN  /\ slots' = [slots EXCEPT ![b] = [long EXCEPT ![n + 1] = o]]
      /\ occupied' = [occupied EXCEPT ![b] = IF long[n + 1] = None THEN @ + 1 ELSE @]

\* SlotVec::put: push when num_occupied says that no slot is free, else the
\* first free slot (the code unwraps the result of position)
PutFd(b) ==
  IF occupied[b] = Len(slots[b]) THEN Len(slots[b])
  ELSE (CHOOSE i \in 1..Len(slots[b]) :
          slots[b][i] = None /\ \A j \in 1..(i - 1) : slots[b][j] # None) - 1
Put(b, o) ==
  LET n == PutFd(b)
  IN  /\ n < world.fds
      /\ slots' = [slots EXCEPT ![b] = IF n = Len(@) THEN Append(@, o) ELSE [@ EXCEPT ![n + 1] = o]]
      /\ occupied' = [occupied EXCEPT ![b] = @ + 1]

\* bound: a call that needs n new slots starts only when they are there
Room(t, n) == occupied[table[t]] + n <= world.fds

\* SlotVec::remove of a slot in use
Remove(b, n) ==
  /\ slots' = [slots EXCEPT ![b][n + 1] = None]
  /\ occupied' = [occupied EXCEPT ![b] = @ - 1]

-----------------------------------------------------------------------------
(* The start of a system call: user_path_at and get_fd.                     *)

\* user_path_at: the root for an absolute path, else the working directory or dirfd
user_path_at(t) == {0, Id(cwd[t])} \cup FdIds(t)

\* On one CPU the kernel is not preempted: another task runs only while t is in user
\* space or blocked inside a vfs call.
Alone(t) == world.smp \/ \A u \in Tasks \ {t} : pc[u] \in {"idle", "in"}
Ready(t) == pc[t] = "idle" /\ Alone(t)

\* t goes on at p with the ids I in hand
Begin(t, o, p, I) ==
  /\ Ready(t)
  /\ pc' = [pc EXCEPT ![t] = p] /\ op' = [op EXCEPT ![t] = o] /\ ids' = [ids EXCEPT ![t] = I]
  /\ UNCHANGED <<taskVars, vfsVars, held, fd, using, aliased, abandoned, world>>

OnFd(t, o) == \E i \in FdIds(t) : Begin(t, o, "call", {i})
OnPath(t, o) == \E i \in user_path_at(t) : Begin(t, o, "call", {i})

\* get_fd, then one vfs call
sys_write(t) == OnFd(t, "read")
sys_read(t) == OnFd(t, "read")
sys_ftruncate(t) == OnFd(t, "read")
sys_lseek(t) == OnFd(t, "read")
sys_fstat(t) == OnFd(t, "read")
sys_fsync(t) == OnFd(t, "read")
sys_pread64(t) == OnFd(t, "read")
sys_pwrite64(t) == OnFd(t, "read")
sys_getdents64(t) == OnFd(t, "read")
sys_fstatfs(t) == OnFd(t, "read")
sys_ioctl(t) == OnFd(t, "read")
sys_poll_ctl(t) == OnFd(t, "read")

\* get_fd, then one vfs call per buffer
sys_readv(t) == OnFd(t, "readv")
sys_writev(t) == OnFd(t, "readv")
sys_sendfile(t) ==
  \E i, j \in FdIds(t) : Begin(t, "readv", "call", {i, j})

\* a path, then one vfs call; rename also looks up root and working directory
sys_unlinkat(t) == OnPath(t, "read")
sys_symlinkat(t) == OnPath(t, "read")
sys_readlinkat(t) == OnPath(t, "read")
sys_linkat(t) ==
  \E i, j \in user_path_at(t) : Begin(t, "read", "call", {i, j})
sys_renameat2(t) ==
  \E i, j \in user_path_at(t) : Begin(t, "read", "call", {i, j, 0, Id(cwd[t])})
sys_getcwd(t) == Begin(t, "read", "call", {Id(cwd[t])})

\* what follows vfs_open
AfterOpen(o) ==
  CASE o = "openat" -> "addfd"
    [] o = "chdir" -> "setcwd"
    [] o = "faccessat" -> "close"
    [] o = "mkdirat" -> "idle"
    [] o \in {"fstatat", "truncate", "utimensat", "read_all"} -> "call"

\* The whole of a vfs_open that succeeds: user_path_at, get_file of the start, which
\* must have a dentry, and insert_dentry: the kfile_ entry, VFS_MAP, VFS_MAP_SHADOW.
\* Nobody else knows the new id, and shadow and kfile_ entries are read by Update only,
\* so one step is enough.  A vfs_open that fails changes nothing.
VfsOpen(t, o, starts) ==
  /\ Ready(t)
  /\ \E i \in starts : file[i] = "kernel"
  /\ next <= world.lastId
  /\ next' = next + 1
  /\ meta' = meta \cup {next}
  /\ file' = [file EXCEPT ![next] = "kernel"]
  /\ shadow' = shadow \cup {next}
  /\ pc' = [pc EXCEPT ![t] = AfterOpen(o)]
  /\ op' = [op EXCEPT ![t] = IF o = "mkdirat" THEN "none" ELSE o]
  /\ ids' = [ids EXCEPT ![t] = IF o = "mkdirat" THEN {} ELSE {next}]
  /\ abandoned' = IF o = "mkdirat" THEN abandoned \cup {next} ELSE abandoned
  /\ UNCHANGED <<taskVars, held, fd, using, aliased, world>>

Dirs(t) == {0, Id(cwd[t])}
sys_openat(t) == Room(t, 1) /\ VfsOpen(t, "openat", user_path_at(t))
sys_fstatat(t) == VfsOpen(t, "fstatat", user_path_at(t))
sys_faccessat(t) == VfsOpen(t, "faccessat", user_path_at(t))
sys_utimensat(t) == VfsOpen(t, "utimensat", user_path_at(t))
sys_mkdirat(t) == VfsOpen(t, "mkdirat", user_path_at(t))
sys_truncate(t) == VfsOpen(t, "truncate", Dirs(t))
sys_statfs(t) == VfsOpen(t, "truncate", Dirs(t))
sys_chdir(t) == VfsOpen(t, "chdir", Dirs(t))
read_all(t) == VfsOpen(t, "read_all", Dirs(t))

\* vfs_inode_type, then set_cwd
sys_fchdir(t) == OnFd(t, "fchdir")

\* insert_special_file for n new files, then p
VfsNew(t, o, n, p) ==
  /\ next + n - 1 <= world.lastId
  /\ next' = next + n
  /\ file' = [i \in Ids |-> IF i \in next..(next + n - 1) THEN "special" ELSE file[i]]
  /\ ids' = [ids EXCEPT ![t] = @ \cup next..(next + n - 1)]
  /\ pc' = [pc EXCEPT ![t] = p] /\ op' = [op EXCEPT ![t] = o]
  /\ UNCHANGED <<taskVars, shadow, meta, held, fd, using, aliased, abandoned, world>>

\* do_pipe2 enters both ends; socketpair makes two calls to do_socket
sys_pipe2(t) == Ready(t) /\ Room(t, 2) /\ VfsNew(t, "openat", 2, "addfd")
sys_poll_createl(t) == Ready(t) /\ Room(t, 1) /\ VfsNew(t, "openat", 1, "addfd")
sys_eventfd2(t) == Ready(t) /\ Room(t, 1) /\ VfsNew(t, "openat", 1, "addfd")
sys_socket(t) == Ready(t) /\ Room(t, 1) /\ VfsNew(t, "openat", 1, "addfd")
sys_socket_pair(t) ==
  \/ Ready(t) /\ Room(t, 2) /\ next < world.lastId /\ VfsNew(t, "socket_pair", 1, "new")
  \/ pc[t] = "new" /\ Alone(t) /\ VfsNew(t, "openat", 1, "addfd")

\* mutant: the slot is not looked at before it is counted as freed
sys_close_Unchecked(t) ==
  /\ Ready(t)
  /\ \E n \in DOMAIN slots[table[t]] :
       /\ Remove(table[t], n - 1)
       /\ held' = [held EXCEPT ![t] = {Get(t, n - 1)}]
  /\ pc' = [pc EXCEPT ![t] = "drop"] /\ op' = [op EXCEPT ![t] = "close"]
  /\ UNCHANGED <<table, cwd, vfsVars, ids, fd, using, aliased, abandoned, world>>

\* task_domain.remove_fd: the Arc leaves the table and is dropped by the caller
sys_close(t) ==
  /\ Ready(t)
  /\ \E n \in 0..(MaxFds - 1) :
       /\ Get(t, n) # None
       /\ Remove(table[t], n)
       /\ held' = [held EXCEPT ![t] = {Get(t, n)}]
  /\ pc' = [pc EXCEPT ![t] = "drop"] /\ op' = [op EXCEPT ![t] = "close"]
  /\ UNCHANGED <<table, cwd, vfsVars, ids, fd, using, aliased, abandoned, world>>

\* do_dup and do_fcntl, first half: get_file clones the Arc
GetFile(t, o, n, new) ==
  /\ Ready(t) /\ Get(t, n) # None
  /\ held' = [held EXCEPT ![t] = {Get(t, n)}] /\ fd' = [fd EXCEPT ![t] = new]
  /\ pc' = [pc EXCEPT ![t] = "insert"] /\ op' = [op EXCEPT ![t] = o]
  /\ UNCHANGED <<taskVars, vfsVars, ids, using, aliased, abandoned, world>>

sys_dup(t) == Room(t, 1) /\ \E n \in 0..(MaxFds - 1) : GetFile(t, "dup", n, 0)
sys_fcntl(t) ==
  \/ OnFd(t, "read")
  \/ Room(t, 1) /\ \E n \in 0..(MaxFds - 1) : GetFile(t, "fcntl", n, 0)
sys_dup2(t) == \E n \in 0..(MaxFds - 1), m \in NewFds : n # m /\ m < world.fds /\ GetFile(t, "dup2", n, m)
sys_dup3(t) == \E n \in 0..(MaxFds - 1), m \in NewFds : n # m /\ m < world.fds /\ GetFile(t, "dup3", n, m)

-----------------------------------------------------------------------------
(* Inside a system call: the task domain.                                   *)

\* t goes on at p with the ids I; a call that returns forgets its arguments
Goto(t, p, I) ==
  /\ pc' = [pc EXCEPT ![t] = p]
  /\ op' = [op EXCEPT ![t] = IF p = "idle" THEN "none"
                              ELSE IF p = "call" /\ @ \in {"fcntl", "dup3"} THEN "read" ELSE @]
  /\ fd' = [fd EXCEPT ![t] = IF p \in {"idle", "call"} THEN 0 ELSE @]
  /\ ids' = [ids EXCEPT ![t] = IF p = "idle" THEN {} ELSE I]

\* where a call goes when the Arcs it dropped are gone
AfterDrop(t) == IF op[t] = "dup3" THEN "setfd" ELSE "idle"

\* do_dup and do_fcntl, second half; the item replaced is dropped.  fcntl goes
\* on with the bare id of the file
DoDup(t) ==
  /\ pc[t] = "insert" /\ Alone(t)
  /\ \E o \in held[t] :
       IF op[t] \in {"dup", "fcntl"}
       THEN /\ Put(table[t], o)
            /\ held' = [held EXCEPT ![t] = {}]
            /\ \E p \in (IF op[t] = "fcntl" THEN {"call", "idle"} ELSE {"idle"}) : Goto(t, p, {Id(o)})
       ELSE /\ PutAt(table[t], fd[t], o)
            /\ held' = [held EXCEPT ![t] = {Get(t, fd[t])} \ {None}]
            /\ Goto(t, IF Get(t, fd[t]) = None THEN AfterDrop(t) ELSE "drop", {})
  /\ UNCHANGED <<table, cwd, vfsVars, using, aliased, abandoned, world>>

\* dup3 with O_CLOEXEC looks newfd up again before it sets the flag
SetFd(t) ==
  /\ pc[t] = "setfd" /\ Alone(t)
  /\ \/ Goto(t, "idle", {})
     \/ Get(t, fd[t]) # None /\ Goto(t, "call", {Id(Get(t, fd[t]))})
  /\ UNCHANGED <<taskVars, vfsVars, held, using, aliased, abandoned, world>>

\* mutant: the Arc count is not looked at
LastArc_Always(t, o) == o \in held[t]

\* mutant: only the table of the task is searched
LastArc_OwnTable(t, o) == \A b \in Tables : table[t] = b => o \notin InTable(b)

\* Arc::drop runs ShimFile::drop when no other Arc is left
LastArc(t, o) ==
  /\ \A b \in Tables : o \notin InTable(b)
  /\ \A u \in Live : cwd[u] # o
  /\ \A u \in Tasks \ {t} : o \notin held[u]

\* one Arc of held is dropped
DropShim(t) ==
  /\ pc[t] = "drop" /\ Alone(t)
  /\ \E o \in held[t] :
       /\ held' = [held EXCEPT ![t] = @ \ {o}]
       /\ IF LastArc(t, o)
          THEN Goto(t, "close", {Id(o)})
          ELSE Goto(t, IF held'[t] = {} THEN AfterDrop(t) ELSE "drop", {})
  /\ UNCHANGED <<taskVars, vfsVars, using, aliased, abandoned, world>>

\* add_fd and do_pipe2: a new ShimFile for each id, the smallest id first
AddFd(t) ==
  /\ pc[t] = "addfd" /\ Alone(t)
  /\ LET i == CHOOSE x \in ids[t] : \A y \in ids[t] : x <= y
     IN  /\ Put(table[t], Shim(i, 0))
         /\ Goto(t, IF ids[t] = {i} THEN "idle" ELSE "addfd", ids[t] \ {i})
  /\ UNCHANGED <<table, cwd, vfsVars, held, using, aliased, abandoned, world>>

\* mutant: the old working directory is not dropped
SetCwd_NoDrop(t) ==
  /\ pc[t] = "setcwd" /\ Alone(t)
  /\ \E i \in ids[t] : \E k \in 0..MaxAlias :
       /\ \A n \in 0..k : Shim(i, n) \in Referenced <=> n < k
       /\ cwd' = [cwd EXCEPT ![t] = Shim(i, k)]
       /\ aliased' = IF op[t] = "fchdir" THEN aliased \cup {i} ELSE aliased
  /\ held' = held
  /\ Goto(t, "idle", {})
  /\ UNCHANGED <<table, slots, occupied, vfsVars, using, abandoned, world>>

\* set_cwd: a new ShimFile, whatever other ShimFile has the id; the old one is dropped
SetCwd(t) ==
  /\ pc[t] = "setcwd" /\ Alone(t)
  /\ \E i \in ids[t] : \E k \in 0..MaxAlias :
       /\ \A n \in 0..k : Shim(i, n) \in Referenced <=> n < k
       /\ cwd' = [cwd EXCEPT ![t] = Shim(i, k)]
       /\ aliased' = IF op[t] = "fchdir" THEN aliased \cup {i} ELSE aliased
  /\ held' = [held EXCEPT ![t] = {cwd[t]}]
  /\ Goto(t, "drop", {})
  /\ UNCHANGED <<table, slots, occupied, vfsVars, using, abandoned, world>>

\* do_clone: the table is shared or copied, fs_info is copied
DoClone(t) ==
  /\ Ready(t) /\ Cardinality(Live) < world.tasks
  /\ \E u \in Tasks \ Live :
       /\ pc[u] = "idle"
       /\ \/ world.share /\ table' = [table EXCEPT ![u] = table[t]] /\ UNCHANGED <<slots, occupied>>
          \/ ~world.share /\ \E b \in {x \in Tables : \A v \in Live : table[v] # x /\ slots[x] = <<>>} :
               /\ table' = [table EXCEPT ![u] = b]
               /\ slots' = [slots EXCEPT ![b] = slots[table[t]]]
               /\ occupied' = [occupied EXCEPT ![b] = occupied[table[t]]]
       /\ cwd' = [cwd EXCEPT ![u] = cwd[t]]
  /\ UNCHANGED <<vfsVars, callVars, aliased, abandoned, world>>

\* the task is dropped: with it the working directory and, for its last user, the
\* table.  The order in which the slots are dropped is left open
DropTask(t) ==
  /\ Ready(t) /\ t # FirstTask
  /\ LET b == table[t]
         last == \A u \in Live \ {t} : table[u] # b
     IN  /\ held' = [held EXCEPT ![t] = {cwd[t]} \cup (IF last THEN InTable(b) ELSE {})]
         /\ slots' = [slots EXCEPT ![b] = IF last THEN <<>> ELSE @]
         /\ occupied' = [occupied EXCEPT ![b] = IF last THEN 0 ELSE @]
  /\ table' = [table EXCEPT ![t] = None]
  /\ cwd' = [cwd EXCEPT ![t] = ROOT]
  /\ Goto(t, "drop", {})
  /\ UNCHANGED <<vfsVars, using, aliased, abandoned, world>>

-----------------------------------------------------------------------------
(* Inside a system call: the vfs domain.                                    *)

Present(i) == file[i] \in {"kernel", "special"}
NotUsed(t, i) == \A u \in Tasks \ {t} : i \notin using[u]

\* what follows a vfs call on the ids of op
AfterCall(o, ok) ==
  CASE o = "read" -> {"idle"}
    [] o = "readv" -> IF ok THEN {"idle", "call"} ELSE {"idle"}
    [] o = "fchdir" -> IF ok THEN {"idle", "setcwd"} ELSE {"idle"}
    [] o = "truncate" -> {"close"}
    [] o = "read_all" -> IF ok THEN {"call", "close"} ELSE {"close"}
    [] o = "fstatat" -> IF ok THEN {"close", "idle"} ELSE {"idle"}
    [] o = "utimensat" -> IF ok THEN {"call", "idle"} ELSE {"idle"}

\* A call that returns with an id it opened itself, not stored and not closed
Return(t, p) ==
  /\ Goto(t, p, ids[t])
  /\ abandoned' = IF p = "idle" /\ op[t] \in {"fstatat", "utimensat"}
                  THEN abandoned \cup ids[t] ELSE abandoned

\* get_file for every id; a missing one makes the call fail (unwrap or EINVAL)
VfsEnter(t) ==
  /\ pc[t] = "call" /\ Alone(t)
  /\ IF \A i \in ids[t] : Present(i)
     THEN /\ using' = [using EXCEPT ![t] = ids[t]] /\ Goto(t, "in", ids[t])
          /\ abandoned' = abandoned
     ELSE /\ \E p \in AfterCall(op[t], FALSE) : Return(t, p)
          /\ using' = using
  /\ UNCHANGED <<taskVars, vfsVars, held, aliased, world>>

\* the call returns: its Arc<dyn File>s are dropped, and KernelFile::drop removes
\* the kfile_ entry of a file that left VFS_MAP meanwhile.  Only a directory becomes the
\* working directory (bound: while MaxAlias leaves room for one more ShimFile of the id)
VfsLeave(t) ==
  /\ pc[t] = "in" /\ Alone(t)
  /\ using' = [using EXCEPT ![t] = {}]
  /\ meta' = meta \ {i \in using[t] : ~Present(i) /\ NotUsed(t, i)}
  /\ \E p \in AfterCall(op[t], TRUE) :
       /\ p = "setcwd" => \A i \in using[t] : file[i] # "special" /\ Shim(i, MaxAlias) \notin Referenced
       /\ Return(t, p)
  /\ UNCHANGED <<taskVars, file, shadow, next, held, aliased, world>>

\* mutant: the shadow keeps the id
VfsClose_KeepShadow(t) ==
  /\ pc[t] = "close" /\ Alone(t)
  /\ LET gone == ids[t] \ Fixed
     IN  /\ file' = [i \in Ids |-> IF i \in gone THEN "none" ELSE file[i]]
         /\ meta' = meta \ {i \in gone : Present(i) /\ NotUsed(t, i)}
         /\ shadow' = shadow
  /\ Goto(t, IF held[t] = {} THEN AfterDrop(t) ELSE "drop", {})
  /\ UNCHANGED <<taskVars, next, held, using, aliased, abandoned, world>>

\* vfs_close, remove_file: the file leaves VFS_MAP, which drops it unless a call still
\* uses it, then VFS_MAP_SHADOW; the ids 0..3 are left alone
VfsClose(t) ==
  /\ pc[t] = "close" /\ Alone(t)
  /\ LET gone == ids[t] \ Fixed
     IN  /\ file' = [i \in Ids |-> IF i \in gone THEN "none" ELSE file[i]]
         /\ meta' = meta \ {i \in gone : Present(i) /\ NotUsed(t, i)}
         /\ shadow' = shadow \ gone
  /\ Goto(t, IF held[t] = {} THEN AfterDrop(t) ELSE "drop", {})
  /\ UNCHANGED <<taskVars, next, held, using, aliased, abandoned, world>>

\* no task is inside the vfs domain: the kernel replaces a domain only then (external)
Quiet == \A t \in Tasks : pc[t] # "in"

\* mutant: the new domain counts from the start again
Update_Restart ==
  /\ Quiet
  /\ file' = [i \in Ids |-> IF i \in shadow THEN "kernel"
                            ELSE IF file[i] = "special" THEN "lost" ELSE "none"]
  /\ next' = 4
  /\ UNCHANGED <<taskVars, shadow, meta, callVars, aliased, abandoned, world>>

\* init_filesystem_after in the new domain: VFS_MAP is made from the shadow and the
\* kfile_ entries, each of which is unwrapped
Update ==
  /\ Quiet
  /\ shadow \subseteq meta
  /\ file' = [i \in Ids |-> IF i \in shadow THEN "kernel"
                            ELSE IF file[i] = "special" THEN "lost" ELSE file[i]]
  /\ UNCHANGED <<taskVars, shadow, meta, next, callVars, aliased, abandoned, world>>

-----------------------------------------------------------------------------

FdCall(t) ==
  \/ sys_write(t) \/ sys_read(t) \/ sys_ftruncate(t) \/ sys_lseek(t) \/ sys_fstat(t)
  \/ sys_fsync(t) \/ sys_pread64(t) \/ sys_pwrite64(t) \/ sys_getdents64(t) \/ sys_fstatfs(t)
  \/ sys_ioctl(t) \/ sys_poll_ctl(t) \/ sys_readv(t) \/ sys_writev(t) \/ sys_sendfile(t)
  \/ sys_fchdir(t)
PathCall(t) ==
  \/ sys_unlinkat(t) \/ sys_symlinkat(t) \/ sys_readlinkat(t) \/ sys_linkat(t)
  \/ sys_renameat2(t) \/ sys_getcwd(t)
  \/ sys_openat(t) \/ sys_fstatat(t) \/ sys_faccessat(t) \/ sys_truncate(t) \/ sys_statfs(t)
  \/ sys_utimensat(t) \/ sys_mkdirat(t) \/ sys_chdir(t) \/ read_all(t)
TableCall(t) ==
  \/ sys_pipe2(t) \/ sys_poll_createl(t) \/ sys_eventfd2(t) \/ sys_socket(t) \/ sys_socket_pair(t)
  \/ sys_close(t) \/ sys_dup(t) \/ sys_fcntl(t) \/ sys_dup2(t) \/ sys_dup3(t)
  \/ DoClone(t) \/ DropTask(t)
\* the rest of a system call
Continue(t) ==
  \/ DoDup(t) \/ SetFd(t) \/ DropShim(t) \/ AddFd(t) \/ SetCwd(t)
  \/ VfsEnter(t) \/ VfsLeave(t) \/ VfsClose(t)

Next ==
  \/ \E t \in Live : FdCall(t) \/ PathCall(t) \/ TableCall(t)
  \/ \E t \in Tasks : Continue(t)
  \/ Update

Spec == Init /\ [][Next]_vars

-----------------------------------------------------------------------------

PCs == {"idle", "call", "in", "new", "addfd", "setcwd", "setfd", "insert", "drop", "close"}

\* Types of the descriptor tables, of VFS_MAP and of a call in progress.
TypeOK ==
  /\ table \in [Tasks -> Tables \cup {None}] /\ cwd \in [Tasks -> Objs]
  /\ slots \in [Tables -> Seq(Objs \cup {None})] /\ \A b \in Tables : Len(slots[b]) <= MaxFds
  /\ occupied \in [Tables -> 0..MaxFds]
  /\ held \in [Tasks -> SUBSET Objs] /\ ids \in [Tasks -> SUBSET Ids]
  /\ using \in [Tasks -> SUBSET Ids] /\ fd \in [Tasks -> 0..(MaxFds - 1)]
  /\ pc \in [Tasks -> PCs] /\ DOMAIN op = Tasks
  /\ file \in [Ids -> {"none", "kernel", "special", "lost"}]
  /\ shadow \subseteq Ids /\ meta \subseteq Ids /\ next \in 4..(MaxId + 1)
  /\ aliased \subseteq Ids /\ abandoned \subseteq Ids /\ world \in Worlds

\* SlotVec::put trusts num_occupied to know whether a slot is free and unwraps the
\* position of one: the count always is the number of slots in use.
OccupiedIsExact ==
  \A b \in Tables : occupied[b] = Cardinality({i \in DOMAIN slots[b] : slots[b][i] # None})

\* What Arc<ShimFile> is for: as long as a descriptor, a working directory or a call
\* holds a ShimFile, its file is in VFS_MAP.  Excepted are ids that fchdir gave to a
\* second ShimFile and special files that an update of the domain dropped.
ReferencedFileIsOpen ==
  \A o \in Referenced : Present(Id(o)) \/ Id(o) \in aliased \/ file[Id(o)] = "lost"

\* The same without the exceptions for fchdir: the claim that a ShimFile is
\* "equal to Arc<dyn VfsDentry>", which keeps its file alive.
ShimFileKeepsItsFile ==
  \A o \in Referenced : Present(Id(o)) \/ file[Id(o)] = "lost"

\* Nothing leaks: a file in VFS_MAP is fixed, has a ShimFile, or is on its way through a
\* call; excepted are the ids that mkdirat, utimensat and a failed fstatat leave behind.
NoFileIsLeaked ==
  \A i \in Ids \ Fixed : Present(i) =>
    \/ \E o \in Referenced : Id(o) = i
    \/ \E t \in Tasks : i \in ids[t] /\ pc[t] # "idle"
    \/ i \in abandoned

\* Whenever the kernel may replace the domain, recovery finds a kfile_ entry for every
\* id of the shadow, and the shadow names exactly the kernel files that are open; no
\* entry is left of a closed file.
RecoveryIsExact ==
  Quiet => /\ shadow = meta
           /\ shadow = {i \in Ids : file[i] = "kernel"}

\* Calls that work on the bare id of a descriptor another thread may close before they reach the
\* vfs domain: any on several CPUs; on one, those that go back to it after they were blocked there.
Exposed(t) ==
  world.share /\ op[t] \in {"read", "readv", "fchdir"} /\ (world.smp \/ op[t] = "readv")

\* A call that is not exposed finds the file of the id it got from the descriptor, from the path
\* or from its own vfs_open: the unwraps in the vfs domain cannot fail, update or not, while
\* fchdir has not been used on the file, except for a lost special file.
CallFindsItsFile ==
  \A t \in Tasks : pc[t] = "call" /\ ~Exposed(t) =>
    \A i \in ids[t] : Present(i) \/ i \in aliased \/ file[i] = "lost"

\* An InodeID never changes its meaning, not even across an update: INODE_ID does not go
\* back, and an id below it whose file is closed or lost stays so, however long a task
\* keeps the number.
IdIsNeverReissued ==
  [][/\ next' >= next
     /\ \A i \in Ids : i < next /\ ~Present(i) => ~(file'[i] \in {"kernel", "special"})]_vars

\* The SlotVec of every table is sound through dup2, close and clone.
TableIsSound == TypeOK /\ OccupiedIsExact

\* Exactly the files something refers to are open, also for a vfs domain that replaces the
\* one that opened them.
OpenFilesAreExact == ReferencedFileIsOpen /\ NoFileIsLeaked /\ RecoveryIsExact
=============================================================================
