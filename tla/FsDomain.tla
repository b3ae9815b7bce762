------------------------------ MODULE FsDomain ------------------------------
(***************************************************************************)
(* A file system in a domain of its own, and the objects through which the *)
(* vfs domain uses it:                                                     *)
(*   - common_lib/generic/src/lib.rs (GenericFsDomain): dentry_map gives   *)
(*     every dentry that crosses the border a fresh id; fs is the dentry   *)
(*     cache and the directory of the file system behind it;               *)
(*   - common_lib/vfs_common/src/shim.rs (RootShimDentry, FsShimInode):    *)
(*     the vfs side, with a cache of children; the last drop of a shim     *)
(*     takes its id out of dentry_map;                                     *)
(*   - common/vfs/vfs/src/kfile.rs (KernelFile): position and open flags,  *)
(*     kept in storage that outlives the vfs domain;                       *)
(*   - common/vfs/vfs/src/tree.rs: recovery after that domain is replaced. *)
(*                                                                         *)
(* One directory, the root (id 0).  Who may close a file is module Files.  *)
(***************************************************************************)
EXTENDS Integers, FiniteSets, FiniteSetsExt

CONSTANTS
  None, Tasks, Names,
  Files, RootFile, \* InodeIDs of the vfs domain; RootFile is VFS_ROOT_ID
  MaxId,       \* bound: the last id of dentry_map
  MaxNode,     \* bound: nodes of the file system, the root not counted
  MaxLen,      \* bound: position at which a read or write may start and to which seek goes
  MaxUpdates,  \* bound: replacements of the vfs domain
  Worlds       \* the settings to check, see world

Ids == 0..MaxId
Root == 0
Nodes == 1..MaxNode
FileCalls == {"read", "write", "seek", "truncate", "readdir", "setfl", "setfd", "query", "attr",
              "statfs", "parent"}
PathCalls == {"open", "creat", "symlink", "link", "unlink", "rename", "mount"}

Flags == {"wr", "rdwr", "append", "cloexec"}

\* An FsShimInode with its dentry: the id, and the file for which recovery made it
Shims == [id : Ids, of : Files \cup {None}]
KernelFile ==
  [shim : Shims, pos : Nat, flags : SUBSET Flags, mapped : BOOLEAN, node : {Root} \cup Nodes,
   writer : BOOLEAN, moved : BOOLEAN]

ASSUME FsDomainAssumption ==
  /\ None \notin Files /\ None \notin {Root} \cup Nodes /\ None \notin KernelFile
  /\ None \notin FileCalls \cup PathCalls
  /\ RootFile \in Files /\ Tasks # {} /\ IsFiniteSet(Tasks) /\ IsFiniteSet(Names)
  /\ MaxId \in Nat /\ MaxNode \in Nat /\ MaxLen \in Nat /\ MaxUpdates \in Nat
  /\ \A w \in Worlds : /\ w.calls \subseteq FileCalls \cup PathCalls \cup {"update"}
                       /\ w.smp \in BOOLEAN /\ w.flags # {} /\ w.ids \in Ids
                       /\ w.flags \subseteq SUBSET Flags

VARIABLES
  world,    \* never changes: calls, what programs do; smp, there are several CPUs; flags,
            \* the open flags they pass; ids, the bound of this setting on ids
  dmap,     \* dentry_map: the node each id stands for, or None
  index,    \* inode_index
  dir,      \* the directory: a node or None for each name
  fsCache,  \* children of the root dentry inside the file system domain
  size,     \* length of each node
  made,     \* bound: nodes so far
  cache,    \* RootShimDentry.children of the root: a shim or None for each name
  kf,       \* KernelFile of each InodeID: shim, pos, flags; mapped while it is in VFS_MAP; the
            \* history fields node, the node it was opened on, writer, whether it was opened
            \* for writing or F_SETFL made it so, and moved, whether a seek or a truncation
            \* has put pos behind the end
  mounts,   \* mount points: the id that the other file system keeps for its parent, and the node
  saved,    \* STATE_SAVE
  task,     \* the call of each task
  updates,  \* bound: replacements so far
  aliased   \* history: ids for which a replacement made a second shim

fsVars == <<dir, fsCache, size, made>>
vars == <<world, dmap, index, fsVars, cache, kf, mounts, saved, task, updates, aliased>>

Shim(i, f) == [id |-> i, of |-> f]

Idle == [op |-> None, pc |-> "idle", n |-> None, m |-> None, k |-> None, flags |-> {},
         node |-> None, held |-> {}, shim |-> None, pos |-> 0, got |-> 0]
Busy == {t \in Tasks : task[t].op # None}

\* every shim that something in the vfs domain points to
Refs == ({cache[n] : n \in Names} \ {None}) \cup {kf[f].shim : f \in {g \in Files : kf[g] # None}}
          \cup saved \cup UNION {task[t].held : t \in Tasks}

\* the file VFS_ROOT_ID
RootKernelFile ==
  [shim |-> Shim(0, None), pos |-> 0, flags |-> {"rdwr"}, mapped |-> TRUE, node |-> Root,
   writer |-> TRUE, moved |-> FALSE]

\* init_filesystem_before: mount gives the root id 0; populate_initrd and the file system
\* itself have put some names there
Init ==
  /\ world \in Worlds
  /\ dir \in [Names -> Nodes \cup {None}]
  /\ made = Cardinality({n \in Names : dir[n] # None})
  /\ {dir[n] : n \in Names} \ {None} = 1..made
  /\ fsCache \in {dir, [n \in Names |-> None]}
  /\ size = [i \in Nodes |-> 0]
  /\ dmap = [i \in Ids |-> IF i = 0 THEN Root ELSE None] /\ index = 1
  /\ cache = [n \in Names |-> None] /\ mounts = {} /\ saved = {}
  /\ kf = [f \in Files |-> IF f = RootFile THEN RootKernelFile ELSE None]
  /\ task = [t \in Tasks |-> Idle] /\ updates = 0 /\ aliased = {}

\* mutant: an FsShimInode does not tell the file system that it is gone
Settle_Silent(map) == dmap' = map

\* FsShimInode::drop calls drop_inode, which keeps id 0: after every step, for the shims
\* that lost their last reference in it
Settle(map) ==
  dmap' = [i \in Ids |-> IF i # 0 /\ \E s \in Refs \ Refs' : s.id = i THEN None ELSE map[i]]

\* On one CPU a call is not interrupted by another.
Alone(t) == ~world.smp => Busy \subseteq {t}

Go(t, p) == task' = [task EXCEPT ![t].pc = p]

\* KernelFile::drop: a file that left VFS_MAP goes with the last call that uses it
Kept(files, tasks) ==
  [f \in Files |-> IF files[f] # None /\ ~files[f].mapped /\ \A u \in Tasks : tasks[u].k # f
                   THEN None ELSE files[f]]
End(t) == task' = [task EXCEPT ![t] = Idle]

\* Bounds: no call runs out of ids, nodes or files.
Room ==
  LET n == Cardinality(Busy) + 1
  IN  /\ index - 1 + 2 * n <= world.ids /\ made + n <= MaxNode
      /\ Cardinality({f \in Files : kf[f] = None}) >= n

\* what a call does first: the ones that need a dentry look for it
Entry(op) == CASE op = "symlink" -> "create" [] op = "unlink" -> "unlink"
               [] op = "rename" -> "rename" [] OTHER -> "find"

StartPath(t) ==
  /\ task[t].op = None /\ Alone(t) /\ Room
  /\ \E op \in PathCalls \cap world.calls, n, m \in Names, flags \in world.flags :
       /\ op \notin {"link", "rename"} => m = n
       /\ op \notin {"open", "creat"} => flags = {}
       /\ op = "mount" => mounts = {}
       /\ task' = [task EXCEPT ![t] =
            [Idle EXCEPT !.op = op, !.n = n, !.m = m, !.flags = flags, !.pc = Entry(op)]]
  /\ UNCHANGED <<world, dmap, index, fsVars, cache, kf, mounts, saved, updates, aliased>>

-----------------------------------------------------------------------------
(* Names: the path walk is VfsPath of an external crate, which asks the     *)
(* shim for the child (find) and, when there is none, its inode (lookup,    *)
(* create) and hands the result to insert                                   *)

\* what the walk is for
Found(t) == CASE task[t].op = "link" -> "link" [] task[t].op = "mount" -> "mount" [] OTHER -> "file"

\* mutant: the id is read again after the addition
Fresh_NextId(t, p) ==
  /\ index' = index + 1
  /\ task' = [task EXCEPT ![t].pc = p, ![t].shim = Shim(index + 1, None),
                          ![t].held = @ \cup {Shim(index + 1, None)}]

\* a fresh id; the caller gets a shim for it
Fresh(t, p) ==
  /\ index' = index + 1
  /\ task' = [task EXCEPT ![t].pc = p, ![t].shim = Shim(index, None),
                          ![t].held = @ \cup {Shim(index, None)}]

\* dentry_map with the node of the new id
Grown(node) == IF index' = index THEN dmap ELSE [dmap EXCEPT ![index] = node]

\* RootShimDentry::find: a cached child, or what the file system has cached
find(t) ==
  LET n == task[t].n
  IN  /\ task[t].pc = "find"
      /\ \/ /\ cache[n] # None
            /\ task' = [task EXCEPT ![t].pc = Found(t), ![t].shim = cache[n],
                                    ![t].held = @ \cup {cache[n]}]
            /\ UNCHANGED index
         \/ cache[n] = None /\ fsCache[n] # None /\ Fresh(t, Found(t))
         \/ cache[n] = None /\ fsCache[n] = None /\ Go(t, "lookup") /\ UNCHANGED index
      /\ UNCHANGED <<world, fsVars, cache, kf, mounts, saved, updates, aliased>>
      /\ Settle(Grown(fsCache[n]))

\* GenericFsDomain::lookup up to the result of the file system's own lookup
lookup(t) ==
  LET n == task[t].n
  IN  /\ task[t].pc = "lookup"
      /\ \/ fsCache[n] # None /\ Fresh(t, "insert")
         \/ /\ fsCache[n] = None /\ dir[n] # None
            /\ task' = [task EXCEPT ![t].pc = "cache", ![t].node = dir[n]]
            /\ UNCHANGED index
         \/ /\ fsCache[n] = None /\ dir[n] = None
            /\ IF task[t].op = "creat" THEN Go(t, "create") ELSE End(t)
            /\ UNCHANGED index
      /\ UNCHANGED <<world, fsVars, cache, kf, mounts, saved, updates, aliased>>
      /\ Settle(Grown(fsCache[n]))

\* the rest of lookup, create, link and symlink: the dentry enters the cache of the file
\* system and gets its id
CacheDentry(t) ==
  /\ task[t].pc = "cache"
  /\ fsCache' = [fsCache EXCEPT ![task[t].n] = task[t].node]
  /\ Fresh(t, "insert")
  /\ UNCHANGED <<world, dir, size, made, cache, kf, mounts, saved, updates, aliased>>
  /\ Settle(Grown(task[t].node))

\* create and symlink of the file system
create(t) ==
  LET n == task[t].n
  IN  /\ task[t].pc = "create"
      /\ \/ dir[n] # None /\ End(t) /\ UNCHANGED <<dir, made>>
         \/ /\ dir[n] = None
            /\ made' = made + 1 /\ dir' = [dir EXCEPT ![n] = made']
            /\ task' = [task EXCEPT ![t].pc = "cache", ![t].node = made']
      /\ UNCHANGED <<world, dmap, index, fsCache, size, cache, kf, mounts, saved, updates, aliased>>

\* link: a second name for what the first id stands for; the call then only has to insert it
link(t) ==
  LET m == task[t].m
      node == dmap[task[t].shim.id]
  IN  /\ task[t].pc = "link"
      /\ \/ (dir[m] # None \/ node = None) /\ End(t) /\ UNCHANGED <<dir>>
         \/ /\ dir[m] = None /\ node # None
            /\ dir' = [dir EXCEPT ![m] = node]
            /\ task' = [task EXCEPT ![t].pc = "cache", ![t].node = node, ![t].n = m, ![t].m = None]
      /\ UNCHANGED <<world, index, fsCache, size, made, cache, kf, mounts, saved, updates, aliased>>
      /\ Settle(dmap)

\* RootShimDentry::insert
insert(t) ==
  /\ task[t].pc = "insert"
  /\ cache' = [cache EXCEPT ![task[t].n] = task[t].shim]
  /\ IF task[t].op = "symlink" \/ task[t].m = None THEN End(t) ELSE Go(t, Found(t))
  /\ UNCHANGED <<world, index, fsVars, kf, mounts, saved, updates, aliased>>
  /\ Settle(dmap)

\* GenericFsDomain::unlink and rmdir: the directory and the cache of the file system
unlink(t) ==
  LET n == task[t].n
  IN  /\ task[t].pc = "unlink"
      /\ \/ dir[n] = None /\ End(t) /\ UNCHANGED <<dir, fsCache>>
         \/ /\ dir[n] # None /\ Go(t, "remove")
            /\ dir' = [dir EXCEPT ![n] = None] /\ fsCache' = [fsCache EXCEPT ![n] = None]
      /\ UNCHANGED <<world, dmap, index, size, made, cache, kf, mounts, saved, updates, aliased>>

\* mutant: the child stays in the cache of the vfs domain
remove_Keep(t) ==
  /\ task[t].pc = "remove" /\ End(t)
  /\ fsCache' = [fsCache EXCEPT ![task[t].n] = None]
  /\ UNCHANGED <<world, index, dir, size, made, cache, kf, mounts, saved, updates, aliased>>
  /\ Settle(dmap)

\* RootShimDentry::remove with dentry_remove
remove(t) ==
  /\ task[t].pc = "remove" /\ End(t)
  /\ fsCache' = [fsCache EXCEPT ![task[t].n] = None]
  /\ cache' = [cache EXCEPT ![task[t].n] = None]
  /\ UNCHANGED <<world, index, dir, size, made, kf, mounts, saved, updates, aliased>>
  /\ Settle(dmap)

\* GenericFsDomain::rename only tells the file system; whether VfsPath forgets children of
\* the shim is up to it
rename(t) ==
  LET n == task[t].n
      m == task[t].m
  IN  /\ task[t].pc = "rename" /\ End(t)
      /\ \/ (dir[n] = None \/ n = m) /\ UNCHANGED <<dir, cache>>
         \/ /\ dir[n] # None /\ n # m
            /\ dir' = [dir EXCEPT ![m] = dir[n], ![n] = None]
            /\ \E gone \in SUBSET {n, m} :
                 cache' = [x \in Names |-> IF x \in gone THEN None ELSE cache[x]]
      /\ UNCHANGED <<world, index, fsCache, size, made, kf, mounts, saved, updates, aliased>>
      /\ Settle(dmap)

\* dentry_to_mount_point and dentry_set_parent: another file system now names s by its id
SetMounted(s) == mounts' = mounts \cup {[id |-> s.id, node |-> dmap[s.id]]}

\* mutant: nothing keeps the mount point
set_parent_NotSaved(s) == saved' = saved

\* set_parent keeps its argument in STATE_SAVE
set_parent(s) == saved' = saved \cup {s}

\* mounting on a name: to_mount_point, and set_parent of the new root
mount(t) ==
  LET s == task[t].shim
  IN  /\ task[t].pc = "mount" /\ End(t)
      /\ \/ dmap[s.id] = None /\ UNCHANGED <<mounts, saved>>
         \/ dmap[s.id] # None /\ SetMounted(s) /\ set_parent(s)
      /\ UNCHANGED <<world, index, fsVars, cache, kf, updates, aliased>>
      /\ Settle(dmap)

-----------------------------------------------------------------------------
(* Open files                                                               *)

\* RootShimDentry::mount_point
Mounted(node) == \E x \in mounts : x.node = node

\* insert_dentry and KernelFile::new; behind a mount point the file belongs to the other
\* file system
NewFile(t) ==
  LET s == task[t].shim
      node == dmap[s.id]
      flags == task[t].flags
  IN  /\ task[t].pc = "file" /\ End(t)
      /\ \/ (node = None \/ Mounted(node)) /\ UNCHANGED kf
         \/ /\ node # None /\ ~Mounted(node)
            /\ \E f \in {g \in Files : kf[g] = None} :
                 kf' = [kf EXCEPT ![f] =
                   [shim |-> s, pos |-> IF "append" \in flags THEN size[node] ELSE 0,
                    flags |-> flags, mapped |-> TRUE, node |-> node,
                    writer |-> flags \cap {"wr", "rdwr"} # {}, moved |-> FALSE]]
      /\ UNCHANGED <<world, index, fsVars, cache, mounts, saved, updates, aliased>>
      /\ Settle(dmap)

\* get_file: the call holds the file
StartFile(t) ==
  /\ task[t].op = None /\ Alone(t)
  /\ \E op \in FileCalls \cap world.calls, f \in {g \in Files : kf[g] # None} :
       /\ kf[f].mapped /\ (op = "readdir" => f = RootFile)
       /\ f = RootFile => op \in {"readdir", "query", "attr", "statfs"}
       /\ op = "parent" => Room
       /\ op \in {"read", "write"} => kf[f].pos + Cardinality(Busy) < MaxLen
       /\ task' = [task EXCEPT ![t] =
            [Idle EXCEPT !.op = op, !.k = f, !.pc = IF op \in {"read", "write"} THEN "pos" ELSE op]]
  /\ UNCHANGED <<world, dmap, index, fsVars, cache, kf, mounts, saved, updates, aliased>>

\* the node an open file reads and writes, through the id of its shim
NodeOf(f) == dmap[kf[f].shim.id]

\* the call returns, its file changed by g
Return(t, g) ==
  /\ End(t)
  /\ kf' = Kept([kf EXCEPT ![task[t].k] = g], task')
  /\ UNCHANGED <<world, index, dir, fsCache, made, cache, mounts, saved, updates, aliased>>
  /\ Settle(dmap)

CanWrite(f) == kf[f].flags \cap {"wr", "rdwr"} # {}

\* KernelFile::read and write, first lock: the position
ReadPos(t) ==
  /\ task[t].pc = "pos"
  /\ task' = [task EXCEPT ![t].pc = task[t].op, ![t].pos = kf[task[t].k].pos]
  /\ UNCHANGED <<world, dmap, index, fsVars, cache, kf, mounts, saved, updates, aliased>>

\* read_at; every file may be read since O_RDONLY is 0
read_at(t) ==
  LET f == task[t].k
  IN  /\ task[t].pc = "read"
      /\ \/ NodeOf(f) = None /\ size' = size /\ Return(t, kf[f])
         \/ /\ NodeOf(f) # None
            /\ task' = [task EXCEPT ![t].pc = "advance",
                                    ![t].got = IF task[t].pos < size[NodeOf(f)] THEN 1 ELSE 0]
            /\ UNCHANGED <<world, dmap, index, fsVars, cache, kf, mounts, saved, updates, aliased>>

\* mutant: a file opened for reading may be written
write_at_Anyone(t) ==
  LET f == task[t].k
      node == NodeOf(f)
  IN  /\ task[t].pc = "write"
      /\ \/ node = None /\ size' = size /\ Return(t, kf[f])
         \/ /\ node # None
            /\ size' = [size EXCEPT ![node] = Max({@, task[t].pos + 1})]
            /\ task' = [task EXCEPT ![t].pc = "advance", ![t].got = 1]
            /\ UNCHANGED <<world, dmap, index, dir, fsCache, made, cache, kf, mounts, saved, updates, aliased>>

\* write_at
write_at(t) ==
  LET f == task[t].k
      node == NodeOf(f)
  IN  /\ task[t].pc = "write"
      /\ \/ (~CanWrite(f) \/ node = None) /\ size' = size /\ Return(t, kf[f])
         \/ /\ CanWrite(f) /\ node # None
            /\ size' = [size EXCEPT ![node] = Max({@, task[t].pos + 1})]
            /\ task' = [task EXCEPT ![t].pc = "advance", ![t].got = 1]
            /\ UNCHANGED <<world, dmap, index, dir, fsCache, made, cache, kf, mounts, saved, updates, aliased>>

\* mutant: the position moves by the size of the buffer
Advance_Whole(t) ==
  /\ task[t].pc = "advance" /\ size' = size
  /\ Return(t, [kf[task[t].k] EXCEPT !.pos = @ + 1])

\* read and write, last lock: the position moves by what was transferred
Advance(t) ==
  /\ task[t].pc = "advance" /\ size' = size
  /\ Return(t, [kf[task[t].k] EXCEPT !.pos = @ + task[t].got])

\* seek, under one lock
seek(t) ==
  LET f == task[t].k
  IN  /\ task[t].pc = "seek" /\ size' = size
      /\ \/ NodeOf(f) = None /\ Return(t, kf[f])
         \/ /\ NodeOf(f) # None
            /\ \E p \in {0, size[NodeOf(f)], MaxLen} :
                 Return(t, [kf[f] EXCEPT !.pos = p, !.moved = p > size[NodeOf(f)]])

\* truncate, to a shorter length
truncate(t) ==
  LET f == task[t].k
      node == NodeOf(f)
  IN  /\ task[t].pc = "truncate" /\ End(t)
      /\ \/ (~CanWrite(f) \/ node = None) /\ size' = size /\ kf' = Kept(kf, task')
         \/ /\ CanWrite(f) /\ node # None
            /\ \E l \in 0..size[node] :
                 /\ size' = [size EXCEPT ![node] = l]
                 /\ kf' = Kept([g \in Files |-> IF kf[g] # None /\ kf[g].node = node
                                                THEN [kf[g] EXCEPT !.moved = @ \/ kf[g].pos > l]
                                                ELSE kf[g]], task')
      /\ UNCHANGED <<world, index, dir, fsCache, made, cache, mounts, saved, updates, aliased>>
      /\ Settle(dmap)

\* readdir: under the lock, from the entry numbered pos, as many as the buffer takes
readdir(t) ==
  LET f == task[t].k
      left == Cardinality({n \in Names : dir[n] # None}) - kf[f].pos
  IN  /\ task[t].pc = "readdir" /\ size' = size
      /\ \E c \in 0..Max({0, left}) : Return(t, [kf[f] EXCEPT !.pos = @ + c])

\* do_fcntl: F_SETFL replaces all flags, F_SETFD and F_DUPFD_CLOEXEC only O_CLOEXEC
do_fcntl(t) ==
  LET f == task[t].k
  IN  /\ size' = size
      /\ \/ /\ task[t].pc = "setfl"
            /\ \E flags \in world.flags :
                 Return(t, [kf[f] EXCEPT !.flags = flags,
                                         !.writer = @ \/ flags \cap {"wr", "rdwr"} # {}])
         \/ /\ task[t].pc = "setfd"
            /\ \E c \in {{}, {"cloexec"}} :
                 Return(t, [kf[f] EXCEPT !.flags = (@ \ {"cloexec"}) \cup c])

\* poll, ioctl, flush and fsync, then the attributes and readlink: the id is resolved, nothing
\* changes here
Query(t) == task[t].pc = "query" /\ size' = size /\ Return(t, kf[task[t].k])
get_attr(t) == task[t].pc = "attr" /\ size' = size /\ Return(t, kf[task[t].k])

\* statfs goes through the super block to the root of the file system, which is always there
SuperBlock == dmap[0]
stat_fs(t) ==
  task[t].pc = "statfs" /\ SuperBlock = Root /\ size' = size /\ Return(t, kf[task[t].k])

\* RootShimDentry::parent with dentry_parent: a fresh id for the directory, for this call
parent(t) ==
  /\ task[t].pc = "parent"
  /\ \/ NodeOf(task[t].k) = None /\ Go(t, "query") /\ UNCHANGED index
     \/ NodeOf(task[t].k) # None /\ Fresh(t, "query")
  /\ UNCHANGED <<world, fsVars, cache, kf, mounts, saved, updates, aliased>>
  /\ Settle(Grown(Root))

\* remove_file, then KernelFile::drop unless a call still holds the file
Close(f) ==
  /\ f # RootFile /\ kf[f] # None /\ kf[f].mapped /\ (world.smp \/ Busy = {})
  /\ kf' = Kept([kf EXCEPT ![f].mapped = FALSE], task)
  /\ UNCHANGED <<world, index, fsVars, cache, mounts, saved, task, updates, aliased>>
  /\ Settle(dmap)

\* mutant: every recovered file gets the dentry of the root
Recovered_Root(f) == IF kf[f] = None THEN None ELSE [kf[f] EXCEPT !.shim = Shim(0, None)]

\* init_filesystem_after: a new shim for each file, from the id in its meta
Recovered(f) == IF kf[f] = None THEN None ELSE [kf[f] EXCEPT !.shim = Shim(@.id, f)]

\* The vfs domain is replaced between calls.  The old objects are never dropped: their
\* ids stay in dentry_map, and two files of one old shim now have a shim each.
Update ==
  /\ "update" \in world.calls /\ Busy = {} /\ updates < MaxUpdates
  /\ updates' = updates + 1
  /\ cache' = [n \in Names |-> None] /\ saved' = {}
  /\ kf' = [f \in Files |-> Recovered(f)]
  /\ aliased' = aliased \cup
       {i \in Ids \ {0} : LET F == {f \in Files : kf[f] # None /\ kf[f].shim.id = i}
                          IN  \E f \in F : F # {f} \/ \E x \in mounts : x.id = i}
  /\ UNCHANGED <<world, dmap, index, fsVars, mounts, task>>

Next ==
  \/ \E t \in Tasks : \/ StartPath(t) \/ find(t) \/ lookup(t) \/ CacheDentry(t) \/ create(t) \/ link(t)
                      \/ insert(t) \/ unlink(t) \/ remove(t) \/ rename(t) \/ mount(t) \/ NewFile(t)
                      \/ StartFile(t) \/ ReadPos(t) \/ read_at(t) \/ write_at(t) \/ Advance(t)
                      \/ seek(t) \/ truncate(t) \/ readdir(t) \/ do_fcntl(t) \/ Query(t)
                      \/ get_attr(t) \/ stat_fs(t) \/ parent(t)
  \/ \E f \in Files : Close(f)
  \/ Update
Spec == Init /\ [][Next]_vars

-----------------------------------------------------------------------------
(* Properties                                                               *)

\* Every variable has its type.
TypeOK ==
  /\ world \in Worlds /\ dmap \in [Ids -> Nodes \cup {Root, None}] /\ index \in 1..(MaxId + 1)
  /\ dir \in [Names -> Nodes \cup {None}] /\ fsCache \in [Names -> Nodes \cup {None}]
  /\ size \in [Nodes -> Nat] /\ made \in 0..MaxNode
  /\ \A s \in Refs : s \in Shims /\ s.id < index
  /\ kf \in [Files -> KernelFile \cup {None}]

\* The id of an open file stands for the node that was opened, as long as the file is
\* open and whatever happens to its name, to the caches and to the vfs domain; except for
\* an id that a replacement has given to two shims, which the first close takes away.
OpenFileKeepsNode ==
  \A f \in Files : kf[f] # None /\ kf[f].shim.id \notin aliased => NodeOf(f) = kf[f].node

\* Until the vfs domain is replaced, dentry_map holds the ids of the shims in use and no
\* others: every path through find, lookup, create, link and their failures gives back
\* the ids it took.
NoIdIsLeaked ==
  updates = 0 => {i \in Ids : dmap[i] # None} = {0} \cup {s.id : s \in Refs}

\* On one CPU, between calls and as long as nothing is renamed, what either cache has under
\* a name is what the directory has under it: a program that opens a name gets that file
\* and never one that was removed.
CachesAreExact ==
  ~world.smp /\ "rename" \notin world.calls /\ Busy = {} =>
    \A n \in Names : /\ fsCache[n] # None => fsCache[n] = dir[n]
                     /\ cache[n] # None => dmap[cache[n].id] = dir[n]

\* The id under which another file system knows its mount point stays valid, also when the
\* name of the mount point is removed.
MountPointStaysKnown == \A x \in mounts : x.id \notin aliased => dmap[x.id] = x.node

\* On one CPU reads and writes leave no hole: the position of a file is at most its length,
\* unless the program moved it there or shortened the file.
NoHole ==
  ~world.smp /\ aliased = {} =>
    \A f \in Files \ {RootFile} : kf[f] # None /\ ~kf[f].moved => kf[f].pos <= size[kf[f].node]

\* A file only changes through a file object that was opened for writing, or that F_SETFL
\* made writable.
WriteNeedsRight ==
  [][size' # size => \E t \in Tasks : task[t].pc \in {"write", "truncate"} /\ kf[task[t].k].writer]_vars

\* The ids handed across the domain border are right: valid while used, given back after.
IdsAreExact == TypeOK /\ OpenFileKeepsNode /\ NoIdIsLeaked /\ MountPointStaysKnown
=============================================================================
