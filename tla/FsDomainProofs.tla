--------------------------- MODULE FsDomainProofs ---------------------------
(***************************************************************************)
(* Proofs about FsDomain for any number of tasks, names, files and ids,    *)
(* any programs, one CPU and several, and any number of replacements of    *)
(* the vfs domain.                                                         *)
(***************************************************************************)
EXTENDS FsDomain, FiniteSetTheorems, TLAPS

\* Where a call may be: on its way through the names, or at an open file.
PathPcs == {"find", "lookup", "cache", "create", "link", "insert", "unlink", "remove",
            "rename", "mount", "file"}
FilePcs == {"pos", "advance"} \cup FileCalls

\* The types of calls, which TypeOK leaves out.
Call ==
  [op : FileCalls \cup PathCalls \cup {None}, pc : PathPcs \cup FilePcs \cup {"idle"},
   n : Names \cup {None}, m : Names \cup {None}, k : Files \cup {None}, flags : SUBSET Flags,
   node : Nodes \cup {Root, None}, held : SUBSET Shims, shim : Shims \cup {None},
   pos : Nat, got : {0, 1}]
CallTypes == task \in [Tasks -> Call]
StoreTypes ==
  /\ world \in Worlds /\ index \in 1..(MaxId + 1) /\ made \in 0..MaxNode
  /\ dmap \in [Ids -> Nodes \cup {Root, None}] /\ dmap[0] = Root
  /\ dir \in [Names -> Nodes \cup {None}] /\ fsCache \in [Names -> Nodes \cup {None}]
  /\ size \in [Nodes -> Nat] /\ kf \in [Files -> KernelFile \cup {None}]
  /\ cache \in [Names -> Shims \cup {None}] /\ saved \in SUBSET Shims
  /\ mounts \subseteq [id : Ids, node : Nodes \cup {Root}]
  /\ updates \in Nat /\ aliased \subseteq Ids \ {0} /\ (updates = 0 => aliased = {})

\* What a call has at each step: its names, the shim it goes on with, and its file.
Shape(t) ==
  /\ task[t].op = None => task[t] = Idle
  /\ task[t].op # None => task[t].op \in world.calls /\ task[t].pc # "idle"
  /\ task[t].pc = "rename" => task[t].op = "rename"
  /\ task[t].pc = "create" => task[t].op # "link"
  /\ task[t].pc \in {"find", "lookup", "create", "unlink"} => task[t].held = {}
  /\ task[t].pc \in PathPcs => task[t].n \in Names
  /\ task[t].pc \in {"find", "lookup", "create", "link", "rename"} => task[t].m \in Names
  /\ task[t].pc \in {"insert", "link", "mount", "file"} => task[t].shim \in task[t].held
  /\ task[t].pc = "cache" => task[t].node \in Nodes
  /\ task[t].pc \in FilePcs => task[t].k \in Files
  /\ task[t].pc \in {"pos", "read", "write", "advance", "seek", "truncate"} => task[t].k # RootFile
  /\ task[t].pc = "readdir" => task[t].k = RootFile
  /\ task[t].pc = "pos" => task[t].op \in {"read", "write"}
  /\ task[t].k \in Files => kf[task[t].k] # None

\* The shims that the caches, the storage and the calls have, open files left aside.
Kept_Refs == ({cache[n] : n \in Names} \ {None}) \cup saved \cup UNION {task[t].held : t \in Tasks}

\* Ids are handed out in order.
Counted ==
  /\ \A s \in Refs : s \in Shims /\ s.id < index
  /\ \A i \in Ids : i >= index => dmap[i] = None /\ i \notin aliased
  /\ \A x \in mounts : x.id < index

\* One shim has an id, unless a replacement made a second one for it, and its id is in
\* dentry_map.
OneShim ==
  /\ \A s, r \in Refs : s.id = r.id /\ s.id \notin aliased \cup {0} => s = r
  /\ \A s \in Refs : s.id \notin aliased => dmap[s.id] # None
  /\ \A s \in Kept_Refs : s.id \notin aliased

\* An id stands for the node for which it was handed out: of an open file, of a mount point,
\* of a name.
Stands ==
  /\ \A f \in Files : kf[f] # None =>
       /\ dmap[kf[f].shim.id] \in {kf[f].node, None}
       /\ kf[f].shim.id \notin aliased => dmap[kf[f].shim.id] = kf[f].node
       /\ f # RootFile => kf[f].node \in Nodes
  /\ \A x \in mounts : x.id \notin aliased =>
       /\ dmap[x.id] = x.node
       /\ x.id # 0 => \A s \in Refs : s.id = x.id => s \in saved
  /\ \A n \in Names : cache[n] # None => dmap[cache[n].id] # Root
  /\ \A t \in Tasks : task[t].pc \in {"insert", "link", "mount", "file"} => dmap[task[t].shim.id] # Root

\* What the calls in progress may still take: an id, a second id, a node.
TakesId == {t \in Tasks : \/ task[t].pc \in {"find", "lookup", "create", "cache", "link", "parent"}
                          \/ task[t].pc = "insert" /\ task[t].op = "link" /\ task[t].m # None}
TakesTwo == {t \in Tasks : /\ task[t].op = "link"
                           /\ \/ task[t].pc \in {"find", "lookup"}
                              \/ task[t].pc = "cache" /\ task[t].m # None}
TakesNode == {t \in Tasks : \/ task[t].pc = "create"
                            \/ task[t].op = "creat" /\ task[t].pc \in {"find", "lookup"}}
HasRoom == /\ index - 1 + Cardinality(TakesId) + Cardinality(TakesTwo) <= MaxId
           /\ made + Cardinality(TakesNode) <= MaxNode

\* On one CPU one call is in progress.
OneCall == ~world.smp => \A t, u \in Busy : t = u

\* What the caches have under a name, also in the middle of a call.
NamesHold ==
  ~world.smp /\ "rename" \notin world.calls =>
    /\ \A n \in Names : fsCache[n] # None => fsCache[n] = dir[n]
    /\ \A n \in Names : cache[n] # None /\ (\A t \in Tasks : task[t].pc = "remove" => task[t].n # n)
                          => dmap[cache[n].id] = dir[n]
    /\ \A t \in Tasks : /\ task[t].pc = "cache" => task[t].node = dir[task[t].n]
                        /\ task[t].pc = "insert" => dmap[task[t].shim.id] = dir[task[t].n]

\* A call that has read the position of a file finds it unchanged, and what it then
\* transferred lies in the file.
PositionsHold ==
  ~world.smp /\ aliased = {} =>
    /\ \A f \in Files \ {RootFile} : kf[f] # None /\ ~kf[f].moved => kf[f].pos <= size[kf[f].node]
    /\ \A t \in Tasks :
         /\ task[t].pc \in {"read", "write", "advance"} => task[t].pos = kf[task[t].k].pos
         /\ task[t].pc = "advance" => task[t].pos + task[t].got <= size[kf[task[t].k].node]
                                      \/ task[t].got = 0

\* Flags that allow writing came with open or with F_SETFL.
RightsHold == \A f \in Files : kf[f] # None /\ CanWrite(f) => kf[f].writer

\* The inductive invariant.
FsInv == /\ StoreTypes /\ CallTypes /\ (\A t \in Tasks : Shape(t))
         /\ Counted /\ OneShim /\ Stands /\ NoIdIsLeaked /\ HasRoom
         /\ OneCall /\ NamesHold /\ PositionsHold /\ RightsHold
-----------------------------------------------------------------------------
(* References and ids *)

\* What a reference is: an entry of a cache, of an open file, of the storage, or of a call.
LEMMA RefsAre ==
  /\ \A s : s \in Refs <=> s \in Kept_Refs \/ \E f \in Files : kf[f] # None /\ kf[f].shim = s
  /\ \A s : s \in Kept_Refs <=> \/ \E n \in Names : cache[n] = s /\ s # None
                                \/ s \in saved
                                \/ \E t \in Tasks : s \in task[t].held
BY DEF Refs, Kept_Refs

\* An open file refers to its shim.
LEMMA FilesRefer == \A f \in Files : kf[f] # None => kf[f].shim \in Refs
BY RefsAre

\* The caches and the calls refer to what they have.
LEMMA CachesRefer ==
  /\ \A n \in Names : cache[n] # None => cache[n] \in Kept_Refs
  /\ \A u \in Tasks : task[u].held \subseteq Kept_Refs
  /\ Kept_Refs \subseteq Refs
BY RefsAre

\* So does the storage.
LEMMA SavedRefer == saved \subseteq Refs
BY RefsAre

\* A step that hands out no id.
OnlyDrops ==
  /\ index' = index /\ Settle(dmap)
  /\ Refs' \subseteq Refs /\ Kept_Refs' \subseteq Kept_Refs

\* A step that hands out one, for a node that is there.
HandsOut(node) ==
  /\ node \in Nodes \cup {Root} /\ index \in Ids /\ index' = index + 1
  /\ Settle([dmap EXCEPT ![index] = node])
  /\ Shim(index, None) \in Kept_Refs' /\ Refs' \subseteq Refs \cup {Shim(index, None)}
  /\ Kept_Refs' \subseteq Kept_Refs \cup {Shim(index, None)} /\ Kept_Refs' \subseteq Refs'

\* What holds of dentry_map after either.
MapKept ==
  /\ dmap' \in [Ids -> Nodes \cup {Root, None}] /\ dmap'[0] = Root /\ index' \in 1..(MaxId + 1)
  /\ Counted' /\ OneShim' /\ NoIdIsLeaked'
  /\ \A i \in Ids : i < index => dmap'[i] \in {dmap[i], None}
  /\ \A s \in Refs : s \in Refs' /\ s.id \notin aliased => dmap'[s.id] = dmap[s.id]
  /\ \A x \in mounts : x.id \notin aliased => dmap'[x.id] = x.node

\* What drop_inode leaves of the map.
SettledTo(map, R, Rn) ==
  [i \in Ids |-> IF i # 0 /\ \E s \in R \ Rn : s.id = i THEN None ELSE map[i]]

\* Ids that are dropped go, and no others.
LEMMA DropsKeepMap ==
  ASSUME FsInv, OnlyDrops, aliased' = aliased, updates' = updates, saved \subseteq saved',
         \A x \in mounts' : x \in mounts \/ x.id < index, saved' \subseteq Refs'
  PROVE  MapKept
<1>1. PICK R, Rn, K, Kn : R = Refs /\ Rn = Refs' /\ K = Kept_Refs /\ Kn = Kept_Refs'
  OBVIOUS
<1>2. dmap' = SettledTo(dmap, R, Rn)
  BY <1>1 DEF OnlyDrops, Settle, SettledTo
<1>3. /\ Rn \subseteq R /\ Kn \subseteq K /\ index' = index /\ index \in 1..(MaxId + 1)
      /\ dmap \in [Ids -> Nodes \cup {Root, None}] /\ dmap[0] = Root /\ MaxId \in Nat
      /\ None \notin {Root} \cup Nodes
  BY <1>1, FsDomainAssumption DEF OnlyDrops, FsInv, StoreTypes
<1>4. /\ \A s \in R : s \in Shims /\ s.id < index
      /\ \A i \in Ids : i >= index => dmap[i] = None /\ i \notin aliased
      /\ \A s, r \in R : s.id = r.id /\ s.id \notin aliased \cup {0} => s = r
      /\ \A s \in R : s.id \notin aliased => dmap[s.id] # None
      /\ \A s \in K : s.id \notin aliased
  BY <1>1 DEF FsInv, Counted, OneShim
<1>5. /\ \A i \in Ids : dmap'[i] \in {dmap[i], None}
      /\ dmap' \in [Ids -> Nodes \cup {Root, None}] /\ dmap'[0] = Root
  BY <1>2, <1>3 DEF SettledTo, Ids
<1>6. \A s \in R : s \in Rn /\ s.id \notin aliased => dmap'[s.id] = dmap[s.id]
  <2> SUFFICES ASSUME NEW s \in Rn, s.id \notin aliased PROVE dmap'[s.id] = dmap[s.id]
    BY <1>3
  <2>1. s.id \in Ids
    BY <1>3, <1>4 DEF Shims
  <2> QED
    BY <1>2, <1>3, <1>4, <2>1 DEF SettledTo
<1>7. Counted'
  <2>1. /\ \A s \in Rn : s \in Shims /\ s.id < index'
        /\ \A i \in Ids : i >= index' => dmap'[i] = None /\ i \notin aliased'
        /\ \A x \in mounts' : x.id < index'
    BY <1>3, <1>4, <1>5 DEF FsInv, Counted
  <2> QED
    BY <1>1, <2>1 DEF Counted
<1>8. OneShim'
  <2>1. /\ \A s, r \in Rn : s.id = r.id /\ s.id \notin aliased' \cup {0} => s = r
        /\ \A s \in Rn : s.id \notin aliased' => dmap'[s.id] # None
        /\ \A s \in Kn : s.id \notin aliased'
    BY <1>3, <1>4, <1>6
  <2> QED
    BY <1>1, <2>1 DEF OneShim
<1>9. NoIdIsLeaked'
  <2>1. ASSUME updates = 0
        PROVE  {i \in Ids : dmap'[i] # None} = {0} \cup {s.id : s \in Rn}
    <3>1. {i \in Ids : dmap[i] # None} = {0} \cup {s.id : s \in R}
      BY <1>1, <2>1 DEF FsInv, NoIdIsLeaked
    <3>2. ASSUME NEW i \in Ids, dmap'[i] # None PROVE i \in {0} \cup {s.id : s \in Rn}
      BY <1>2, <3>1, <3>2 DEF SettledTo
    <3>3. ASSUME NEW s \in Rn PROVE s.id \in Ids /\ dmap'[s.id] # None
      <4>1. s \in R /\ s.id \in Ids
        BY <1>3, <1>4 DEF Shims
      <4>2. dmap[s.id] # None
        BY <3>1, <4>1
      <4>3. CASE s.id = 0
        BY <1>3, <1>5, <4>1, <4>3
      <4>4. CASE s.id # 0 /\ s.id \notin aliased
        BY <1>6, <4>1, <4>2, <4>4
      <4>5. s.id \notin aliased
        BY <2>1 DEF FsInv, StoreTypes
      <4> QED
        BY <4>3, <4>4, <4>5
    <3>4. 0 \in Ids /\ dmap'[0] # None
      BY <1>3, <1>5 DEF Ids
    <3> QED
      BY <3>2, <3>3, <3>4
  <2> QED
    BY <1>1, <2>1 DEF NoIdIsLeaked
<1>10. ASSUME NEW x \in mounts, x.id \notin aliased PROVE dmap'[x.id] = x.node
  <2>1. x.id \in Ids /\ dmap[x.id] = x.node /\ (x.id # 0 => \A s \in R : s.id = x.id => s \in Rn)
    BY <1>1, <1>10 DEF FsInv, Stands, StoreTypes
  <2> QED
    BY <1>2, <1>3, <1>5, <2>1 DEF SettledTo
<1> QED
  BY <1>1, <1>3, <1>5, <1>6, <1>7, <1>8, <1>9, <1>10 DEF MapKept
\* A new id comes into the map, and stands for nothing else.
LEMMA HandsOutKeepsMap ==
  ASSUME FsInv, NEW node, HandsOut(node), aliased' = aliased, updates' = updates,
         saved \subseteq saved', mounts' = mounts, saved' \subseteq Refs'
  PROVE  MapKept /\ dmap'[index] = node
<1>1. PICK R, Rn, K, Kn, map, new :
        /\ R = Refs /\ Rn = Refs' /\ K = Kept_Refs /\ Kn = Kept_Refs'
        /\ map = [dmap EXCEPT ![index] = node] /\ new = Shim(index, None)
  OBVIOUS
<1>2. dmap' = SettledTo(map, R, Rn)
  BY <1>1 DEF HandsOut, Settle, SettledTo
<1>3. /\ Rn \subseteq R \cup {new} /\ new \in Rn /\ Kn \subseteq K \cup {new} /\ Kn \subseteq Rn
      /\ index' = index + 1 /\ index \in Ids /\ index \in 1..(MaxId + 1)
      /\ node \in Nodes \cup {Root}
      /\ dmap \in [Ids -> Nodes \cup {Root, None}] /\ dmap[0] = Root /\ MaxId \in Nat
      /\ None \notin {Root} \cup Nodes
      /\ new = [id |-> index, of |-> None]
  BY <1>1, FsDomainAssumption DEF HandsOut, FsInv, StoreTypes, Shim
<1>4. /\ \A s \in R : s \in Shims /\ s.id < index
      /\ \A i \in Ids : i >= index => dmap[i] = None /\ i \notin aliased
      /\ \A s, r \in R : s.id = r.id /\ s.id \notin aliased \cup {0} => s = r
      /\ \A s \in R : s.id \notin aliased => dmap[s.id] # None
      /\ \A s \in K : s.id \notin aliased
      /\ aliased \subseteq Ids
  BY <1>1 DEF FsInv, Counted, OneShim, StoreTypes
<1>5. /\ \A i \in Ids : i # index => map[i] = dmap[i]
      /\ map \in [Ids -> Nodes \cup {Root, None}] /\ map[0] = Root /\ map[index] = node
  BY <1>1, <1>3 DEF Ids
<1>6. /\ \A i \in Ids : dmap'[i] \in {map[i], None}
      /\ dmap' \in [Ids -> Nodes \cup {Root, None}] /\ dmap'[0] = Root
  BY <1>2, <1>3, <1>5 DEF SettledTo, Ids
<1>7. \A s \in R : s.id \in Ids /\ s.id # index /\ s.id < index
  BY <1>3, <1>4 DEF Shims, Ids
<1>8. dmap'[index] = node
  BY <1>2, <1>3, <1>5, <1>7 DEF SettledTo
<1>9. \A s \in R : s \in Rn /\ s.id \notin aliased => dmap'[s.id] = dmap[s.id]
  <2> SUFFICES ASSUME NEW s \in R, s \in Rn, s.id \notin aliased PROVE dmap'[s.id] = dmap[s.id]
    OBVIOUS
  <2>1. \A r \in R \ Rn : r.id # 0 => r.id # s.id
    BY <1>4
  <2> QED
    BY <1>2, <1>5, <1>7, <2>1 DEF SettledTo
<1>10. new \in Shims /\ new.id = index /\ index \notin aliased
  BY <1>3, <1>4 DEF Shims, Ids
<1>11. Counted'
  <2>1. /\ \A s \in Rn : s \in Shims /\ s.id < index'
        /\ \A i \in Ids : i >= index' => dmap'[i] = None /\ i \notin aliased'
        /\ \A x \in mounts' : x.id < index'
    <3>1. ASSUME NEW s \in Rn PROVE s \in Shims /\ s.id < index'
      BY <1>3, <1>4, <1>7, <1>10 DEF Ids
    <3>2. ASSUME NEW i \in Ids, i >= index' PROVE dmap'[i] = None /\ i \notin aliased'
      BY <1>3, <1>4, <1>5, <1>6, <3>2 DEF Ids
    <3>3. ASSUME NEW x \in mounts' PROVE x.id < index'
      BY <1>3 DEF FsInv, Counted, StoreTypes, Ids
    <3> QED
      BY <3>1, <3>2, <3>3
  <2> QED
    BY <1>1, <2>1 DEF Counted
<1>12. OneShim'
  <2>1. ASSUME NEW s \in Rn, NEW r \in Rn, s.id = r.id, s.id \notin aliased' \cup {0}
        PROVE  s = r
    BY <1>3, <1>4, <1>7, <1>10, <2>1
  <2>2. ASSUME NEW s \in Rn, s.id \notin aliased' PROVE dmap'[s.id] # None
    BY <1>3, <1>4, <1>8, <1>9, <1>10, <2>2
  <2>3. ASSUME NEW s \in Kn PROVE s.id \notin aliased'
    BY <1>3, <1>4, <1>10
  <2>4. /\ \A s, r \in Rn : s.id = r.id /\ s.id \notin aliased' \cup {0} => s = r
        /\ \A s \in Rn : s.id \notin aliased' => dmap'[s.id] # None
        /\ \A s \in Kn : s.id \notin aliased'
    BY <2>1, <2>2, <2>3
  <2> QED
    BY <1>1, <2>4 DEF OneShim
<1>13. NoIdIsLeaked'
  <2>1. ASSUME updates = 0
        PROVE  {i \in Ids : dmap'[i] # None} = {0} \cup {s.id : s \in Rn}
    <3>1. {i \in Ids : dmap[i] # None} = {0} \cup {s.id : s \in R}
      BY <1>1, <2>1 DEF FsInv, NoIdIsLeaked
    <3>2. ASSUME NEW i \in Ids, dmap'[i] # None PROVE i \in {0} \cup {s.id : s \in Rn}
      <4>1. CASE i = index
        BY <1>3, <1>10, <4>1
      <4>2. CASE i # index
        BY <1>2, <1>5, <3>1, <3>2, <4>2 DEF SettledTo
      <4> QED
        BY <4>1, <4>2
    <3>3. ASSUME NEW s \in Rn PROVE s.id \in Ids /\ dmap'[s.id] # None
      <4>1. aliased = {}
        BY <2>1 DEF FsInv, StoreTypes
      <4>2. CASE s = new
        BY <1>3, <1>8, <1>10, <4>2
      <4>3. CASE s \in R
        BY <1>4, <1>7, <1>9, <4>1, <4>3
      <4> QED
        BY <1>3, <4>2, <4>3
    <3>4. 0 \in Ids /\ dmap'[0] # None
      BY <1>3, <1>6 DEF Ids
    <3> QED
      BY <3>2, <3>3, <3>4
  <2> QED
    BY <1>1, <2>1 DEF NoIdIsLeaked
<1>14. ASSUME NEW x \in mounts, x.id \notin aliased PROVE dmap'[x.id] = x.node
  <2>1. /\ x.id \in Ids /\ dmap[x.id] = x.node /\ x.id < index
        /\ x.id # 0 => \A s \in R : s.id = x.id => s \in Rn
    BY <1>1, <1>14 DEF FsInv, Stands, StoreTypes, Counted
  <2>2. map[x.id] = dmap[x.id]
    BY <1>3, <1>5, <2>1 DEF Ids
  <2> QED
    BY <1>2, <1>3, <1>6, <2>1, <2>2 DEF SettledTo
<1>15. index' \in 1..(MaxId + 1)
  BY <1>3 DEF Ids
<1>16. \A i \in Ids : i < index => dmap'[i] \in {dmap[i], None}
  BY <1>3, <1>5, <1>6 DEF Ids
<1> QED
  BY <1>1, <1>6, <1>8, <1>9, <1>11, <1>12, <1>13, <1>14, <1>15, <1>16 DEF MapKept
\* Where the references after a step come from: those before it, and the shims in H.
LEMMA RefsFrom ==
  ASSUME NEW H,
         \A n \in Names : cache'[n] # None => cache'[n] \in Kept_Refs \cup H,
         saved' \subseteq Kept_Refs \cup H,
         \A t \in Tasks : task'[t].held \subseteq Kept_Refs \cup H,
         \A f \in Files : kf'[f] # None => kf'[f].shim \in Refs \cup H
  PROVE  /\ Kept_Refs' \subseteq Kept_Refs \cup H /\ Refs' \subseteq Refs \cup H
         /\ Kept_Refs' \subseteq Refs' /\ saved' \subseteq Refs'
         /\ \A t \in Tasks : task'[t].held \subseteq Kept_Refs'
<1>1. (/\ \A s : s \in Refs <=> s \in Kept_Refs \/ \E f \in Files : kf[f] # None /\ kf[f].shim = s
       /\ \A s : s \in Kept_Refs <=> \/ \E n \in Names : cache[n] = s /\ s # None
                                     \/ s \in saved
                                     \/ \E t \in Tasks : s \in task[t].held)'
  BY RefsAre, PTL
<1>2. PICK R, Rn, K, Kn : R = Refs /\ Rn = Refs' /\ K = Kept_Refs /\ Kn = Kept_Refs'
  OBVIOUS
<1>3. /\ \A s : s \in Rn <=> s \in Kn \/ \E f \in Files : kf'[f] # None /\ kf'[f].shim = s
      /\ \A s : s \in Kn <=> \/ \E n \in Names : cache'[n] = s /\ s # None
                             \/ s \in saved'
                             \/ \E t \in Tasks : s \in task'[t].held
  BY <1>1, <1>2
<1>4. K \subseteq R
  BY <1>2, RefsAre
<1>5. /\ \A n \in Names : cache'[n] # None => cache'[n] \in K \cup H
      /\ saved' \subseteq K \cup H
      /\ \A t \in Tasks : task'[t].held \subseteq K \cup H
      /\ \A f \in Files : kf'[f] # None => kf'[f].shim \in R \cup H
  BY <1>2
<1>6. Kn \subseteq K \cup H
  BY <1>3, <1>5
<1>7. Rn \subseteq R \cup H
  BY <1>3, <1>4, <1>5, <1>6
<1> QED
  BY <1>2, <1>3, <1>6, <1>7

\* A step of t, as other calls see it.
OnlyTask(t) ==
  /\ \A u \in Tasks \ {t} : task'[u] = task[u]
  /\ world' = world /\ aliased' = aliased /\ updates' = updates

\* What an id stands for survives a step of a call.
LEMMA StandsKept ==
  ASSUME FsInv, MapKept, NEW t \in Tasks, OnlyTask(t), saved \subseteq saved',
         Refs' \subseteq Refs \cup {Shim(index, None)},
         \A x \in mounts' :
           \/ x \in mounts
           \/ /\ dmap'[x.id] = x.node
              /\ x.id # 0 => \A s \in Refs' : s.id = x.id => s \in saved',
         \A f \in Files : kf'[f] # None =>
           \/ kf[f] # None /\ kf'[f].shim = kf[f].shim /\ kf'[f].node = kf[f].node
           \/ /\ kf'[f].shim \in Kept_Refs /\ kf'[f].node = dmap[kf'[f].shim.id]
              /\ kf'[f].node \in Nodes,
         \A n \in Names : cache'[n] # None =>
           cache'[n] \in Kept_Refs /\ dmap[cache'[n].id] # Root,
         task'[t].pc \in {"insert", "link", "mount", "file"} => dmap'[task'[t].shim.id] # Root
  PROVE  Stands'
<1>1. /\ \A s \in Refs : s \in Shims /\ s.id < index /\ s.id \in Ids
      /\ Kept_Refs \subseteq Refs
      /\ \A f \in Files : kf[f] # None => kf[f].shim \in Refs
      /\ \A u \in Tasks : task[u].held \subseteq Refs
  BY RefsAre DEF FsInv, Counted, Shims
<1>2. \A f \in Files : kf'[f] # None => kf'[f].shim \in Refs'
  <2>1. (\A f \in Files : kf[f] # None => kf[f].shim \in Refs)'
    BY FilesRefer, PTL
  <2> QED
    BY <2>1
<1>3. None # Root
  BY FsDomainAssumption
<1>4. ASSUME NEW f \in Files, kf'[f] # None
      PROVE  /\ dmap'[kf'[f].shim.id] \in {kf'[f].node, None}
             /\ kf'[f].shim.id \notin aliased' => dmap'[kf'[f].shim.id] = kf'[f].node
             /\ f # RootFile => kf'[f].node \in Nodes
  <2>1. PICK s : s = kf'[f].shim
    OBVIOUS
  <2>2. s \in Refs /\ s \in Refs'
    BY <1>1, <1>2, <1>4, <2>1
  <2>3. dmap'[s.id] \in {dmap[s.id], None} /\ (s.id \notin aliased => dmap'[s.id] = dmap[s.id])
    BY <1>1, <2>2 DEF MapKept
  <2>4. /\ dmap[s.id] \in {kf'[f].node, None}
        /\ s.id \notin aliased => dmap[s.id] = kf'[f].node
        /\ f # RootFile => kf'[f].node \in Nodes
    BY <1>4, <2>1 DEF FsInv, Stands
  <2> QED
    BY <2>1, <2>3, <2>4 DEF OnlyTask
<1>5. ASSUME NEW x \in mounts, x.id \notin aliased
      PROVE  /\ dmap'[x.id] = x.node
             /\ x.id # 0 => \A s \in Refs' : s.id = x.id => s \in saved'
  <2>1. dmap'[x.id] = x.node
    BY <1>5 DEF MapKept
  <2>2. x.id < index /\ x.id \in Ids /\ index \in 1..(MaxId + 1)
    BY DEF FsInv, Counted, StoreTypes
  <2>3. Shim(index, None).id # x.id
    BY <2>2, FsDomainAssumption DEF Shim, Ids
  <2>4. x.id # 0 => \A s \in Refs : s.id = x.id => s \in saved
    BY <1>5 DEF FsInv, Stands
  <2> QED
    BY <2>1, <2>3, <2>4
<1>6. ASSUME NEW n \in Names, cache'[n] # None PROVE dmap'[cache'[n].id] # Root
  <2>1. PICK s : s = cache'[n]
    OBVIOUS
  <2>2. s \in Refs /\ dmap[s.id] # Root
    BY <1>1, <1>6, <2>1
  <2> QED
    BY <1>1, <1>3, <2>1, <2>2 DEF MapKept
<1>7. ASSUME NEW u \in Tasks, task'[u].pc \in {"insert", "link", "mount", "file"}
      PROVE  dmap'[task'[u].shim.id] # Root
  <2>1. CASE u = t
    BY <1>7, <2>1
  <2>2. CASE u # t
    <3>1. PICK s : s = task[u].shim
      OBVIOUS
    <3>2. task'[u] = task[u] /\ s \in Refs /\ dmap[s.id] # Root
      BY <1>1, <1>7, <2>2, <3>1 DEF OnlyTask, FsInv, Shape, Stands
    <3> QED
      BY <1>1, <1>3, <3>1, <3>2 DEF MapKept
  <2> QED
    BY <2>1, <2>2
<1> QED
  BY <1>4, <1>5, <1>6, <1>7 DEF Stands, OnlyTask
-----------------------------------------------------------------------------
(* The bounds on ids and nodes *)

\* One member of a finite set more or less.
LEMMA CountStep ==
  ASSUME NEW S, IsFiniteSet(S), NEW T, NEW t, T \subseteq S \cup {t}
  PROVE  /\ IsFiniteSet(T) /\ Cardinality(S) \in Nat /\ Cardinality(T) \in Nat
         /\ Cardinality(T) <= Cardinality(S) + 1
         /\ t \notin T \/ t \in S => Cardinality(T) <= Cardinality(S)
         /\ t \in S /\ t \notin T => Cardinality(T) + 1 <= Cardinality(S)
<1>1. /\ IsFiniteSet(S \cup {t}) /\ Cardinality(S) \in Nat
      /\ Cardinality(S \cup {t}) = IF t \in S THEN Cardinality(S) ELSE Cardinality(S) + 1
  BY FS_AddElement, FS_CardinalityType
<1>2. IsFiniteSet(T) /\ Cardinality(T) <= Cardinality(S \cup {t})
  BY <1>1, FS_Subset
<1>3. Cardinality(T) \in Nat
  BY <1>2, FS_CardinalityType
<1>4. ASSUME t \notin T \/ t \in S PROVE Cardinality(T) <= Cardinality(S)
  <2>1. T \subseteq S
    BY <1>4
  <2> QED
    BY <2>1, FS_Subset
<1>5. ASSUME t \in S, t \notin T PROVE Cardinality(T) + 1 <= Cardinality(S)
  <2>1. T \subseteq S \ {t}
    BY <1>5
  <2>2. IsFiniteSet(S \ {t}) /\ Cardinality(S \ {t}) = Cardinality(S) - 1
    BY <1>5, FS_RemoveElement
  <2>3. Cardinality(T) <= Cardinality(S \ {t})
    BY <2>1, <2>2, FS_Subset
  <2> QED
    BY <1>1, <1>3, <2>2, <2>3
<1> QED
  BY <1>1, <1>2, <1>3, <1>4, <1>5

\* The calls that may still take something are counted.
LEMMA TakersFinite ==
  /\ IsFiniteSet(TakesId) /\ IsFiniteSet(TakesTwo) /\ IsFiniteSet(TakesNode)
  /\ Cardinality(TakesId) \in Nat /\ Cardinality(TakesTwo) \in Nat /\ Cardinality(TakesNode) \in Nat
<1>1. TakesId \subseteq Tasks /\ TakesTwo \subseteq Tasks /\ TakesNode \subseteq Tasks
  BY DEF TakesId, TakesTwo, TakesNode
<1>2. IsFiniteSet(TakesId) /\ IsFiniteSet(TakesTwo) /\ IsFiniteSet(TakesNode)
  BY <1>1, FsDomainAssumption, FS_Subset
<1> QED
  BY <1>2, FS_CardinalityType

\* A call that may take something finds it.
LEMMA RoomToTake ==
  ASSUME FsInv, NEW t \in Tasks
  PROVE  /\ t \in TakesId => index \in Ids
         /\ t \in TakesNode => made + 1 \in Nodes
<1>1. /\ index \in 1..(MaxId + 1) /\ made \in 0..MaxNode /\ MaxId \in Nat /\ MaxNode \in Nat
      /\ index - 1 + Cardinality(TakesId) + Cardinality(TakesTwo) <= MaxId
      /\ made + Cardinality(TakesNode) <= MaxNode
  BY FsDomainAssumption DEF FsInv, StoreTypes, HasRoom
<1>2. ASSUME t \in TakesId PROVE Cardinality(TakesId) > 0
  <2>1. TakesId \ {t} \subseteq TakesId \cup {t} /\ t \notin TakesId \ {t}
    OBVIOUS
  <2>2. Cardinality(TakesId \ {t}) + 1 <= Cardinality(TakesId) /\ Cardinality(TakesId \ {t}) \in Nat
    BY <1>2, <2>1, CountStep, TakersFinite
  <2> QED
    BY <2>2, TakersFinite
<1>3. ASSUME t \in TakesNode PROVE Cardinality(TakesNode) > 0
  <2>1. TakesNode \ {t} \subseteq TakesNode \cup {t} /\ t \notin TakesNode \ {t}
    OBVIOUS
  <2>2. Cardinality(TakesNode \ {t}) + 1 <= Cardinality(TakesNode) /\ Cardinality(TakesNode \ {t}) \in Nat
    BY <1>3, <2>1, CountStep, TakersFinite
  <2> QED
    BY <2>2, TakersFinite
<1> QED
  BY <1>1, <1>2, <1>3, TakersFinite DEF Ids, Nodes

\* What t may take after its step is what it might take before, less what it took.
LEMMA RoomKept ==
  ASSUME FsInv, NEW t \in Tasks, OnlyTask(t), NEW i \in {0, 1}, NEW k \in {0, 1},
         index' = index + i, made' = made + k,
         t \in TakesId' => t \in TakesId, t \in TakesTwo' => t \in TakesTwo,
         t \in TakesNode' => t \in TakesNode,
         i = 1 => \/ t \in TakesId /\ t \notin TakesId'
                  \/ t \in TakesTwo /\ t \notin TakesTwo',
         k = 1 => t \in TakesNode /\ t \notin TakesNode'
  PROVE  HasRoom' /\ made' \in 0..MaxNode
<1>1. PICK A, An, B, Bn, C, Cn :
        /\ A = TakesId /\ An = TakesId' /\ B = TakesTwo /\ Bn = TakesTwo'
        /\ C = TakesNode /\ Cn = TakesNode'
  OBVIOUS
<1>2. An \subseteq A \cup {t} /\ Bn \subseteq B \cup {t} /\ Cn \subseteq C \cup {t}
  BY <1>1 DEF TakesId, TakesTwo, TakesNode, OnlyTask
<1>3. /\ Cardinality(An) <= Cardinality(A) /\ Cardinality(Bn) <= Cardinality(B)
      /\ Cardinality(Cn) <= Cardinality(C)
      /\ t \in A /\ t \notin An => Cardinality(An) + 1 <= Cardinality(A)
      /\ t \in B /\ t \notin Bn => Cardinality(Bn) + 1 <= Cardinality(B)
      /\ t \in C /\ t \notin Cn => Cardinality(Cn) + 1 <= Cardinality(C)
      /\ Cardinality(An) \in Nat /\ Cardinality(Bn) \in Nat /\ Cardinality(Cn) \in Nat
      /\ Cardinality(A) \in Nat /\ Cardinality(B) \in Nat /\ Cardinality(C) \in Nat
  <2>1. IsFiniteSet(A) /\ IsFiniteSet(B) /\ IsFiniteSet(C)
    BY <1>1, TakersFinite
  <2>2. /\ t \notin An \/ t \in A
        /\ t \notin Bn \/ t \in B
        /\ t \notin Cn \/ t \in C
    BY <1>1
  <2>3. /\ Cardinality(An) <= Cardinality(A) /\ Cardinality(A) \in Nat /\ Cardinality(An) \in Nat
        /\ t \in A /\ t \notin An => Cardinality(An) + 1 <= Cardinality(A)
    BY <1>2, <2>1, <2>2, CountStep
  <2>4. /\ Cardinality(Bn) <= Cardinality(B) /\ Cardinality(B) \in Nat /\ Cardinality(Bn) \in Nat
        /\ t \in B /\ t \notin Bn => Cardinality(Bn) + 1 <= Cardinality(B)
    BY <1>2, <2>1, <2>2, CountStep
  <2>5. /\ Cardinality(Cn) <= Cardinality(C) /\ Cardinality(C) \in Nat /\ Cardinality(Cn) \in Nat
        /\ t \in C /\ t \notin Cn => Cardinality(Cn) + 1 <= Cardinality(C)
    BY <1>2, <2>1, <2>2, CountStep
  <2> QED
    BY <2>3, <2>4, <2>5
<1>4. /\ index \in Nat /\ made \in 0..MaxNode /\ MaxId \in Nat /\ MaxNode \in Nat
      /\ index - 1 + Cardinality(A) + Cardinality(B) <= MaxId /\ made + Cardinality(C) <= MaxNode
  BY <1>1, FsDomainAssumption DEF FsInv, StoreTypes, HasRoom
<1>5. (i = 1 => (t \in A /\ t \notin An) \/ (t \in B /\ t \notin Bn)) /\ (k = 1 => t \in C /\ t \notin Cn)
  BY <1>1
<1>6. index' - 1 + Cardinality(An) + Cardinality(Bn) <= MaxId /\ made' + Cardinality(Cn) <= MaxNode
  BY <1>3, <1>4, <1>5
<1>7. made' \in 0..MaxNode
  BY <1>3, <1>4, <1>6
<1> QED
  BY <1>1, <1>6, <1>7 DEF HasRoom

\* A call starts only when there is room for it and all that are in progress.
LEMMA RoomToStart ==
  ASSUME FsInv, NEW t \in Tasks, OnlyTask(t), Room, index' = index, made' = made
  PROVE  HasRoom'
<1>1. PICK An, Bn, Cn, B : /\ An = TakesId' /\ Bn = TakesTwo' /\ Cn = TakesNode' /\ B = Busy
  OBVIOUS
<1>2. IsFiniteSet(B)
  BY <1>1, FsDomainAssumption, FS_Subset DEF Busy
<1>3. An \subseteq B \cup {t} /\ Bn \subseteq B \cup {t} /\ Cn \subseteq B \cup {t}
  BY <1>1 DEF TakesId, TakesTwo, TakesNode, OnlyTask, FsInv, Shape, Idle, Busy
<1>4. Cardinality(An) \in Nat /\ Cardinality(An) <= Cardinality(B) + 1 /\ Cardinality(B) \in Nat
  BY <1>2, <1>3, CountStep
<1>5. Cardinality(Bn) \in Nat /\ Cardinality(Bn) <= Cardinality(B) + 1
  BY <1>2, <1>3, CountStep
<1>6. Cardinality(Cn) \in Nat /\ Cardinality(Cn) <= Cardinality(B) + 1
  BY <1>2, <1>3, CountStep
<1>7. /\ index \in Nat /\ made \in Nat /\ MaxId \in Nat /\ MaxNode \in Nat
      /\ world.ids \in 0..MaxId
  BY FsDomainAssumption DEF FsInv, StoreTypes, Ids
<1>8. index - 1 + 2 * (Cardinality(B) + 1) <= world.ids /\ made + (Cardinality(B) + 1) <= MaxNode
  BY <1>1 DEF Room
<1>9. index' - 1 + Cardinality(An) + Cardinality(Bn) <= MaxId /\ made' + Cardinality(Cn) <= MaxNode
  BY <1>4, <1>5, <1>6, <1>7, <1>8
<1> QED
  BY <1>1, <1>9 DEF HasRoom
-----------------------------------------------------------------------------
(* What a step of one call leaves of the rest *)

\* The idle call.
LEMMA IdleIsCall == Idle \in Call /\ Idle.held = {} /\ Idle.pc = "idle" /\ Idle.op = None
BY DEF Idle, Call, Ids

\* On one CPU the other calls are idle while t is in one.
LEMMA OthersIdle ==
  ASSUME FsInv, NEW t \in Tasks, ~world.smp, task[t].op # None \/ Alone(t), NEW u \in Tasks, u # t
  PROVE  task[u] = Idle /\ task[u].op = None /\ task[u].pc = "idle"
<1>1. task[u].op = None
  BY DEF FsInv, OneCall, Busy, Alone
<1>2. task[u] = Idle
  BY <1>1 DEF FsInv, Shape
<1> QED
  BY <1>2, IdleIsCall

\* A call in progress stays the only one.
LEMMA OneCallKept ==
  ASSUME FsInv, NEW t \in Tasks, OnlyTask(t), task[t].op # None \/ Alone(t)
  PROVE  OneCall'
<1>1. ASSUME ~world.smp, NEW u \in Tasks, task'[u].op # None PROVE u = t
  <2>1. ASSUME u # t PROVE task[u].op # None
    BY <1>1, <2>1 DEF OnlyTask
  <2> QED
    BY <1>1, <2>1 DEF FsInv, OneCall, Busy, Alone
<1> QED
  BY <1>1 DEF OneCall, Busy, OnlyTask

\* The other calls keep their types and what they have.
LEMMA OthersKept ==
  ASSUME FsInv, NEW t \in Tasks, OnlyTask(t), NEW r, task' = [task EXCEPT ![t] = r],
         r \in Call,
         \A u \in Tasks \ {t} : task[u].k \in Files => kf'[task[u].k] # None,
         Shape(t)'
  PROVE  CallTypes' /\ \A u \in Tasks : Shape(u)'
<1>1. CallTypes'
  BY DEF FsInv, CallTypes
<1>2. ASSUME NEW u \in Tasks, u # t PROVE Shape(u)'
  BY <1>2 DEF FsInv, Shape, OnlyTask
<1> QED
  BY <1>1, <1>2

\* While nothing changes in the directory and the caches, what they have under a name stays.
LEMMA NamesKept ==
  ASSUME FsInv, MapKept, NEW t \in Tasks, OnlyTask(t),
         dir' = dir, fsCache' = fsCache, cache' = cache,
         task[t].pc # "remove", task'[t].pc \notin {"cache", "insert"}
  PROVE  NamesHold'
<1>1. /\ \A n \in Names : cache[n] # None => cache[n] \in Kept_Refs
      /\ \A u \in Tasks : task[u].held \subseteq Kept_Refs
      /\ Kept_Refs \subseteq Refs
  BY CachesRefer
<1>2. (/\ \A n \in Names : cache[n] # None => cache[n] \in Kept_Refs
       /\ \A u \in Tasks : task[u].held \subseteq Kept_Refs
       /\ Kept_Refs \subseteq Refs)'
  BY <1>1, CachesRefer, PTL
<1>3. \A s \in Kept_Refs : s \in Kept_Refs' => dmap'[s.id] = dmap[s.id]
  BY <1>1, <1>2 DEF MapKept, FsInv, OneShim
<1>4. ASSUME ~world.smp, "rename" \notin world.calls
      PROVE  /\ \A n \in Names : cache'[n] # None /\ (\A u \in Tasks : task'[u].pc = "remove" => task'[u].n # n)
                                   => dmap'[cache'[n].id] = dir'[n]
             /\ \A u \in Tasks : /\ task'[u].pc = "cache" => task'[u].node = dir'[task'[u].n]
                                 /\ task'[u].pc = "insert" => dmap'[task'[u].shim.id] = dir'[task'[u].n]
  <2>1. ASSUME NEW n \in Names, cache'[n] # None,
               \A u \in Tasks : task'[u].pc = "remove" => task'[u].n # n
        PROVE  dmap'[cache'[n].id] = dir'[n]
    <3>1. dmap[cache[n].id] = dir[n]
      BY <1>4, <2>1 DEF FsInv, NamesHold, OnlyTask
    <3>2. cache[n] \in Kept_Refs /\ cache[n] \in Kept_Refs'
      BY <1>1, <1>2, <2>1
    <3> QED
      BY <1>3, <3>1, <3>2
  <2>2. ASSUME NEW u \in Tasks, task'[u].pc = "cache" PROVE task'[u].node = dir'[task'[u].n]
    BY <1>4, <2>2 DEF FsInv, NamesHold, OnlyTask
  <2>3. ASSUME NEW u \in Tasks, task'[u].pc = "insert"
        PROVE  dmap'[task'[u].shim.id] = dir'[task'[u].n]
    <3>1. u # t /\ task'[u] = task[u]
      BY <2>3 DEF OnlyTask
    <3>2. task[u].shim \in task[u].held /\ dmap[task[u].shim.id] = dir[task[u].n]
      BY <1>4, <2>3, <3>1 DEF FsInv, Shape, NamesHold
    <3>3. task[u].shim \in Kept_Refs /\ task[u].shim \in Kept_Refs'
      BY <1>1, <1>2, <3>1, <3>2
    <3> QED
      BY <1>3, <3>1, <3>2, <3>3
  <2> QED
    BY <2>1, <2>2, <2>3
<1> QED
  BY <1>4 DEF NamesHold, OnlyTask, FsInv

\* A step that reads and writes no file leaves the positions within the files.
LEMMA PositionsKept ==
  ASSUME FsInv, NEW t \in Tasks, OnlyTask(t), size' = size,
         kf' = kf \/ task[t].op # None,
         \A f \in Files \ {RootFile} : kf'[f] # None /\ ~kf'[f].moved =>
           \/ kf[f] # None /\ ~kf[f].moved /\ kf'[f].pos = kf[f].pos /\ kf'[f].node = kf[f].node
           \/ aliased = {} => kf'[f].pos <= size[kf'[f].node],
         task'[t].pc \notin {"read", "write", "advance"}
  PROVE  PositionsHold'
<1>1. ASSUME ~world.smp, aliased = {}
      PROVE  /\ \A f \in Files \ {RootFile} : kf'[f] # None /\ ~kf'[f].moved => kf'[f].pos <= size'[kf'[f].node]
             /\ \A u \in Tasks :
                  /\ task'[u].pc \in {"read", "write", "advance"} => task'[u].pos = kf'[task'[u].k].pos
                  /\ task'[u].pc = "advance" => task'[u].pos + task'[u].got <= size'[kf'[task'[u].k].node]
                                                \/ task'[u].got = 0
  <2>1. ASSUME NEW f \in Files \ {RootFile}, kf'[f] # None, ~kf'[f].moved
        PROVE  kf'[f].pos <= size'[kf'[f].node]
    BY <1>1, <2>1 DEF FsInv, PositionsHold
  <2>2. ASSUME NEW u \in Tasks, u # t, task'[u].pc \in {"read", "write", "advance"}
        PROVE  task'[u] = task[u] /\ kf' = kf
    BY <1>1, <2>2, OthersIdle DEF OnlyTask
  <2> QED
    BY <1>1, <2>1, <2>2 DEF FsInv, PositionsHold
<1> QED
  BY <1>1 DEF PositionsHold, OnlyTask

\* Files that may be written were opened for it, unless the step made one.
LEMMA RightsKept ==
  ASSUME FsInv,
         \A f \in Files : kf'[f] # None =>
           \/ kf[f] # None /\ kf'[f].flags = kf[f].flags /\ kf'[f].writer = kf[f].writer
           \/ kf'[f].flags \cap {"wr", "rdwr"} # {} => kf'[f].writer
  PROVE  RightsHold'
BY DEF FsInv, RightsHold, CanWrite
-----------------------------------------------------------------------------
(* The three kinds of steps of a call *)

\* A step that touches no reference.
LEMMA QuietStep ==
  ASSUME FsInv, NEW t \in Tasks, NEW r \in Call, task' = [task EXCEPT ![t] = r],
         r.held = task[t].held,
         UNCHANGED <<world, dmap, index, cache, kf, mounts, saved, updates, aliased>>
  PROVE  MapKept /\ OnlyTask(t) /\ Refs' = Refs
<1>1. \A u \in Tasks : task'[u].held = task[u].held
  BY DEF FsInv, CallTypes
<1>2. UNION {task'[u].held : u \in Tasks} = UNION {task[u].held : u \in Tasks}
  BY <1>1
<1>3. Kept_Refs' = Kept_Refs /\ Refs' = Refs
  BY <1>2 DEF Kept_Refs, Refs
<1>4. dmap = [i \in Ids |-> dmap[i]]
  BY DEF FsInv, StoreTypes
<1>5. Settle(dmap)
  BY <1>3, <1>4 DEF Settle
<1>6. OnlyDrops
  BY <1>3, <1>5 DEF OnlyDrops
<1>7. saved' \subseteq Refs'
  BY <1>3, RefsAre
<1>8. MapKept
  BY <1>6, <1>7, DropsKeepMap
<1> QED
  BY <1>3, <1>8 DEF OnlyTask

\* A step that only moves and drops references.
LEMMA DropStep ==
  ASSUME FsInv, NEW t \in Tasks, NEW r \in Call, task' = [task EXCEPT ![t] = r],
         r.held \subseteq Kept_Refs, Settle(dmap), index' = index,
         \A n \in Names : cache'[n] # None => cache'[n] \in Kept_Refs,
         saved \subseteq saved', saved' \subseteq Kept_Refs,
         \A f \in Files : kf'[f] # None => kf'[f].shim \in Refs,
         \A x \in mounts' : x \in mounts \/ x.id < index,
         UNCHANGED <<world, updates, aliased>>
  PROVE  MapKept /\ OnlyTask(t) /\ Refs' \subseteq Refs
<1>1. \A u \in Tasks : task'[u].held \subseteq task[u].held \/ task'[u].held = r.held
  BY DEF FsInv, CallTypes
<1>2. \A u \in Tasks : task'[u].held \subseteq Kept_Refs \cup {}
  BY <1>1, CachesRefer
<1>3. Kept_Refs' \subseteq Kept_Refs /\ Refs' \subseteq Refs /\ saved' \subseteq Refs'
  <2>1. PICK H : H = {}
    OBVIOUS
  <2>2. /\ \A n \in Names : cache'[n] # None => cache'[n] \in Kept_Refs \cup H
        /\ saved' \subseteq Kept_Refs \cup H
        /\ \A u \in Tasks : task'[u].held \subseteq Kept_Refs \cup H
        /\ \A f \in Files : kf'[f] # None => kf'[f].shim \in Refs \cup H
    BY <1>2
  <2>3. /\ Kept_Refs' \subseteq Kept_Refs \cup H /\ Refs' \subseteq Refs \cup H
        /\ saved' \subseteq Refs'
    BY <2>2, RefsFrom
  <2> QED
    BY <2>1, <2>3
<1>4. OnlyDrops
  BY <1>3 DEF OnlyDrops
<1>5. MapKept
  BY <1>3, <1>4, DropsKeepMap
<1> QED
  BY <1>3, <1>5 DEF OnlyTask

\* A step that gets a fresh id.
LEMMA FreshStep ==
  ASSUME FsInv, NEW t \in Tasks, NEW r \in Call, task' = [task EXCEPT ![t] = r],
         r.held = task[t].held \cup {Shim(index, None)}, index' = index + 1, index \in Ids,
         NEW node \in Nodes \cup {Root}, Settle(Grown(node)),
         UNCHANGED <<world, cache, saved, kf, mounts, updates, aliased>>
  PROVE  MapKept /\ OnlyTask(t) /\ Refs' \subseteq Refs \cup {Shim(index, None)}
         /\ dmap'[index] = node
<1>1. \A u \in Tasks : task'[u].held \subseteq task[u].held \cup {Shim(index, None)}
  BY DEF FsInv, CallTypes
<1>2. Shim(index, None) \in task'[t].held
  BY DEF FsInv, CallTypes
<1>3. /\ Kept_Refs' \subseteq Kept_Refs \cup {Shim(index, None)}
      /\ Refs' \subseteq Refs \cup {Shim(index, None)}
      /\ Kept_Refs' \subseteq Refs' /\ saved' \subseteq Refs' /\ Shim(index, None) \in Kept_Refs'
  <2>1. PICK H : H = {Shim(index, None)}
    OBVIOUS
  <2>2. /\ \A n \in Names : cache'[n] # None => cache'[n] \in Kept_Refs \cup H
        /\ saved' \subseteq Kept_Refs \cup H
        /\ \A u \in Tasks : task'[u].held \subseteq Kept_Refs \cup H
        /\ \A f \in Files : kf'[f] # None => kf'[f].shim \in Refs \cup H
    BY <1>1, <2>1, RefsAre
  <2>3. /\ Kept_Refs' \subseteq Kept_Refs \cup H /\ Refs' \subseteq Refs \cup H
        /\ Kept_Refs' \subseteq Refs' /\ saved' \subseteq Refs'
        /\ \A u \in Tasks : task'[u].held \subseteq Kept_Refs'
    BY <2>2, RefsFrom
  <2> QED
    BY <1>2, <2>1, <2>3
<1>4. index' # index
  BY DEF FsInv, StoreTypes
<1>5. Settle([dmap EXCEPT ![index] = node])
  BY <1>4 DEF Grown
<1>6. HandsOut(node)
  BY <1>3, <1>5 DEF HandsOut
<1>7. MapKept /\ dmap'[index] = node
  BY <1>3, <1>6, HandsOutKeepsMap
<1> QED
  BY <1>3, <1>7 DEF OnlyTask
\* What KernelFile::drop leaves: files as they were, and every file that a call has.
LEMMA KeptFiles ==
  ASSUME NEW files, files \in [Files -> KernelFile \cup {None}], NEW tasks, kf' = Kept(files, tasks)
  PROVE  /\ kf' \in [Files -> KernelFile \cup {None}]
         /\ \A f \in Files : kf'[f] # None => kf'[f] = files[f]
         /\ \A u \in Tasks : tasks[u].k \in Files /\ files[tasks[u].k] # None => kf'[tasks[u].k] # None
BY DEF Kept

-----------------------------------------------------------------------------
(* Calls on an open file *)

\* A call returns; its file has the shim, the node and the rights that it had, and a
\* position that is right.
LEMMA ReturnKeeps ==
  ASSUME FsInv, NEW t \in Tasks, task[t].op # None, task[t].pc \in FilePcs,
         NEW g \in KernelFile, Return(t, g), size' = size,
         g.shim = kf[task[t].k].shim, g.node = kf[task[t].k].node,
         \/ g.flags = kf[task[t].k].flags /\ g.writer = kf[task[t].k].writer
         \/ g.flags \cap {"wr", "rdwr"} # {} => g.writer,
         \/ task[t].k = RootFile \/ g.moved
         \/ g.pos = kf[task[t].k].pos /\ g.moved = kf[task[t].k].moved
         \/ ~world.smp /\ aliased = {} => g.pos <= size[g.node]
  PROVE  FsInv'
<1>1. PICK k, files : k \in Files /\ k = task[t].k /\ files = [kf EXCEPT ![k] = g]
  BY DEF FsInv, Shape
<1>2. kf[k] # None /\ kf[k] \in KernelFile /\ kf \in [Files -> KernelFile \cup {None}]
  BY <1>1 DEF FsInv, Shape, StoreTypes
<1>3. /\ files \in [Files -> KernelFile \cup {None}] /\ files[k] = g
      /\ \A f \in Files : f # k => files[f] = kf[f]
  BY <1>1, <1>2
<1>4. /\ task' = [task EXCEPT ![t] = Idle] /\ kf' = Kept(files, task') /\ Settle(dmap)
      /\ UNCHANGED <<world, index, dir, fsCache, made, cache, mounts, saved, updates, aliased>>
  BY <1>1 DEF Return, End
<1>5. /\ kf' \in [Files -> KernelFile \cup {None}]
      /\ \A f \in Files : kf'[f] # None => kf'[f] = files[f]
      /\ \A u \in Tasks : task'[u].k \in Files /\ files[task'[u].k] # None => kf'[task'[u].k] # None
  <2>1. PICK tasks : tasks = task'
    OBVIOUS
  <2>2. kf' = Kept(files, tasks)
    BY <1>4, <2>1
  <2>3. /\ kf' \in [Files -> KernelFile \cup {None}]
        /\ \A f \in Files : kf'[f] # None => kf'[f] = files[f]
        /\ \A u \in Tasks : tasks[u].k \in Files /\ files[tasks[u].k] # None => kf'[tasks[u].k] # None
    BY <1>3, <2>2, KeptFiles
  <2> QED
    BY <2>1, <2>3
<1>6. g # None
  BY FsDomainAssumption
<1>7. \A f \in Files : kf'[f] # None =>
        \/ f # k /\ kf[f] # None /\ kf'[f] = kf[f]
        \/ f = k /\ kf'[f] = g
  BY <1>3, <1>5
<1>8. Idle \in Call /\ Idle.held = {} /\ Idle.held \subseteq Kept_Refs
  BY IdleIsCall
<1>9. MapKept /\ OnlyTask(t) /\ Refs' \subseteq Refs
  <2>1. \A n \in Names : cache'[n] # None => cache'[n] \in Kept_Refs
    BY <1>4, CachesRefer
  <2>2. saved \subseteq saved' /\ saved' \subseteq Kept_Refs
    BY <1>4, RefsAre
  <2>3. \A f \in Files : kf'[f] # None => kf'[f].shim \in Refs
    BY <1>1, <1>2, <1>7, RefsAre
  <2> QED
    BY <1>4, <1>8, <2>1, <2>2, <2>3, DropStep
<1>10. task'[t] = Idle /\ task'[t].pc = "idle" /\ task'[t].op = None /\ task'[t].k = None
  BY <1>4 DEF FsInv, CallTypes, Idle
<1>11. StoreTypes'
  BY <1>4, <1>5, <1>9 DEF FsInv, StoreTypes, MapKept
<1>12. CallTypes' /\ \A u \in Tasks : Shape(u)'
  <2>1. Shape(t)'
    BY <1>10, FsDomainAssumption DEF Shape, Idle, PathPcs, FilePcs, FileCalls
  <2>2. \A u \in Tasks \ {t} : task[u].k \in Files => kf'[task[u].k] # None
    BY <1>2, <1>3, <1>5, <1>6, <1>9 DEF FsInv, Shape, OnlyTask
  <2> QED
    BY <1>4, <1>8, <1>9, <2>1, <2>2, OthersKept
<1>13. Stands'
  <2>1. \A f \in Files : kf'[f] # None => kf[f] # None /\ kf'[f].shim = kf[f].shim /\ kf'[f].node = kf[f].node
    BY <1>1, <1>2, <1>7
  <2>2. \A n \in Names : cache'[n] # None => cache'[n] \in Kept_Refs /\ dmap[cache'[n].id] # Root
    BY <1>4, CachesRefer DEF FsInv, Stands
  <2> QED
    BY <1>4, <1>9, <1>10, <2>1, <2>2, StandsKept
<1>14. HasRoom'
  <2>1. t \notin TakesId' /\ t \notin TakesTwo' /\ t \notin TakesNode'
    BY <1>10 DEF TakesId, TakesTwo, TakesNode
  <2>2. index' = index + 0 /\ made' = made + 0
    BY <1>4 DEF FsInv, StoreTypes
  <2> QED
    BY <1>9, <2>1, <2>2, RoomKept
<1>15. OneCall'
  BY <1>9, OneCallKept
<1>16. NamesHold'
  <2>1. task[t].pc # "remove"
    BY DEF FilePcs, FileCalls
  <2> QED
    BY <1>4, <1>9, <1>10, <2>1, NamesKept
<1>17. PositionsHold'
  <2>1. CASE world.smp \/ aliased # {}
    BY <1>9, <2>1 DEF PositionsHold, OnlyTask
  <2>2. CASE ~(world.smp \/ aliased # {})
    <3>1. \A f \in Files \ {RootFile} : kf'[f] # None /\ ~kf'[f].moved =>
            \/ kf[f] # None /\ ~kf[f].moved /\ kf'[f].pos = kf[f].pos /\ kf'[f].node = kf[f].node
            \/ aliased = {} => kf'[f].pos <= size[kf'[f].node]
      BY <1>1, <1>2, <1>7, <2>2
    <3> QED
      BY <1>9, <1>10, <3>1, PositionsKept
  <2> QED
    BY <2>1, <2>2
<1>18. RightsHold'
  <2>1. \A f \in Files : kf'[f] # None =>
           \/ kf[f] # None /\ kf'[f].flags = kf[f].flags /\ kf'[f].writer = kf[f].writer
           \/ kf'[f].flags \cap {"wr", "rdwr"} # {} => kf'[f].writer
    BY <1>1, <1>2, <1>7
  <2> QED
    BY <2>1, RightsKept
<1> QED
  BY <1>9, <1>11, <1>12, <1>13, <1>14, <1>15, <1>16, <1>17, <1>18 DEF FsInv, MapKept
\* What a call at an open file has.
LEMMA AtFile ==
  ASSUME FsInv, NEW t \in Tasks, task[t].pc \in FilePcs
  PROVE  /\ task[t].op # None /\ task[t].k \in Files
         /\ kf[task[t].k] # None /\ kf[task[t].k] \in KernelFile
         /\ NodeOf(task[t].k) # None => NodeOf(task[t].k) = kf[task[t].k].node
         /\ task[t].k # RootFile => kf[task[t].k].node \in Nodes
         /\ size \in [Nodes -> Nat]
<1>1. task[t].op # None
  BY DEF FsInv, Shape, Idle, FilePcs, FileCalls
<1>2. task[t].k \in Files /\ kf[task[t].k] # None /\ kf[task[t].k] \in KernelFile
  BY DEF FsInv, Shape, StoreTypes
<1> QED
  BY <1>1, <1>2 DEF FsInv, Stands, NodeOf, StoreTypes

\* A call that changes nothing of its file.
LEMMA ReturnUnchanged ==
  ASSUME FsInv, NEW t \in Tasks, task[t].pc \in FilePcs, Return(t, kf[task[t].k]), size' = size
  PROVE  FsInv'
BY AtFile, ReturnKeeps

\* poll, ioctl, flush, fsync, attributes, statfs.
LEMMA QueryKeeps ==
  ASSUME FsInv, NEW t \in Tasks, Query(t) \/ get_attr(t) \/ stat_fs(t)
  PROVE  FsInv'
<1>1. task[t].pc \in FilePcs /\ Return(t, kf[task[t].k]) /\ size' = size
  BY DEF Query, get_attr, stat_fs, FilePcs, FileCalls
<1> QED
  BY <1>1, ReturnUnchanged

\* The position moves by what was transferred, which lies in the file.
LEMMA AdvanceKeeps ==
  ASSUME FsInv, NEW t \in Tasks, Advance(t)
  PROVE  FsInv'
<1>1. PICK k, g : k = task[t].k /\ g = [kf[k] EXCEPT !.pos = @ + task[t].got]
  OBVIOUS
<1>2. task[t].pc \in FilePcs /\ size' = size /\ Return(t, g) /\ task[t].got \in {0, 1}
  BY <1>1 DEF Advance, FilePcs, FsInv, CallTypes, Call
<1>3. task[t].op # None /\ k \in Files /\ kf[k] \in KernelFile /\ kf[k] # None
      /\ k # RootFile /\ kf[k].node \in Nodes /\ size \in [Nodes -> Nat]
  BY <1>1, <1>2, AtFile DEF FsInv, Shape, Advance
<1>4. /\ g \in KernelFile /\ g.shim = kf[k].shim /\ g.node = kf[k].node /\ g.flags = kf[k].flags
      /\ g.writer = kf[k].writer /\ g.moved = kf[k].moved /\ g.pos = kf[k].pos + task[t].got
  BY <1>1, <1>2, <1>3 DEF KernelFile
<1>5. ASSUME ~world.smp, aliased = {}, ~kf[k].moved PROVE g.pos <= size[g.node]
  <2>1. /\ kf[k].pos <= size[kf[k].node] /\ task[t].pos = kf[k].pos
        /\ task[t].pos + task[t].got <= size[kf[k].node] \/ task[t].got = 0
    BY <1>1, <1>3, <1>5 DEF FsInv, PositionsHold, Advance
  <2>2. kf[k].pos \in Nat
    BY <1>3 DEF KernelFile
  <2> QED
    BY <1>4, <2>1, <2>2
<1>6. \/ g.moved
      \/ g.pos = kf[k].pos /\ g.moved = kf[k].moved
      \/ ~world.smp /\ aliased = {} => g.pos <= size[g.node]
  BY <1>4, <1>5
<1> QED
  BY <1>1, <1>2, <1>3, <1>4, <1>6, ReturnKeeps

\* A file with another position and its mark.
MovedTo(h, q, c) == [h EXCEPT !.pos = q, !.moved = q > c]

\* It stays the file it was.
LEMMA MovedFile ==
  ASSUME NEW h \in KernelFile, NEW q \in Nat, NEW c \in Nat,
         NEW g, g = MovedTo(h, q, c)
  PROVE  /\ g \in KernelFile /\ g.shim = h.shim /\ g.node = h.node /\ g.flags = h.flags
         /\ g.writer = h.writer /\ g.pos = q /\ (g.moved \/ q <= c)
<1>1. CASE q > c
  <2>1. g = [h EXCEPT !.pos = q, !.moved = TRUE]
    BY <1>1 DEF MovedTo
  <2> QED
    BY <2>1 DEF KernelFile
<1>2. CASE ~(q > c)
  <2>1. (q > c) = FALSE
    BY <1>2, SMT
  <2>2. g = [h EXCEPT !.pos = q, !.moved = FALSE]
    BY <2>1, Zenon DEF MovedTo
  <2>3. q <= c
    BY <1>2
  <2> QED
    BY <2>2, <2>3 DEF KernelFile
<1> QED
  BY <1>1, <1>2

\* seek marks a file whose position it puts behind the end.
LEMMA SeekKeeps ==
  ASSUME FsInv, NEW t \in Tasks, seek(t)
  PROVE  FsInv'
<1>1. PICK k : k = task[t].k
  OBVIOUS
<1>2. task[t].pc \in FilePcs /\ size' = size
  BY DEF seek, FilePcs, FileCalls
<1>3. task[t].op # None /\ k \in Files /\ kf[k] \in KernelFile /\ kf[k] # None
      /\ k # RootFile /\ kf[k].node \in Nodes /\ size \in [Nodes -> Nat]
      /\ (NodeOf(k) # None => NodeOf(k) = kf[k].node)
  BY <1>1, <1>2, AtFile DEF FsInv, Shape, seek
<1>4. CASE Return(t, kf[k])
  BY <1>1, <1>2, <1>4, ReturnUnchanged
<1>5. CASE ~Return(t, kf[k])
  <2>1. PICK p \in {0, size[kf[k].node], MaxLen} :
          Return(t, [kf[k] EXCEPT !.pos = p, !.moved = p > size[kf[k].node]])
    BY <1>1, <1>3, <1>5 DEF seek
  <2>2. p \in Nat /\ size[kf[k].node] \in Nat
    BY <1>3, FsDomainAssumption
  <2>3. PICK c \in Nat, h \in KernelFile, q \in Nat : c = size[kf[k].node] /\ h = kf[k] /\ q = p
    BY <1>3, <2>2
  <2>4. PICK g : g = MovedTo(h, q, c)
    OBVIOUS
  <2>5. /\ g \in KernelFile /\ g.shim = h.shim /\ g.node = h.node /\ g.flags = h.flags
        /\ g.writer = h.writer /\ g.pos = q /\ (g.moved \/ q <= c)
    BY <2>4, MovedFile
  <2>7. g.moved \/ g.pos <= size[g.node]
    BY <2>3, <2>5
  <2>8. Return(t, g)
    BY <2>1, <2>3, <2>4 DEF MovedTo
  <2> QED
    BY <1>1, <1>2, <1>3, <2>3, <2>5, <2>7, <2>8, ReturnKeeps
<1> QED
  BY <1>4, <1>5

\* readdir counts in the root.
LEMMA ReaddirKeeps ==
  ASSUME FsInv, NEW t \in Tasks, readdir(t)
  PROVE  FsInv'
<1>1. PICK k : k = task[t].k
  OBVIOUS
<1>2. task[t].pc \in FilePcs /\ size' = size /\ task[t].pc = "readdir"
  BY DEF readdir, FilePcs, FileCalls
<1>3. task[t].op # None /\ k \in Files /\ kf[k] \in KernelFile /\ kf[k] # None /\ k = RootFile
  BY <1>1, <1>2, AtFile DEF FsInv, Shape
<1>4. PICK c \in Nat : Return(t, [kf[k] EXCEPT !.pos = @ + c])
  BY <1>1 DEF readdir
<1>5. PICK g : g = [kf[k] EXCEPT !.pos = @ + c]
  OBVIOUS
<1>6. /\ g \in KernelFile /\ g.shim = kf[k].shim /\ g.node = kf[k].node /\ g.flags = kf[k].flags
      /\ g.writer = kf[k].writer
  BY <1>3, <1>5 DEF KernelFile
<1> QED
  BY <1>1, <1>2, <1>3, <1>4, <1>5, <1>6, ReturnKeeps

\* F_SETFL records a right that it gives; F_SETFD gives none.
LEMMA FcntlKeeps ==
  ASSUME FsInv, NEW t \in Tasks, do_fcntl(t)
  PROVE  FsInv'
<1>1. PICK k : k = task[t].k
  OBVIOUS
<1>2. task[t].pc \in FilePcs /\ size' = size
  BY DEF do_fcntl, FilePcs, FileCalls
<1>3. task[t].op # None /\ k \in Files /\ kf[k] \in KernelFile /\ kf[k] # None
  BY <1>1, <1>2, AtFile
<1>4. CASE task[t].pc = "setfl"
  <2>1. PICK flags \in world.flags :
          Return(t, [kf[k] EXCEPT !.flags = flags, !.writer = @ \/ flags \cap {"wr", "rdwr"} # {}])
    BY <1>1, <1>4 DEF do_fcntl
  <2>2. PICK g : g = [kf[k] EXCEPT !.flags = flags, !.writer = @ \/ flags \cap {"wr", "rdwr"} # {}]
    OBVIOUS
  <2>3. flags \in SUBSET Flags
    BY FsDomainAssumption DEF FsInv, StoreTypes
  <2>4. /\ g \in KernelFile /\ g.shim = kf[k].shim /\ g.node = kf[k].node /\ g.pos = kf[k].pos
        /\ g.moved = kf[k].moved /\ (g.flags \cap {"wr", "rdwr"} # {} => g.writer)
    BY <1>3, <2>2, <2>3 DEF KernelFile
  <2> QED
    BY <1>1, <1>2, <1>3, <2>1, <2>2, <2>4, ReturnKeeps
<1>5. CASE task[t].pc = "setfd"
  <2>1. PICK c \in {{}, {"cloexec"}} : Return(t, [kf[k] EXCEPT !.flags = (@ \ {"cloexec"}) \cup c])
    BY <1>1, <1>5 DEF do_fcntl
  <2>2. PICK g : g = [kf[k] EXCEPT !.flags = (@ \ {"cloexec"}) \cup c]
    OBVIOUS
  <2>3. /\ g \in KernelFile /\ g.shim = kf[k].shim /\ g.node = kf[k].node /\ g.pos = kf[k].pos
        /\ g.moved = kf[k].moved /\ g.writer = kf[k].writer
        /\ g.flags = (kf[k].flags \ {"cloexec"}) \cup c
    BY <1>3, <2>2 DEF KernelFile, Flags
  <2>4. g.flags \cap {"wr", "rdwr"} # {} => g.writer
    <3>1. kf[k].flags \cap {"wr", "rdwr"} # {} => kf[k].writer
      BY <1>3 DEF FsInv, RightsHold, CanWrite
    <3> QED
      BY <2>3, <3>1
  <2> QED
    BY <1>1, <1>2, <1>3, <2>1, <2>2, <2>3, <2>4, ReturnKeeps
<1> QED
  BY <1>4, <1>5 DEF do_fcntl
\* A step that changes nothing but what the call is about to do.
LEMMA QuietKeeps ==
  ASSUME FsInv, NEW t \in Tasks, NEW r \in Call, task' = [task EXCEPT ![t] = r],
         r.held = task[t].held,
         UNCHANGED <<world, dmap, index, dir, fsCache, made, cache, kf, mounts, saved, updates, aliased>>,
         size' \in [Nodes -> Nat],
         task[t].op # None \/ Alone(t), task[t].pc # "remove",
         r.pc \notin {"cache", "insert", "link", "mount", "file"},
         Shape(t)', HasRoom', PositionsHold'
  PROVE  FsInv'
<1>1. MapKept /\ OnlyTask(t) /\ Refs' = Refs
  BY QuietStep
<1>2. task'[t] = r
  BY DEF FsInv, CallTypes
<1>3. StoreTypes'
  BY <1>1 DEF FsInv, StoreTypes
<1>4. CallTypes' /\ \A u \in Tasks : Shape(u)'
  <2>1. \A u \in Tasks \ {t} : task[u].k \in Files => kf'[task[u].k] # None
    BY DEF FsInv, Shape
  <2> QED
    BY <1>1, <2>1, OthersKept
<1>5. Stands'
  <2>1. \A f \in Files : kf'[f] # None => kf[f] # None /\ kf'[f].shim = kf[f].shim /\ kf'[f].node = kf[f].node
    OBVIOUS
  <2>2. \A n \in Names : cache'[n] # None => cache'[n] \in Kept_Refs /\ dmap[cache'[n].id] # Root
    BY CachesRefer DEF FsInv, Stands
  <2> QED
    BY <1>1, <1>2, <2>1, <2>2, StandsKept
<1>6. OneCall'
  BY <1>1, OneCallKept
<1>7. NamesHold'
  BY <1>1, <1>2, NamesKept
<1>8. RightsHold'
  <2>1. \A f \in Files : kf'[f] # None =>
           \/ kf[f] # None /\ kf'[f].flags = kf[f].flags /\ kf'[f].writer = kf[f].writer
           \/ kf'[f].flags \cap {"wr", "rdwr"} # {} => kf'[f].writer
    OBVIOUS
  <2> QED
    BY <2>1, RightsKept
<1> QED
  BY <1>1, <1>3, <1>4, <1>5, <1>6, <1>7, <1>8 DEF FsInv, MapKept

\* A path call starts when there is room for it.
LEMMA StartPathKeeps ==
  ASSUME FsInv, NEW t \in Tasks, StartPath(t)
  PROVE  FsInv'
<1>1. PICK o \in PathCalls \cap world.calls, n \in Names, m \in Names, flags \in world.flags :
        task' = [task EXCEPT ![t] =
            [Idle EXCEPT !.op = o, !.n = n, !.m = m, !.flags = flags, !.pc = Entry(o)]]
  BY DEF StartPath
<1>2. PICK r : r = [Idle EXCEPT !.op = o, !.n = n, !.m = m, !.flags = flags, !.pc = Entry(o)]
  OBVIOUS
<1>3. /\ Entry(o) \in {"find", "create", "unlink", "rename"}
      /\ Entry(o) = "rename" => o = "rename"
      /\ Entry(o) = "create" => o = "symlink"
  BY DEF Entry
<1>4. flags \in SUBSET Flags
  BY FsDomainAssumption DEF FsInv, StoreTypes
<1>5. /\ r.op = o /\ r.n = n /\ r.m = m /\ r.pc = Entry(o) /\ r.held = {} /\ r.k = None
      /\ r \in Call
  BY <1>1, <1>2, <1>3, <1>4 DEF Idle, Call, PathPcs
<1>6. task[t] = Idle /\ Alone(t) /\ Room
  BY DEF StartPath, FsInv, Shape
<1>7. task' = [task EXCEPT ![t] = r] /\ task'[t] = r
  BY <1>1, <1>2 DEF FsInv, CallTypes
<1>8. /\ UNCHANGED <<world, dmap, index, fsVars, cache, kf, mounts, saved, updates, aliased>>
      /\ dir' = dir /\ fsCache' = fsCache /\ size' = size /\ made' = made /\ size' \in [Nodes -> Nat]
  BY DEF StartPath, fsVars, FsInv, StoreTypes
<1>9. OnlyTask(t)
  BY <1>7, <1>8 DEF OnlyTask
<1>10. o # None
  BY FsDomainAssumption
<1>11. Shape(t)'
  BY <1>1, <1>3, <1>5, <1>7, <1>8, <1>10, FsDomainAssumption DEF Shape, PathPcs, FilePcs, FileCalls
<1>12. HasRoom'
  BY <1>6, <1>8, <1>9, RoomToStart
<1>13. PositionsHold'
  <2>1. \A f \in Files \ {RootFile} : kf'[f] # None /\ ~kf'[f].moved =>
           \/ kf[f] # None /\ ~kf[f].moved /\ kf'[f].pos = kf[f].pos /\ kf'[f].node = kf[f].node
           \/ aliased = {} => kf'[f].pos <= size[kf'[f].node]
    BY <1>8
  <2>2. task'[t].pc \notin {"read", "write", "advance"}
    BY <1>3, <1>5, <1>7
  <2> QED
    BY <1>8, <1>9, <2>1, <2>2, PositionsKept
<1>14. task[t].pc # "remove" /\ r.held = task[t].held
  BY <1>5, <1>6, IdleIsCall
<1>15. r.pc \notin {"cache", "insert", "link", "mount", "file"}
  BY <1>3, <1>5
<1> QED
  BY <1>5, <1>6, <1>7, <1>8, <1>11, <1>12, <1>13, <1>14, <1>15, QuietKeeps

\* A call takes a file that is open.
LEMMA StartFileKeeps ==
  ASSUME FsInv, NEW t \in Tasks, StartFile(t)
  PROVE  FsInv'
<1>1. PICK o \in FileCalls \cap world.calls, f \in Files :
        /\ kf[f] # None /\ (o = "readdir" => f = RootFile)
        /\ f = RootFile => o \in {"readdir", "query", "attr", "statfs"}
        /\ o = "parent" => Room
        /\ task' = [task EXCEPT ![t] =
            [Idle EXCEPT !.op = o, !.k = f, !.pc = IF o \in {"read", "write"} THEN "pos" ELSE o]]
  BY DEF StartFile
<1>2. PICK p : p = IF o \in {"read", "write"} THEN "pos" ELSE o
  OBVIOUS
<1>3. PICK r : r = [Idle EXCEPT !.op = o, !.k = f, !.pc = p]
  OBVIOUS
<1>4. p \in FilePcs /\ p \notin {"read", "write", "advance"} /\ p \notin PathPcs
      /\ p # "idle" /\ (p = "pos" <=> o \in {"read", "write"}) /\ (p # "pos" => p = o)
  BY <1>2 DEF FilePcs, FileCalls, PathPcs
<1>5. /\ r.op = o /\ r.k = f /\ r.pc = p /\ r.held = {}
      /\ r \in Call
  BY <1>1, <1>3, <1>4 DEF Idle, Call, Ids
<1>6. task[t] = Idle /\ Alone(t)
  BY DEF StartFile, FsInv, Shape
<1>7. task' = [task EXCEPT ![t] = r] /\ task'[t] = r
  BY <1>1, <1>2, <1>3 DEF FsInv, CallTypes
<1>8. /\ UNCHANGED <<world, dmap, index, fsVars, cache, kf, mounts, saved, updates, aliased>>
      /\ dir' = dir /\ fsCache' = fsCache /\ size' = size /\ made' = made /\ size' \in [Nodes -> Nat]
  BY DEF StartFile, fsVars, FsInv, StoreTypes
<1>9. OnlyTask(t)
  BY <1>7, <1>8 DEF OnlyTask
<1>10. o # None
  BY FsDomainAssumption
<1>11. Shape(t)'
  <2>1. /\ p \notin {"rename", "find", "lookup", "create", "link", "insert", "unlink", "mount", "file", "cache"}
        /\ f = RootFile => p \notin {"pos", "read", "write", "advance", "seek", "truncate"}
        /\ p = "readdir" => f = RootFile
    BY <1>1, <1>4 DEF PathPcs
  <2> QED
    BY <1>1, <1>4, <1>5, <1>7, <1>8, <1>10, <2>1 DEF Shape
<1>12. HasRoom'
  <2>1. CASE o = "parent"
    BY <1>1, <1>8, <1>9, <2>1, RoomToStart
  <2>2. CASE o # "parent"
    <3>1. /\ p \notin {"parent", "find", "lookup", "create", "cache", "link", "insert"}
      BY <1>4, <2>2 DEF PathPcs
    <3>2. t \notin TakesId' /\ t \notin TakesTwo' /\ t \notin TakesNode'
      BY <1>5, <1>7, <3>1 DEF TakesId, TakesTwo, TakesNode
    <3>3. index' = index + 0 /\ made' = made + 0
      BY <1>8 DEF FsInv, StoreTypes
    <3> QED
      BY <1>9, <3>2, <3>3, RoomKept
  <2> QED
    BY <2>1, <2>2
<1>13. PositionsHold'
  <2>1. \A g \in Files \ {RootFile} : kf'[g] # None /\ ~kf'[g].moved =>
           \/ kf[g] # None /\ ~kf[g].moved /\ kf'[g].pos = kf[g].pos /\ kf'[g].node = kf[g].node
           \/ aliased = {} => kf'[g].pos <= size[kf'[g].node]
    BY <1>8
  <2>2. task'[t].pc \notin {"read", "write", "advance"}
    BY <1>4, <1>5, <1>7
  <2> QED
    BY <1>8, <1>9, <2>1, <2>2, PositionsKept
<1>14. task[t].pc # "remove" /\ r.held = task[t].held
  BY <1>5, <1>6, IdleIsCall
<1>15. r.pc \notin {"cache", "insert", "link", "mount", "file"}
  BY <1>4, <1>5 DEF PathPcs
<1> QED
  BY <1>5, <1>6, <1>7, <1>8, <1>11, <1>12, <1>13, <1>14, <1>15, QuietKeeps
\* While a call of t is at its file, the new calls of t neither take ids nor disturb others.
LEMMA FileStepRoom ==
  ASSUME FsInv, NEW t \in Tasks, OnlyTask(t), index' = index, made' = made,
         task'[t].pc \in {"read", "write", "advance", "query", "idle"}
  PROVE  HasRoom'
<1>1. t \notin TakesId' /\ t \notin TakesTwo' /\ t \notin TakesNode'
  BY DEF TakesId, TakesTwo, TakesNode
<1>2. index' = index + 0 /\ made' = made + 0
  BY DEF FsInv, StoreTypes
<1> QED
  BY <1>1, <1>2, RoomKept

\* The position is read under the lock of the file.
LEMMA ReadPosKeeps ==
  ASSUME FsInv, NEW t \in Tasks, ReadPos(t)
  PROVE  FsInv'
<1>1. PICK k, p : k = task[t].k /\ p = kf[k].pos
  OBVIOUS
<1>2. PICK r : r = [task[t] EXCEPT !.pc = task[t].op, !.pos = p]
  OBVIOUS
<1>3. task[t].pc = "pos" /\ task[t].pc \in FilePcs /\ task[t] \in Call
  BY DEF ReadPos, FilePcs, FsInv, CallTypes
<1>4. task[t].op # None /\ k \in Files /\ kf[k] \in KernelFile /\ kf[k] # None /\ p \in Nat
  BY <1>1, <1>3, AtFile DEF KernelFile
<1>4a. task[t].op \in {"read", "write"}
  BY <1>3 DEF FsInv, Shape
<1>5. /\ r \in Call /\ r.op = task[t].op /\ r.pc = task[t].op /\ r.pos = p /\ r.k = k
      /\ r.held = task[t].held /\ r.n = task[t].n /\ r.m = task[t].m
  <2>1. PICK o \in {"read", "write"}, q \in Nat : o = task[t].op /\ q = p
    BY <1>4, <1>4a
  <2>2. r = [task[t] EXCEPT !.pc = o, !.pos = q] /\ o \in FilePcs
    BY <1>2, <2>1 DEF FilePcs, FileCalls
  <2> QED
    BY <1>1, <1>3, <2>1, <2>2, ZenonT(60) DEF Call
<1>6. task' = [task EXCEPT ![t] = r] /\ task'[t] = r
  BY <1>1, <1>2 DEF ReadPos, FsInv, CallTypes
<1>7. /\ UNCHANGED <<world, dmap, index, fsVars, cache, kf, mounts, saved, updates, aliased>>
      /\ index' = index /\ size' = size /\ made' = made /\ dir' = dir /\ fsCache' = fsCache
      /\ size' \in [Nodes -> Nat]
  BY DEF ReadPos, fsVars, FsInv, StoreTypes
<1>8. OnlyTask(t)
  BY <1>6, <1>7 DEF OnlyTask
<1>9. Shape(t)'
  <2>1. /\ task[t].op \in world.calls /\ k # RootFile
    BY <1>1, <1>3, <1>4 DEF FsInv, Shape
  <2> QED
    BY <1>4, <1>5, <1>6, <1>7, <1>4a, <2>1 DEF Shape, PathPcs, FilePcs, FileCalls
<1>10. HasRoom'
  BY <1>5, <1>6, <1>7, <1>8, <1>4a, FileStepRoom
<1>11. PositionsHold'
  <2>1. ASSUME ~world.smp, aliased = {}
        PROVE  /\ \A f \in Files \ {RootFile} : kf[f] # None /\ ~kf[f].moved => kf[f].pos <= size[kf[f].node]
               /\ \A u \in Tasks :
                  /\ task'[u].pc \in {"read", "write", "advance"} => task'[u].pos = kf[task'[u].k].pos
                  /\ task'[u].pc = "advance" => task'[u].pos + task'[u].got <= size[kf[task'[u].k].node]
                                                \/ task'[u].got = 0
    <3>1. ASSUME NEW u \in Tasks, u # t PROVE task'[u].pc = "idle"
      BY <1>4, <1>8, <2>1, <3>1, OthersIdle DEF OnlyTask
    <3>2. task'[t].pos = kf[task'[t].k].pos /\ task'[t].pc # "advance"
      BY <1>1, <1>5, <1>6, <1>4a
    <3> QED
      BY <2>1, <3>1, <3>2 DEF FsInv, PositionsHold
  <2> QED
    BY <1>7, <2>1 DEF PositionsHold
<1>12. r.pc \notin {"cache", "insert", "link", "mount", "file"} /\ task[t].pc # "remove"
  BY <1>3, <1>5, <1>4a
<1> QED
  BY <1>4, <1>5, <1>6, <1>7, <1>9, <1>10, <1>11, <1>12, QuietKeeps

\* What a read finds lies in the file.
LEMMA ReadAtKeeps ==
  ASSUME FsInv, NEW t \in Tasks, read_at(t)
  PROVE  FsInv'
<1>1. PICK k : k = task[t].k
  OBVIOUS
<1>2. task[t].pc = "read" /\ task[t].pc \in FilePcs /\ task[t] \in Call
  BY DEF read_at, FilePcs, FileCalls, FsInv, CallTypes
<1>3. task[t].op # None /\ k \in Files /\ kf[k] \in KernelFile /\ kf[k] # None
      /\ k # RootFile /\ kf[k].node \in Nodes /\ size \in [Nodes -> Nat]
      /\ (NodeOf(k) # None => NodeOf(k) = kf[k].node)
  BY <1>1, <1>2, AtFile DEF FsInv, Shape
<1>4. CASE size' = size /\ Return(t, kf[k])
  BY <1>1, <1>2, <1>4, ReturnUnchanged
<1>5. CASE ~(size' = size /\ Return(t, kf[k]))
  <2>1. PICK c \in {0, 1} : c = IF task[t].pos < size[kf[k].node] THEN 1 ELSE 0
    OBVIOUS
  <2>2. /\ task' = [task EXCEPT ![t].pc = "advance", ![t].got = c]
        /\ UNCHANGED <<world, dmap, index, fsVars, cache, kf, mounts, saved, updates, aliased>>
    BY <1>1, <1>3, <1>5, <2>1 DEF read_at
  <2>3. PICK r : r = [task[t] EXCEPT !.pc = "advance", !.got = c]
    OBVIOUS
  <2>4. /\ r \in Call /\ r.op = task[t].op /\ r.pc = "advance" /\ r.pos = task[t].pos /\ r.k = k
        /\ r.held = task[t].held /\ r.n = task[t].n /\ r.m = task[t].m /\ r.got = c
    BY <1>1, <1>2, <2>1, <2>3, ZenonT(60) DEF Call, FilePcs
  <2>5. task' = [task EXCEPT ![t] = r] /\ task'[t] = r
    BY <2>2, <2>3 DEF FsInv, CallTypes
  <2>6. index' = index /\ size' = size /\ made' = made /\ kf' = kf /\ world' = world
        /\ aliased' = aliased /\ updates' = updates /\ dir' = dir /\ fsCache' = fsCache /\ size' \in [Nodes -> Nat]
    BY <1>3, <2>2 DEF fsVars
  <2>7. OnlyTask(t)
    BY <2>5, <2>6 DEF OnlyTask
  <2>8. Shape(t)'
    <3>1. task[t].op \in world.calls
      BY <1>3 DEF FsInv, Shape
    <3> QED
      BY <1>3, <2>4, <2>5, <2>6, <3>1 DEF Shape, PathPcs, FilePcs, FileCalls
  <2>9. HasRoom'
    BY <2>4, <2>5, <2>6, <2>7, FileStepRoom
  <2>10. PositionsHold'
    <3>1. ASSUME ~world.smp, aliased = {}
          PROVE  /\ \A f \in Files \ {RootFile} : kf[f] # None /\ ~kf[f].moved => kf[f].pos <= size[kf[f].node]
                 /\ \A u \in Tasks :
                    /\ task'[u].pc \in {"read", "write", "advance"} => task'[u].pos = kf[task'[u].k].pos
                    /\ task'[u].pc = "advance" => task'[u].pos + task'[u].got <= size[kf[task'[u].k].node]
                                                  \/ task'[u].got = 0
      <4>1. ASSUME NEW u \in Tasks, u # t PROVE task'[u].pc = "idle"
        BY <1>3, <2>7, <3>1, <4>1, OthersIdle DEF OnlyTask
      <4>2. task[t].pos = kf[k].pos
        BY <1>1, <1>2, <3>1 DEF FsInv, PositionsHold
      <4>3. task[t].pos \in Nat /\ size[kf[k].node] \in Nat
        BY <1>2, <1>3 DEF Call
      <4>4. task[t].pos + c <= size[kf[k].node] \/ c = 0
        BY <2>1, <4>3
      <4>5. /\ task'[t].pos = kf[task'[t].k].pos
            /\ task'[t].pos + task'[t].got <= size[kf[task'[t].k].node] \/ task'[t].got = 0
        BY <2>4, <2>5, <4>2, <4>4
      <4> QED
        BY <3>1, <4>1, <4>5 DEF FsInv, PositionsHold
    <3> QED
      BY <2>6, <3>1 DEF PositionsHold
  <2>11. r.pc \notin {"cache", "insert", "link", "mount", "file"} /\ task[t].pc # "remove"
    BY <1>2, <2>4
  <2> QED
    BY <1>3, <2>2, <2>4, <2>5, <2>6, <2>8, <2>9, <2>10, <2>11, QuietKeeps
<1> QED
  BY <1>4, <1>5
\* A write ends inside the file, which only grows.
LEMMA WriteAtKeeps ==
  ASSUME FsInv, NEW t \in Tasks, write_at(t)
  PROVE  FsInv'
<1>1. PICK k : k = task[t].k
  OBVIOUS
<1>2. task[t].pc = "write" /\ task[t].pc \in FilePcs /\ task[t] \in Call
  BY DEF write_at, FilePcs, FileCalls, FsInv, CallTypes
<1>3. task[t].op # None /\ k \in Files /\ kf[k] \in KernelFile /\ kf[k] # None
      /\ k # RootFile /\ kf[k].node \in Nodes /\ size \in [Nodes -> Nat]
      /\ (NodeOf(k) # None => NodeOf(k) = kf[k].node)
  BY <1>1, <1>2, AtFile DEF FsInv, Shape
<1>4. CASE size' = size /\ Return(t, kf[k])
  BY <1>1, <1>2, <1>4, ReturnUnchanged
<1>5. CASE ~(size' = size /\ Return(t, kf[k]))
  <2>1. PICK node \in Nodes : node = kf[k].node
    BY <1>3
  <2>2. /\ size' = [size EXCEPT ![node] = Max({@, task[t].pos + 1})]
        /\ task' = [task EXCEPT ![t].pc = "advance", ![t].got = 1]
        /\ UNCHANGED <<world, dmap, index, dir, fsCache, made, cache, kf, mounts, saved, updates, aliased>>
    BY <1>1, <1>3, <1>5, <2>1 DEF write_at
  <2>3. PICK r : r = [task[t] EXCEPT !.pc = "advance", !.got = 1]
    OBVIOUS
  <2>4. /\ r \in Call /\ r.op = task[t].op /\ r.pc = "advance" /\ r.pos = task[t].pos /\ r.k = k
        /\ r.held = task[t].held /\ r.n = task[t].n /\ r.m = task[t].m /\ r.got = 1
    BY <1>1, <1>2, <2>3 DEF Call, FilePcs
  <2>5. task' = [task EXCEPT ![t] = r] /\ task'[t] = r
    BY <2>2, <2>3 DEF FsInv, CallTypes
  <2>6. PICK a \in Nat, b \in Nat : a = size[node] /\ b = task[t].pos + 1
    BY <1>2, <1>3 DEF Call
  <2>7. Max({a, b}) \in {a, b} /\ Max({a, b}) >= a /\ Max({a, b}) >= b
    <3>1. \E x \in {a, b} : \A y \in {a, b} : x >= y
      BY <2>6
    <3> QED
      BY <3>1 DEF Max
  <2>8. /\ size' \in [Nodes -> Nat] /\ size'[node] >= task[t].pos + 1
        /\ \A x \in Nodes : size'[x] >= size[x]
    <3>1. PICK m \in Nat : m = Max({a, b}) /\ m >= a /\ m >= b
      BY <2>6, <2>7
    <3>2. size' = [size EXCEPT ![node] = m]
      BY <2>2, <2>6, <3>1
    <3>3. /\ size' \in [Nodes -> Nat] /\ size'[node] = m /\ \A x \in Nodes : x # node => size'[x] = size[x]
      BY <1>3, <2>1, <3>1, <3>2
    <3>4. ASSUME NEW x \in Nodes PROVE size'[x] >= size[x]
      <4>1. size[x] \in Nat /\ size'[x] \in Nat
        BY <1>3, <3>3
      <4>2. CASE x = node
        BY <2>6, <3>1, <3>3, <4>2
      <4>3. CASE x # node
        BY <3>3, <4>1, <4>3
      <4> QED
        BY <4>2, <4>3
    <3> QED
      BY <2>6, <3>1, <3>3, <3>4
  <2>9. OnlyTask(t)
    <3>1. world' = world /\ aliased' = aliased /\ updates' = updates
      BY <2>2
    <3> QED
      BY <2>5, <3>1 DEF OnlyTask
  <2>10. Shape(t)'
    <3>1. task[t].op \in world.calls
      BY <1>3 DEF FsInv, Shape
    <3> QED
      BY <1>3, <2>2, <2>4, <2>5, <3>1 DEF Shape, PathPcs, FilePcs, FileCalls
  <2>11. HasRoom'
    BY <2>2, <2>4, <2>5, <2>9, FileStepRoom
  <2>12. PositionsHold'
    <3>1. ASSUME ~world.smp, aliased = {}
          PROVE  /\ \A f \in Files \ {RootFile} : kf[f] # None /\ ~kf[f].moved => kf[f].pos <= size'[kf[f].node]
                 /\ \A u \in Tasks :
                    /\ task'[u].pc \in {"read", "write", "advance"} => task'[u].pos = kf[task'[u].k].pos
                    /\ task'[u].pc = "advance" => task'[u].pos + task'[u].got <= size'[kf[task'[u].k].node]
                                                  \/ task'[u].got = 0
      <4>1. ASSUME NEW u \in Tasks, u # t PROVE task'[u].pc = "idle"
        BY <1>3, <2>9, <3>1, <4>1, OthersIdle DEF OnlyTask
      <4>2. task[t].pos = kf[k].pos
        BY <1>1, <1>2, <3>1 DEF FsInv, PositionsHold
      <4>3. /\ task'[t].pos = kf[task'[t].k].pos
            /\ task'[t].pos + task'[t].got <= size'[kf[task'[t].k].node]
        <5>1. task[t].pos \in Nat /\ size'[node] \in Nat
          BY <1>2, <2>1, <2>8 DEF Call
        <5>2. task[t].pos + 1 <= size'[node]
          BY <2>8, <5>1
        <5> QED
          BY <2>1, <2>4, <2>5, <4>2, <5>2
      <4>4. ASSUME NEW f \in Files \ {RootFile}, kf[f] # None, ~kf[f].moved
            PROVE  kf[f].pos <= size'[kf[f].node]
        <5>1. kf[f].pos <= size[kf[f].node]
          BY <3>1, <4>4 DEF FsInv, PositionsHold
        <5>2. kf[f].node \in Nodes /\ kf[f].pos \in Nat
          BY <4>4 DEF FsInv, Stands, StoreTypes, KernelFile
        <5>3. PICK x \in Nodes, p \in Nat, c \in Nat, d \in Nat :
                x = kf[f].node /\ p = kf[f].pos /\ c = size[x] /\ d = size'[x]
          BY <1>3, <2>8, <5>2
        <5>4. p <= c /\ c <= d
          BY <2>8, <5>1, <5>3
        <5> QED
          BY <5>3, <5>4
      <4> QED
        BY <4>1, <4>3, <4>4
    <3> QED
      BY <2>2, <3>1 DEF PositionsHold
  <2>13. r.pc \notin {"cache", "insert", "link", "mount", "file"} /\ task[t].pc # "remove"
    BY <1>2, <2>4
  <2> QED
    BY <1>3, <2>2, <2>4, <2>5, <2>8, <2>10, <2>11, <2>12, <2>13, QuietKeeps
<1> QED
  BY <1>4, <1>5
-----------------------------------------------------------------------------
(* Steps that change names, caches or files *)

\* A step of t keeps the invariant when what it writes has its type and stands for the
\* right node.
LEMMA StepKeeps ==
  ASSUME FsInv, MapKept, NEW t \in Tasks, OnlyTask(t), NEW r \in Call,
         task' = [task EXCEPT ![t] = r], task[t].op # None \/ Alone(t),
         Refs' \subseteq Refs \cup {Shim(index, None)},
         saved \subseteq saved', saved' \subseteq Shims,
         mounts' \subseteq [id : Ids, node : Nodes \cup {Root}],
         \A x \in mounts' :
           \/ x \in mounts
           \/ /\ dmap'[x.id] = x.node
              /\ x.id # 0 => \A s \in Refs' : s.id = x.id => s \in saved',
         dir' \in [Names -> Nodes \cup {None}], fsCache' \in [Names -> Nodes \cup {None}],
         size' \in [Nodes -> Nat], made' \in 0..MaxNode,
         kf' \in [Files -> KernelFile \cup {None}], cache' \in [Names -> Shims \cup {None}],
         \A n \in Names : cache'[n] # None => cache'[n] \in Kept_Refs /\ dmap[cache'[n].id] # Root,
         r.pc \in {"insert", "link", "mount", "file"} => dmap'[r.shim.id] # Root,
         \A f \in Files : kf'[f] # None =>
           \/ /\ kf[f] # None /\ kf'[f].shim = kf[f].shim /\ kf'[f].node = kf[f].node
              /\ kf'[f].flags = kf[f].flags /\ kf'[f].writer = kf[f].writer
           \/ /\ kf'[f].shim \in Kept_Refs /\ kf'[f].node = dmap[kf'[f].shim.id]
              /\ kf'[f].node \in Nodes
              /\ kf'[f].flags \cap {"wr", "rdwr"} # {} => kf'[f].writer,
         \A u \in Tasks \ {t} : task[u].k \in Files => kf'[task[u].k] # None,
         Shape(t)', HasRoom', NamesHold', PositionsHold'
  PROVE  FsInv'
<1>1. task'[t] = r
  BY DEF FsInv, CallTypes
<1>2. StoreTypes'
  BY DEF FsInv, StoreTypes, MapKept, OnlyTask
<1>3. CallTypes' /\ \A u \in Tasks : Shape(u)'
  BY OthersKept
<1>4. Stands'
  <2>1. \A f \in Files : kf'[f] # None =>
           \/ kf[f] # None /\ kf'[f].shim = kf[f].shim /\ kf'[f].node = kf[f].node
           \/ /\ kf'[f].shim \in Kept_Refs /\ kf'[f].node = dmap[kf'[f].shim.id]
              /\ kf'[f].node \in Nodes
    OBVIOUS
  <2>2. task'[t].pc \in {"insert", "link", "mount", "file"} => dmap'[task'[t].shim.id] # Root
    BY <1>1
  <2> QED
    BY <2>1, <2>2, StandsKept
<1>5. OneCall'
  BY OneCallKept
<1>6. RightsHold'
  <2>1. \A f \in Files : kf'[f] # None =>
           \/ kf[f] # None /\ kf'[f].flags = kf[f].flags /\ kf'[f].writer = kf[f].writer
           \/ kf'[f].flags \cap {"wr", "rdwr"} # {} => kf'[f].writer
    OBVIOUS
  <2> QED
    BY <2>1, RightsKept
<1> QED
  BY <1>2, <1>3, <1>4, <1>5, <1>6 DEF FsInv, MapKept

\* On one CPU the caches are right after a step when what t wrote into them is.
LEMMA NamesSet ==
  ASSUME FsInv, MapKept, NEW t \in Tasks, OnlyTask(t), task[t].op # None \/ Alone(t),
         ~world.smp /\ "rename" \notin world.calls =>
           /\ \A n \in Names : fsCache'[n] # None => fsCache'[n] = dir'[n]
           /\ \A n \in Names : cache'[n] # None /\ (task'[t].pc = "remove" => task'[t].n # n) =>
                cache'[n] \in Kept_Refs /\ dmap[cache'[n].id] = dir'[n]
           /\ task'[t].pc = "cache" => task'[t].node = dir'[task'[t].n]
           /\ task'[t].pc = "insert" => dmap'[task'[t].shim.id] = dir'[task'[t].n]
  PROVE  NamesHold'
<1>1. /\ \A n \in Names : cache[n] # None => cache[n] \in Kept_Refs
      /\ \A u \in Tasks : task[u].held \subseteq Kept_Refs
      /\ Kept_Refs \subseteq Refs
  BY CachesRefer
<1>2. (/\ \A n \in Names : cache[n] # None => cache[n] \in Kept_Refs
       /\ \A u \in Tasks : task[u].held \subseteq Kept_Refs
       /\ Kept_Refs \subseteq Refs)'
  BY CachesRefer, PTL
<1>3. \A s \in Kept_Refs : s \in Kept_Refs' => dmap'[s.id] = dmap[s.id]
  BY <1>1, <1>2 DEF MapKept, FsInv, OneShim
<1>4. ASSUME ~world.smp, "rename" \notin world.calls
      PROVE  /\ \A n \in Names : fsCache'[n] # None => fsCache'[n] = dir'[n]
             /\ \A n \in Names : cache'[n] # None /\ (\A u \in Tasks : task'[u].pc = "remove" => task'[u].n # n)
                                   => dmap'[cache'[n].id] = dir'[n]
             /\ \A u \in Tasks : /\ task'[u].pc = "cache" => task'[u].node = dir'[task'[u].n]
                                 /\ task'[u].pc = "insert" => dmap'[task'[u].shim.id] = dir'[task'[u].n]
  <2>1. ASSUME NEW u \in Tasks, u # t PROVE task'[u].pc = "idle"
    BY <1>4, <2>1, OthersIdle DEF OnlyTask
  <2>2. ASSUME NEW n \in Names, cache'[n] # None,
               \A u \in Tasks : task'[u].pc = "remove" => task'[u].n # n
        PROVE  dmap'[cache'[n].id] = dir'[n]
    <3>1. cache'[n] \in Kept_Refs /\ dmap[cache'[n].id] = dir'[n]
      BY <1>4, <2>2
    <3>2. cache'[n] \in Kept_Refs'
      BY <1>2, <2>2
    <3> QED
      BY <1>3, <3>1, <3>2
  <2> QED
    BY <1>4, <2>1, <2>2
<1> QED
  BY <1>4 DEF NamesHold, OnlyTask
\* What a call on its way through the names has.
LEMMA AtName ==
  ASSUME FsInv, NEW t \in Tasks, task[t].pc \in PathPcs
  PROVE  /\ task[t] \in Call /\ task[t].op # None /\ task[t].op \in world.calls /\ task[t].n \in Names
         /\ dir \in [Names -> Nodes \cup {None}] /\ fsCache \in [Names -> Nodes \cup {None}]
         /\ cache \in [Names -> Shims \cup {None}] /\ task \in [Tasks -> Call]
         /\ task[t].held \subseteq Kept_Refs /\ made \in 0..MaxNode
         /\ \A n \in Names : cache[n] # None =>
              cache[n] \in Shims /\ cache[n] \in Kept_Refs /\ dmap[cache[n].id] # Root
         /\ \A s \in Kept_Refs : s \in Shims /\ s.id \in Ids /\ s.id < index /\ dmap[s.id] # None
<1>1. task[t].op # None /\ task[t].op \in world.calls
  BY DEF FsInv, Shape, Idle, PathPcs
<1>2. \A s \in Kept_Refs : s \in Shims /\ s.id \in Ids /\ s.id < index /\ dmap[s.id] # None
  BY CachesRefer DEF FsInv, Counted, OneShim, Shims
<1>3. \A n \in Names : cache[n] # None =>
        cache[n] \in Shims /\ cache[n] \in Kept_Refs /\ dmap[cache[n].id] # Root
  BY CachesRefer DEF FsInv, Stands, StoreTypes
<1> QED
  BY <1>1, <1>2, <1>3, CachesRefer DEF FsInv, StoreTypes, CallTypes, Shape

\* A step on the way through the names touches no file and no mount point.
LEMMA PathKeeps ==
  ASSUME FsInv, MapKept, NEW t \in Tasks, OnlyTask(t), NEW r \in Call,
         task' = [task EXCEPT ![t] = r], task[t].op # None,
         Refs' \subseteq Refs \cup {Shim(index, None)},
         UNCHANGED <<size, kf, mounts, saved>>,
         dir' \in [Names -> Nodes \cup {None}], fsCache' \in [Names -> Nodes \cup {None}],
         made' \in 0..MaxNode, cache' \in [Names -> Shims \cup {None}],
         \A n \in Names : cache'[n] # None => cache'[n] \in Kept_Refs /\ dmap[cache'[n].id] # Root,
         r.pc \in {"insert", "link", "mount", "file"} => dmap'[r.shim.id] # Root,
         r.pc \notin {"read", "write", "advance"},
         Shape(t)', HasRoom', NamesHold'
  PROVE  FsInv'
<1>1. task'[t] = r
  BY DEF FsInv, CallTypes
<1>2. PositionsHold'
  <2>1. \A f \in Files \ {RootFile} : kf'[f] # None /\ ~kf'[f].moved =>
           \/ kf[f] # None /\ ~kf[f].moved /\ kf'[f].pos = kf[f].pos /\ kf'[f].node = kf[f].node
           \/ aliased = {} => kf'[f].pos <= size[kf'[f].node]
    OBVIOUS
  <2> QED
    BY <1>1, <2>1, PositionsKept
<1>3. \A f \in Files : kf'[f] # None =>
        /\ kf[f] # None /\ kf'[f].shim = kf[f].shim /\ kf'[f].node = kf[f].node
        /\ kf'[f].flags = kf[f].flags /\ kf'[f].writer = kf[f].writer
  OBVIOUS
<1>4. \A u \in Tasks \ {t} : task[u].k \in Files => kf'[task[u].k] # None
  BY DEF FsInv, Shape
<1>5. /\ saved \subseteq saved' /\ saved' \subseteq Shims
      /\ mounts' \subseteq [id : Ids, node : Nodes \cup {Root}] /\ \A x \in mounts' : x \in mounts
      /\ size' \in [Nodes -> Nat] /\ kf' \in [Files -> KernelFile \cup {None}]
  BY DEF FsInv, StoreTypes
<1> QED
  BY <1>2, <1>3, <1>4, <1>5, StepKeeps

\* A call that ends asks for nothing more.
LEMMA EndRoom ==
  ASSUME FsInv, NEW t \in Tasks, OnlyTask(t), task'[t].pc \in {"idle", "mount", "file", "remove", "query"},
         index' = index, made' = made
  PROVE  HasRoom'
<1>1. t \notin TakesId' /\ t \notin TakesTwo' /\ t \notin TakesNode'
  BY DEF TakesId, TakesTwo, TakesNode
<1>2. index' = index + 0 /\ made' = made + 0
  BY DEF FsInv, StoreTypes
<1> QED
  BY <1>1, <1>2, RoomKept

\* Creating a name; another call may have created it since the lookup.
LEMMA CreateKeeps ==
  ASSUME FsInv, NEW t \in Tasks, create(t)
  PROVE  FsInv'
<1>1. PICK n : n = task[t].n
  OBVIOUS
<1>2. task[t].pc = "create" /\ task[t].pc \in PathPcs
  BY DEF create, PathPcs
<1>3. /\ task[t] \in Call /\ task[t].op # None /\ task[t].op \in world.calls /\ n \in Names
      /\ dir \in [Names -> Nodes \cup {None}] /\ fsCache \in [Names -> Nodes \cup {None}]
      /\ cache \in [Names -> Shims \cup {None}] /\ task \in [Tasks -> Call] /\ made \in 0..MaxNode
      /\ task[t].op # "link" /\ task[t].m \in Names /\ task[t].held = {}
      /\ \A x \in Names : cache[x] # None =>
           cache[x] \in Kept_Refs /\ dmap[cache[x].id] # Root /\ dmap[cache[x].id] # None
  BY <1>1, <1>2, AtName DEF FsInv, Shape
<1>4. UNCHANGED <<world, dmap, index, fsCache, size, cache, kf, mounts, saved, updates, aliased>>
  BY DEF create
<1>5. CASE dir[n] # None
  <2>1. /\ dir' = dir /\ made' = made /\ task' = [task EXCEPT ![t] = Idle] /\ task'[t] = Idle
    BY <1>1, <1>3, <1>5 DEF create, End
  <2>2. Idle \in Call /\ Idle.held = task[t].held /\ Idle.pc = "idle" /\ Idle.op = None /\ Idle.k = None
    BY <1>3, IdleIsCall DEF Idle
  <2>3. MapKept /\ OnlyTask(t) /\ Refs' = Refs
    BY <1>4, <2>1, <2>2, QuietStep
  <2>4. Shape(t)'
    BY <2>1, <2>2, FsDomainAssumption DEF Shape, PathPcs, FilePcs, FileCalls
  <2>5. HasRoom'
    BY <1>4, <2>1, <2>2, <2>3, EndRoom
  <2>6. NamesHold'
    BY <1>2, <1>4, <2>1, <2>2, <2>3, NamesKept
  <2> QED
    BY <1>3, <1>4, <2>1, <2>2, <2>3, <2>4, <2>5, <2>6, PathKeeps
<1>6. CASE dir[n] = None
  <2>1. /\ made' = made + 1 /\ dir' = [dir EXCEPT ![n] = made']
        /\ task' = [task EXCEPT ![t].pc = "cache", ![t].node = made']
    BY <1>1, <1>6 DEF create
  <2>2. t \in TakesNode /\ made' \in Nodes
    <3>1. t \in TakesNode
      BY <1>2 DEF TakesNode
    <3> QED
      BY <2>1, <3>1, RoomToTake
  <2>3. PICK r : r = [task[t] EXCEPT !.pc = "cache", !.node = made']
    OBVIOUS
  <2>4. /\ r \in Call /\ r.pc = "cache" /\ r.node = made' /\ r.op = task[t].op /\ r.n = n
        /\ r.m = task[t].m /\ r.k = task[t].k /\ r.held = task[t].held
    BY <1>1, <1>3, <2>2, <2>3 DEF Call, PathPcs
  <2>5. task' = [task EXCEPT ![t] = r] /\ task'[t] = r
    BY <1>3, <2>1, <2>3
  <2>6. MapKept /\ OnlyTask(t) /\ Refs' = Refs
    BY <1>4, <2>4, <2>5, QuietStep
  <2>7. Shape(t)'
    <3>1. task[t].k \in Files => kf[task[t].k] # None
      BY DEF FsInv, Shape
    <3> QED
      BY <1>3, <1>4, <2>2, <2>4, <2>5, <3>1 DEF Shape, PathPcs, FilePcs, FileCalls
  <2>8. HasRoom' /\ made' \in 0..MaxNode
    <3>1. t \in TakesId
      BY <1>2 DEF TakesId
    <3>2. t \notin TakesTwo' /\ t \notin TakesNode'
      BY <1>3, <2>4, <2>5 DEF TakesTwo, TakesNode
    <3>3. index' = index + 0
      BY <1>4 DEF FsInv, StoreTypes
    <3> QED
      BY <2>1, <2>2, <2>6, <3>1, <3>2, <3>3, RoomKept
  <2>9. dir' \in [Names -> Nodes \cup {None}] /\ dir'[n] = made' /\ \A x \in Names : x # n => dir'[x] = dir[x]
    BY <1>3, <2>1, <2>2
  <2>10. NamesHold'
    <3>1. ASSUME ~world.smp, "rename" \notin world.calls
          PROVE  /\ \A x \in Names : fsCache[x] # None => x # n /\ fsCache[x] = dir[x]
                 /\ \A x \in Names : cache[x] # None => x # n /\ dmap[cache[x].id] = dir[x]
      <4>1. \A u \in Tasks : task[u].pc # "remove"
        BY <1>2, <1>3, <3>1, OthersIdle
      <4> QED
        BY <1>3, <1>6, <3>1, <4>1 DEF FsInv, NamesHold
    <3> QED
      BY <1>3, <1>4, <2>4, <2>5, <2>6, <2>9, <3>1, NamesSet
  <2> QED
    BY <1>3, <1>4, <2>4, <2>5, <2>6, <2>7, <2>8, <2>9, <2>10, PathKeeps
<1> QED
  BY <1>5, <1>6
\* A call that ends leaves no trace of itself.
LEMMA EndShape ==
  ASSUME NEW t \in Tasks, task'[t] = Idle
  PROVE  Shape(t)'
BY FsDomainAssumption DEF Shape, Idle, PathPcs, FilePcs, FileCalls

\* A name goes from the directory and from the cache of the file system; until remove the
\* cache of the vfs domain still has it.
LEMMA UnlinkKeeps ==
  ASSUME FsInv, NEW t \in Tasks, unlink(t)
  PROVE  FsInv'
<1>1. PICK n : n = task[t].n
  OBVIOUS
<1>2. task[t].pc = "unlink" /\ task[t].pc \in PathPcs
  BY DEF unlink, PathPcs
<1>3. /\ task[t] \in Call /\ task[t].op # None /\ task[t].op \in world.calls /\ n \in Names
      /\ dir \in [Names -> Nodes \cup {None}] /\ fsCache \in [Names -> Nodes \cup {None}]
      /\ cache \in [Names -> Shims \cup {None}] /\ task \in [Tasks -> Call] /\ made \in 0..MaxNode
      /\ task[t].held = {}
      /\ \A x \in Names : cache[x] # None => cache[x] \in Kept_Refs /\ dmap[cache[x].id] # Root
  BY <1>1, <1>2, AtName DEF FsInv, Shape
<1>4. UNCHANGED <<world, dmap, index, size, made, cache, kf, mounts, saved, updates, aliased>>
  BY DEF unlink
<1>5. CASE dir[n] = None
  <2>1. /\ dir' = dir /\ fsCache' = fsCache /\ task' = [task EXCEPT ![t] = Idle] /\ task'[t] = Idle
    BY <1>1, <1>3, <1>5 DEF unlink, End
  <2>2. Idle \in Call /\ Idle.held = task[t].held /\ Idle.pc = "idle"
    BY <1>3, IdleIsCall
  <2>3. MapKept /\ OnlyTask(t) /\ Refs' = Refs
    BY <1>4, <2>1, <2>2, QuietStep
  <2>4. Shape(t)' /\ HasRoom'
    BY <1>4, <2>1, <2>2, <2>3, EndRoom, EndShape
  <2>5. NamesHold'
    BY <1>2, <1>4, <2>1, <2>2, <2>3, NamesKept
  <2> QED
    BY <1>3, <1>4, <2>1, <2>2, <2>3, <2>4, <2>5, PathKeeps
<1>6. CASE dir[n] # None
  <2>1. /\ dir' = [dir EXCEPT ![n] = None] /\ fsCache' = [fsCache EXCEPT ![n] = None]
        /\ task' = [task EXCEPT ![t].pc = "remove"]
    BY <1>1, <1>6 DEF unlink, Go
  <2>2. PICK r : r = [task[t] EXCEPT !.pc = "remove"]
    OBVIOUS
  <2>3. /\ r \in Call /\ r.pc = "remove" /\ r.op = task[t].op /\ r.n = n
        /\ r.m = task[t].m /\ r.k = task[t].k /\ r.held = task[t].held
    BY <1>1, <1>3, <2>2 DEF Call, PathPcs
  <2>4. task' = [task EXCEPT ![t] = r] /\ task'[t] = r
    BY <1>3, <2>1, <2>2
  <2>5. MapKept /\ OnlyTask(t) /\ Refs' = Refs
    BY <1>4, <2>3, <2>4, QuietStep
  <2>6. Shape(t)'
    <3>1. task[t].k \in Files => kf[task[t].k] # None
      BY DEF FsInv, Shape
    <3> QED
      BY <1>3, <1>4, <2>3, <2>4, <3>1 DEF Shape, PathPcs, FilePcs, FileCalls
  <2>7. HasRoom'
    BY <1>4, <2>3, <2>4, <2>5, EndRoom
  <2>8. /\ dir' \in [Names -> Nodes \cup {None}] /\ \A x \in Names : x # n => dir'[x] = dir[x]
        /\ fsCache' \in [Names -> Nodes \cup {None}] /\ fsCache'[n] = None
        /\ \A x \in Names : x # n => fsCache'[x] = fsCache[x]
    BY <1>3, <2>1
  <2>9. NamesHold'
    <3>1. ASSUME ~world.smp, "rename" \notin world.calls
          PROVE  /\ \A x \in Names : fsCache[x] # None => fsCache[x] = dir[x]
                 /\ \A x \in Names : cache[x] # None => dmap[cache[x].id] = dir[x]
      <4>1. \A u \in Tasks : task[u].pc # "remove"
        BY <1>2, <1>3, <3>1, OthersIdle
      <4> QED
        BY <1>3, <3>1, <4>1 DEF FsInv, NamesHold
    <3> QED
      BY <1>3, <1>4, <2>3, <2>4, <2>5, <2>8, <3>1, NamesSet
  <2> QED
    BY <1>3, <1>4, <2>3, <2>4, <2>5, <2>6, <2>7, <2>8, <2>9, PathKeeps
<1> QED
  BY <1>5, <1>6

\* After remove neither cache has the name.
LEMMA RemoveKeeps ==
  ASSUME FsInv, NEW t \in Tasks, remove(t)
  PROVE  FsInv'
<1>1. PICK n : n = task[t].n
  OBVIOUS
<1>2. task[t].pc = "remove" /\ task[t].pc \in PathPcs
  BY DEF remove, PathPcs
<1>3. /\ task[t] \in Call /\ task[t].op # None /\ n \in Names
      /\ dir \in [Names -> Nodes \cup {None}] /\ fsCache \in [Names -> Nodes \cup {None}]
      /\ cache \in [Names -> Shims \cup {None}] /\ task \in [Tasks -> Call] /\ made \in 0..MaxNode
      /\ \A x \in Names : cache[x] # None => cache[x] \in Kept_Refs /\ dmap[cache[x].id] # Root
  BY <1>1, <1>2, AtName
<1>4. /\ UNCHANGED <<world, index, dir, size, made, kf, mounts, saved, updates, aliased>>
      /\ Settle(dmap) /\ task' = [task EXCEPT ![t] = Idle] /\ task'[t] = Idle
      /\ fsCache' = [fsCache EXCEPT ![n] = None] /\ cache' = [cache EXCEPT ![n] = None]
  BY <1>1, <1>3 DEF remove, End
<1>5. /\ fsCache' \in [Names -> Nodes \cup {None}] /\ fsCache'[n] = None
      /\ \A x \in Names : x # n => fsCache'[x] = fsCache[x]
      /\ cache' \in [Names -> Shims \cup {None}] /\ cache'[n] = None
      /\ \A x \in Names : x # n => cache'[x] = cache[x]
  BY <1>3, <1>4
<1>6. Idle \in Call /\ Idle.held \subseteq Kept_Refs /\ Idle.pc = "idle"
  BY IdleIsCall
<1>7. MapKept /\ OnlyTask(t) /\ Refs' \subseteq Refs
  <2>1. \A x \in Names : cache'[x] # None => cache'[x] \in Kept_Refs
    BY <1>3, <1>5
  <2>2. saved \subseteq saved' /\ saved' \subseteq Kept_Refs
    BY <1>4, RefsAre
  <2>3. \A f \in Files : kf'[f] # None => kf'[f].shim \in Refs
    BY <1>4, FilesRefer
  <2> QED
    BY <1>4, <1>6, <2>1, <2>2, <2>3, DropStep
<1>8. Shape(t)' /\ HasRoom'
  BY <1>4, <1>6, <1>7, EndRoom, EndShape
<1>9. NamesHold'
  <2>1. ASSUME ~world.smp, "rename" \notin world.calls
        PROVE  /\ \A x \in Names : fsCache[x] # None => fsCache[x] = dir[x]
               /\ \A x \in Names : x # n /\ cache[x] # None => dmap[cache[x].id] = dir[x]
    <3>1. \A u \in Tasks : task[u].pc = "remove" => task[u].n = n
      BY <1>1, <1>2, <1>3, <2>1, OthersIdle
    <3> QED
      BY <1>3, <2>1, <3>1 DEF FsInv, NamesHold
  <2> QED
    BY <1>3, <1>4, <1>5, <1>6, <1>7, <2>1, NamesSet
<1>10. \A x \in Names : cache'[x] # None => cache'[x] \in Kept_Refs /\ dmap[cache'[x].id] # Root
  BY <1>3, <1>5
<1> QED
  BY <1>3, <1>4, <1>5, <1>6, <1>7, <1>8, <1>9, <1>10, PathKeeps

\* After a rename the caches may be wrong, which is why NamesHold is about programs that do
\* not rename.
LEMMA RenameKeeps ==
  ASSUME FsInv, NEW t \in Tasks, rename(t)
  PROVE  FsInv'
<1>1. PICK n, m : n = task[t].n /\ m = task[t].m
  OBVIOUS
<1>2. task[t].pc = "rename" /\ task[t].pc \in PathPcs
  BY DEF rename, PathPcs
<1>3. /\ task[t] \in Call /\ task[t].op # None /\ n \in Names /\ m \in Names
      /\ task[t].op \in world.calls /\ task[t].op = "rename"
      /\ dir \in [Names -> Nodes \cup {None}] /\ fsCache \in [Names -> Nodes \cup {None}]
      /\ cache \in [Names -> Shims \cup {None}] /\ task \in [Tasks -> Call] /\ made \in 0..MaxNode
      /\ \A x \in Names : cache[x] # None => cache[x] \in Kept_Refs /\ dmap[cache[x].id] # Root
  BY <1>1, <1>2, AtName DEF FsInv, Shape
<1>4. /\ UNCHANGED <<world, index, fsCache, size, made, kf, mounts, saved, updates, aliased>>
      /\ Settle(dmap) /\ task' = [task EXCEPT ![t] = Idle] /\ task'[t] = Idle
  BY <1>3 DEF rename, End
<1>5. /\ dir' \in [Names -> Nodes \cup {None}] /\ cache' \in [Names -> Shims \cup {None}]
      /\ \A x \in Names : cache'[x] \in {cache[x], None}
  <2>1. CASE dir' = dir /\ cache' = cache
    BY <1>3, <2>1
  <2>2. CASE ~(dir' = dir /\ cache' = cache)
    <3>1. /\ dir' = [dir EXCEPT ![m] = dir[n], ![n] = None]
          /\ \E gone \in SUBSET {n, m} :
                 cache' = [x \in Names |-> IF x \in gone THEN None ELSE cache[x]]
      BY <1>1, <2>2 DEF rename
    <3> QED
      BY <1>3, <3>1
  <2> QED
    BY <2>1, <2>2
<1>6. Idle \in Call /\ Idle.held \subseteq Kept_Refs /\ Idle.pc = "idle"
  BY IdleIsCall
<1>7. MapKept /\ OnlyTask(t) /\ Refs' \subseteq Refs
  <2>1. \A x \in Names : cache'[x] # None => cache'[x] \in Kept_Refs
    BY <1>3, <1>5
  <2>2. saved \subseteq saved' /\ saved' \subseteq Kept_Refs
    BY <1>4, RefsAre
  <2>3. \A f \in Files : kf'[f] # None => kf'[f].shim \in Refs
    BY <1>4, FilesRefer
  <2> QED
    BY <1>4, <1>6, <2>1, <2>2, <2>3, DropStep
<1>8. Shape(t)' /\ HasRoom'
  BY <1>4, <1>6, <1>7, EndRoom, EndShape
<1>9. NamesHold'
  BY <1>3, <1>4 DEF NamesHold
<1>10. \A x \in Names : cache'[x] # None => cache'[x] \in Kept_Refs /\ dmap[cache'[x].id] # Root
  BY <1>3, <1>5
<1> QED
  BY <1>3, <1>4, <1>5, <1>6, <1>7, <1>8, <1>9, <1>10, PathKeeps
\* A call that gets its fresh id goes on with a shim that stands for the node it found.
LEMMA FreshKeeps ==
  ASSUME FsInv, NEW t \in Tasks, task[t].op # None, task[t].pc # "remove",
         NEW p \in {"insert", "link", "mount", "file", "query"}, Fresh(t, p), t \in TakesId,
         NEW node \in Nodes \cup {Root}, p # "query" => node \in Nodes, Settle(Grown(node)),
         UNCHANGED <<world, dir, size, made, cache, kf, mounts, saved, updates, aliased>>,
         fsCache' \in [Names -> Nodes \cup {None}],
         p = "link" \/ (p = "insert" /\ task[t].op = "link" /\ task[t].m # None) => t \in TakesTwo,
         p = "link" => task[t].m \in Names,
         p # "query" => task[t].n \in Names, p = "query" => task[t].k \in Files,
         ~world.smp /\ "rename" \notin world.calls =>
           /\ \A n \in Names : fsCache'[n] # None => fsCache'[n] = dir[n]
           /\ p = "insert" => node = dir[task[t].n]
  PROVE  FsInv'
<1>1. PICK new : new = Shim(index, None)
  OBVIOUS
<1>2. /\ index \in Ids /\ index' = index + 1 /\ new \in Shims /\ new.id = index
      /\ task \in [Tasks -> Call] /\ task[t] \in Call /\ made \in 0..MaxNode
  <2>1. index \in Ids
    BY RoomToTake
  <2> QED
    BY <1>1, <2>1 DEF Fresh, FsInv, StoreTypes, CallTypes, Shim, Shims
<1>3. PICK r : r = [task[t] EXCEPT !.pc = p, !.shim = new, !.held = @ \cup {new}]
  OBVIOUS
<1>4. /\ r \in Call /\ r.pc = p /\ r.shim = new /\ r.held = task[t].held \cup {new}
      /\ r.op = task[t].op /\ r.n = task[t].n /\ r.m = task[t].m /\ r.k = task[t].k
  BY <1>2, <1>3, ZenonT(60) DEF Call, PathPcs, FilePcs, FileCalls
<1>5. task' = [task EXCEPT ![t] = r] /\ task'[t] = r
  BY <1>1, <1>2, <1>3 DEF Fresh
<1>6. MapKept /\ OnlyTask(t) /\ Refs' \subseteq Refs \cup {Shim(index, None)} /\ dmap'[index] = node
  BY <1>1, <1>2, <1>4, <1>5, FreshStep
<1>7. Shape(t)'
  <2>1. task[t].k \in Files => kf[task[t].k] # None
    BY DEF FsInv, Shape
  <2>2. task[t].op \in world.calls
    BY DEF FsInv, Shape
  <2> QED
    BY <1>4, <1>5, <2>1, <2>2 DEF Shape, PathPcs, FilePcs, FileCalls
<1>8. HasRoom'
  <2>1. t \notin TakesTwo' /\ t \notin TakesNode'
    BY <1>4, <1>5 DEF TakesTwo, TakesNode
  <2>2. t \notin TakesId' \/ t \in TakesTwo
    BY <1>4, <1>5 DEF TakesId
  <2>3. made' = made + 0
    BY <1>2
  <2> QED
    BY <1>2, <1>6, <2>1, <2>2, <2>3, RoomKept
<1>9. \A n \in Names : cache[n] # None => cache[n] \in Kept_Refs /\ dmap[cache[n].id] # Root
  BY CachesRefer DEF FsInv, Stands
<1>10. NamesHold'
  <2>1. ASSUME ~world.smp, "rename" \notin world.calls
        PROVE  \A n \in Names : cache[n] # None => dmap[cache[n].id] = dir[n]
    <3>1. \A u \in Tasks : task[u].pc # "remove"
      BY <2>1, OthersIdle
    <3> QED
      BY <2>1, <3>1 DEF FsInv, NamesHold
  <2> QED
    BY <1>2, <1>4, <1>5, <1>6, <1>9, <2>1, NamesSet
<1>11. /\ UNCHANGED <<size, kf, mounts, saved>>
       /\ dir' \in [Names -> Nodes \cup {None}] /\ cache' \in [Names -> Shims \cup {None}]
       /\ made' \in 0..MaxNode /\ cache' = cache
  BY <1>2 DEF FsInv, StoreTypes
<1>12. r.pc \in {"insert", "link", "mount", "file"} => dmap'[r.shim.id] # Root
  BY <1>2, <1>4, <1>6 DEF Root, Nodes
<1> QED
  BY <1>4, <1>5, <1>6, <1>7, <1>8, <1>9, <1>10, <1>11, <1>12, PathKeeps, ZenonT(60)

\* A dentry of a name that lookup or create found enters the cache of the file system.
LEMMA CacheDentryKeeps ==
  ASSUME FsInv, NEW t \in Tasks, CacheDentry(t)
  PROVE  FsInv'
<1>1. task[t].pc = "cache" /\ task[t].pc \in PathPcs
  BY DEF CacheDentry, PathPcs
<1>2. PICK n \in Names, node \in Nodes : n = task[t].n /\ node = task[t].node
  BY <1>1, AtName DEF FsInv, Shape
<1>3. /\ task[t].op # None /\ dir \in [Names -> Nodes \cup {None}]
      /\ fsCache \in [Names -> Nodes \cup {None}]
  BY <1>1, AtName
<1>4. /\ fsCache' = [fsCache EXCEPT ![n] = node] /\ Fresh(t, "insert") /\ Settle(Grown(node))
      /\ UNCHANGED <<world, dir, size, made, cache, kf, mounts, saved, updates, aliased>>
  BY <1>2 DEF CacheDentry
<1>5. /\ fsCache' \in [Names -> Nodes \cup {None}] /\ fsCache'[n] = node
      /\ \A x \in Names : x # n => fsCache'[x] = fsCache[x]
  BY <1>3, <1>4
<1>6. t \in TakesId /\ (task[t].op = "link" /\ task[t].m # None => t \in TakesTwo)
  BY <1>1 DEF TakesId, TakesTwo
<1>7. ~world.smp /\ "rename" \notin world.calls =>
        /\ \A x \in Names : fsCache'[x] # None => fsCache'[x] = dir[x]
        /\ node = dir[task[t].n]
  BY <1>1, <1>2, <1>5 DEF FsInv, NamesHold
<1>8. PICK p \in {"insert", "link", "mount", "file", "query"} : p = "insert"
  OBVIOUS
<1>9. node \in Nodes \cup {Root} /\ p # "query" /\ p # "link" /\ task[t].pc # "remove"
  BY <1>1, <1>8
<1> QED
  BY <1>2, <1>3, <1>4, <1>5, <1>6, <1>7, <1>8, <1>9, FreshKeeps

\* A step after which the call has the same shims, names and file; the caches do not change.
LEMMA GoKeeps ==
  ASSUME FsInv, NEW t \in Tasks, task[t].op # None, task[t].pc # "remove",
         NEW r \in Call, task' = [task EXCEPT ![t] = r], r.held \subseteq Kept_Refs,
         r.pc \notin {"read", "write", "advance", "insert"},
         r.pc \in {"link", "mount", "file"} => dmap[r.shim.id] # Root /\ r.shim.id \in Ids /\ r.shim.id < index,
         UNCHANGED <<world, index, dir, fsCache, size, made, cache, kf, mounts, saved, updates, aliased>>,
         Settle(dmap),
         r.pc = "cache" => r.n \in Names /\ r.node = dir[r.n],
         t \in TakesId' => t \in TakesId, t \in TakesTwo' => t \in TakesTwo,
         t \in TakesNode' => t \in TakesNode, Shape(t)'
  PROVE  FsInv'
<1>1. task'[t] = r
  BY DEF FsInv, CallTypes
<1>2. \A n \in Names : cache[n] # None => cache[n] \in Kept_Refs /\ dmap[cache[n].id] # Root
  BY CachesRefer DEF FsInv, Stands
<1>3. MapKept /\ OnlyTask(t) /\ Refs' \subseteq Refs
  <2>1. \A n \in Names : cache'[n] # None => cache'[n] \in Kept_Refs
    BY <1>2
  <2>2. saved \subseteq saved' /\ saved' \subseteq Kept_Refs
    BY RefsAre
  <2>3. \A f \in Files : kf'[f] # None => kf'[f].shim \in Refs
    BY FilesRefer
  <2> QED
    BY <2>1, <2>2, <2>3, DropStep
<1>4. HasRoom' /\ made' \in 0..MaxNode
  <2>1. index' = index + 0 /\ made' = made + 0
    BY DEF FsInv, StoreTypes
  <2> QED
    BY <1>3, <2>1, RoomKept
<1>5. NamesHold'
  <2>1. ASSUME ~world.smp, "rename" \notin world.calls
        PROVE  /\ \A n \in Names : fsCache[n] # None => fsCache[n] = dir[n]
               /\ \A n \in Names : cache[n] # None => dmap[cache[n].id] = dir[n]
    <3>1. \A u \in Tasks : task[u].pc # "remove"
      BY <2>1, OthersIdle
    <3> QED
      BY <2>1, <3>1 DEF FsInv, NamesHold
  <2> QED
    BY <1>1, <1>2, <1>3, <2>1, NamesSet
<1>6. r.pc \in {"insert", "link", "mount", "file"} => dmap'[r.shim.id] # Root
  BY <1>3, FsDomainAssumption DEF MapKept
<1>7. dir' \in [Names -> Nodes \cup {None}] /\ fsCache' \in [Names -> Nodes \cup {None}]
      /\ cache' \in [Names -> Shims \cup {None}]
  BY DEF FsInv, StoreTypes
<1> QED
  BY <1>1, <1>2, <1>3, <1>4, <1>5, <1>6, <1>7, PathKeeps
\* A call that ends without having changed anything drops its shims.
LEMMA PathEnds ==
  ASSUME FsInv, NEW t \in Tasks, task[t].op # None, task[t].pc # "remove", End(t), Settle(dmap),
         UNCHANGED <<world, index, dir, fsCache, size, made, cache, kf, mounts, saved, updates, aliased>>
  PROVE  FsInv'
<1>1. PICK r \in Call : r = Idle
  BY IdleIsCall
<1>2. task' = [task EXCEPT ![t] = r] /\ task'[t] = r
  BY <1>1 DEF End, FsInv, CallTypes
<1>3. r.held \subseteq Kept_Refs /\ r.pc = "idle"
  BY <1>1, IdleIsCall
<1>4. t \notin TakesId' /\ t \notin TakesTwo' /\ t \notin TakesNode'
  BY <1>2, <1>3 DEF TakesId, TakesTwo, TakesNode
<1>5. Shape(t)'
  BY <1>1, <1>2, EndShape
<1> QED
  BY <1>1, <1>2, <1>3, <1>4, <1>5, GoKeeps
\* find: a child that the vfs domain has, one that the file system has, or none.
LEMMA FindKeeps ==
  ASSUME FsInv, NEW t \in Tasks, find(t)
  PROVE  FsInv'
<1>1. PICK n, p : n = task[t].n /\ p = Found(t)
  OBVIOUS
<1>2. task[t].pc = "find" /\ task[t].pc \in PathPcs
  BY DEF find, PathPcs
<1>3. /\ task[t] \in Call /\ task[t].op # None /\ task[t].op \in world.calls /\ n \in Names
      /\ dir \in [Names -> Nodes \cup {None}] /\ fsCache \in [Names -> Nodes \cup {None}]
      /\ task \in [Tasks -> Call] /\ task[t].m \in Names /\ task[t].held = {}
      /\ \A x \in Names : cache[x] # None =>
           /\ cache[x] \in Shims /\ cache[x] \in Kept_Refs /\ dmap[cache[x].id] # Root
           /\ cache[x].id \in Ids /\ cache[x].id < index
  BY <1>1, <1>2, AtName DEF FsInv, Shape
<1>4. p \in {"link", "mount", "file"} /\ (p = "link" <=> task[t].op = "link")
  BY <1>1 DEF Found
<1>5. /\ UNCHANGED <<world, fsVars, cache, kf, mounts, saved, updates, aliased>>
      /\ UNCHANGED <<world, dir, fsCache, size, made, cache, kf, mounts, saved, updates, aliased>>
      /\ Settle(Grown(fsCache[n]))
  BY <1>1 DEF find, fsVars
<1>6. t \in TakesId /\ (task[t].op = "link" => t \in TakesTwo)
  BY <1>2 DEF TakesId, TakesTwo
<1>7. task[t].k \in Files => kf[task[t].k] # None
  BY DEF FsInv, Shape
<1>8. CASE cache[n] # None /\ index' = index
           /\ task' = [task EXCEPT ![t].pc = p, ![t].shim = cache[n], ![t].held = @ \cup {cache[n]}]
  <2>1. PICK s \in Shims : s = cache[n]
    BY <1>3, <1>8
  <2>2. PICK r : r = [task[t] EXCEPT !.pc = p, !.shim = s, !.held = @ \cup {s}]
    OBVIOUS
  <2>3. /\ r \in Call /\ r.pc = p /\ r.shim = s /\ r.held = {s}
        /\ r.op = task[t].op /\ r.n = n /\ r.m = task[t].m /\ r.k = task[t].k
    BY <1>1, <1>3, <1>4, <2>1, <2>2 DEF Call, PathPcs
  <2>4. task' = [task EXCEPT ![t] = r] /\ task'[t] = r
    BY <1>3, <1>8, <2>1, <2>2
  <2>5. Shape(t)'
    BY <1>3, <1>4, <1>5, <1>7, <2>3, <2>4 DEF Shape, PathPcs, FilePcs, FileCalls
  <2>6. /\ t \in TakesId' => t \in TakesId
        /\ t \in TakesTwo' => t \in TakesTwo
        /\ t \in TakesNode' => t \in TakesNode
    BY <1>4, <1>6, <2>3, <2>4 DEF TakesTwo, TakesNode
  <2>7. Settle(dmap)
    BY <1>5, <1>8 DEF Grown
  <2>8. /\ r.held \subseteq Kept_Refs /\ dmap[r.shim.id] # Root /\ r.shim.id \in Ids
        /\ r.shim.id < index
        /\ r.pc \notin {"read", "write", "advance", "insert", "cache"} /\ task[t].pc # "remove"
    BY <1>2, <1>3, <1>4, <1>8, <2>1, <2>3
  <2> QED
    BY <1>3, <1>5, <1>8, <2>3, <2>4, <2>5, <2>6, <2>7, <2>8, GoKeeps
<1>9. CASE fsCache[n] # None /\ Fresh(t, p)
  <2>1. PICK node \in Nodes : node = fsCache[n]
    BY <1>3, <1>9
  <2>2. ~world.smp /\ "rename" \notin world.calls =>
          \A x \in Names : fsCache'[x] # None => fsCache'[x] = dir[x]
    BY <1>5 DEF FsInv, NamesHold
  <2>3. /\ p \in {"insert", "link", "mount", "file", "query"} /\ p # "query" /\ p # "insert"
        /\ node \in Nodes \cup {Root} /\ task[t].pc # "remove" /\ Settle(Grown(node))
        /\ task[t].n \in Names
    BY <1>1, <1>2, <1>3, <1>4, <1>5, <2>1
  <2>4. p = "link" \/ (p = "insert" /\ task[t].op = "link" /\ task[t].m # None) => t \in TakesTwo
    BY <1>4, <1>6
  <2>5. fsCache' \in [Names -> Nodes \cup {None}]
    BY <1>3, <1>5
  <2> QED
    BY <1>3, <1>5, <1>6, <1>9, <2>1, <2>2, <2>3, <2>4, <2>5, FreshKeeps
<1>10. CASE Go(t, "lookup") /\ index' = index
  <2>1. PICK r : r = [task[t] EXCEPT !.pc = "lookup"]
    OBVIOUS
  <2>2. /\ r \in Call /\ r.pc = "lookup" /\ r.held = {}
        /\ r.op = task[t].op /\ r.n = n /\ r.m = task[t].m /\ r.k = task[t].k
    BY <1>1, <1>3, <2>1 DEF Call, PathPcs
  <2>3. task' = [task EXCEPT ![t] = r] /\ task'[t] = r
    BY <1>3, <1>10, <2>1 DEF Go
  <2>4. Shape(t)'
    BY <1>3, <1>5, <1>7, <2>2, <2>3 DEF Shape, PathPcs, FilePcs, FileCalls
  <2>5. /\ t \in TakesId' => t \in TakesId
        /\ t \in TakesTwo' => t \in TakesTwo
        /\ t \in TakesNode' => t \in TakesNode
    BY <1>2, <1>6, <2>2, <2>3 DEF TakesTwo, TakesNode
  <2>6. Settle(dmap)
    BY <1>5, <1>10 DEF Grown
  <2>7. r.held \subseteq Kept_Refs /\ task[t].pc # "remove"
        /\ r.pc \notin {"read", "write", "advance", "insert", "link", "mount", "file", "cache"}
    BY <1>2, <2>2
  <2> QED
    BY <1>3, <1>5, <1>10, <2>2, <2>3, <2>4, <2>5, <2>6, <2>7, GoKeeps
<1> QED
  <2>1. \/ cache[n] # None /\ index' = index
           /\ task' = [task EXCEPT ![t].pc = p, ![t].shim = cache[n], ![t].held = @ \cup {cache[n]}]
        \/ fsCache[n] # None /\ Fresh(t, p)
        \/ Go(t, "lookup") /\ index' = index
    BY <1>1 DEF find
  <2> QED
    BY <1>8, <1>9, <1>10, <2>1

\* lookup: a dentry that the file system has cached, a node it has to cache, or nothing.
LEMMA LookupKeeps ==
  ASSUME FsInv, NEW t \in Tasks, lookup(t)
  PROVE  FsInv'
<1>1. PICK n : n = task[t].n
  OBVIOUS
<1>2. task[t].pc = "lookup" /\ task[t].pc \in PathPcs
  BY DEF lookup, PathPcs
<1>3. /\ task[t] \in Call /\ task[t].op # None /\ task[t].op \in world.calls /\ n \in Names
      /\ dir \in [Names -> Nodes \cup {None}] /\ fsCache \in [Names -> Nodes \cup {None}]
      /\ task \in [Tasks -> Call] /\ task[t].m \in Names /\ task[t].held = {}
  BY <1>1, <1>2, AtName DEF FsInv, Shape
<1>4. /\ UNCHANGED <<world, dir, fsCache, size, made, cache, kf, mounts, saved, updates, aliased>>
      /\ Settle(Grown(fsCache[n]))
  BY <1>1 DEF lookup, fsVars
<1>5. t \in TakesId /\ (task[t].op = "link" => t \in TakesTwo) /\ (task[t].op = "creat" => t \in TakesNode)
  BY <1>2 DEF TakesId, TakesTwo, TakesNode
<1>6. task[t].k \in Files => kf[task[t].k] # None
  BY DEF FsInv, Shape
<1>7. CASE fsCache[n] # None /\ Fresh(t, "insert")
  <2>1. PICK node \in Nodes, p \in {"insert", "link", "mount", "file", "query"} :
          node = fsCache[n] /\ p = "insert"
    BY <1>3, <1>7
  <2>2. ~world.smp /\ "rename" \notin world.calls =>
          /\ \A x \in Names : fsCache'[x] # None => fsCache'[x] = dir[x]
          /\ node = dir[task[t].n]
    BY <1>1, <1>3, <1>4, <1>7, <2>1 DEF FsInv, NamesHold
  <2>3. node \in Nodes \cup {Root} /\ task[t].pc # "remove" /\ Settle(Grown(node))
        /\ task[t].n \in Names /\ p # "link" /\ p # "query"
    BY <1>1, <1>2, <1>3, <1>4, <2>1
  <2>4. fsCache' \in [Names -> Nodes \cup {None}]
    BY <1>3, <1>4
  <2> QED
    BY <1>3, <1>4, <1>5, <1>7, <2>1, <2>2, <2>3, <2>4, FreshKeeps
<1>8. CASE dir[n] # None /\ index' = index /\ task' = [task EXCEPT ![t].pc = "cache", ![t].node = dir[n]]
  <2>1. PICK node \in Nodes : node = dir[n]
    BY <1>3, <1>8
  <2>2. PICK r : r = [task[t] EXCEPT !.pc = "cache", !.node = node]
    OBVIOUS
  <2>3. /\ r \in Call /\ r.pc = "cache" /\ r.node = node /\ r.held = {}
        /\ r.op = task[t].op /\ r.n = n /\ r.m = task[t].m /\ r.k = task[t].k
    BY <1>1, <1>3, <2>1, <2>2 DEF Call, PathPcs
  <2>4. task' = [task EXCEPT ![t] = r] /\ task'[t] = r
    BY <1>3, <1>8, <2>1, <2>2
  <2>5. Shape(t)'
    BY <1>3, <1>4, <1>6, <2>1, <2>3, <2>4 DEF Shape, PathPcs, FilePcs, FileCalls
  <2>6. /\ t \in TakesId' => t \in TakesId
        /\ t \in TakesTwo' => t \in TakesTwo
        /\ t \in TakesNode' => t \in TakesNode
    BY <1>5, <2>3, <2>4 DEF TakesTwo, TakesNode
  <2>7. Settle(dmap)
    BY <1>4, <1>8 DEF Grown
  <2>8. /\ r.held \subseteq Kept_Refs /\ task[t].pc # "remove" /\ r.n \in Names /\ r.node = dir[r.n]
        /\ r.pc \notin {"read", "write", "advance", "insert", "link", "mount", "file"}
    BY <1>2, <1>3, <2>1, <2>3
  <2> QED
    BY <1>3, <1>4, <1>8, <2>3, <2>4, <2>5, <2>6, <2>7, <2>8, GoKeeps
<1>9. CASE task[t].op = "creat" /\ Go(t, "create") /\ index' = index
  <2>1. PICK r : r = [task[t] EXCEPT !.pc = "create"]
    OBVIOUS
  <2>2. /\ r \in Call /\ r.pc = "create" /\ r.held = {}
        /\ r.op = task[t].op /\ r.n = n /\ r.m = task[t].m /\ r.k = task[t].k
    BY <1>1, <1>3, <2>1 DEF Call, PathPcs
  <2>3. task' = [task EXCEPT ![t] = r] /\ task'[t] = r
    BY <1>3, <1>9, <2>1 DEF Go
  <2>4. Shape(t)'
    BY <1>3, <1>4, <1>6, <1>9, <2>2, <2>3 DEF Shape, PathPcs, FilePcs, FileCalls
  <2>5. /\ t \in TakesId' => t \in TakesId
        /\ t \in TakesTwo' => t \in TakesTwo
        /\ t \in TakesNode' => t \in TakesNode
    BY <1>5, <1>9, <2>2, <2>3 DEF TakesTwo
  <2>6. Settle(dmap)
    BY <1>4, <1>9 DEF Grown
  <2>7. r.held \subseteq Kept_Refs /\ task[t].pc # "remove"
        /\ r.pc \notin {"read", "write", "advance", "insert", "link", "mount", "file", "cache"}
    BY <1>2, <2>2
  <2> QED
    BY <1>3, <1>4, <1>9, <2>2, <2>3, <2>4, <2>5, <2>6, <2>7, GoKeeps
<1>10. CASE End(t) /\ index' = index
  <2>1. Settle(dmap)
    BY <1>4, <1>10 DEF Grown
  <2> QED
    BY <1>2, <1>3, <1>4, <1>10, <2>1, PathEnds
<1> QED
  <2>1. \/ fsCache[n] # None /\ Fresh(t, "insert")
        \/ dir[n] # None /\ index' = index /\ task' = [task EXCEPT ![t].pc = "cache", ![t].node = dir[n]]
        \/ task[t].op = "creat" /\ Go(t, "create") /\ index' = index
        \/ End(t) /\ index' = index
    BY <1>1 DEF lookup
  <2> QED
    BY <1>7, <1>8, <1>9, <1>10, <2>1
\* parent hands out an id for the directory, which the call has until it returns.
LEMMA ParentKeeps ==
  ASSUME FsInv, NEW t \in Tasks, parent(t)
  PROVE  FsInv'
<1>1. task[t].pc = "parent" /\ task[t].pc \in FilePcs
  BY DEF parent, FilePcs, FileCalls
<1>2. /\ task[t].op # None /\ task[t].k \in Files /\ task[t] \in Call /\ task \in [Tasks -> Call]
      /\ kf[task[t].k] # None /\ task[t].held \subseteq Kept_Refs
      /\ fsCache \in [Names -> Nodes \cup {None}] /\ task[t].op \in world.calls
  BY <1>1, AtFile, CachesRefer DEF FsInv, CallTypes, StoreTypes, Shape
<1>3. /\ UNCHANGED <<world, dir, fsCache, size, made, cache, kf, mounts, saved, updates, aliased>>
      /\ Settle(Grown(Root)) /\ t \in TakesId
  BY <1>1 DEF parent, fsVars, TakesId
<1>4. CASE Go(t, "query") /\ index' = index
  <2>1. PICK r : r = [task[t] EXCEPT !.pc = "query"]
    OBVIOUS
  <2>2. /\ r \in Call /\ r.pc = "query" /\ r.held = task[t].held
        /\ r.op = task[t].op /\ r.n = task[t].n /\ r.m = task[t].m /\ r.k = task[t].k
    BY <1>2, <2>1 DEF Call, FilePcs, FileCalls
  <2>3. task' = [task EXCEPT ![t] = r] /\ task'[t] = r
    BY <1>2, <1>4, <2>1 DEF Go
  <2>4. Shape(t)'
    BY <1>2, <1>3, <2>2, <2>3 DEF Shape, PathPcs, FilePcs, FileCalls
  <2>5. t \notin TakesId' /\ t \notin TakesTwo' /\ t \notin TakesNode'
    BY <2>2, <2>3 DEF TakesId, TakesTwo, TakesNode
  <2>6. Settle(dmap)
    BY <1>3, <1>4 DEF Grown
  <2>7. r.held \subseteq Kept_Refs /\ task[t].pc # "remove"
        /\ r.pc \notin {"read", "write", "advance", "insert", "link", "mount", "file", "cache"}
    BY <1>1, <1>2, <2>2
  <2> QED
    BY <1>2, <1>3, <1>4, <2>2, <2>3, <2>4, <2>5, <2>6, <2>7, GoKeeps
<1>5. CASE Fresh(t, "query")
  <2>1. PICK node \in Nodes \cup {Root}, p \in {"insert", "link", "mount", "file", "query"} :
          node = Root /\ p = "query"
    OBVIOUS
  <2>2. ~world.smp /\ "rename" \notin world.calls =>
          \A x \in Names : fsCache'[x] # None => fsCache'[x] = dir[x]
    BY <1>3 DEF FsInv, NamesHold
  <2>3. /\ task[t].pc # "remove" /\ Settle(Grown(node)) /\ p # "link" /\ p # "insert"
        /\ fsCache' \in [Names -> Nodes \cup {None}]
    BY <1>1, <1>2, <1>3, <2>1
  <2> QED
    BY <1>2, <1>3, <1>5, <2>1, <2>2, <2>3, FreshKeeps
<1> QED
  BY <1>4, <1>5 DEF parent

\* A second name for a node; the name was free.
LEMMA LinkKeeps ==
  ASSUME FsInv, NEW t \in Tasks, link(t)
  PROVE  FsInv'
<1>1. PICK m, node : m = task[t].m /\ node = dmap[task[t].shim.id]
  OBVIOUS
<1>2. task[t].pc = "link" /\ task[t].pc \in PathPcs
  BY DEF link, PathPcs
<1>3. /\ task[t] \in Call /\ task[t].op # None /\ task[t].op \in world.calls /\ m \in Names
      /\ dir \in [Names -> Nodes \cup {None}] /\ fsCache \in [Names -> Nodes \cup {None}]
      /\ cache \in [Names -> Shims \cup {None}] /\ task \in [Tasks -> Call] /\ made \in 0..MaxNode
      /\ task[t].held \subseteq Kept_Refs /\ node \in Nodes
      /\ \A x \in Names : cache[x] # None =>
           cache[x] \in Kept_Refs /\ dmap[cache[x].id] # Root /\ dmap[cache[x].id] # None
  <2>1. task[t].shim \in task[t].held /\ m \in Names /\ node # Root
    BY <1>1, <1>2 DEF FsInv, Shape, Stands
  <2>2. dmap \in [Ids -> Nodes \cup {Root, None}]
    BY DEF FsInv, StoreTypes
  <2> QED
    BY <1>1, <1>2, <2>1, <2>2, AtName
<1>4. /\ UNCHANGED <<world, index, fsCache, size, made, cache, kf, mounts, saved, updates, aliased>>
      /\ Settle(dmap)
  BY DEF link
<1>5. CASE dir[m] # None
  <2>1. End(t) /\ dir' = dir
    BY <1>1, <1>5 DEF link
  <2> QED
    BY <1>2, <1>3, <1>4, <2>1, PathEnds
<1>6. CASE dir[m] = None
  <2>1. /\ dir' = [dir EXCEPT ![m] = node]
        /\ task' = [task EXCEPT ![t].pc = "cache", ![t].node = node, ![t].n = m, ![t].m = None]
    BY <1>1, <1>3, <1>6, FsDomainAssumption DEF link
  <2>2. PICK r : r = [task[t] EXCEPT !.pc = "cache", !.node = node, !.n = m, !.m = None]
    OBVIOUS
  <2>3. /\ r \in Call /\ r.pc = "cache" /\ r.node = node /\ r.op = task[t].op /\ r.n = m
        /\ r.m = None /\ r.k = task[t].k /\ r.held = task[t].held
    BY <1>1, <1>3, <2>2 DEF Call, PathPcs
  <2>4. task' = [task EXCEPT ![t] = r] /\ task'[t] = r
    BY <1>3, <2>1, <2>2
  <2>5. MapKept /\ OnlyTask(t) /\ Refs' \subseteq Refs
    <3>1. \A n \in Names : cache'[n] # None => cache'[n] \in Kept_Refs
      BY <1>3, <1>4
    <3>2. saved \subseteq saved' /\ saved' \subseteq Kept_Refs
      BY <1>4, RefsAre
    <3>3. \A f \in Files : kf'[f] # None => kf'[f].shim \in Refs
      BY <1>4, FilesRefer
    <3>4. r.held \subseteq Kept_Refs
      BY <1>3, <2>3
    <3> QED
      BY <1>4, <2>3, <2>4, <3>1, <3>2, <3>3, <3>4, DropStep
  <2>6. Shape(t)'
    <3>1. task[t].k \in Files => kf[task[t].k] # None
      BY DEF FsInv, Shape
    <3> QED
      BY <1>3, <1>4, <2>3, <2>4, <3>1 DEF Shape, PathPcs, FilePcs, FileCalls
  <2>7. HasRoom'
    <3>1. t \in TakesId
      BY <1>2 DEF TakesId
    <3>2. t \notin TakesTwo' /\ (t \in TakesNode' => t \in TakesNode)
      BY <2>3, <2>4 DEF TakesTwo, TakesNode
    <3>3. index' = index + 0 /\ made' = made + 0
      BY <1>4 DEF FsInv, StoreTypes
    <3> QED
      BY <2>5, <3>1, <3>2, <3>3, RoomKept
  <2>8. dir' \in [Names -> Nodes \cup {None}] /\ dir'[m] = node /\ \A x \in Names : x # m => dir'[x] = dir[x]
    BY <1>3, <2>1
  <2>9. NamesHold'
    <3>1. ASSUME ~world.smp, "rename" \notin world.calls
          PROVE  /\ \A x \in Names : fsCache[x] # None => x # m /\ fsCache[x] = dir[x]
                 /\ \A x \in Names : cache[x] # None => x # m /\ dmap[cache[x].id] = dir[x]
      <4>1. \A u \in Tasks : task[u].pc # "remove"
        BY <1>2, <1>3, <3>1, OthersIdle
      <4> QED
        BY <1>3, <1>6, <3>1, <4>1 DEF FsInv, NamesHold
    <3> QED
      BY <1>3, <1>4, <2>3, <2>4, <2>5, <2>8, <3>1, NamesSet
  <2> QED
    BY <1>3, <1>4, <2>3, <2>4, <2>5, <2>6, <2>7, <2>8, <2>9, PathKeeps
<1> QED
  BY <1>5, <1>6

\* The vfs domain caches the child it got.
LEMMA InsertKeeps ==
  ASSUME FsInv, NEW t \in Tasks, insert(t)
  PROVE  FsInv'
<1>1. PICK n, s, p : n = task[t].n /\ s = task[t].shim /\ p = Found(t)
  OBVIOUS
<1>2. task[t].pc = "insert" /\ task[t].pc \in PathPcs
  BY DEF insert, PathPcs
<1>3. /\ task[t] \in Call /\ task[t].op # None /\ task[t].op \in world.calls /\ n \in Names
      /\ dir \in [Names -> Nodes \cup {None}] /\ fsCache \in [Names -> Nodes \cup {None}]
      /\ cache \in [Names -> Shims \cup {None}] /\ task \in [Tasks -> Call] /\ made \in 0..MaxNode
      /\ task[t].held \subseteq Kept_Refs /\ s \in task[t].held /\ s \in Shims /\ s \in Kept_Refs
      /\ s.id \in Ids /\ s.id < index /\ dmap[s.id] # Root
      /\ \A x \in Names : cache[x] # None => cache[x] \in Kept_Refs /\ dmap[cache[x].id] # Root
  <2>1. s \in task[t].held /\ dmap[s.id] # Root
    BY <1>1, <1>2 DEF FsInv, Shape, Stands
  <2> QED
    BY <1>1, <1>2, <2>1, AtName
<1>4. /\ UNCHANGED <<world, index, dir, fsCache, size, made, kf, mounts, saved, updates, aliased>>
      /\ Settle(dmap) /\ cache' = [cache EXCEPT ![n] = s]
  BY <1>1 DEF insert, fsVars
<1>5. /\ cache' \in [Names -> Shims \cup {None}] /\ cache'[n] = s
      /\ \A x \in Names : x # n => cache'[x] = cache[x]
  BY <1>3, <1>4
<1>6. p \in {"link", "mount", "file"} /\ (p = "link" <=> task[t].op = "link")
  BY <1>1 DEF Found
<1>7. PICK r \in Call : /\ task' = [task EXCEPT ![t] = r] /\ task'[t] = r
                        /\ r.held \subseteq task[t].held /\ r.pc \in {"link", "mount", "file", "idle"}
                        /\ r.pc = "idle" \/ r.shim = s
                        /\ Shape(t)' /\ HasRoom'
  <2>1. \A r \in Call : task' = [task EXCEPT ![t] = r] /\ r.held \subseteq task[t].held => OnlyTask(t)
    BY <1>4 DEF OnlyTask
  <2>2. CASE End(t)
    <3>1. task' = [task EXCEPT ![t] = Idle] /\ task'[t] = Idle
      BY <1>3, <2>2 DEF End
    <3>2. Idle \in Call /\ Idle.held \subseteq task[t].held /\ Idle.pc = "idle"
      BY IdleIsCall
    <3>3. OnlyTask(t)
      BY <2>1, <3>1, <3>2
    <3>4. Shape(t)' /\ HasRoom'
      BY <1>4, <3>1, <3>2, <3>3, EndShape, EndRoom
    <3> QED
      BY <3>1, <3>2, <3>4
  <2>3. CASE Go(t, p) /\ task[t].m # None
    <3>1. PICK r : r = [task[t] EXCEPT !.pc = p]
      OBVIOUS
    <3>2. /\ r \in Call /\ r.pc = p /\ r.held = task[t].held /\ r.shim = s
          /\ r.op = task[t].op /\ r.n = n /\ r.m = task[t].m /\ r.k = task[t].k
      BY <1>1, <1>3, <1>6, <3>1, SMTT(40) DEF Call, PathPcs
    <3>3. task' = [task EXCEPT ![t] = r] /\ task'[t] = r
      BY <1>3, <2>3, <3>1 DEF Go
    <3>4. OnlyTask(t)
      BY <2>1, <3>2, <3>3
    <3>5. Shape(t)'
      <4>1. task[t].k \in Files => kf[task[t].k] # None
        BY DEF FsInv, Shape
      <4>2. task[t].m \in Names
        BY <1>3, <2>3 DEF Call
      <4> QED
        BY <1>3, <1>4, <1>6, <3>2, <3>3, <4>1, <4>2 DEF Shape, PathPcs, FilePcs, FileCalls
    <3>6. HasRoom'
      <4>1. t \in TakesId' => t \in TakesId
        BY <1>2, <1>6, <2>3, <3>2, <3>3 DEF TakesId
      <4>2. t \notin TakesTwo' /\ t \notin TakesNode'
        BY <1>6, <3>2, <3>3 DEF TakesTwo, TakesNode
      <4>3. index' = index + 0 /\ made' = made + 0
        BY <1>4 DEF FsInv, StoreTypes
      <4> QED
        BY <3>4, <4>1, <4>2, <4>3, RoomKept
    <3> QED
      BY <1>6, <3>2, <3>3, <3>5, <3>6
  <2> QED
    BY <1>1, <2>2, <2>3 DEF insert
<1>8. MapKept /\ OnlyTask(t) /\ Refs' \subseteq Refs
  <2>1. \A x \in Names : cache'[x] # None => cache'[x] \in Kept_Refs
    BY <1>3, <1>5
  <2>2. saved \subseteq saved' /\ saved' \subseteq Kept_Refs
    BY <1>4, RefsAre
  <2>3. \A f \in Files : kf'[f] # None => kf'[f].shim \in Refs
    BY <1>4, FilesRefer
  <2>4. r.held \subseteq Kept_Refs
    BY <1>3, <1>7
  <2> QED
    BY <1>4, <1>7, <2>1, <2>2, <2>3, <2>4, DropStep
<1>9. \A x \in Names : cache'[x] # None => cache'[x] \in Kept_Refs /\ dmap[cache'[x].id] # Root
  BY <1>3, <1>5
<1>10. NamesHold'
  <2>1. ASSUME ~world.smp, "rename" \notin world.calls
        PROVE  /\ \A x \in Names : fsCache[x] # None => fsCache[x] = dir[x]
               /\ \A x \in Names : cache[x] # None => dmap[cache[x].id] = dir[x]
               /\ dmap[s.id] = dir[n]
    <3>1. \A u \in Tasks : task[u].pc # "remove"
      BY <1>2, <1>3, <2>1, OthersIdle
    <3> QED
      BY <1>1, <1>2, <1>3, <2>1, <3>1 DEF FsInv, NamesHold
  <2> QED
    BY <1>3, <1>4, <1>5, <1>7, <1>8, <1>9, <2>1, NamesSet
<1>11. r.pc \in {"insert", "link", "mount", "file"} => dmap'[r.shim.id] # Root
  BY <1>3, <1>7, <1>8, FsDomainAssumption DEF MapKept
<1>12. r.pc \notin {"read", "write", "advance"}
  BY <1>7
<1> QED
  BY <1>3, <1>4, <1>5, <1>7, <1>8, <1>9, <1>10, <1>11, <1>12, PathKeeps
\* What is mounted keeps the id of its mount point through the storage.
LEMMA MountKeeps ==
  ASSUME FsInv, NEW t \in Tasks, mount(t)
  PROVE  FsInv'
<1>1. PICK s : s = task[t].shim
  OBVIOUS
<1>2. task[t].pc = "mount" /\ task[t].pc \in PathPcs
  BY DEF mount, PathPcs
<1>3. /\ task[t].op # None /\ task \in [Tasks -> Call] /\ made \in 0..MaxNode
      /\ dir \in [Names -> Nodes \cup {None}] /\ fsCache \in [Names -> Nodes \cup {None}]
      /\ cache \in [Names -> Shims \cup {None}] /\ s \in Kept_Refs /\ s \in Shims
      /\ s.id \in Ids /\ s.id < index /\ dmap[s.id] # None /\ s \in Refs /\ s.id \notin aliased
      /\ dmap[s.id] \in Nodes \cup {Root}
      /\ \A x \in Names : cache[x] # None => cache[x] \in Kept_Refs /\ dmap[cache[x].id] # Root
  <2>1. s \in task[t].held
    BY <1>1, <1>2 DEF FsInv, Shape
  <2>2. s \in Kept_Refs /\ s \in Refs
    BY <1>2, <2>1, AtName, CachesRefer
  <2>3. s.id \notin aliased /\ dmap \in [Ids -> Nodes \cup {Root, None}]
    BY <2>2 DEF FsInv, OneShim, StoreTypes
  <2> QED
    BY <1>2, <2>2, <2>3, AtName
<1>4. /\ UNCHANGED <<world, index, fsVars, cache, kf, updates, aliased>>
      /\ UNCHANGED <<world, index, dir, fsCache, size, made, cache, kf, updates, aliased>>
      /\ Settle(dmap) /\ task' = [task EXCEPT ![t] = Idle] /\ task'[t] = Idle
      /\ mounts' = mounts \cup {[id |-> s.id, node |-> dmap[s.id]]} /\ saved' = saved \cup {s}
  BY <1>1, <1>3 DEF mount, fsVars, End, SetMounted, set_parent
<1>5. PICK r \in Call : r = Idle /\ r.held \subseteq Kept_Refs /\ r.pc = "idle"
  BY IdleIsCall
<1>6. saved \subseteq saved' /\ saved' \subseteq Kept_Refs /\ saved' \subseteq Shims
  BY <1>3, <1>4, RefsAre DEF FsInv, StoreTypes
<1>7. MapKept /\ OnlyTask(t) /\ Refs' \subseteq Refs
  <2>1. \A x \in Names : cache'[x] # None => cache'[x] \in Kept_Refs
    BY <1>3, <1>4
  <2>2. \A f \in Files : kf'[f] # None => kf'[f].shim \in Refs
    BY <1>4, FilesRefer
  <2>3. \A x \in mounts' : x \in mounts \/ x.id < index
    BY <1>3, <1>4
  <2> QED
    BY <1>4, <1>5, <1>6, <2>1, <2>2, <2>3, DropStep
<1>8. Shape(t)' /\ HasRoom'
  BY <1>4, <1>5, <1>7, EndRoom, EndShape
<1>9. NamesHold'
  BY <1>2, <1>4, <1>5, <1>7, NamesKept
<1>10. PositionsHold'
  <2>1. \A f \in Files \ {RootFile} : kf'[f] # None /\ ~kf'[f].moved =>
           \/ kf[f] # None /\ ~kf[f].moved /\ kf'[f].pos = kf[f].pos /\ kf'[f].node = kf[f].node
           \/ aliased = {} => kf'[f].pos <= size[kf'[f].node]
    BY <1>4
  <2> QED
    BY <1>3, <1>4, <1>5, <1>7, <2>1, PositionsKept
<1>11. \A x \in mounts' :
          \/ x \in mounts
          \/ /\ dmap'[x.id] = x.node
             /\ x.id # 0 => \A q \in Refs' : q.id = x.id => q \in saved'
  <2>1. s \in Refs'
    <3>1. (saved \subseteq Refs)'
      BY SavedRefer, PTL
    <3> QED
      BY <1>4, <3>1
  <2>2. dmap'[s.id] = dmap[s.id]
    BY <1>3, <1>7, <2>1 DEF MapKept
  <2>3. ASSUME s.id # 0, NEW q \in Refs', q.id = s.id PROVE q = s
    BY <1>3, <1>7, <2>3 DEF FsInv, OneShim
  <2>4. PICK y : y = [id |-> s.id, node |-> dmap[s.id]]
    OBVIOUS
  <2>5. y.id = s.id /\ y.node = dmap[s.id] /\ mounts' = mounts \cup {y} /\ s \in saved'
    BY <1>4, <2>4
  <2> QED
    BY <2>2, <2>3, <2>5
<1>12. mounts' \subseteq [id : Ids, node : Nodes \cup {Root}]
  BY <1>3, <1>4 DEF FsInv, StoreTypes
<1>13. \A f \in Files : kf'[f] # None =>
        /\ kf[f] # None /\ kf'[f].shim = kf[f].shim /\ kf'[f].node = kf[f].node
        /\ kf'[f].flags = kf[f].flags /\ kf'[f].writer = kf[f].writer
  BY <1>4
<1>14. \A u \in Tasks \ {t} : task[u].k \in Files => kf'[task[u].k] # None
  BY <1>4 DEF FsInv, Shape
<1>15. /\ size' \in [Nodes -> Nat] /\ kf' \in [Files -> KernelFile \cup {None}]
       /\ dir' \in [Names -> Nodes \cup {None}] /\ fsCache' \in [Names -> Nodes \cup {None}]
       /\ made' \in 0..MaxNode /\ cache' \in [Names -> Shims \cup {None}]
  BY <1>3, <1>4 DEF FsInv, StoreTypes
<1>16. \A n \in Names : cache'[n] # None => cache'[n] \in Kept_Refs /\ dmap[cache'[n].id] # Root
  BY <1>3, <1>4
<1> QED
  BY <1>3, <1>4, <1>5, <1>6, <1>7, <1>8, <1>9, <1>10, <1>11, <1>12, <1>13, <1>14, <1>15, <1>16, StepKeeps

\* A new file has the shim of the call, and starts at the beginning or at the end.
LEMMA NewFileKeeps ==
  ASSUME FsInv, NEW t \in Tasks, NewFile(t)
  PROVE  FsInv'
<1>1. PICK s, node, flags : s = task[t].shim /\ node = dmap[s.id] /\ flags = task[t].flags
  OBVIOUS
<1>2. task[t].pc = "file" /\ task[t].pc \in PathPcs
  BY DEF NewFile, PathPcs
<1>3. /\ task[t].op # None /\ task \in [Tasks -> Call] /\ made \in 0..MaxNode
      /\ dir \in [Names -> Nodes \cup {None}] /\ fsCache \in [Names -> Nodes \cup {None}]
      /\ cache \in [Names -> Shims \cup {None}] /\ s \in Kept_Refs /\ s \in Shims
      /\ s \in Refs /\ node \in Nodes /\ flags \in SUBSET Flags
      /\ size \in [Nodes -> Nat] /\ kf \in [Files -> KernelFile \cup {None}]
      /\ \A x \in Names : cache[x] # None => cache[x] \in Kept_Refs /\ dmap[cache[x].id] # Root
  <2>1. s \in task[t].held /\ node # Root
    BY <1>1, <1>2 DEF FsInv, Shape, Stands
  <2>2. s \in Kept_Refs /\ s \in Refs
    BY <1>2, <2>1, AtName, CachesRefer
  <2>3. dmap \in [Ids -> Nodes \cup {Root, None}] /\ size \in [Nodes -> Nat]
        /\ kf \in [Files -> KernelFile \cup {None}] /\ flags \in SUBSET Flags
    BY <1>1 DEF FsInv, StoreTypes, CallTypes, Call
  <2> QED
    BY <1>1, <1>2, <2>1, <2>2, <2>3, AtName
<1>4. /\ UNCHANGED <<world, index, fsVars, cache, mounts, saved, updates, aliased>>
      /\ UNCHANGED <<world, index, dir, fsCache, size, made, cache, mounts, saved, updates, aliased>>
      /\ Settle(dmap) /\ task' = [task EXCEPT ![t] = Idle] /\ task'[t] = Idle
  BY <1>3 DEF NewFile, fsVars, End
<1>5. PICK g \in KernelFile :
        /\ g.shim = s /\ g.node = node /\ g.pos <= size[node]
        /\ g.flags \cap {"wr", "rdwr"} # {} => g.writer
        /\ kf' = kf \/ \E f \in Files : kf[f] = None /\ kf' = [kf EXCEPT ![f] = g]
  <2>1. PICK p \in Nat : p = IF "append" \in flags THEN size[node] ELSE 0
    BY <1>3
  <2>2. PICK w \in BOOLEAN : w = (flags \cap {"wr", "rdwr"} # {})
    OBVIOUS
  <2>3. PICK g : g = [shim |-> s, pos |-> p, flags |-> flags, mapped |-> TRUE, node |-> node,
                      writer |-> w, moved |-> FALSE]
    OBVIOUS
  <2>4. /\ g \in KernelFile /\ g.shim = s /\ g.node = node /\ g.pos = p /\ g.flags = flags /\ g.writer = w
    BY <1>3, <2>3 DEF KernelFile
  <2>5. p <= size[node]
    <3>1. size[node] \in Nat
      BY <1>3
    <3> QED
      BY <2>1, <3>1
  <2>6. kf' = kf \/ \E f \in Files : kf[f] = None /\ kf' = [kf EXCEPT ![f] = g]
    BY <1>1, <2>1, <2>2, <2>3 DEF NewFile
  <2> QED
    BY <2>2, <2>4, <2>5, <2>6
<1>6. /\ kf' \in [Files -> KernelFile \cup {None}]
      /\ \A f \in Files : kf'[f] = kf[f] \/ (kf[f] = None /\ kf'[f] = g)
  BY <1>3, <1>5
<1>7. PICK r \in Call : r = Idle /\ r.held \subseteq Kept_Refs /\ r.pc = "idle"
  BY IdleIsCall
<1>8. MapKept /\ OnlyTask(t) /\ Refs' \subseteq Refs
  <2>1. \A x \in Names : cache'[x] # None => cache'[x] \in Kept_Refs
    BY <1>3, <1>4
  <2>2. \A f \in Files : kf'[f] # None => kf'[f].shim \in Refs
    BY <1>3, <1>5, <1>6, FilesRefer
  <2>3. saved \subseteq saved' /\ saved' \subseteq Kept_Refs
    BY <1>4, RefsAre
  <2> QED
    BY <1>4, <1>7, <2>1, <2>2, <2>3, DropStep
<1>9. Shape(t)' /\ HasRoom'
  BY <1>4, <1>7, <1>8, EndRoom, EndShape
<1>10. NamesHold'
  BY <1>2, <1>4, <1>7, <1>8, NamesKept
<1>11. PositionsHold'
  <2>1. \A f \in Files \ {RootFile} : kf'[f] # None /\ ~kf'[f].moved =>
           \/ kf[f] # None /\ ~kf[f].moved /\ kf'[f].pos = kf[f].pos /\ kf'[f].node = kf[f].node
           \/ aliased = {} => kf'[f].pos <= size[kf'[f].node]
    BY <1>5, <1>6
  <2> QED
    BY <1>3, <1>4, <1>7, <1>8, <2>1, PositionsKept
<1>12. \A f \in Files : kf'[f] # None =>
         \/ /\ kf[f] # None /\ kf'[f].shim = kf[f].shim /\ kf'[f].node = kf[f].node
            /\ kf'[f].flags = kf[f].flags /\ kf'[f].writer = kf[f].writer
         \/ /\ kf'[f].shim \in Kept_Refs /\ kf'[f].node = dmap[kf'[f].shim.id]
            /\ kf'[f].node \in Nodes
            /\ kf'[f].flags \cap {"wr", "rdwr"} # {} => kf'[f].writer
  BY <1>1, <1>3, <1>5, <1>6
<1>13. \A u \in Tasks \ {t} : task[u].k \in Files => kf'[task[u].k] # None
  BY <1>6 DEF FsInv, Shape
<1>14. /\ size' \in [Nodes -> Nat] /\ saved \subseteq saved' /\ saved' \subseteq Shims
       /\ mounts' \subseteq [id : Ids, node : Nodes \cup {Root}] /\ \A x \in mounts' : x \in mounts
       /\ dir' \in [Names -> Nodes \cup {None}] /\ fsCache' \in [Names -> Nodes \cup {None}]
       /\ made' \in 0..MaxNode /\ cache' \in [Names -> Shims \cup {None}]
  BY <1>3, <1>4 DEF FsInv, StoreTypes
<1>15. \A n \in Names : cache'[n] # None => cache'[n] \in Kept_Refs /\ dmap[cache'[n].id] # Root
  BY <1>3, <1>4
<1> QED
  BY <1>3, <1>4, <1>6, <1>7, <1>8, <1>9, <1>10, <1>11, <1>12, <1>13, <1>14, <1>15, StepKeeps
\* What truncate does to an open file of the node.
Shortened(h, l) == [h EXCEPT !.moved = @ \/ h.pos > l]

\* It keeps its position, which is within the new length unless it is marked.
LEMMA ShortenedFile ==
  ASSUME NEW h \in KernelFile, NEW l \in Nat, NEW g, g = Shortened(h, l)
  PROVE  /\ g \in KernelFile /\ g.shim = h.shim /\ g.node = h.node /\ g.flags = h.flags
         /\ g.writer = h.writer /\ g.pos = h.pos /\ (g.moved \/ g.pos <= l)
<1>1. h.moved \in BOOLEAN /\ h.pos \in Nat
  BY DEF KernelFile
<1>2. CASE h.moved \/ h.pos > l
  <2>1. (h.moved \/ h.pos > l) = TRUE
    BY <1>2
  <2>2. g = [h EXCEPT !.moved = TRUE]
    BY <2>1, Zenon DEF Shortened
  <2> QED
    BY <2>2 DEF KernelFile
<1>3. CASE ~(h.moved \/ h.pos > l)
  <2>1. (h.moved \/ h.pos > l) = FALSE
    BY <1>3
  <2>2. g = [h EXCEPT !.moved = FALSE]
    BY <2>1, Zenon DEF Shortened
  <2>3. h.pos <= l
    BY <1>1, <1>3
  <2> QED
    BY <2>2, <2>3 DEF KernelFile
<1> QED
  BY <1>2, <1>3

\* truncate marks the open files whose position it leaves behind the end.
LEMMA TruncateKeeps ==
  ASSUME FsInv, NEW t \in Tasks, truncate(t)
  PROVE  FsInv'
<1>1. PICK k : k = task[t].k
  OBVIOUS
<1>2. task[t].pc = "truncate" /\ task[t].pc \in FilePcs
  BY DEF truncate, FilePcs, FileCalls
<1>3. /\ task[t].op # None /\ k \in Files /\ kf[k] \in KernelFile /\ kf[k] # None
      /\ k # RootFile /\ kf[k].node \in Nodes /\ size \in [Nodes -> Nat]
      /\ (NodeOf(k) # None => NodeOf(k) = kf[k].node)
      /\ kf \in [Files -> KernelFile \cup {None}] /\ task \in [Tasks -> Call]
  BY <1>1, <1>2, AtFile DEF FsInv, Shape, StoreTypes, CallTypes
<1>4. PICK node \in Nodes : node = kf[k].node
  BY <1>3
<1>5. /\ UNCHANGED <<world, index, dir, fsCache, made, cache, mounts, saved, updates, aliased>>
      /\ Settle(dmap) /\ task' = [task EXCEPT ![t] = Idle] /\ task'[t] = Idle
  BY <1>3 DEF truncate, End
<1>6. PICK files \in [Files -> KernelFile \cup {None}] :
        /\ kf' = Kept(files, task')
        /\ size' \in [Nodes -> Nat]
        /\ \A f \in Files : files[f] # None <=> kf[f] # None
        /\ \A f \in Files : kf[f] # None =>
             /\ files[f].shim = kf[f].shim /\ files[f].node = kf[f].node
             /\ files[f].flags = kf[f].flags /\ files[f].writer = kf[f].writer
             /\ files[f].pos = kf[f].pos
             /\ \/ files[f].moved = kf[f].moved /\ (f # RootFile => size'[kf[f].node] = size[kf[f].node])
                \/ files[f].moved
                \/ files[f].pos <= size'[kf[f].node]
  <2>1. CASE size' = size /\ kf' = Kept(kf, task')
    BY <1>3, <2>1
  <2>2. CASE ~(size' = size /\ kf' = Kept(kf, task'))
    <3>1. PICK l \in 0..size[node] :
             /\ size' = [size EXCEPT ![node] = l]
             /\ kf' = Kept([g \in Files |-> IF kf[g] # None /\ kf[g].node = node
                                            THEN [kf[g] EXCEPT !.moved = @ \/ kf[g].pos > l]
                                            ELSE kf[g]], task')
      <4>1. /\ NodeOf(task[t].k) # None
            /\ \E l \in 0..size[NodeOf(task[t].k)] :
                 /\ size' = [size EXCEPT ![NodeOf(task[t].k)] = l]
                 /\ kf' = Kept([g \in Files |-> IF kf[g] # None /\ kf[g].node = NodeOf(task[t].k)
                                                THEN [kf[g] EXCEPT !.moved = @ \/ kf[g].pos > l]
                                                ELSE kf[g]], task')
        BY <2>2, Zenon DEF truncate
      <4>2. NodeOf(task[t].k) = node
        BY <1>1, <1>3, <1>4, <4>1
      <4> QED
        BY <4>1, <4>2, Zenon
    <3>2. l \in Nat
      BY <1>3
    <3>3. PICK files : files = [g \in Files |-> IF kf[g] # None /\ kf[g].node = node
                                                THEN Shortened(kf[g], l) ELSE kf[g]]
      OBVIOUS
    <3>4. kf' = Kept(files, task')
      BY <3>1, <3>3 DEF Shortened
    <3>5. /\ size' \in [Nodes -> Nat] /\ size'[node] = l
          /\ \A x \in Nodes : x # node => size'[x] = size[x]
      BY <1>3, <3>1, <3>2
    <3>6. ASSUME NEW f \in Files, kf[f] # None, kf[f].node = node
          PROVE  /\ files[f] \in KernelFile /\ files[f].shim = kf[f].shim
                 /\ files[f].node = kf[f].node /\ files[f].flags = kf[f].flags
                 /\ files[f].writer = kf[f].writer /\ files[f].pos = kf[f].pos
                 /\ files[f].moved \/ files[f].pos <= size'[kf[f].node]
      <4>1. files[f] = Shortened(kf[f], l) /\ kf[f] \in KernelFile
        BY <1>3, <3>3, <3>6
      <4> QED
        BY <3>2, <3>5, <3>6, <4>1, ShortenedFile
    <3>7. ASSUME NEW f \in Files, ~(kf[f] # None /\ kf[f].node = node)
          PROVE  files[f] = kf[f]
      BY <3>3, <3>7
    <3>8. ASSUME NEW f \in Files, kf[f] # None, f # RootFile PROVE kf[f].node \in Nodes
      BY <3>8 DEF FsInv, Stands
    <3>9. files \in [Files -> KernelFile \cup {None}] /\ \A f \in Files : files[f] # None <=> kf[f] # None
      <4>1. \A f \in Files : /\ files[f] \in KernelFile \cup {None}
                             /\ files[f] # None <=> kf[f] # None
        BY <1>3, <3>6, <3>7, FsDomainAssumption
      <4>2. files = [f \in Files |-> files[f]]
        BY <3>3
      <4> QED
        BY <4>1, <4>2
    <3>10. \A f \in Files : kf[f] # None =>
             /\ files[f].shim = kf[f].shim /\ files[f].node = kf[f].node
             /\ files[f].flags = kf[f].flags /\ files[f].writer = kf[f].writer
             /\ files[f].pos = kf[f].pos
             /\ \/ files[f].moved = kf[f].moved /\ (f # RootFile => size'[kf[f].node] = size[kf[f].node])
                \/ files[f].moved
                \/ files[f].pos <= size'[kf[f].node]
      BY <3>5, <3>6, <3>7, <3>8
    <3> QED
      BY <3>4, <3>5, <3>9, <3>10
  <2> QED
    BY <2>1, <2>2
<1>7. /\ kf' \in [Files -> KernelFile \cup {None}]
      /\ \A f \in Files : kf'[f] # None => kf'[f] = files[f]
      /\ \A u \in Tasks : task'[u].k \in Files /\ files[task'[u].k] # None => kf'[task'[u].k] # None
  <2>1. PICK tasks : tasks = task'
    OBVIOUS
  <2>2. kf' = Kept(files, tasks)
    BY <1>6, <2>1
  <2>3. /\ kf' \in [Files -> KernelFile \cup {None}]
        /\ \A f \in Files : kf'[f] # None => kf'[f] = files[f]
        /\ \A u \in Tasks : tasks[u].k \in Files /\ files[tasks[u].k] # None => kf'[tasks[u].k] # None
    BY <2>2, KeptFiles
  <2> QED
    BY <2>1, <2>3
<1>8. PICK r \in Call : r = Idle /\ r.held \subseteq Kept_Refs /\ r.pc = "idle"
  BY IdleIsCall
<1>9. \A f \in Files : kf'[f] # None =>
        /\ kf[f] # None /\ kf'[f].shim = kf[f].shim /\ kf'[f].node = kf[f].node
        /\ kf'[f].flags = kf[f].flags /\ kf'[f].writer = kf[f].writer
  BY <1>6, <1>7
<1>10. \A n \in Names : cache'[n] # None => cache'[n] \in Kept_Refs /\ dmap[cache'[n].id] # Root
  BY <1>5, CachesRefer DEF FsInv, Stands
<1>11. MapKept /\ OnlyTask(t) /\ Refs' \subseteq Refs
  <2>1. \A f \in Files : kf'[f] # None => kf'[f].shim \in Refs
    BY <1>9, FilesRefer
  <2>2. saved \subseteq saved' /\ saved' \subseteq Kept_Refs
    BY <1>5, RefsAre
  <2> QED
    BY <1>5, <1>8, <1>10, <2>1, <2>2, DropStep
<1>12. Shape(t)' /\ HasRoom'
  BY <1>5, <1>8, <1>11, EndRoom, EndShape
<1>13. NamesHold'
  BY <1>2, <1>5, <1>8, <1>11, NamesKept
<1>14. PositionsHold'
  <2>1. ASSUME ~world.smp, aliased = {}
        PROVE  /\ \A f \in Files \ {RootFile} : kf'[f] # None /\ ~kf'[f].moved => kf'[f].pos <= size'[kf'[f].node]
               /\ \A u \in Tasks : task'[u].pc \notin {"read", "write", "advance"}
    <3>1. ASSUME NEW u \in Tasks PROVE task'[u].pc \notin {"read", "write", "advance"}
      BY <1>3, <1>5, <1>8, <1>11, <2>1, OthersIdle DEF OnlyTask
    <3>2. ASSUME NEW f \in Files \ {RootFile}, kf'[f] # None, ~kf'[f].moved
          PROVE  kf'[f].pos <= size'[kf'[f].node]
      <4>1. kf'[f] = files[f] /\ kf[f] # None
        BY <1>6, <1>7, <3>2
      <4>2. ~kf[f].moved => kf[f].pos <= size[kf[f].node]
        BY <2>1, <4>1 DEF FsInv, PositionsHold
      <4> QED
        BY <1>6, <3>2, <4>1, <4>2
    <3> QED
      BY <3>1, <3>2
  <2> QED
    BY <1>5, <2>1 DEF PositionsHold
<1>15. \A u \in Tasks \ {t} : task[u].k \in Files => kf'[task[u].k] # None
  BY <1>6, <1>7, <1>11 DEF FsInv, Shape, OnlyTask
<1>16. /\ saved \subseteq saved' /\ saved' \subseteq Shims
       /\ mounts' \subseteq [id : Ids, node : Nodes \cup {Root}] /\ \A x \in mounts' : x \in mounts
       /\ dir' \in [Names -> Nodes \cup {None}] /\ fsCache' \in [Names -> Nodes \cup {None}]
       /\ made' \in 0..MaxNode /\ cache' \in [Names -> Shims \cup {None}]
  BY <1>5 DEF FsInv, StoreTypes
<1> QED
  BY <1>3, <1>5, <1>6, <1>7, <1>8, <1>9, <1>10, <1>11, <1>12, <1>13, <1>14, <1>15, <1>16, StepKeeps
-----------------------------------------------------------------------------
(* Closing a file, and replacing the vfs domain *)

\* A closed file stays until the last call that uses it returns.
LEMMA CloseKeeps ==
  ASSUME FsInv, NEW f \in Files, Close(f)
  PROVE  FsInv'
<1>1. PICK t \in Tasks : TRUE
  BY FsDomainAssumption
<1>2. PICK r \in Call : r = task[t]
  BY DEF FsInv, CallTypes
<1>3. /\ UNCHANGED <<world, index, fsVars, cache, mounts, saved, task, updates, aliased>>
      /\ UNCHANGED <<world, index, dir, fsCache, size, made, cache, mounts, saved, task, updates, aliased>>
      /\ Settle(dmap) /\ Alone(t) /\ (world.smp \/ \A u \in Tasks : task[u].op = None)
      /\ task' = [task EXCEPT ![t] = r] /\ task'[t] = r /\ r.held \subseteq Kept_Refs
  <2>1. task = [task EXCEPT ![t] = r]
    BY <1>2 DEF FsInv, CallTypes
  <2>2. r.held \subseteq Kept_Refs
    BY <1>2, CachesRefer
  <2>3. world.smp \/ Busy = {}
    BY DEF Close
  <2> QED
    BY <1>2, <2>1, <2>2, <2>3 DEF Close, fsVars, Alone, Busy
<1>4. PICK h \in KernelFile, files \in [Files -> KernelFile \cup {None}] :
        /\ h = [kf[f] EXCEPT !.mapped = FALSE] /\ files = [kf EXCEPT ![f] = h]
        /\ h.shim = kf[f].shim /\ h.node = kf[f].node /\ h.flags = kf[f].flags /\ kf[f] # None
        /\ h.writer = kf[f].writer /\ h.pos = kf[f].pos /\ h.moved = kf[f].moved
        /\ kf' = Kept(files, task)
  <2>1. kf[f] \in KernelFile /\ kf[f] # None /\ kf \in [Files -> KernelFile \cup {None}]
    BY DEF Close, FsInv, StoreTypes
  <2>2. PICK h : h = [kf[f] EXCEPT !.mapped = FALSE]
    OBVIOUS
  <2>3. /\ h \in KernelFile /\ h.shim = kf[f].shim /\ h.node = kf[f].node /\ h.flags = kf[f].flags
        /\ h.writer = kf[f].writer /\ h.pos = kf[f].pos /\ h.moved = kf[f].moved
    BY <2>1, <2>2 DEF KernelFile
  <2>4. PICK files : files = [kf EXCEPT ![f] = h]
    OBVIOUS
  <2>5. files \in [Files -> KernelFile \cup {None}]
    BY <2>1, <2>3, <2>4
  <2>6. kf' = Kept(files, task)
    <3>1. kf' = Kept([kf EXCEPT ![f].mapped = FALSE], task)
      BY DEF Close
    <3>2. [kf EXCEPT ![f].mapped = FALSE] = files
      BY <2>2, <2>4
    <3> QED
      BY <3>1, <3>2
  <2> QED
    BY <2>1, <2>2, <2>3, <2>4, <2>5, <2>6
<1>5. /\ \A g \in Files : kf[g] # None <=> files[g] # None
      /\ \A g \in Files : kf[g] # None =>
           /\ files[g].shim = kf[g].shim /\ files[g].node = kf[g].node /\ files[g].flags = kf[g].flags
           /\ files[g].writer = kf[g].writer /\ files[g].pos = kf[g].pos /\ files[g].moved = kf[g].moved
  <2>1. kf \in [Files -> KernelFile \cup {None}] /\ h # None
    BY FsDomainAssumption DEF FsInv, StoreTypes
  <2>2. files[f] = h /\ \A g \in Files : g # f => files[g] = kf[g]
    BY <1>4, <2>1
  <2> QED
    BY <1>4, <2>1, <2>2
<1>6. /\ kf' \in [Files -> KernelFile \cup {None}]
      /\ \A g \in Files : kf'[g] # None => kf'[g] = files[g]
      /\ \A u \in Tasks : task[u].k \in Files /\ files[task[u].k] # None => kf'[task[u].k] # None
  <2>1. PICK tasks : tasks = task
    OBVIOUS
  <2>2. kf' = Kept(files, tasks)
    BY <1>4, <2>1
  <2>3. /\ kf' \in [Files -> KernelFile \cup {None}]
        /\ \A g \in Files : kf'[g] # None => kf'[g] = files[g]
        /\ \A u \in Tasks : tasks[u].k \in Files /\ files[tasks[u].k] # None => kf'[tasks[u].k] # None
    BY <2>2, KeptFiles
  <2> QED
    BY <2>1, <2>3
<1>7. \A g \in Files : kf'[g] # None =>
        /\ kf[g] # None /\ kf'[g].shim = kf[g].shim /\ kf'[g].node = kf[g].node
        /\ kf'[g].flags = kf[g].flags /\ kf'[g].writer = kf[g].writer
        /\ kf'[g].pos = kf[g].pos /\ kf'[g].moved = kf[g].moved
  BY <1>5, <1>6
<1>8. \A u \in Tasks : task[u].k \in Files => kf'[task[u].k] # None
  BY <1>5, <1>6 DEF FsInv, Shape
<1>9. \A n \in Names : cache'[n] # None => cache'[n] \in Kept_Refs /\ dmap[cache'[n].id] # Root
  BY <1>3, CachesRefer DEF FsInv, Stands
<1>10. MapKept /\ OnlyTask(t) /\ Refs' \subseteq Refs
  <2>1. \A g \in Files : kf'[g] # None => kf'[g].shim \in Refs
    BY <1>7, FilesRefer
  <2>2. saved \subseteq saved' /\ saved' \subseteq Kept_Refs
    BY <1>3, RefsAre
  <2> QED
    BY <1>3, <1>9, <2>1, <2>2, DropStep
<1>11. Shape(t)'
  BY <1>3, <1>8 DEF FsInv, Shape
<1>12. HasRoom'
  <2>1. TakesId' = TakesId /\ TakesTwo' = TakesTwo /\ TakesNode' = TakesNode
    BY <1>3 DEF TakesId, TakesTwo, TakesNode
  <2> QED
    BY <1>3, <2>1 DEF FsInv, HasRoom
<1>13. \A u \in Tasks : world.smp \/ task[u].pc = "idle"
  BY <1>3, IdleIsCall DEF FsInv, Shape
<1>14. NamesHold'
  <2>1. ASSUME ~world.smp, "rename" \notin world.calls
        PROVE  /\ \A x \in Names : fsCache[x] # None => fsCache[x] = dir[x]
               /\ \A x \in Names : cache[x] # None => dmap[cache[x].id] = dir[x]
               /\ r.pc \notin {"cache", "insert"}
    BY <1>2, <1>13, <2>1 DEF FsInv, NamesHold
  <2> QED
    BY <1>3, <1>9, <1>10, <2>1, NamesSet
<1>15. PositionsHold'
  <2>1. ASSUME ~world.smp, aliased = {}
        PROVE  /\ \A g \in Files \ {RootFile} : kf'[g] # None /\ ~kf'[g].moved => kf'[g].pos <= size[kf'[g].node]
               /\ \A u \in Tasks : task[u].pc = "idle"
    BY <1>7, <1>13, <2>1 DEF FsInv, PositionsHold
  <2> QED
    BY <1>3, <2>1 DEF PositionsHold
<1>16. r.pc \in {"insert", "link", "mount", "file"} => dmap'[r.shim.id] # Root
  <2>1. ASSUME r.pc \in {"insert", "link", "mount", "file"} PROVE dmap'[r.shim.id] # Root
    <3>1. r.shim \in r.held /\ dmap[r.shim.id] # Root
      BY <1>2, <2>1 DEF FsInv, Shape, Stands
    <3>2. r.shim.id \in Ids /\ r.shim.id < index
      BY <1>3, <3>1, CachesRefer DEF FsInv, Counted, Shims
    <3> QED
      BY <1>10, <3>1, <3>2, FsDomainAssumption DEF MapKept
  <2> QED
    BY <2>1
<1>17. /\ saved \subseteq saved' /\ saved' \subseteq Shims /\ size' \in [Nodes -> Nat]
       /\ mounts' \subseteq [id : Ids, node : Nodes \cup {Root}] /\ \A x \in mounts' : x \in mounts
       /\ dir' \in [Names -> Nodes \cup {None}] /\ fsCache' \in [Names -> Nodes \cup {None}]
       /\ made' \in 0..MaxNode /\ cache' \in [Names -> Shims \cup {None}]
  BY <1>3 DEF FsInv, StoreTypes
<1> QED
  <2>1. \A g \in Files : kf'[g] # None =>
          /\ kf[g] # None /\ kf'[g].shim = kf[g].shim /\ kf'[g].node = kf[g].node
          /\ kf'[g].flags = kf[g].flags /\ kf'[g].writer = kf[g].writer
    BY <1>7
  <2>2. \A u \in Tasks \ {t} : task[u].k \in Files => kf'[task[u].k] # None
    BY <1>8
  <2>3. cache' \in [Names -> Shims \cup {None}] /\ Alone(t) /\ kf' \in [Files -> KernelFile \cup {None}]
        /\ task' = [task EXCEPT ![t] = r]
    BY <1>3, <1>6, <1>17
  <2> QED
    BY <1>9, <1>10, <1>11, <1>12, <1>14, <1>15, <1>16, <1>17, <2>1, <2>2, <2>3, StepKeeps
\* A replacement between calls: every recovered file has a shim of its own, and the ids that
\* now have two are aliased.
LEMMA UpdateKeeps ==
  ASSUME FsInv, Update
  PROVE  FsInv'
<1>1. /\ UNCHANGED <<world, dmap, index, dir, fsCache, size, made, mounts, task>>
      /\ updates' = updates + 1 /\ updates \in Nat /\ updates' # 0
      /\ cache' = [n \in Names |-> None] /\ saved' = {}
      /\ kf' = [f \in Files |-> Recovered(f)]
      /\ kf \in [Files -> KernelFile \cup {None}] /\ aliased \subseteq Ids \ {0} /\ aliased \subseteq aliased'
      /\ cache' \in [Names -> Shims \cup {None}] /\ \A n \in Names : cache'[n] = None
  BY DEF Update, fsVars, FsInv, StoreTypes
<1>2. \A t \in Tasks : task[t].pc = "idle" /\ task[t].held = {}
  BY IdleIsCall DEF Update, Busy, FsInv, Shape
<1>3. /\ kf' \in [Files -> KernelFile \cup {None}]
      /\ \A f \in Files : kf[f] = None => kf'[f] = None
      /\ \A f \in Files : kf[f] # None =>
           /\ kf'[f] # None /\ kf'[f].shim = Shim(kf[f].shim.id, f) /\ kf'[f].shim \in Shims
           /\ kf'[f].shim.id = kf[f].shim.id /\ kf[f].shim \in Refs
           /\ kf'[f].node = kf[f].node /\ kf'[f].flags = kf[f].flags
           /\ kf'[f].writer = kf[f].writer /\ kf'[f].pos = kf[f].pos /\ kf'[f].moved = kf[f].moved
  <2>1. ASSUME NEW f \in Files, kf[f] = None PROVE kf'[f] = None
    BY <1>1, <2>1 DEF Recovered
  <2>2. ASSUME NEW f \in Files, kf[f] # None
        PROVE  /\ kf'[f] # None /\ kf'[f] \in KernelFile
               /\ kf'[f].shim = Shim(kf[f].shim.id, f) /\ kf'[f].shim \in Shims
               /\ kf'[f].shim.id = kf[f].shim.id /\ kf[f].shim \in Refs
               /\ kf'[f].node = kf[f].node /\ kf'[f].flags = kf[f].flags
               /\ kf'[f].writer = kf[f].writer /\ kf'[f].pos = kf[f].pos /\ kf'[f].moved = kf[f].moved
    <3>1. kf[f] \in KernelFile /\ kf[f].shim \in Refs
      BY <1>1, <2>2, FilesRefer
    <3>2. kf[f].shim \in Shims /\ kf[f].shim.id \in Ids
      BY <3>1 DEF FsInv, Counted, Shims
    <3>3. PICK s \in Shims : s = Shim(kf[f].shim.id, f) /\ s.id = kf[f].shim.id
      <4>1. PICK i \in Ids : i = kf[f].shim.id
        BY <3>2
      <4>2. PICK s : s = [id |-> i, of |-> f]
        OBVIOUS
      <4>3. s \in Shims /\ s.id = i
        BY <4>2 DEF Shims
      <4>4. s = Shim(kf[f].shim.id, f)
        BY <4>1, <4>2 DEF Shim
      <4> QED
        BY <4>1, <4>3, <4>4
    <3>4. PICK h : h = [kf[f] EXCEPT !.shim = s]
      OBVIOUS
    <3>5. /\ h \in KernelFile /\ h.shim = s
          /\ h.node = kf[f].node /\ h.flags = kf[f].flags
          /\ h.writer = kf[f].writer /\ h.pos = kf[f].pos /\ h.moved = kf[f].moved
      BY <3>1, <3>3, <3>4 DEF KernelFile
    <3>6. kf'[f] = h
      <4>1. kf'[f] = Recovered(f)
        BY <1>1
      <4>2. Recovered(f) = [kf[f] EXCEPT !.shim = Shim(@.id, f)]
        BY <2>2 DEF Recovered
      <4> QED
        BY <3>3, <3>4, <4>1, <4>2
    <3> QED
      BY <3>1, <3>3, <3>5, <3>6, FsDomainAssumption
  <2>3. kf' = [f \in Files |-> kf'[f]]
    BY <1>1
  <2>4. \A f \in Files : kf'[f] \in KernelFile \cup {None}
    BY <2>1, <2>2
  <2>5. kf' \in [Files -> KernelFile \cup {None}]
    BY <2>3, <2>4
  <2> QED
    BY <2>1, <2>2, <2>5
<1>4. /\ aliased' \subseteq Ids \ {0}
      /\ \A i \in aliased' \ aliased : \E f \in Files : kf[f] # None /\ kf[f].shim.id = i
      /\ \A f, g \in Files : /\ kf[f] # None /\ kf[g] # None /\ f # g
                             /\ kf[f].shim.id = kf[g].shim.id /\ kf[f].shim.id # 0
                             => kf[f].shim.id \in aliased'
      /\ \A f \in Files : /\ kf[f] # None /\ kf[f].shim.id # 0
                          /\ \E x \in mounts : x.id = kf[f].shim.id
                          => kf[f].shim.id \in aliased'
  <2>1. aliased' = aliased \cup
          {i \in Ids \ {0} : LET F == {f \in Files : kf[f] # None /\ kf[f].shim.id = i}
                             IN  \E f \in F : F # {f} \/ \E x \in mounts : x.id = i}
    BY DEF Update
  <2>2. \A i : i \in aliased' <=>
          \/ i \in aliased
          \/ /\ i \in Ids \ {0}
             /\ \E f \in Files : /\ kf[f] # None /\ kf[f].shim.id = i
                                 /\ \/ \E g \in Files : g # f /\ kf[g] # None /\ kf[g].shim.id = i
                                    \/ \E x \in mounts : x.id = i
    BY <2>1
  <2>3. \A f \in Files : kf[f] # None => kf[f].shim.id \in Ids
    BY FilesRefer DEF FsInv, Counted, Shims
  <2> QED
    BY <1>1, <2>2, <2>3
<1>5. (/\ \A s : s \in Refs <=> s \in Kept_Refs \/ \E f \in Files : kf[f] # None /\ kf[f].shim = s
       /\ \A s : s \in Kept_Refs <=> \/ \E n \in Names : cache[n] = s /\ s # None
                                     \/ s \in saved
                                     \/ \E t \in Tasks : s \in task[t].held)'
  BY RefsAre, PTL
<1>6. Kept_Refs' = {} /\ \A s \in Refs' : \E f \in Files : kf[f] # None /\ kf'[f].shim = s
  BY <1>1, <1>2, <1>3, <1>5
<1>7. StoreTypes'
  BY <1>1, <1>3, <1>4 DEF FsInv, StoreTypes
<1>8. CallTypes' /\ \A t \in Tasks : Shape(t)'
  BY <1>1, <1>3 DEF FsInv, CallTypes, Shape
<1>9. Counted'
  <2>1. /\ \A s \in Refs' : s \in Shims /\ s.id < index
        /\ \A i \in Ids : i >= index => dmap[i] = None /\ i \notin aliased'
        /\ \A x \in mounts : x.id < index
    <3>1. \A s \in Refs' : s \in Shims /\ s.id < index
      BY <1>3, <1>6 DEF FsInv, Counted
    <3>2. ASSUME NEW i \in Ids, i >= index PROVE dmap[i] = None /\ i \notin aliased'
      <4>1. dmap[i] = None /\ i \notin aliased
        BY <3>2 DEF FsInv, Counted
      <4>2. ASSUME i \in aliased' PROVE FALSE
        <5>1. PICK f \in Files : kf[f] # None /\ kf[f].shim.id = i
          BY <1>4, <4>1, <4>2
        <5>2. i < index
          BY <1>3, <5>1 DEF FsInv, Counted
        <5> QED
          BY <3>2, <5>2 DEF FsInv, StoreTypes, Ids
      <4> QED
        BY <4>1, <4>2
    <3> QED
      BY <3>1, <3>2 DEF FsInv, Counted
  <2> QED
    BY <1>1, <2>1 DEF Counted
<1>10. OneShim'
  <2>1. ASSUME NEW s \in Refs', NEW q \in Refs', s.id = q.id, s.id \notin aliased' \cup {0}
        PROVE  s = q
    <3>1. PICK f \in Files, g \in Files :
            kf[f] # None /\ kf'[f].shim = s /\ kf[g] # None /\ kf'[g].shim = q
      BY <1>6
    <3>2. kf[f].shim.id = s.id /\ kf[g].shim.id = s.id
      BY <1>3, <2>1, <3>1
    <3>3. f = g
      BY <1>4, <2>1, <3>1, <3>2
    <3> QED
      BY <3>1, <3>3
  <2>2. ASSUME NEW s \in Refs', s.id \notin aliased' PROVE dmap[s.id] # None
    <3>1. PICK f \in Files : kf[f] # None /\ kf'[f].shim = s
      BY <1>6
    <3>2. kf[f].shim \in Refs /\ kf[f].shim.id = s.id /\ s.id \notin aliased
      BY <1>1, <1>3, <2>2, <3>1
    <3> QED
      BY <3>2 DEF FsInv, OneShim
  <2> QED
    BY <1>1, <1>6, <2>1, <2>2 DEF OneShim
<1>11. Stands'
  <2>1. ASSUME NEW f \in Files, kf'[f] # None
        PROVE  /\ dmap[kf'[f].shim.id] \in {kf'[f].node, None}
               /\ kf'[f].shim.id \notin aliased' => dmap[kf'[f].shim.id] = kf'[f].node
               /\ f # RootFile => kf'[f].node \in Nodes
    BY <1>1, <1>3, <2>1 DEF FsInv, Stands
  <2>2. ASSUME NEW x \in mounts, x.id \notin aliased'
        PROVE  /\ dmap[x.id] = x.node
               /\ x.id # 0 => \A s \in Refs' : s.id = x.id => s \in saved'
    <3>1. dmap[x.id] = x.node
      BY <1>1, <2>2 DEF FsInv, Stands
    <3>2. ASSUME x.id # 0, NEW s \in Refs', s.id = x.id PROVE FALSE
      <4>1. PICK f \in Files : kf[f] # None /\ kf'[f].shim = s
        BY <1>6
      <4>2. kf[f].shim.id = x.id
        BY <1>3, <3>2, <4>1
      <4> QED
        BY <1>4, <2>2, <3>2, <4>1, <4>2
    <3> QED
      BY <3>1, <3>2
  <2> QED
    BY <1>1, <1>2, <2>1, <2>2 DEF Stands
<1>12. NoIdIsLeaked'
  BY <1>1 DEF NoIdIsLeaked
<1>13. HasRoom'
  <2>1. TakesId' = TakesId /\ TakesTwo' = TakesTwo /\ TakesNode' = TakesNode
    BY <1>1 DEF TakesId, TakesTwo, TakesNode
  <2> QED
    BY <1>1, <2>1 DEF FsInv, HasRoom
<1>14. OneCall'
  BY <1>1 DEF FsInv, OneCall, Busy
<1>15. NamesHold'
  BY <1>1, <1>2 DEF FsInv, NamesHold
<1>16. PositionsHold'
  <2>1. ASSUME ~world.smp, aliased' = {}
        PROVE  \A f \in Files \ {RootFile} : kf'[f] # None /\ ~kf'[f].moved => kf'[f].pos <= size[kf'[f].node]
    <3>1. aliased = {}
      BY <1>1, <2>1
    <3> QED
      BY <1>3, <2>1, <3>1 DEF FsInv, PositionsHold
  <2> QED
    BY <1>1, <1>2, <2>1 DEF PositionsHold
<1>17. RightsHold'
  <2>1. \A f \in Files : kf'[f] # None =>
           \/ kf[f] # None /\ kf'[f].flags = kf[f].flags /\ kf'[f].writer = kf[f].writer
           \/ kf'[f].flags \cap {"wr", "rdwr"} # {} => kf'[f].writer
    BY <1>3
  <2> QED
    BY <2>1, RightsKept
<1> QED
  BY <1>7, <1>8, <1>9, <1>10, <1>11, <1>12, <1>13, <1>14, <1>15, <1>16, <1>17 DEF FsInv

\* Nothing happens.
LEMMA StutterKeeps ==
  ASSUME FsInv, UNCHANGED vars
  PROVE  FsInv'
<1>1. UNCHANGED <<world, dmap, index, dir, fsCache, size, made, cache, kf, mounts, saved, task,
                  updates, aliased>>
  BY DEF vars, fsVars
<1>2. Refs' = Refs /\ Kept_Refs' = Kept_Refs
  BY <1>1 DEF Refs, Kept_Refs
<1>3. TakesId' = TakesId /\ TakesTwo' = TakesTwo /\ TakesNode' = TakesNode
  BY <1>1 DEF TakesId, TakesTwo, TakesNode
<1>4. StoreTypes' /\ CallTypes' /\ (\A t \in Tasks : Shape(t)')
  BY <1>1 DEF FsInv, StoreTypes, CallTypes, Shape
<1>5. Counted' /\ OneShim' /\ Stands' /\ NoIdIsLeaked'
  BY <1>1, <1>2 DEF FsInv, Counted, OneShim, Stands, NoIdIsLeaked
<1>6. HasRoom' /\ OneCall' /\ NamesHold' /\ PositionsHold'
  BY <1>1, <1>3 DEF FsInv, HasRoom, OneCall, Busy, NamesHold, PositionsHold
<1>7. RightsHold'
  BY <1>1 DEF FsInv, RightsHold, CanWrite
<1> QED
  BY <1>4, <1>5, <1>6, <1>7 DEF FsInv
-----------------------------------------------------------------------------
(* The invariant *)

\* The system starts with the root, its file, and whatever names the directory has.
LEMMA InitFsInv == Init => FsInv
<1> SUFFICES ASSUME Init PROVE FsInv
  OBVIOUS
<1>1. /\ world \in Worlds /\ dir \in [Names -> Nodes \cup {None}]
      /\ fsCache \in {dir, [n \in Names |-> None]}
      /\ size = [i \in Nodes |-> 0]
      /\ dmap = [i \in Ids |-> IF i = 0 THEN Root ELSE None] /\ index = 1
      /\ cache = [n \in Names |-> None] /\ mounts = {} /\ saved = {}
      /\ kf = [f \in Files |-> IF f = RootFile THEN RootKernelFile ELSE None]
      /\ task = [t \in Tasks |-> Idle] /\ updates = 0 /\ aliased = {}
      /\ made = Cardinality({n \in Names : dir[n] # None})
      /\ {dir[n] : n \in Names} \ {None} = 1..made
  BY DEF Init
<1>2. PICK s : s = Shim(0, None)
  OBVIOUS
<1>3. /\ RootKernelFile \in KernelFile /\ RootKernelFile.shim = s /\ RootKernelFile.node = Root
      /\ RootKernelFile.writer = TRUE /\ s.id = 0 /\ s \in Shims /\ 0 \in Ids
  <2>1. 0 \in Ids
    BY FsDomainAssumption DEF Ids
  <2>2. s \in Shims /\ s.id = 0
    BY <1>2, <2>1 DEF Shim, Shims
  <2>3. {"rdwr"} \in SUBSET Flags
    BY DEF Flags
  <2> QED
    BY <1>2, <2>1, <2>2, <2>3 DEF RootKernelFile, KernelFile
<1>4. /\ kf \in [Files -> KernelFile \cup {None}] /\ kf[RootFile] = RootKernelFile
      /\ \A f \in Files : f # RootFile => kf[f] = None
      /\ kf[RootFile] # None /\ RootFile \in Files
  BY <1>1, <1>3, FsDomainAssumption
<1>5. \A t \in Tasks : task[t] = Idle /\ task[t].pc = "idle" /\ task[t].held = {} /\ task[t].op = None
                       /\ task[t].k = None /\ task[t] \in Call
  BY <1>1, IdleIsCall DEF Idle
<1>6. Kept_Refs = {} /\ \A q : q \in Refs <=> q = s
  BY <1>1, <1>3, <1>4, <1>5, RefsAre
<1>7. made \in 0..MaxNode
  <2>1. IsFiniteSet({n \in Names : dir[n] # None})
    BY FsDomainAssumption, FS_Subset
  <2>2. made \in Nat
    BY <1>1, <2>1, FS_CardinalityType
  <2>3. 1..made \subseteq 1..MaxNode
    BY <1>1 DEF Nodes
  <2>4. made = 0 \/ made \in 1..made
    BY <2>2
  <2> QED
    BY <2>2, <2>3, <2>4, FsDomainAssumption
<1>8. dmap \in [Ids -> Nodes \cup {Root, None}] /\ dmap[0] = Root /\ \A i \in Ids : i # 0 => dmap[i] = None
  BY <1>1, <1>3
<1>9. StoreTypes
  <2>1. index \in 1..(MaxId + 1)
    BY <1>1, FsDomainAssumption
  <2>2. fsCache \in [Names -> Nodes \cup {None}] /\ size \in [Nodes -> Nat]
        /\ cache \in [Names -> Shims \cup {None}]
    BY <1>1
  <2> QED
    BY <1>1, <1>4, <1>7, <1>8, <2>1, <2>2 DEF StoreTypes
<1>10. CallTypes /\ \A t \in Tasks : Shape(t)
  BY <1>1, <1>5, FsDomainAssumption DEF CallTypes, Shape, PathPcs, FilePcs, FileCalls
<1>11. Counted /\ OneShim
  BY <1>1, <1>3, <1>6, <1>8, FsDomainAssumption DEF Counted, OneShim, Ids
<1>12. Stands
  BY <1>1, <1>3, <1>4, <1>5, <1>8 DEF Stands
<1>13. NoIdIsLeaked
  BY <1>3, <1>6, <1>8, FsDomainAssumption DEF NoIdIsLeaked
<1>14. HasRoom
  <2>1. TakesId = {} /\ TakesTwo = {} /\ TakesNode = {}
    BY <1>5, FsDomainAssumption DEF TakesId, TakesTwo, TakesNode, FileCalls, PathCalls
  <2>2. Cardinality({}) = 0
    BY FS_EmptySet
  <2> QED
    BY <1>1, <1>7, <2>1, <2>2, FsDomainAssumption DEF HasRoom
<1>15. OneCall /\ NamesHold /\ PositionsHold
  BY <1>1, <1>4, <1>5 DEF OneCall, Busy, NamesHold, PositionsHold
<1>16. RightsHold
  BY <1>3, <1>4 DEF RightsHold
<1> QED
  BY <1>9, <1>10, <1>11, <1>12, <1>13, <1>14, <1>15, <1>16 DEF FsInv

\* Every step keeps the invariant.
LEMMA NextFsInv == FsInv /\ [Next]_vars => FsInv'
<1> SUFFICES ASSUME FsInv, [Next]_vars PROVE FsInv'
  OBVIOUS
<1>1. ASSUME NEW t \in Tasks, \/ StartPath(t) \/ find(t) \/ lookup(t) \/ CacheDentry(t)
                              \/ create(t) \/ link(t) \/ insert(t) \/ unlink(t) \/ remove(t)
      PROVE  FsInv'
  BY <1>1, StartPathKeeps, FindKeeps, LookupKeeps, CacheDentryKeeps, CreateKeeps, LinkKeeps,
     InsertKeeps, UnlinkKeeps, RemoveKeeps
<1>2. ASSUME NEW t \in Tasks, \/ rename(t) \/ mount(t) \/ NewFile(t) \/ StartFile(t) \/ ReadPos(t)
                              \/ read_at(t) \/ write_at(t) \/ Advance(t)
      PROVE  FsInv'
  BY <1>2, RenameKeeps, MountKeeps, NewFileKeeps, StartFileKeeps, ReadPosKeeps, ReadAtKeeps,
     WriteAtKeeps, AdvanceKeeps
<1>3. ASSUME NEW t \in Tasks, \/ seek(t) \/ truncate(t) \/ readdir(t) \/ do_fcntl(t) \/ Query(t)
                              \/ get_attr(t) \/ stat_fs(t) \/ parent(t)
      PROVE  FsInv'
  BY <1>3, SeekKeeps, TruncateKeeps, ReaddirKeeps, FcntlKeeps, QueryKeeps, ParentKeeps
<1>4. ASSUME NEW f \in Files, Close(f) PROVE FsInv'
  BY <1>4, CloseKeeps
<1>5. ASSUME Update PROVE FsInv'
  BY <1>5, UpdateKeeps
<1>6. ASSUME UNCHANGED vars PROVE FsInv'
  BY <1>6, StutterKeeps
<1> QED
  BY <1>1, <1>2, <1>3, <1>4, <1>5, <1>6 DEF Next

\* The inductive invariant holds of every behaviour: one shim for each id that no
\* replacement has aliased, ids handed out in order and taken back with the last shim.
THEOREM InvariantHolds == Spec => []FsInv
BY InitFsInv, NextFsInv, PTL DEF Spec

\* Whatever programs do with names and files, and however often the vfs domain is replaced,
\* an open file keeps the node it was opened on, a mount point stays known, and until the
\* first replacement dentry_map has exactly the ids in use.
THEOREM IdsHold == Spec => []IdsAreExact
<1>1. ASSUME FsInv PROVE IdsAreExact
  <2>1. TypeOK
    BY <1>1 DEF FsInv, StoreTypes, Counted, TypeOK
  <2>2. OpenFileKeepsNode
    BY <1>1 DEF FsInv, Stands, OpenFileKeepsNode, NodeOf
  <2>3. NoIdIsLeaked
    BY <1>1 DEF FsInv
  <2>4. MountPointStaysKnown
    BY <1>1 DEF FsInv, Stands, MountPointStaysKnown
  <2> QED
    BY <2>1, <2>2, <2>3, <2>4 DEF IdsAreExact
<1> QED
  BY <1>1, InvariantHolds, PTL

\* On one CPU, between calls and without rename, both caches agree with the directory.
THEOREM CachesHold == Spec => []CachesAreExact
<1>1. ASSUME FsInv PROVE CachesAreExact
  <2>1. Busy = {} => \A t \in Tasks : task[t].pc = "idle"
    BY <1>1, IdleIsCall DEF Busy, FsInv, Shape
  <2> QED
    BY <1>1, <2>1 DEF FsInv, NamesHold, CachesAreExact
<1> QED
  BY <1>1, InvariantHolds, PTL

\* On one CPU a position is behind the end of its file only when the program moved it there
\* or shortened the file: no read or write leaves a hole.
THEOREM PositionsStay == Spec => []NoHole
<1>1. FsInv => NoHole
  BY DEF FsInv, PositionsHold, NoHole
<1> QED
  BY <1>1, InvariantHolds, PTL

\* A file only changes through a file object that may be written, and such an object was
\* opened for writing or made writable by F_SETFL; on several CPUs too.
THEOREM RightsNeeded == Spec => WriteNeedsRight
<1>1. ASSUME FsInv, Next, size' # size
      PROVE  \E t \in Tasks : task[t].pc \in {"write", "truncate"} /\ kf[task[t].k].writer
  <2>1. PICK t \in Tasks : write_at(t) \/ truncate(t)
    <3>1. ASSUME NEW t \in Tasks,
                 \/ StartPath(t) \/ find(t) \/ lookup(t) \/ CacheDentry(t) \/ create(t) \/ link(t)
                 \/ insert(t) \/ unlink(t) \/ remove(t) \/ rename(t) \/ mount(t) \/ NewFile(t)
                 \/ StartFile(t) \/ ReadPos(t) \/ read_at(t) \/ Advance(t)
                 \/ seek(t) \/ readdir(t) \/ do_fcntl(t) \/ Query(t)
                 \/ get_attr(t) \/ stat_fs(t) \/ parent(t)
          PROVE  size' = size
      <4>1. ASSUME fsVars' = fsVars PROVE size' = size
        BY <4>1 DEF fsVars
      <4> QED
        BY <3>1, <4>1 DEF StartPath, find, lookup, CacheDentry, create, link, insert, unlink, remove,
           rename, mount, NewFile, StartFile, ReadPos, read_at, Advance, seek, readdir, do_fcntl,
           Query, get_attr, stat_fs, parent
    <3>2. ASSUME (\E f \in Files : Close(f)) \/ Update PROVE size' = size
      BY <3>2 DEF Close, Update, fsVars
    <3> QED
      BY <1>1, <3>1, <3>2 DEF Next
  <2>2. task[t].pc \in {"write", "truncate"} /\ task[t].pc \in FilePcs /\ CanWrite(task[t].k)
    BY <1>1, <2>1 DEF write_at, truncate, FilePcs, FileCalls
  <2>3. task[t].k \in Files /\ kf[task[t].k] # None
    BY <1>1, <2>2, AtFile
  <2> QED
    BY <1>1, <2>2, <2>3 DEF FsInv, RightsHold
<1>2. FsInv /\ [Next]_vars =>
        [size' # size => \E t \in Tasks : task[t].pc \in {"write", "truncate"} /\ kf[task[t].k].writer]_vars
  BY <1>1
<1> QED
  BY <1>2, InvariantHolds, PTL DEF Spec, WriteNeedsRight
==============================================================================
