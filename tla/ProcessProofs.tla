---------------------------- MODULE ProcessProofs ----------------------------
(***************************************************************************)
(* Proofs about ProcessTree and ProcessGroups for any number of task       *)
(* identifiers and any program, on one CPU and on several.                 *)
(***************************************************************************)
EXTENDS ProcessGroups, FiniteSetTheorems, NaturalsInduction, TLAPS

-----------------------------------------------------------------------------
(* The inductive invariant of the life cycle *)

\* A task is in the task manager from clone to remove_task, known as live to the
\* scheduler until exit_now, and has no child once do_exit has cleared its map;
\* init never leaves.
Presence ==
  \A t \in Tids :
    /\ t \in global <=> pc[t] \notin {"none", "leaving"}
    /\ pc[t] # "none" => kernel[t] = "live"
    /\ pc[t] \in {"none", "zombie", "terminate", "leaving"} =>
         \A k \in Tids : children[t][k] = NoTid
    /\ t = InitTid => pc[t] \notin {"none", "reparent", "zombie", "terminate", "leaving"}

\* A children map has its tasks under their pids; a task in the map of its parent
\* is not released.
Keyed ==
  \A p, k \in Tids :
    children[p][k] # NoTid =>
      /\ pid[children[p][k]] = k
      /\ parent[children[p][k]] = p => kernel[children[p][k]] # "none"

\* do_exit walks over its own children; those it is done with belong to init.
Walk ==
  \A p, k \in Tids :
    pc[p] = "reparent" =>
      /\ k \in todo[p] => children[p][k] # NoTid
      /\ children[p][k] # NoTid /\ k \notin todo[p] => parent[children[p][k]] = InitTid

\* The task in the frame of do_wait4 is a child of the waiter, and not released; on one
\* CPU no other map has it.
Held ==
  \A p \in Tids :
    wtask[p] # NoTid =>
      /\ parent[wtask[p]] = p /\ kernel[wtask[p]] # "none"
      /\ ~world.smp => \A q, k \in Tids : children[q][k] = wtask[p] => q = p

\* Of a program that makes processes only, every process that is not released is in the
\* map of its parent.
Family ==
  ProcessesOnly =>
    /\ ~clash
    /\ \A t \in Tids :
         /\ pid[t] = t
         /\ t # InitTid /\ kernel[t] # "none" =>
              parent[t] \in Tids /\ children[parent[t]][t] = t

\* The inductive invariant of ProcessTree.
TreeInv == /\ TypeOK /\ world \in Worlds
           /\ Presence /\ Keyed /\ ParentAgrees /\ Walk /\ Held /\ Family

-----------------------------------------------------------------------------
(* The inductive invariant of groups and sessions *)

\* A listed process outside the group with its number has no member in that group that is
\* not accounted for in headless.
LeaderIsMember ==
  ~recycled /\ ProcessesOnly =>
    \A t, u \in Listed : pgid[t] # t /\ pgid[u] = t => t \in headless

\* The inductive invariant of ProcessGroups.
GroupsInv == /\ TreeInv
             /\ pgid \in [Tids -> Tids] /\ sid \in [Tids -> Tids]
             /\ recycled \in BOOLEAN /\ headless \subseteq Tids
             /\ SessionLeaderLeads /\ GroupInOneSession /\ LeaderIsMember
-----------------------------------------------------------------------------
(* References *)

\* A set of naturals that is not empty has a least element.
LEMMA LeastOf ==
  ASSUME NEW T \in SUBSET Nat, T # {}
  PROVE  \E x \in T : \A y \in T : x <= y
<1> DEFINE R == OpToRel(<, Nat)
<1>1. IsWellFoundedOn(R, Nat)
  BY NatLessThanWellFounded
<1>2. \E x \in T : \A y \in T : ~ (<<y, x>> \in R)
  <2> HIDE DEF R
  <2> QED
    BY <1>1, WFMin
<1>3. \A x, y \in T : ~ (<<y, x>> \in R) => x <= y
  BY SMT DEF OpToRel
<1> QED
  BY <1>2, <1>3

\* A task exists while something refers to it: strong_count counts the maps, the frames of
\* waiters, the task manager, a call of its own and the static INIT_PROCESS.
LEMMA ExistsWhen ==
  ASSUME NEW t \in Tids
  PROVE  Exists(t) <=> \/ ChildRefs(t) # {} \/ WaitRefs(t) # {}
                       \/ t \in global \/ pc[t] \in InSyscall \/ t = InitTid
<1>1. IsFiniteSet(Tids \X Tids) /\ IsFiniteSet(Tids)
  BY FS_Product, TreeAssumption
<1>2. ChildRefs(t) \subseteq Tids \X Tids /\ WaitRefs(t) \subseteq Tids
  BY DEF ChildRefs, WaitRefs
<1>3. IsFiniteSet(ChildRefs(t)) /\ IsFiniteSet(WaitRefs(t))
  BY <1>1, <1>2, FS_Subset
<1>4. PICK c \in Nat : c = Cardinality(ChildRefs(t))
  BY <1>3, FS_CardinalityType
<1>5. PICK w \in Nat : w = Cardinality(WaitRefs(t))
  BY <1>3, FS_CardinalityType
<1>6. (c = 0 <=> ChildRefs(t) = {}) /\ (w = 0 <=> WaitRefs(t) = {})
  BY <1>3, <1>4, <1>5, FS_EmptySet
<1>7. StrongCount(t) = c + w + (IF t \in global THEN 1 ELSE 0)
                         + (IF pc[t] \in InSyscall THEN 1 ELSE 0) + (IF t = InitTid THEN 1 ELSE 0)
  BY <1>4, <1>5 DEF StrongCount
<1> QED
  BY <1>6, <1>7 DEF Exists

\* Nothing refers to a tid that IndexAllocator may hand out.
Unused(n) ==
  /\ n # InitTid /\ n \notin global /\ pc[n] \in {"none", "leaving"}
  /\ \A p, k \in Tids : children[p][k] # n
  /\ \A p \in Tids : wtask[p] # n
  /\ \A k \in Tids : children[n][k] = NoTid

\* A tid is free when its task and all that it could be confused with are gone.
LEMMA FreeIsUnused ==
  ASSUME TypeOK, Presence, NEW n \in FirstFree
  PROVE  n \in Tids /\ Unused(n)
<1>1. n \in Tids /\ ~Exists(n)
  BY DEF FirstFree, TidFree
<1>2. ChildRefs(n) = {} /\ WaitRefs(n) = {} /\ n \notin global /\ n # InitTid
  BY <1>1, ExistsWhen
<1>3. pc[n] \in {"none", "leaving"}
  BY <1>1, <1>2 DEF Presence
<1>4. \A k \in Tids : children[n][k] = NoTid
  BY <1>1, <1>3 DEF Presence
<1>5. \A p, k \in Tids : children[p][k] # n
  <2> SUFFICES ASSUME NEW p \in Tids, NEW k \in Tids, children[p][k] = n PROVE FALSE
    OBVIOUS
  <2>1. <<p, k>> \in Tids \X Tids /\ <<p, k>>[1] = p /\ <<p, k>>[2] = k
    OBVIOUS
  <2>2. <<p, k>> \in ChildRefs(n)
    BY <2>1 DEF ChildRefs
  <2> QED
    BY <2>2, <1>2
<1>6. \A p \in Tids : wtask[p] # n
  BY <1>2 DEF WaitRefs
<1> QED
  BY <1>1, <1>2, <1>3, <1>4, <1>5, <1>6 DEF Unused

\* What a program hands to do_wait4 is a pid or Any.
LEMMA ArgsAreTids ==
  ASSUME TypeOK, NEW p \in Tids, NEW a \in WaitArgs(p)
  PROVE  a[1] \in Tids \cup {Any}
<1>1. Pids(p) \subseteq Tids
  <2> SUFFICES ASSUME NEW k \in Keys(p) PROVE pid[children[p][k]] \in Tids
    BY DEF Pids
  <2>1. children[p] \in [Tids -> Tids \cup {NoTid}] /\ k \in Tids /\ children[p][k] # NoTid
    BY DEF TypeOK, Keys
  <2>2. children[p][k] \in Tids
    BY <2>1
  <2> QED
    BY <2>2 DEF TypeOK
<1> QED
  BY <1>1 DEF WaitArgs
-----------------------------------------------------------------------------
(* Every step of a task keeps the invariant *)

\* What insert and remove do to the children maps, entry by entry.
LEMMA OneEntry ==
  ASSUME TypeOK, NEW p \in Tids, NEW k \in Tids, NEW n \in Tids \cup {NoTid},
         children' = [children EXCEPT ![p][k] = n]
  PROVE  /\ children' \in [Tids -> [Tids -> Tids \cup {NoTid}]]
         /\ \A q, j \in Tids : children'[q][j] = IF q = p /\ j = k THEN n ELSE children[q][j]
<1> DEFINE row == [children[p] EXCEPT ![k] = n]
           Map == [Tids -> Tids \cup {NoTid}]
<1>0. children \in [Tids -> Map]
  BY DEF TypeOK
<1>1. row \in Map
  BY <1>0
<1>2. children' = [children EXCEPT ![p] = row]
  OBVIOUS
<1>3. \A j \in Tids : row[j] = IF j = k THEN n ELSE children[p][j]
  BY <1>0
<1> HIDE DEF row, Map
<1>4. children' \in [Tids -> Map]
  BY <1>0, <1>1, <1>2
<1>5. \A q \in Tids : children'[q] = IF q = p THEN row ELSE children[q]
  BY <1>0, <1>2
<1> QED
  BY <1>3, <1>4, <1>5 DEF Map

\* The init process alone satisfies the invariant.
LEMMA InitTree == Init => TreeInv
<1> SUFFICES ASSUME Init PROVE TreeInv
  OBVIOUS
<1>1. InitTid \in Tids /\ NoTid \notin Tids /\ Tids \subseteq Nat
  BY TreeAssumption DEF NoTid
<1>2. TypeOK
  BY <1>1 DEF Init, TypeOK, NoChildren
<1>3. \A p, k \in Tids : children[p][k] = NoTid
  BY DEF Init, NoChildren
<1>4. \A t \in Tids : wtask[t] = NoTid /\ pid[t] = t
  BY DEF Init
<1>5. \A t \in Tids : pc[t] = (IF t = InitTid THEN "run" ELSE "none")
                      /\ kernel[t] = IF t = InitTid THEN "live" ELSE "none"
  BY DEF Init
<1>6. global = {InitTid} /\ ~clash /\ world \in Worlds
  BY DEF Init
<1>7. Presence
  BY <1>3, <1>5, <1>6 DEF Presence
<1>8. Keyed /\ ParentAgrees /\ Walk /\ Held
  BY <1>3, <1>4, <1>5 DEF Keyed, ParentAgrees, Walk, Held
<1>9. Family
  BY <1>4, <1>5, <1>6 DEF Family
<1> QED
  BY <1>2, <1>6, <1>7, <1>8, <1>9 DEF TreeInv

\* clone: the new task is in the map of its parent, and nothing pointed to its tid.
LEMMA CloneKeeps ==
  ASSUME TreeInv, NEW p \in Tids, Undisturbed(p), Clone(p)
  PROVE  TreeInv'
<1> USE DEF TreeInv
<1>0. InitTid \in Tids /\ NoTid \notin Tids /\ NoTid # Gone /\ Tids \subseteq Nat
      /\ \A w \in Worlds : w.flags \subseteq CloneFlags
  BY TreeAssumption DEF NoTid, Gone
<1>1. PICK f \in world.flags, n \in FirstFree : CloneFails(p, f) \/ CloneSucceeds(p, f, n)
  BY DEF Clone
<1>2. pc[p] = "run" /\ p \in global /\ ~clash
  BY DEF Clone, Presence
<1>3. n \in Tids /\ Unused(n)
  BY FreeIsUnused
<1>4. ASSUME CloneFails(p, f) PROVE TreeInv'
  <2>1. /\ pc' = [pc EXCEPT ![p] = "fork_panic"]
        /\ pid' = pid /\ thread' = thread /\ parent' = parent /\ children' = children
        /\ status' = status /\ global' = global /\ kernel' = kernel
        /\ todo' = todo /\ warg' = warg /\ wtask' = wtask /\ clash' = clash /\ world' = world
    BY <1>4 DEF CloneFails, frame, made
  <2>2. \A t \in Tids : pc'[t] = IF t = p THEN "fork_panic" ELSE pc[t]
    BY <2>1 DEF TypeOK
  <2>3. TypeOK'
    BY <2>1, <1>2 DEF TypeOK
  <2>4. Presence'
    BY <2>1, <2>2, <1>2 DEF Presence
  <2>5. Walk' /\ ParentAgrees'
    BY <2>1, <2>2, <1>2 DEF Walk, ParentAgrees
  <2>6. Keyed' /\ Held' /\ Family'
    BY <2>1 DEF Keyed, Held, Family, ProcessesOnly
  <2> QED
    BY <2>1, <2>3, <2>4, <2>5, <2>6
<1>5. ASSUME CloneSucceeds(p, f, n) PROVE TreeInv'
  <2> DEFINE newpid == IF "CLONE_THREAD" \in f THEN pid[p] ELSE n
  <2>1. /\ pid' = [pid EXCEPT ![n] = newpid]
        /\ thread' = [thread EXCEPT ![n] = "CLONE_VM" \in f]
        /\ status' = [status EXCEPT ![n] = "Ready"]
        /\ global' = global \cup {n}
        /\ clash' = (clash \/ kernel[n] # "none")
        /\ world' = world
        /\ kernel' = [kernel EXCEPT ![n] = "live"]
        /\ pc' = [pc EXCEPT ![n] = "run"]
        /\ todo' = todo /\ warg' = warg /\ wtask' = wtask
    BY <1>5 DEF CloneSucceeds, frame
  <2>2. newpid \in Tids /\ n # p /\ p # NoTid
    BY <1>0, <1>2, <1>3 DEF TypeOK, Unused
  <2>3. parent' = [t \in Tids |->
            IF t = n THEN IF "CLONE_PARENT" \in f THEN parent[p] ELSE p
            ELSE IF parent[t] = n THEN Gone ELSE parent[t]]
    BY <1>5 DEF CloneSucceeds
  <2>4. children' = IF "CLONE_PARENT" \in f THEN children ELSE [children EXCEPT ![p][newpid] = n]
    BY <1>5 DEF CloneSucceeds
  <2> HIDE DEF newpid
  <2>5. /\ children' \in [Tids -> [Tids -> Tids \cup {NoTid}]]
        /\ \A q, j \in Tids : \/ children'[q][j] = children[q][j]
                              \/ q = p /\ j = newpid /\ children'[q][j] = n /\ "CLONE_PARENT" \notin f
        /\ "CLONE_PARENT" \notin f => children'[p][newpid] = n
    <3>1. CASE "CLONE_PARENT" \in f
      BY <3>1, <2>4 DEF TypeOK
    <3>2. CASE "CLONE_PARENT" \notin f
      <4>1. children' = [children EXCEPT ![p][newpid] = n]
        BY <3>2, <2>4
      <4>2. /\ children' \in [Tids -> [Tids -> Tids \cup {NoTid}]]
            /\ \A q, j \in Tids :
                 children'[q][j] = IF q = p /\ j = newpid THEN n ELSE children[q][j]
        BY <4>1, <2>2, <1>3, OneEntry, ZenonT(60)
      <4> QED
        BY <4>2, <3>2, <2>2
    <3> QED
      BY <3>1, <3>2
  <2>6. \A t \in Tids : /\ pid'[t] = IF t = n THEN newpid ELSE pid[t]
                        /\ pc'[t] = IF t = n THEN "run" ELSE pc[t]
                        /\ kernel'[t] = IF t = n THEN "live" ELSE kernel[t]
    BY <2>1 DEF TypeOK
  <2>7. \A t \in Tids : /\ t # n /\ parent[t] # n => parent'[t] = parent[t]
                        /\ t # n /\ parent[t] = n => parent'[t] = Gone
    BY <2>3
  <2>8. "CLONE_PARENT" \notin f => parent'[n] = p
    BY <2>3, <1>3
  <2>9. TypeOK'
    <3>1. parent' \in [Tids -> Tids \cup {NoTid, Gone}]
      BY <2>3, <2>2, <1>3 DEF TypeOK
    <3>2. \A t \in Tids : wtask'[t] # NoTid <=> pc'[t] = "found"
      BY <2>1, <2>6, <1>3 DEF TypeOK, Unused
    <3>3. /\ pid' \in [Tids -> Tids] /\ thread' \in [Tids -> BOOLEAN]
          /\ status' \in [Tids -> {"Ready", "Zombie", "Terminated"}] /\ global' \subseteq Tids
      BY <2>1, <2>2, <1>3 DEF TypeOK
    <3>4. /\ kernel' \in [Tids -> {"none", "live", "exited"}]
          /\ pc' \in [Tids -> {"none", "run", "reparent", "zombie", "terminate",
                               "leaving", "wait", "found",
                               "fork_panic", "init_panic", "reap_panic"}]
      BY <2>1 DEF TypeOK
    <3> QED
      BY <2>1, <2>5, <3>1, <3>2, <3>3, <3>4 DEF TypeOK
  <2>10. Presence'
    <3>1. \A t \in Tids : pc'[t] \in {"none", "zombie", "terminate", "leaving"} => t # n /\ t # p
      BY <2>6, <1>2
    <3>2. \A t, k \in Tids : t # p => children'[t][k] = children[t][k]
      BY <2>5
    <3>3. n # InitTid
      BY <1>3 DEF Unused
    <3> QED
      BY <2>1, <2>6, <3>1, <3>2, <3>3, <1>3 DEF Presence
  <2>11. \A q, k \in Tids : children'[q][k] # NoTid /\ children'[q][k] # n =>
            /\ children[q][k] = children'[q][k] /\ children[q][k] \in Tids
            /\ q # n /\ parent'[children[q][k]] = parent[children[q][k]]
    <3> SUFFICES ASSUME NEW q \in Tids, NEW k \in Tids,
                        children'[q][k] # NoTid, children'[q][k] # n
                 PROVE  /\ children[q][k] = children'[q][k] /\ children[q][k] \in Tids
                        /\ q # n /\ parent'[children[q][k]] = parent[children[q][k]]
      OBVIOUS
    <3>1. children[q][k] = children'[q][k] /\ children[q][k] \in Tids
      BY <2>5
    <3>2. q # n /\ n # InitTid
      BY <3>1, <1>3 DEF Unused
    <3>3. parent[children[q][k]] \in {q, InitTid}
      BY <3>1 DEF ParentAgrees
    <3> QED
      BY <3>1, <3>2, <3>3, <2>7
  <2>12. \A q, k \in Tids : children'[q][k] = n =>
            q = p /\ k = newpid /\ "CLONE_PARENT" \notin f /\ parent'[n] = p
    BY <2>5, <2>8, <1>3 DEF Unused
  <2>13. Keyed' /\ ParentAgrees'
    <3> SUFFICES ASSUME NEW q \in Tids, NEW k \in Tids, children'[q][k] # NoTid
                 PROVE  /\ pid'[children'[q][k]] = k
                        /\ parent'[children'[q][k]] = q => kernel'[children'[q][k]] # "none"
                        /\ \/ parent'[children'[q][k]] = q
                           \/ /\ parent'[children'[q][k]] = InitTid
                              /\ pc'[q] = "reparent" /\ k \notin todo'[q]
      BY DEF Keyed, ParentAgrees
    <3>1. CASE children'[q][k] = n
      BY <3>1, <2>6, <2>12, <1>3
    <3>2. CASE children'[q][k] # n
      <4>1. /\ children[q][k] = children'[q][k] /\ children[q][k] \in Tids
            /\ q # n /\ parent'[children[q][k]] = parent[children[q][k]]
        BY <3>2, <2>11
      <4>2. /\ pid'[children[q][k]] = pid[children[q][k]]
            /\ kernel'[children[q][k]] = kernel[children[q][k]]
            /\ pc'[q] = pc[q] /\ todo' = todo
        BY <4>1, <3>2, <2>1, <2>6
      <4> QED
        BY <4>1, <4>2 DEF Keyed, ParentAgrees
    <3> QED
      BY <3>1, <3>2
  <2>14. Walk'
    <3> SUFFICES ASSUME NEW q \in Tids, NEW k \in Tids, pc'[q] = "reparent"
                 PROVE  /\ k \in todo'[q] => children'[q][k] # NoTid
                        /\ children'[q][k] # NoTid /\ k \notin todo'[q]
                             => parent'[children'[q][k]] = InitTid
      BY DEF Walk
    <3>1. q # n /\ q # p /\ pc[q] = "reparent"
      BY <2>6, <1>2
    <3>2. children'[q][k] = children[q][k] /\ children[q][k] # n
      BY <3>1, <2>5, <1>3 DEF Unused
    <3> QED
      BY <3>1, <3>2, <2>1, <2>11 DEF Walk
  <2>15. Held'
    <3> SUFFICES ASSUME NEW q \in Tids, wtask'[q] # NoTid
                 PROVE  /\ parent'[wtask'[q]] = q /\ kernel'[wtask'[q]] # "none"
                        /\ ~world'.smp => \A r, k \in Tids : children'[r][k] = wtask'[q] => r = q
      BY DEF Held
    <3>1. wtask'[q] = wtask[q] /\ wtask[q] \in Tids /\ wtask[q] # n
      BY <2>1, <1>3 DEF TypeOK, Unused
    <3>2. q # n
      BY <3>1, <2>1, <1>3 DEF TypeOK, Unused
    <3>3. parent[wtask[q]] = q /\ kernel[wtask[q]] # "none"
      BY <3>1, <2>1 DEF Held
    <3>4. ~world.smp => \A r, k \in Tids : children[r][k] = wtask[q] => r = q
      BY <3>1, <2>1 DEF Held
    <3>5. \A r, k \in Tids : children'[r][k] = wtask[q] => children[r][k] = wtask[q]
      BY <3>1, <2>5
    <3> QED
      BY <3>1, <3>2, <3>3, <3>4, <3>5, <2>1, <2>6, <2>7
  <2>16. Family'
    <3> SUFFICES ASSUME ProcessesOnly
                 PROVE  /\ ~clash'
                        /\ \A t \in Tids :
                             /\ pid'[t] = t
                             /\ t # InitTid /\ kernel'[t] # "none" =>
                                  parent'[t] \in Tids /\ children'[parent'[t]][t] = t
      BY <2>1 DEF Family, ProcessesOnly
    <3>1. f = {} /\ newpid = n
      BY DEF ProcessesOnly, newpid
    <3>2. kernel[n] = "none"
      BY <1>3 DEF Family, Unused
    <3>3. \A t \in Tids : pid'[t] = t
      BY <3>1, <2>6 DEF Family
    <3>4. ASSUME NEW t \in Tids, t # InitTid, kernel'[t] # "none"
          PROVE  parent'[t] \in Tids /\ children'[parent'[t]][t] = t
      <4>1. CASE t = n
        BY <4>1, <3>1, <2>5, <2>8
      <4>2. CASE t # n
        <5>1. parent[t] \in Tids /\ children[parent[t]][t] = t
          BY <3>4, <4>2, <2>6 DEF Family
        <5>2. parent[t] # n
          BY <5>1, <1>0, <1>3 DEF Unused
        <5>3. parent'[t] = parent[t]
          BY <5>2, <4>2, <2>7
        <5>4. children'[parent[t]][t] = children[parent[t]][t]
          BY <5>1, <4>2, <3>1, <2>5
        <5> QED
          BY <5>1, <5>3, <5>4
      <4> QED
        BY <4>1, <4>2
    <3> QED
      BY <3>2, <3>3, <3>4, <2>1, <1>2
  <2> QED
    BY <2>1, <2>9, <2>10, <2>13, <2>14, <2>15, <2>16
<1> QED
  BY <1>1, <1>4, <1>5
\* What do_exit and do_wait4 leave alone when they only move from one place to the next.
SameTree == /\ pid' = pid /\ thread' = thread /\ parent' = parent /\ children' = children
            /\ clash' = clash /\ world' = world

\* do_exit begins: a task takes the list of its children.
LEMMA ExitKeeps ==
  ASSUME TreeInv, NEW p \in Tids, Undisturbed(p), Exit(p)
  PROVE  TreeInv'
<1> USE DEF TreeInv
<1>1. /\ SameTree /\ status' = status /\ global' = global /\ kernel' = kernel
      /\ warg' = warg /\ wtask' = wtask /\ pc[p] = "run" /\ p # InitTid
  BY DEF Exit, SameTree, made
<1>2. \/ pc' = [pc EXCEPT ![p] = "init_panic"] /\ todo' = todo
      \/ pc' = [pc EXCEPT ![p] = "reparent"] /\ todo' = [todo EXCEPT ![p] = Keys(p)]
  BY DEF Exit
<1>3. /\ \A t \in Tids : t # p => pc'[t] = pc[t] /\ todo'[t] = todo[t]
      /\ pc'[p] = "init_panic" \/ (pc'[p] = "reparent" /\ todo'[p] = Keys(p))
  BY <1>2 DEF TypeOK
<1>4. Keys(p) \subseteq Tids /\ \A k \in Tids : k \in Keys(p) <=> children[p][k] # NoTid
  BY DEF Keys
<1>5. TypeOK'
  <2>1. todo' \in [Tids -> SUBSET Tids]
    BY <1>2, <1>4 DEF TypeOK
  <2>2. pc' \in [Tids -> {"none", "run", "reparent", "zombie", "terminate",
                          "leaving", "wait", "found",
                          "fork_panic", "init_panic", "reap_panic"}]
    BY <1>2 DEF TypeOK
  <2>3. \A t \in Tids : wtask'[t] # NoTid <=> pc'[t] = "found"
    BY <1>1, <1>3 DEF TypeOK
  <2> QED
    BY <1>1, <2>1, <2>2, <2>3 DEF TypeOK, SameTree
<1>6. Presence'
  BY <1>1, <1>3 DEF Presence, SameTree
<1>7. Keyed' /\ Held' /\ Family'
  BY <1>1 DEF Keyed, Held, Family, ProcessesOnly, SameTree
<1>8. Walk' /\ ParentAgrees'
  BY <1>1, <1>3, <1>4 DEF Walk, ParentAgrees, SameTree
<1> QED
  BY <1>1, <1>5, <1>6, <1>7, <1>8 DEF SameTree

\* One round of the walk in do_exit: the child moves to init.
LEMMA ReparentKeeps ==
  ASSUME TreeInv, NEW p \in Tids, Undisturbed(p), Reparent(p)
  PROVE  TreeInv'
<1> USE DEF TreeInv
<1>0. InitTid \in Tids /\ NoTid \notin Tids /\ NoTid # Gone /\ Tids \subseteq Nat
  BY TreeAssumption DEF NoTid, Gone
<1> DEFINE k == CHOOSE x \in todo[p] : \A y \in todo[p] : x <= y
           c == children[p][k]
<1>1. pc[p] = "reparent" /\ todo[p] # {} /\ todo[p] \subseteq Tids
  BY DEF Reparent, TypeOK
<1>2. /\ parent' = [parent EXCEPT ![c] = InitTid]
      /\ children' = [children EXCEPT ![InitTid][k] = c]
      /\ todo' = [todo EXCEPT ![p] = @ \ {k}]
      /\ pid' = pid /\ thread' = thread /\ status' = status /\ global' = global
      /\ kernel' = kernel /\ pc' = pc /\ warg' = warg /\ wtask' = wtask
      /\ clash' = clash /\ world' = world
  BY DEF Reparent, made
<1>3. k \in todo[p] /\ k \in Tids
  <2>1. \E x \in todo[p] : \A y \in todo[p] : x <= y
    <3>1. todo[p] \in SUBSET Nat /\ todo[p] # {}
      BY <1>0, <1>1
    <3> QED
      BY <3>1, LeastOf
  <2> QED
    BY <2>1, <1>1
<1> HIDE DEF k
<1>4. c \in Tids /\ parent[c] = p /\ kernel[c] # "none" /\ pid[c] = k /\ p # InitTid
  <2>1. c # NoTid /\ children[p] \in [Tids -> Tids \cup {NoTid}]
    BY <1>1, <1>3 DEF Walk, TypeOK
  <2>2. c \in Tids
    BY <2>1, <1>3
  <2>3. p # InitTid
    BY <1>1 DEF Presence
  <2>4. parent[c] = p
    BY <1>1, <1>3, <2>1 DEF ParentAgrees
  <2> QED
    BY <1>3, <2>1, <2>2, <2>3, <2>4 DEF Keyed
<1>c. PICK d \in Tids : d = c
  BY <1>4
<1> HIDE DEF c
<1>5. /\ children' \in [Tids -> [Tids -> Tids \cup {NoTid}]]
      /\ \A q, j \in Tids :
           children'[q][j] = IF q = InitTid /\ j = k THEN c ELSE children[q][j]
  <2>1. children' = [children EXCEPT ![InitTid][k] = c]
    BY <1>2
  <2>2. TypeOK /\ c \in Tids \cup {NoTid}
    BY <1>4
  <2>3. \A x \in Tids, y \in Tids, z \in Tids \cup {NoTid} :
          children' = [children EXCEPT ![x][y] = z] =>
            /\ children' \in [Tids -> [Tids -> Tids \cup {NoTid}]]
            /\ \A q, j \in Tids : children'[q][j] = IF q = x /\ j = y THEN z ELSE children[q][j]
    BY <2>2, OneEntry
  <2>4. PICK i \in Tids : i = k
    BY <1>3
  <2>5. children' = [children EXCEPT ![InitTid][i] = d]
    BY <2>1, <2>4, <1>c
  <2>6. /\ children' \in [Tids -> [Tids -> Tids \cup {NoTid}]]
        /\ \A q, j \in Tids : children'[q][j] = IF q = InitTid /\ j = i THEN d ELSE children[q][j]
    <3>1. InitTid \in Tids /\ d \in Tids \cup {NoTid}
      BY <1>0
    <3> QED
      BY <2>3, <2>5, <3>1, ZenonT(60)
  <2> QED
    BY <2>4, <2>6, <1>c
<1>6. /\ \A t \in Tids : parent'[t] = IF t = c THEN InitTid ELSE parent[t]
      /\ \A t \in Tids : todo'[t] = IF t = p THEN todo[p] \ {k} ELSE todo[t]
  BY <1>2 DEF TypeOK
<1>7. TypeOK'
  BY <1>0, <1>2, <1>5 DEF TypeOK
<1>8. Presence'
  <2>1. pc[InitTid] \notin {"none", "zombie", "terminate", "leaving"}
    BY <1>0 DEF Presence
  <2>2. \A t, j \in Tids : t # InitTid => children'[t][j] = children[t][j]
    BY <1>5
  <2> QED
    BY <1>2, <2>1, <2>2 DEF Presence
<1>9. Keyed' /\ ParentAgrees'
  <2> SUFFICES ASSUME NEW q \in Tids, NEW j \in Tids, children'[q][j] # NoTid
               PROVE  /\ pid'[children'[q][j]] = j
                      /\ parent'[children'[q][j]] = q => kernel'[children'[q][j]] # "none"
                      /\ \/ parent'[children'[q][j]] = q
                         \/ /\ parent'[children'[q][j]] = InitTid
                            /\ pc'[q] = "reparent" /\ j \notin todo'[q]
    BY DEF Keyed, ParentAgrees
  <2>1. CASE children'[q][j] = c
    <3>1. q = InitTid \/ children[q][j] = c
      BY <2>1, <1>5
    <3>2. q # InitTid => q = p /\ j = k
      BY <3>1, <1>0, <1>4 DEF ParentAgrees, Keyed
    <3>3. j = k
      BY <2>1, <1>4, <1>5, <1>0 DEF Keyed
    <3> QED
      BY <2>1, <3>2, <3>3, <1>1, <1>2, <1>4, <1>6
  <2>2. CASE children'[q][j] # c
    <3>1. children'[q][j] = children[q][j] /\ children[q][j] \in Tids
      BY <2>2, <1>5
    <3>2. parent'[children[q][j]] = parent[children[q][j]]
      BY <2>2, <3>1, <1>6
    <3>3. j \notin todo[q] => j \notin todo'[q]
      BY <1>6
    <3> QED
      BY <3>1, <3>2, <3>3, <1>2 DEF Keyed, ParentAgrees
  <2> QED
    BY <2>1, <2>2
<1>10. Walk'
  <2> SUFFICES ASSUME NEW q \in Tids, NEW j \in Tids, pc'[q] = "reparent"
               PROVE  /\ j \in todo'[q] => children'[q][j] # NoTid
                      /\ children'[q][j] # NoTid /\ j \notin todo'[q]
                           => parent'[children'[q][j]] = InitTid
    BY DEF Walk
  <2>1. q # InitTid /\ pc[q] = "reparent"
    BY <1>2 DEF Presence
  <2>2. children'[q][j] = children[q][j] /\ children[q][j] \in Tids \cup {NoTid}
    BY <2>1, <1>5
  <2>3. j \in todo'[q] => children'[q][j] # NoTid
    BY <2>1, <2>2, <1>6 DEF Walk
  <2>4. ASSUME children[q][j] # NoTid, j \notin todo'[q]
        PROVE  parent'[children[q][j]] = InitTid
    <3>1. CASE q = p /\ j = k
      BY <3>1, <1>4, <1>6 DEF c
    <3>2. CASE ~(q = p /\ j = k)
      <4>1. j \notin todo[q]
        BY <3>2, <2>4, <1>6
      <4>2. parent[children[q][j]] = InitTid
        BY <4>1, <2>1, <2>4 DEF Walk
      <4> QED
        BY <4>2, <2>2, <2>4, <1>6
    <3> QED
      BY <3>1, <3>2
  <2> QED
    BY <2>2, <2>3, <2>4
<1>11. Held'
  <2> SUFFICES ASSUME NEW q \in Tids, wtask'[q] # NoTid
               PROVE  /\ parent'[wtask'[q]] = q /\ kernel'[wtask'[q]] # "none"
                      /\ ~world'.smp => \A r, j \in Tids : children'[r][j] = wtask'[q] => r = q
    BY DEF Held
  <2>1. wtask'[q] = wtask[q] /\ wtask[q] \in Tids /\ pc[q] = "found" /\ q # p
    BY <1>1, <1>2 DEF TypeOK
  <2>2. parent[wtask[q]] = q /\ kernel[wtask[q]] # "none"
    BY <2>1, <1>2 DEF Held
  <2>3. wtask[q] # c
    BY <2>1, <2>2, <1>4
  <2>4. ~world.smp => \A r, j \in Tids : children[r][j] = wtask[q] => r = q
    BY <2>1, <1>2 DEF Held
  <2>5. \A r, j \in Tids : children'[r][j] = wtask[q] => children[r][j] = wtask[q]
    BY <2>3, <1>5
  <2> QED
    BY <2>1, <2>2, <2>3, <2>4, <2>5, <1>2, <1>6
<1>12. Family'
  <2> SUFFICES ASSUME ProcessesOnly
               PROVE  /\ ~clash'
                      /\ \A t \in Tids :
                           /\ pid'[t] = t
                           /\ t # InitTid /\ kernel'[t] # "none" =>
                                parent'[t] \in Tids /\ children'[parent'[t]][t] = t
    BY <1>2 DEF Family, ProcessesOnly
  <2>1. ~clash' /\ \A t \in Tids : pid'[t] = t
    BY <1>2 DEF Family
  <2>2. k = c
    BY <1>4 DEF Family
  <2>3. ASSUME NEW t \in Tids, t # InitTid, kernel'[t] # "none"
        PROVE  parent'[t] \in Tids /\ children'[parent'[t]][t] = t
    <3>1. CASE t = c
      BY <3>1, <2>2, <1>0, <1>5, <1>6
    <3>2. CASE t # c
      <4>1. parent[t] \in Tids /\ children[parent[t]][t] = t /\ parent'[t] = parent[t]
        BY <2>3, <3>2, <1>2, <1>6 DEF Family
      <4> QED
        BY <4>1, <3>2, <2>2, <1>5
    <3> QED
      BY <3>1, <3>2
  <2> QED
    BY <2>1, <2>3
<1> QED
  BY <1>2, <1>7, <1>8, <1>9, <1>10, <1>11, <1>12

\* children.clear(): all that were in the map belong to init by now.
LEMMA ClearKeeps ==
  ASSUME TreeInv, NEW p \in Tids, Undisturbed(p), ClearChildren(p)
  PROVE  TreeInv'
<1> USE DEF TreeInv
<1>0. InitTid \in Tids /\ NoTid \notin Tids /\ NoTid # Gone /\ Tids \subseteq Nat
  BY TreeAssumption DEF NoTid, Gone
<1>1. /\ pc[p] = "reparent" /\ todo[p] = {}
      /\ children' = [children EXCEPT ![p] = NoChildren]
      /\ pc' = [pc EXCEPT ![p] = "zombie"]
      /\ pid' = pid /\ thread' = thread /\ parent' = parent /\ status' = status
      /\ global' = global /\ kernel' = kernel /\ todo' = todo /\ warg' = warg /\ wtask' = wtask
      /\ clash' = clash /\ world' = world
  BY DEF ClearChildren, frame, made
<1>2. NoChildren \in [Tids -> Tids \cup {NoTid}] /\ \A k \in Tids : NoChildren[k] = NoTid
  BY DEF NoChildren
<1>3. children' \in [Tids -> [Tids -> Tids \cup {NoTid}]]
  <2> DEFINE Map == [Tids -> Tids \cup {NoTid}]
  <2>1. children \in [Tids -> Map] /\ NoChildren \in Map
    BY <1>2 DEF TypeOK
  <2> HIDE DEF Map
  <2>2. children' \in [Tids -> Map]
    BY <2>1, <1>1
  <2> QED
    BY <2>2 DEF Map
<1>4. \A q, k \in Tids : children'[q][k] = IF q = p THEN NoTid ELSE children[q][k]
  BY <1>1, <1>2 DEF TypeOK
<1>5. \A t \in Tids : pc'[t] = IF t = p THEN "zombie" ELSE pc[t]
  BY <1>1 DEF TypeOK
<1>6. p # InitTid
  BY <1>1 DEF Presence
<1>7. TypeOK'
  BY <1>1, <1>3 DEF TypeOK
<1>8. Presence'
  BY <1>1, <1>4, <1>5, <1>6 DEF Presence
<1>9. Keyed' /\ ParentAgrees'
  BY <1>1, <1>4, <1>5 DEF Keyed, ParentAgrees
<1>10. Walk'
  BY <1>1, <1>4, <1>5 DEF Walk
<1>11. Held'
  <2>1. \A q, k \in Tids : children'[q][k] # NoTid => children'[q][k] = children[q][k]
    BY <1>4
  <2>2. \A q \in Tids : wtask'[q] # NoTid =>
          \A r, k \in Tids : children'[r][k] = wtask'[q] => children[r][k] = wtask[q]
    BY <2>1, <1>1
  <2> QED
    BY <1>1, <2>2 DEF Held
<1>12. Family'
  <2> SUFFICES ASSUME ProcessesOnly, NEW t \in Tids, t # InitTid, kernel[t] # "none"
               PROVE  parent[t] \in Tids /\ children'[parent[t]][t] = t
    BY <1>1 DEF Family, ProcessesOnly
  <2>1. parent[t] \in Tids /\ children[parent[t]][t] = t
    BY DEF Family
  <2>2. parent[t] # p
    <3>1. children[p][t] = t => parent[t] = InitTid
      BY <1>0, <1>1 DEF Walk
    <3> QED
      BY <2>1, <3>1, <1>6
  <2> QED
    BY <2>1, <2>2, <1>4
<1> QED
  BY <1>1, <1>7, <1>8, <1>9, <1>10, <1>11, <1>12
\* The end of do_exit: a Zombie, then gone from the task manager, then from its stack.
LEMMA LeavingKeeps ==
  ASSUME TreeInv, NEW p \in Tids, Undisturbed(p), Zombie(p) \/ Terminate(p) \/ ExitNow(p)
  PROVE  TreeInv'
<1> USE DEF TreeInv
<1>1. /\ SameTree /\ todo' = todo /\ warg' = warg /\ wtask' = wtask
      /\ status' \in [Tids -> {"Ready", "Zombie", "Terminated"}]
  BY DEF Zombie, Terminate, ExitNow, SameTree, frame, made, TypeOK
<1>2. \/ pc[p] = "zombie" /\ pc' = [pc EXCEPT ![p] = "terminate"] /\ UNCHANGED <<global, kernel>>
      \/ /\ pc[p] = "terminate" /\ pc' = [pc EXCEPT ![p] = "leaving"]
         /\ global' = global \ {p} /\ UNCHANGED kernel
      \/ /\ pc[p] = "leaving" /\ pc' = [pc EXCEPT ![p] = "none"]
         /\ kernel' = [kernel EXCEPT ![p] = "exited"] /\ UNCHANGED global
  BY DEF Zombie, Terminate, ExitNow
<1>3. \A t \in Tids : t # p => pc'[t] = pc[t] /\ kernel'[t] = kernel[t]
  BY <1>2 DEF TypeOK
<1>4. \/ pc'[p] = "terminate" /\ p \in global /\ global' = global /\ kernel'[p] = "live"
      \/ pc'[p] = "leaving" /\ global' = global \ {p} /\ kernel'[p] = "live"
      \/ pc'[p] = "none" /\ p \notin global /\ global' = global /\ kernel'[p] = "exited"
  BY <1>2 DEF TypeOK, Presence
<1>5. /\ p # InitTid /\ \A k \in Tids : children[p][k] = NoTid
      /\ pc[p] \notin {"found", "reparent", "none"} /\ pc'[p] \notin {"found", "reparent"}
  BY <1>2, <1>4 DEF Presence
<1>6. \A t \in Tids : kernel'[t] = "none" <=> kernel[t] = "none"
  BY <1>3, <1>4, <1>5 DEF Presence
<1>7. TypeOK'
  <2>1. /\ kernel' \in [Tids -> {"none", "live", "exited"}]
        /\ pc' \in [Tids -> {"none", "run", "reparent", "zombie", "terminate",
                             "leaving", "wait", "found",
                             "fork_panic", "init_panic", "reap_panic"}]
    BY <1>2 DEF TypeOK
  <2>2. \A t \in Tids : wtask'[t] # NoTid <=> pc'[t] = "found"
    BY <1>1, <1>3, <1>5 DEF TypeOK
  <2>3. global' \subseteq Tids
    BY <1>4 DEF TypeOK
  <2> QED
    BY <1>1, <2>1, <2>2, <2>3 DEF TypeOK, SameTree
<1>8. Presence'
  <2> SUFFICES ASSUME NEW t \in Tids
               PROVE  /\ t \in global' <=> pc'[t] \notin {"none", "leaving"}
                      /\ pc'[t] # "none" => kernel'[t] = "live"
                      /\ pc'[t] \in {"none", "zombie", "terminate", "leaving"} =>
                           \A k \in Tids : children[t][k] = NoTid
                      /\ t = InitTid =>
                           pc'[t] \notin {"none", "reparent", "zombie", "terminate", "leaving"}
    BY <1>1 DEF Presence, SameTree
  <2>1. CASE t = p
    BY <2>1, <1>4, <1>5
  <2>2. CASE t # p
    BY <2>2, <1>3, <1>4 DEF Presence
  <2> QED
    BY <2>1, <2>2
<1>9. Keyed'
  <2>1. \A q, k \in Tids : children[q][k] # NoTid => children[q][k] \in Tids
    BY DEF TypeOK
  <2> QED
    BY <1>1, <1>6, <2>1 DEF Keyed, SameTree
<1>10. ParentAgrees' /\ Walk'
  BY <1>1, <1>3, <1>5 DEF ParentAgrees, Walk, SameTree
<1>11. Held'
  <2>1. \A q \in Tids : wtask[q] # NoTid => wtask[q] \in Tids
    BY DEF TypeOK
  <2> QED
    BY <1>1, <1>6, <2>1 DEF Held, SameTree
<1>12. Family'
  BY <1>1, <1>6 DEF Family, ProcessesOnly, SameTree
<1> QED
  BY <1>1, <1>7, <1>8, <1>9, <1>10, <1>11, <1>12 DEF SameTree

\* do_wait4 begins, waits again or gives up: only the place of the caller changes.
LEMMA WaitCallKeeps ==
  ASSUME TreeInv, NEW p \in Tids, Undisturbed(p), WaitCall(p)
  PROVE  TreeInv'
<1> USE DEF TreeInv
<1>1. /\ SameTree /\ todo' = todo /\ wtask' = wtask /\ status' = status /\ global' = global
      /\ kernel' = kernel /\ pc[p] = "run" /\ pc' = [pc EXCEPT ![p] = "wait"]
  BY DEF WaitCall, SameTree, made
<1>2. PICK a \in WaitArgs(p) : warg' = [warg EXCEPT ![p] = a[1]]
  BY DEF WaitCall
<1>3. warg' \in [Tids -> Tids \cup {Any}]
  BY <1>2, ArgsAreTids DEF TypeOK
<1>4. \A t \in Tids : pc'[t] = IF t = p THEN "wait" ELSE pc[t]
  BY <1>1 DEF TypeOK
<1>5. TypeOK'
  BY <1>1, <1>3 DEF TypeOK, SameTree
<1>6. Presence'
  BY <1>1, <1>4 DEF Presence, SameTree
<1>7. Keyed' /\ Held' /\ Family'
  BY <1>1 DEF Keyed, Held, Family, ProcessesOnly, SameTree
<1>8. Walk' /\ ParentAgrees'
  BY <1>1, <1>4 DEF Walk, ParentAgrees, SameTree
<1> QED
  BY <1>1, <1>5, <1>6, <1>7, <1>8 DEF SameTree

\* filter_exit_task finds a child of its own; on one CPU nobody is re-parenting it.
LEMMA FilterKeeps ==
  ASSUME TreeInv, NEW p \in Tids, Undisturbed(p), Filter(p)
  PROVE  TreeInv'
<1> USE DEF TreeInv
<1>0. InitTid \in Tids /\ NoTid \notin Tids /\ Tids \subseteq Nat /\ Any \notin Tids
  BY TreeAssumption DEF NoTid, Any
<1>1. /\ SameTree /\ todo' = todo /\ status' = status /\ global' = global /\ kernel' = kernel
      /\ pc[p] = "wait"
  BY DEF Filter, SameTree, made
<1> DEFINE k == CHOOSE x \in Finished(p) : \A y \in Finished(p) : x <= y
<1>2. \/ pc' = [pc EXCEPT ![p] = "run"] /\ wtask' = wtask /\ warg' = [warg EXCEPT ![p] = Any]
      \/ /\ Finished(p) # {} /\ pc' = [pc EXCEPT ![p] = "found"]
         /\ wtask' = [wtask EXCEPT ![p] = children[p][k]] /\ warg' = warg
  BY DEF Filter, Forget
<1>3. Finished(p) # {} => k \in Finished(p)
  <2> SUFFICES ASSUME Finished(p) # {} PROVE k \in Finished(p)
    OBVIOUS
  <2>1. Finished(p) \in SUBSET Nat
    BY <1>0 DEF Finished, Matching, Keys
  <2>2. \E x \in Finished(p) : \A y \in Finished(p) : x <= y
    BY <2>1, LeastOf
  <2> QED
    BY <2>2
<1> HIDE DEF k
<1>4. \A j \in Finished(p) : j \in Tids /\ children[p][j] # NoTid
  BY DEF Finished, Matching, Keys
<1>5. ASSUME pc' = [pc EXCEPT ![p] = "run"], wtask' = wtask, warg' = [warg EXCEPT ![p] = Any]
      PROVE  TreeInv'
  <2>1. \A t \in Tids : pc'[t] = IF t = p THEN "run" ELSE pc[t]
    BY <1>5 DEF TypeOK
  <2>2. TypeOK'
    BY <1>1, <1>5 DEF TypeOK, SameTree
  <2>3. Presence'
    BY <1>1, <2>1 DEF Presence, SameTree
  <2>4. Keyed' /\ Held' /\ Family'
    BY <1>1, <1>5 DEF Keyed, Held, Family, ProcessesOnly, SameTree
  <2>5. Walk' /\ ParentAgrees'
    BY <1>1, <2>1 DEF Walk, ParentAgrees, SameTree
  <2> QED
    BY <1>1, <2>2, <2>3, <2>4, <2>5 DEF SameTree
<1>6. ASSUME k \in Tids, children[p][k] # NoTid, pc' = [pc EXCEPT ![p] = "found"],
             wtask' = [wtask EXCEPT ![p] = children[p][k]], warg' = warg
      PROVE  TreeInv'
  <2>1. \A t \in Tids : /\ pc'[t] = IF t = p THEN "found" ELSE pc[t]
                        /\ wtask'[t] = IF t = p THEN children[p][k] ELSE wtask[t]
    BY <1>6 DEF TypeOK
  <2>2. PICK c \in Tids : c = children[p][k]
    <3>1. children[p] \in [Tids -> Tids \cup {NoTid}]
      BY DEF TypeOK
    <3> QED
      BY <3>1, <1>6
  <2>3. parent[c] = p /\ kernel[c] # "none" /\ pid[c] = k
    BY <1>0, <1>1, <1>6, <2>2 DEF ParentAgrees, Keyed
  <2>4. TypeOK'
    <3>1. wtask' = [wtask EXCEPT ![p] = c]
      BY <1>6, <2>2
    <3>2. wtask' \in [Tids -> Tids \cup {NoTid}]
      BY <3>1 DEF TypeOK
    <3>3. \A t \in Tids : wtask'[t] # NoTid <=> pc'[t] = "found"
      BY <2>1, <1>6 DEF TypeOK
    <3>4. pc' \in [Tids -> {"none", "run", "reparent", "zombie", "terminate",
                            "leaving", "wait", "found",
                            "fork_panic", "init_panic", "reap_panic"}]
      BY <1>6 DEF TypeOK
    <3> QED
      BY <1>1, <1>6, <3>2, <3>3, <3>4 DEF TypeOK, SameTree
  <2>5. Presence'
    BY <1>1, <2>1 DEF Presence, SameTree
  <2>6. Keyed' /\ Family'
    BY <1>1 DEF Keyed, Family, ProcessesOnly, SameTree
  <2>7. Walk' /\ ParentAgrees'
    BY <1>1, <2>1 DEF Walk, ParentAgrees, SameTree
  <2>8. Held'
    <3> SUFFICES ASSUME NEW q \in Tids, wtask'[q] # NoTid
                 PROVE  /\ parent[wtask'[q]] = q /\ kernel[wtask'[q]] # "none"
                        /\ ~world.smp => \A r, j \in Tids : children[r][j] = wtask'[q] => r = q
      BY <1>1 DEF Held, SameTree
    <3>1. CASE q = p
      <4>1. wtask'[q] = c
        BY <3>1, <2>1, <2>2
      <4>2. ASSUME ~world.smp, NEW r \in Tids, NEW j \in Tids, children[r][j] = c
            PROVE  r = p
        <5>1. parent[c] = r \/ pc[r] = "reparent"
          BY <4>2, <1>0 DEF ParentAgrees
        <5>2. r # p => pc[r] # "reparent"
          BY <4>2 DEF Undisturbed
        <5> QED
          BY <5>1, <5>2, <2>3
      <4> QED
        BY <4>1, <4>2, <2>3, <3>1
    <3>2. CASE q # p
      BY <3>2, <2>1 DEF Held
    <3> QED
      BY <3>1, <3>2
  <2> QED
    BY <1>1, <2>4, <2>5, <2>6, <2>7, <2>8 DEF SameTree
<1> QED
  BY <1>2, <1>3, <1>4, <1>5, <1>6
\* wait4 releases a child: its entry goes away with it.
LEMMA ReapKeeps ==
  ASSUME TreeInv, NEW p \in Tids, Undisturbed(p), Reap(p)
  PROVE  TreeInv'
<1> USE DEF TreeInv
<1>0. InitTid \in Tids /\ NoTid \notin Tids /\ Tids \subseteq Nat /\ Any \notin Tids
  BY TreeAssumption DEF NoTid, Any
<1> DEFINE c == wtask[p]
<1>1. /\ pc[p] = "found" /\ wtask' = [wtask EXCEPT ![p] = NoTid]
      /\ warg' = [warg EXCEPT ![p] = Any]
      /\ pid' = pid /\ thread' = thread /\ parent' = parent /\ status' = status
      /\ global' = global /\ todo' = todo /\ clash' = clash /\ world' = world
  BY DEF Reap, Forget, made
<1>2. c \in Tids /\ parent[c] = p /\ kernel[c] = "exited" /\ pc[c] = "none" /\ pid[c] \in Tids
  <2>1. c \in Tids /\ kernel[c] = "exited"
    BY <1>1 DEF TypeOK, Reap
  <2>2. c # NoTid
    BY <2>1, <1>0
  <2> QED
    BY <2>1, <2>2 DEF Held, Presence, TypeOK
<1>3. \E x \in {"run", "reap_panic"} : pc' = [pc EXCEPT ![p] = x]
  <2>1. \E x \in {"run", "reap_panic"} : \/ x = (IF pid[c] = c THEN "run" ELSE "reap_panic")
                                         \/ x = (IF SoleOwner(p, c) THEN "run" ELSE "reap_panic")
    OBVIOUS
  <2>2. \/ pc' = [pc EXCEPT ![p] = IF pid[c] = c THEN "run" ELSE "reap_panic"]
        \/ pc' = [pc EXCEPT ![p] = IF SoleOwner(p, c) THEN "run" ELSE "reap_panic"]
    BY DEF Reap
  <2> HIDE DEF c
  <2>3. CASE pc' = [pc EXCEPT ![p] = IF pid[c] = c THEN "run" ELSE "reap_panic"]
    BY <2>3
  <2>4. CASE pc' = [pc EXCEPT ![p] = IF SoleOwner(p, c) THEN "run" ELSE "reap_panic"]
    BY <2>4
  <2> QED
    BY <2>2, <2>3, <2>4
<1>4. \/ children' = children /\ kernel' = kernel
      \/ children' = [children EXCEPT ![p][pid[c]] = NoTid] /\ kernel' = [kernel EXCEPT ![c] = "none"]
  BY DEF Reap
<1>5. PICK d \in Tids, k \in Tids : d = c /\ k = pid[c]
  BY <1>2
<1> HIDE DEF c
<1>6. \A t \in Tids : /\ t # p => pc'[t] = pc[t] /\ wtask'[t] = wtask[t]
                      /\ t = p => pc'[t] \in {"run", "reap_panic"} /\ wtask'[t] = NoTid
  BY <1>1, <1>3 DEF TypeOK
<1>7. p \in global /\ pc[p] = "found" /\ p # d
  BY <1>1, <1>2, <1>5 DEF Presence
<1>8. \/ children' = children /\ kernel' = kernel
      \/ /\ \A q, j \in Tids : children'[q][j] = IF q = p /\ j = k THEN NoTid ELSE children[q][j]
         /\ \A t \in Tids : kernel'[t] = IF t = d THEN "none" ELSE kernel[t]
  <2>1. CASE children' = children /\ kernel' = kernel
    BY <2>1
  <2>2. CASE children' = [children EXCEPT ![p][pid[c]] = NoTid] /\ kernel' = [kernel EXCEPT ![c] = "none"]
    <3>1. children' = [children EXCEPT ![p][k] = NoTid]
      BY <2>2, <1>5
    <3>2. NoTid \in Tids \cup {NoTid} /\ TypeOK
      OBVIOUS
    <3>3. \A q, j \in Tids : children'[q][j] = IF q = p /\ j = k THEN NoTid ELSE children[q][j]
      BY <3>1, <3>2, OneEntry, ZenonT(60)
    <3>4. \A t \in Tids : kernel'[t] = IF t = d THEN "none" ELSE kernel[t]
      BY <2>2, <1>5 DEF TypeOK
    <3> QED
      BY <3>3, <3>4
  <2> QED
    BY <1>4, <2>1, <2>2
<1>9. children' \in [Tids -> [Tids -> Tids \cup {NoTid}]] /\ kernel' \in [Tids -> {"none", "live", "exited"}]
  <2>1. CASE children' = children /\ kernel' = kernel
    BY <2>1 DEF TypeOK
  <2>2. CASE children' = [children EXCEPT ![p][pid[c]] = NoTid] /\ kernel' = [kernel EXCEPT ![c] = "none"]
    <3>1. children' = [children EXCEPT ![p][k] = NoTid]
      BY <2>2, <1>5
    <3>2. NoTid \in Tids \cup {NoTid} /\ TypeOK
      OBVIOUS
    <3>3. children' \in [Tids -> [Tids -> Tids \cup {NoTid}]]
      BY <3>1, <3>2, OneEntry, Zenon
    <3>4. kernel' \in [Tids -> {"none", "live", "exited"}]
      BY <2>2 DEF TypeOK
    <3> QED
      BY <3>3, <3>4
  <2> QED
    BY <1>4, <2>1, <2>2
<1>10. /\ \A q, j \in Tids : children'[q][j] # NoTid => children'[q][j] = children[q][j]
       /\ \A q, j \in Tids : children[q][j] # NoTid /\ q # p => children'[q][j] = children[q][j]
       /\ \A t \in Tids : t # d => kernel'[t] = kernel[t]
       /\ \A q, j \in Tids : children'[q][j] # NoTid /\ children[q][j] = d /\ q = p => kernel'[d] # "none"
  <2>1. \A j \in Tids : children[p][j] = d => j = k
    BY <1>0, <1>5 DEF Keyed
  <2> QED
    BY <2>1, <1>2, <1>5, <1>8
<1>11. TypeOK'
  <2>1. warg' \in [Tids -> Tids \cup {Any}] /\ wtask' \in [Tids -> Tids \cup {NoTid}]
    BY <1>1 DEF TypeOK
  <2>2. \A t \in Tids : wtask'[t] # NoTid <=> pc'[t] = "found"
    BY <1>6 DEF TypeOK
  <2>3. pc' \in [Tids -> {"none", "run", "reparent", "zombie", "terminate",
                          "leaving", "wait", "found",
                          "fork_panic", "init_panic", "reap_panic"}]
    BY <1>3 DEF TypeOK
  <2> QED
    BY <1>1, <1>9, <2>1, <2>2, <2>3 DEF TypeOK
<1>12. Presence'
  <2>1. pc'[d] = "none"
    BY <1>2, <1>5, <1>6, <1>7
  <2>2. \A t \in Tids : pc'[t] # "none" => kernel'[t] = "live"
    BY <2>1, <1>6, <1>7, <1>10 DEF Presence
  <2>3. \A t, j \in Tids : children[t][j] = NoTid => children'[t][j] = NoTid
    BY <1>10
  <2> QED
    BY <1>1, <1>6, <1>7, <2>2, <2>3 DEF Presence
<1>13. Keyed' /\ ParentAgrees' /\ Walk'
  <2>1. ASSUME NEW q \in Tids, NEW j \in Tids, children'[q][j] # NoTid
        PROVE  /\ children'[q][j] = children[q][j] /\ children[q][j] \in Tids
               /\ parent[children[q][j]] = q => kernel'[children[q][j]] # "none"
    <3>1. children'[q][j] = children[q][j] /\ children[q][j] \in Tids
      BY <2>1, <1>9, <1>10
    <3>2. children[q][j] # d /\ parent[children[q][j]] = q => kernel'[children[q][j]] # "none"
      BY <2>1, <3>1, <1>10 DEF Keyed
    <3>3. children[q][j] = d /\ parent[d] = q => kernel'[d] # "none"
      BY <2>1, <1>2, <1>5, <1>10
    <3> QED
      BY <3>1, <3>2, <3>3
  <2>2. Keyed'
    BY <2>1, <1>1 DEF Keyed
  <2>3. ParentAgrees'
    <3> SUFFICES ASSUME NEW q \in Tids, NEW j \in Tids, children'[q][j] # NoTid
                 PROVE  \/ parent'[children'[q][j]] = q
                        \/ /\ parent'[children'[q][j]] = InitTid
                           /\ pc'[q] = "reparent" /\ j \notin todo'[q]
      BY DEF ParentAgrees
    <3>1. \/ parent[children[q][j]] = q
          \/ parent[children[q][j]] = InitTid /\ pc[q] = "reparent" /\ j \notin todo[q]
      BY <2>1 DEF ParentAgrees
    <3>2. pc[q] = "reparent" => pc'[q] = "reparent"
      BY <1>6, <1>7
    <3> QED
      BY <2>1, <3>1, <3>2, <1>1
  <2>4. Walk'
    <3> SUFFICES ASSUME NEW q \in Tids, NEW j \in Tids, pc'[q] = "reparent"
                 PROVE  /\ j \in todo[q] => children'[q][j] # NoTid
                        /\ children'[q][j] # NoTid /\ j \notin todo[q]
                             => parent[children'[q][j]] = InitTid
      BY <1>1 DEF Walk
    <3>1. q # p /\ pc[q] = "reparent"
      BY <1>6
    <3> QED
      BY <3>1, <1>10 DEF Walk
  <2> QED
    BY <2>2, <2>3, <2>4
<1>14. Held'
  <2> SUFFICES ASSUME NEW q \in Tids, wtask'[q] # NoTid
               PROVE  /\ parent[wtask'[q]] = q /\ kernel'[wtask'[q]] # "none"
                      /\ ~world.smp => \A r, j \in Tids : children'[r][j] = wtask'[q] => r = q
    BY <1>1 DEF Held
  <2>1. q # p /\ wtask'[q] = wtask[q] /\ wtask[q] \in Tids
    BY <1>6 DEF TypeOK
  <2>2. parent[wtask[q]] = q /\ kernel[wtask[q]] # "none"
    BY <2>1 DEF Held
  <2>3. wtask[q] # d
    BY <2>1, <2>2, <1>2, <1>5
  <2>4. ~world.smp => \A r, j \in Tids : children'[r][j] = wtask[q] => r = q
    <3>1. \A r, j \in Tids : children'[r][j] = wtask[q] => children[r][j] = wtask[q]
      BY <2>1, <1>0, <1>10
    <3> QED
      BY <3>1, <2>1 DEF Held
  <2> QED
    BY <2>1, <2>2, <2>3, <2>4, <1>10
<1>15. Family'
  <2> SUFFICES ASSUME ProcessesOnly
               PROVE  /\ ~clash
                      /\ \A t \in Tids :
                           /\ pid[t] = t
                           /\ t # InitTid /\ kernel'[t] # "none" =>
                                parent[t] \in Tids /\ children'[parent[t]][t] = t
    BY <1>1 DEF Family, ProcessesOnly
  <2>1. k = d
    BY <1>5 DEF Family
  <2>2. ASSUME NEW t \in Tids, t # InitTid, kernel'[t] # "none"
        PROVE  parent[t] \in Tids /\ children'[parent[t]][t] = t
    <3>1. kernel[t] # "none"
      BY <2>2, <1>2, <1>5, <1>10
    <3>2. parent[t] \in Tids /\ children[parent[t]][t] = t
      BY <2>2, <3>1 DEF Family
    <3>3. CASE children' = children /\ kernel' = kernel
      BY <3>2, <3>3
    <3>4. CASE /\ \A q, j \in Tids :
                    children'[q][j] = IF q = p /\ j = k THEN NoTid ELSE children[q][j]
               /\ \A x \in Tids : kernel'[x] = IF x = d THEN "none" ELSE kernel[x]
      <4>1. t # d
        BY <2>2, <3>4
      <4> QED
        BY <4>1, <3>2, <3>4, <2>1
    <3> QED
      BY <1>8, <3>3, <3>4
  <2> QED
    BY <2>2 DEF Family
<1> QED
  BY <1>1, <1>11, <1>12, <1>13, <1>14, <1>15

\* wait4 has found a child that is still on its kernel stack, and lets go of it.
LEMMA NotYetKeeps ==
  ASSUME TreeInv, NEW p \in Tids, Undisturbed(p), NotYet(p)
  PROVE  TreeInv'
<1> USE DEF TreeInv
<1>1. /\ SameTree /\ todo' = todo /\ status' = status /\ global' = global /\ kernel' = kernel
      /\ pc[p] = "found" /\ wtask' = [wtask EXCEPT ![p] = NoTid]
  BY DEF NotYet, SameTree, made
<1>2. \/ pc' = [pc EXCEPT ![p] = "run"] /\ warg' = [warg EXCEPT ![p] = Any]
      \/ pc' = [pc EXCEPT ![p] = "wait"] /\ warg' = warg
  BY DEF NotYet, Forget
<1>3. \A t \in Tids : /\ t # p => pc'[t] = pc[t] /\ wtask'[t] = wtask[t]
                      /\ t = p => pc'[t] \in {"run", "wait"} /\ wtask'[t] = NoTid
  BY <1>1, <1>2 DEF TypeOK
<1>4. TypeOK'
  <2>1. warg' \in [Tids -> Tids \cup {Any}] /\ wtask' \in [Tids -> Tids \cup {NoTid}]
    BY <1>1, <1>2 DEF TypeOK
  <2>2. \A t \in Tids : wtask'[t] # NoTid <=> pc'[t] = "found"
    BY <1>3 DEF TypeOK
  <2>3. pc' \in [Tids -> {"none", "run", "reparent", "zombie", "terminate",
                          "leaving", "wait", "found",
                          "fork_panic", "init_panic", "reap_panic"}]
    BY <1>2 DEF TypeOK
  <2> QED
    BY <1>1, <2>1, <2>2, <2>3 DEF TypeOK, SameTree
<1>5. Presence'
  BY <1>1, <1>3 DEF Presence, SameTree
<1>6. Keyed' /\ Family'
  BY <1>1 DEF Keyed, Family, ProcessesOnly, SameTree
<1>7. Walk' /\ ParentAgrees'
  BY <1>1, <1>3 DEF Walk, ParentAgrees, SameTree
<1>8. Held'
  BY <1>1, <1>3 DEF Held, SameTree
<1> QED
  BY <1>1, <1>4, <1>5, <1>6, <1>7, <1>8 DEF SameTree

\* One step of the specification keeps the invariant.
LEMMA StepTree == TreeInv /\ [Next]_vars => TreeInv'
<1> SUFFICES ASSUME TreeInv, [Next]_vars PROVE TreeInv'
  OBVIOUS
<1>1. ASSUME NEW p \in Tids, Undisturbed(p),
             Clone(p) \/ Exit(p) \/ WaitCall(p) \/ Leave(p) \/ Waiting(p)
      PROVE  TreeInv'
  BY <1>1, CloneKeeps, ExitKeeps, WaitCallKeeps, ReparentKeeps, ClearKeeps, LeavingKeeps,
     FilterKeeps, ReapKeeps, NotYetKeeps DEF Leave, Waiting
<1>2. CASE UNCHANGED vars
  BY <1>2 DEF vars, frame, made, TreeInv, TypeOK, Presence, Keyed, ParentAgrees, Walk, Held, Family,
     ProcessesOnly
<1> QED
  BY <1>1, <1>2 DEF Next

\* What all of the following rest on: who has whom in its children map, whom the scheduler
\* and the task manager know, and what a task in do_exit or do_wait4 holds.
THEOREM InvariantHolds == Spec => []TreeInv
  BY InitTree, StepTree, PTL DEF Spec
\* Parents of processes exist: their maps are not empty, so they have not left.
LEMMA ParentsExist ==
  ASSUME TreeInv, ProcessesOnly, NEW t \in Tids \ {InitTid}, kernel[t] # "none"
  PROVE  parent[t] \in Tids /\ children[parent[t]][pid[t]] = t /\ Exists(parent[t])
<1>0. NoTid \notin Tids
  BY TreeAssumption DEF NoTid
<1>1. parent[t] \in Tids /\ children[parent[t]][t] = t /\ pid[t] = t
  BY DEF TreeInv, Family
<1>2. parent[t] \in global
  BY <1>0, <1>1 DEF TreeInv, Presence
<1> QED
  BY <1>1, <1>2, ExistsWhen

\* do_exit and do_clone keep the family together: every process can still be waited for, has a
\* parent that exists, and the pointers of children agree with the maps of parents.
THEOREM FamilyHolds == Spec => []FamilyIsComplete
<1>1. ASSUME TreeInv PROVE FamilyIsComplete
  <2>0. NoTid \notin Tids /\ Gone \notin Tids
    BY TreeAssumption DEF NoTid, Gone
  <2>1. EveryTaskIsReapable
    <3> SUFFICES ASSUME ProcessesOnly, NEW t \in Tids \ {InitTid}, kernel[t] # "none"
                 PROVE  \E p \in Tids : children[p][pid[t]] = t /\ Exists(p)
      BY DEF EveryTaskIsReapable
    <3>1. parent[t] \in Tids /\ children[parent[t]][pid[t]] = t /\ Exists(parent[t])
      BY <1>1, ParentsExist
    <3> QED
      BY <3>1
  <2>2. ProcessParentAlive
    <3> SUFFICES ASSUME ProcessesOnly, NEW t \in Tids \ {InitTid}, pc[t] \in {"run", "wait", "found"}
                 PROVE  parent[t] # Gone /\ Exists(parent[t])
      BY DEF ProcessParentAlive, ParentAlive
    <3>1. kernel[t] # "none"
      BY <1>1 DEF TreeInv, Presence
    <3>2. parent[t] \in Tids /\ Exists(parent[t])
      BY <1>1, <3>1, ParentsExist
    <3> QED
      BY <2>0, <3>2
  <2> QED
    BY <1>1, <2>1, <2>2 DEF TreeInv, FamilyIsComplete
<1> QED
  BY <1>1, InitTree, StepTree, PTL DEF Spec

\* On one CPU nobody but the waiter refers to a task that is about to be released.
LEMMA OwnerIsAlone ==
  ASSUME TreeInv, ~world.smp, NEW p \in Tids, pc[p] = "found", kernel[wtask[p]] = "exited"
  PROVE  SoleOwner(p, wtask[p])
<1>0. NoTid \notin Tids
  BY TreeAssumption DEF NoTid
<1>1. wtask[p] # NoTid /\ wtask[p] \in Tids
  BY DEF TreeInv, TypeOK
<1>2. PICK c \in Tids : c = wtask[p]
  BY <1>1
<1>3. pc[c] = "none" /\ c \notin global /\ parent[c] = p
  BY <1>1, <1>2 DEF TreeInv, Presence, Held
<1>4. WaitRefs(c) = {p}
  <2>1. \A q \in Tids : wtask[q] = c => q = p
    BY <1>0, <1>3 DEF TreeInv, Held
  <2> QED
    BY <2>1, <1>2 DEF WaitRefs
<1>5. ChildRefs(c) \subseteq {<<p, pid[c]>>}
  <2> SUFFICES ASSUME NEW r \in Tids \X Tids, children[r[1]][r[2]] = c PROVE r = <<p, pid[c]>>
    BY DEF ChildRefs
  <2>1. PICK q \in Tids, k \in Tids : r = <<q, k>>
    OBVIOUS
  <2>2. children[q][k] = c
    BY <2>1
  <2>3. pid[c] = k /\ q = p
    BY <1>0, <1>1, <1>2, <2>2 DEF TreeInv, Keyed, Held
  <2> QED
    BY <2>1, <2>3
<1>6. pc[c] \notin InSyscall
  BY <1>3 DEF InSyscall
<1> QED
  BY <1>2, <1>3, <1>4, <1>5, <1>6 DEF SoleOwner

\* do_wait4 releases a task once; on one CPU the assertion on its strong count holds; a
\* program that makes processes only never gets a tid that the scheduler still uses.
THEOREM ReleaseHolds == Spec => []ReleaseIsSafe
<1>1. ASSUME TreeInv PROVE ReleaseIsSafe
  <2>1. ProcessTidIsUnique
    BY <1>1 DEF TreeInv, Family, ProcessTidIsUnique, TidIsUnique
  <2>2. ReleasedOnce
    BY <1>1 DEF TreeInv, Held, ReleasedOnce
  <2>3. OneCpuReaperIsSoleOwner
    BY <1>1, OwnerIsAlone DEF OneCpuReaperIsSoleOwner, ReaperIsSoleOwner
  <2> QED
    BY <2>1, <2>2, <2>3 DEF ReleaseIsSafe
<1> QED
  BY <1>1, InitTree, StepTree, PTL DEF Spec
-----------------------------------------------------------------------------
(* Process groups and sessions *)

\* setpgid and setsid leave the tree of tasks alone: the groups only add to it.
LEMMA GroupsStepTree == [GroupsNext]_gvars => [Next]_vars
<1>1. GroupsNext => [Next]_vars
  BY DEF GroupsNext, SetPgid, SetSid, Next
<1>2. UNCHANGED gvars => UNCHANGED vars
  BY DEF gvars
<1> QED
  BY <1>1, <1>2

\* Every behaviour of tasks that change groups is one of the life cycle, so all that is proved
\* of it holds for them.
THEOREM GroupsExtendTree == GroupsSpec => Spec
<1>1. GroupsInit => Init
  BY DEF GroupsInit
<1> QED
  BY <1>1, GroupsStepTree, PTL DEF GroupsSpec, Spec

\* The init process alone is the leader of its group and session.
LEMMA InitGroups == GroupsInit => GroupsInv
<1> SUFFICES ASSUME GroupsInit PROVE GroupsInv
  OBVIOUS
<1>1. TreeInv
  BY InitTree DEF GroupsInit
<1>2. /\ pgid = [t \in Tids |-> t] /\ sid = [t \in Tids |-> t]
      /\ recycled = FALSE /\ headless = {}
  BY DEF GroupsInit
<1>3. \A t \in Tids : pgid[t] = t /\ sid[t] = t
  BY <1>2
<1>4. SessionLeaderLeads /\ GroupInOneSession /\ LeaderIsMember
  BY <1>3 DEF SessionLeaderLeads, GroupInOneSession, LeaderIsMember, Listed
<1> QED
  BY <1>1, <1>2, <1>4 DEF GroupsInv

\* The tasks of the task manager are the ones that have not left.
LEMMA ListedAre == TypeOK /\ Presence => Listed = global
<1> SUFFICES ASSUME TypeOK, Presence PROVE Listed = global
  OBVIOUS
<1>1. \A t \in global : t \in Tids /\ pc[t] # "none"
  BY DEF Presence, TypeOK
<1> QED
  BY <1>1 DEF Listed

\* clone fails, or makes one task with the pid of the caller or its own tid.
LEMMA OneIsBorn ==
  ASSUME TreeInv, NEW p \in Tids, Clone(p)
  PROVE  /\ p \in global /\ world' = world
         /\ \/ global' = global /\ pid' = pid
            \/ \E n \in Tids : /\ n \notin global /\ global' = global \cup {n}
                               /\ pid'[n] \in {pid[p], n}
                               /\ \A t \in Tids : t # n => pid'[t] = pid[t]
<1>1. PICK f \in world.flags, n \in FirstFree : CloneFails(p, f) \/ CloneSucceeds(p, f, n)
  BY DEF Clone
<1>2. n \in Tids /\ n \notin global
  BY FreeIsUnused DEF TreeInv, Unused
<1>3. p \in global /\ world' = world
  BY <1>1 DEF Clone, TreeInv, Presence, CloneFails, CloneSucceeds, made
<1>4. CASE CloneFails(p, f)
  BY <1>3, <1>4 DEF CloneFails
<1>5. CASE CloneSucceeds(p, f, n)
  <2>1. global' = global \cup {n} /\ pid' = [pid EXCEPT ![n] = IF "CLONE_THREAD" \in f THEN pid[p] ELSE n]
    BY <1>5 DEF CloneSucceeds
  <2>2. pid'[n] \in {pid[p], n} /\ \A t \in Tids : t # n => pid'[t] = pid[t]
    BY <2>1, <1>2 DEF TreeInv, TypeOK
  <2> QED
    BY <2>1, <2>2, <1>2, <1>3
<1> QED
  BY <1>1, <1>4, <1>5

\* No other step makes a task or changes a pid.
LEMMA NoneIsBorn ==
  ASSUME TreeInv, NEW p \in Tids, Exit(p) \/ WaitCall(p) \/ Leave(p) \/ Waiting(p)
  PROVE  global' \subseteq global /\ pid' = pid /\ world' = world
BY DEF Exit, WaitCall, Leave, Waiting, Reparent, ClearChildren, Zombie, Terminate, ExitNow,
   Filter, Reap, NotYet, made

\* The parts of the invariant that speak of groups and sessions.
GroupParts == SessionLeaderLeads /\ GroupInOneSession /\ LeaderIsMember

\* clone: the child is in the group and the session of the caller; its tid names neither.
LEMMA InheritKeeps ==
  ASSUME GroupsInv, TreeInv', NEW p \in Tids, Clone(p), Inherit(p)
  PROVE  /\ pgid' \in [Tids -> Tids] /\ sid' \in [Tids -> Tids]
         /\ recycled' \in BOOLEAN /\ headless' \subseteq Tids
         /\ GroupParts'
<1> USE DEF GroupsInv
<1> DEFINE born == global' \ global
<1>1. /\ pgid' = [t \in Tids |-> IF t \in born THEN pgid[p] ELSE pgid[t]]
      /\ sid' = [t \in Tids |-> IF t \in born THEN sid[p] ELSE sid[t]]
      /\ recycled' = (recycled \/ \E n \in born, t \in Listed : n \in {pgid[t], sid[t]})
      /\ headless' = headless
  BY DEF Inherit
<1>2. \A t \in Tids : /\ pgid'[t] = IF t \in born THEN pgid[p] ELSE pgid[t]
                      /\ sid'[t] = IF t \in born THEN sid[p] ELSE sid[t]
  BY <1>1
<1>3. /\ pgid' \in [Tids -> Tids] /\ sid' \in [Tids -> Tids]
      /\ recycled' \in BOOLEAN /\ headless' \subseteq Tids
  BY <1>1
<1>h. headless' = headless
  BY <1>1
<1>4. Listed = global /\ Listed' = global'
  <2>1. (TypeOK /\ Presence => Listed = global)'
    BY ListedAre, PTL
  <2> QED
    BY <2>1, ListedAre DEF TreeInv
<1>5. p \in Listed /\ world' = world
  BY <1>4, OneIsBorn
<1>6. CASE global' = global /\ pid' = pid
  <2>1. born = {}
    BY <1>6
  <2>2. pgid' = pgid /\ sid' = sid /\ recycled' = recycled /\ Listed' = Listed
    BY <2>1, <1>1, <1>4, <1>6
  <2> QED
    BY <2>2, <1>h, <1>3, <1>5, <1>6
       DEF GroupParts, SessionLeaderLeads, GroupInOneSession, LeaderIsMember, ProcessesOnly
<1>7. ASSUME NEW n \in Tids, n \notin global, global' = global \cup {n},
             pid'[n] \in {pid[p], n}, \A t \in Tids : t # n => pid'[t] = pid[t]
      PROVE  GroupParts'
  <2>1. born = {n}
    BY <1>7
  <2> HIDE DEF born
  <2>2. /\ ~recycled' => ~recycled /\ \A t \in Listed : n # pgid[t] /\ n # sid[t]
        /\ pgid'[n] = pgid[p] /\ sid'[n] = sid[p]
        /\ \A t \in Tids : t # n => pgid'[t] = pgid[t] /\ sid'[t] = sid[t]
    BY <2>1, <1>1, <1>2
  <2>3. \A t \in Listed' : t \in Tids /\ (t = n \/ (t \in Listed /\ t # n))
    BY <1>4, <1>7 DEF Listed
  <2>4. SessionLeaderLeads'
    <3> SUFFICES ASSUME ~recycled', NEW t \in Listed', sid'[t] = pid'[t] PROVE pgid'[t] = pid'[t]
      BY DEF SessionLeaderLeads
    <3>1. CASE t = n
      <4>1. pid'[n] = pid[p] /\ sid[p] = pid[p]
        BY <3>1, <2>2, <1>5, <1>7
      <4> QED
        BY <4>1, <3>1, <2>2, <1>5 DEF SessionLeaderLeads
    <3>2. CASE t # n
      BY <3>2, <2>2, <2>3, <1>7 DEF SessionLeaderLeads
    <3> QED
      BY <3>1, <3>2
  <2>5. GroupInOneSession'
    <3> SUFFICES ASSUME ~recycled', ProcessesOnly, NEW t \in Listed', NEW u \in Listed',
                        pgid'[t] = pgid'[u], pgid'[t] \notin headless
                 PROVE  sid'[t] = sid'[u]
      BY <1>h, <1>5 DEF GroupInOneSession, ProcessesOnly
    <3>1. \A v \in Listed' : \E x \in Listed : pgid'[v] = pgid[x] /\ sid'[v] = sid[x]
      BY <2>2, <2>3, <1>5
    <3>2. PICK x \in Listed : pgid'[t] = pgid[x] /\ sid'[t] = sid[x]
      BY <3>1
    <3>3. PICK y \in Listed : pgid'[u] = pgid[y] /\ sid'[u] = sid[y]
      BY <3>1
    <3> QED
      BY <3>2, <3>3, <2>2, ZenonT(60) DEF GroupInOneSession
  <2>6. LeaderIsMember'
    <3> SUFFICES ASSUME ~recycled', ProcessesOnly, NEW t \in Listed', NEW u \in Listed',
                        pgid'[t] # t, pgid'[u] = t
                 PROVE  t \in headless
      BY <1>h, <1>5 DEF LeaderIsMember, ProcessesOnly
    <3>1. PICK y \in Listed : pgid'[u] = pgid[y]
      BY <2>2, <2>3, <1>5
    <3>2. t # n /\ t \in Listed
      BY <3>1, <2>2, <2>3
    <3> QED
      BY <3>1, <3>2, <2>2, <2>3 DEF LeaderIsMember
  <2> QED
    BY <2>4, <2>5, <2>6 DEF GroupParts
<1> QED
  BY <1>3, <1>6, <1>7, OneIsBorn
\* A step that makes no task can only take tasks off the list.
LEMMA LeaversKeepGroups ==
  ASSUME GroupsInv, TreeInv', NEW p \in Tids,
         Exit(p) \/ WaitCall(p) \/ Leave(p) \/ Waiting(p),
         UNCHANGED <<pgid, sid, history>>
  PROVE  /\ pgid' \in [Tids -> Tids] /\ sid' \in [Tids -> Tids]
         /\ recycled' \in BOOLEAN /\ headless' \subseteq Tids
         /\ GroupParts'
<1> USE DEF GroupsInv
<1>1. /\ pgid' = pgid /\ sid' = sid /\ recycled' = recycled /\ headless' = headless
      /\ pid' = pid /\ world' = world /\ global' \subseteq global
  BY NoneIsBorn DEF history
<1>2. Listed' \subseteq Listed
  <2>1. (TypeOK /\ Presence => Listed = global)'
    BY ListedAre, PTL
  <2> QED
    BY <2>1, <1>1, ListedAre DEF TreeInv
<1>3. \A t \in Listed : t \in Tids
  BY DEF Listed
<1> QED
  BY <1>1, <1>2, <1>3
     DEF GroupParts, SessionLeaderLeads, GroupInOneSession, LeaderIsMember, ProcessesOnly

\* The leader that setpgid looks up is a listed task with the number of the group.
LEMMA LeaderFound ==
  ASSUME TreeInv, NEW g, NEW l \in find_task_by_pid(g)
  PROVE  l \in Listed /\ pid[l] = g /\ (ProcessesOnly => l = g)
<1>1. l \in global /\ pid[l] = g
  BY DEF find_task_by_pid
<1>2. l \in Tids /\ l \in Listed
  BY <1>1, ListedAre DEF TreeInv, TypeOK
<1> QED
  BY <1>1, <1>2 DEF TreeInv, Family

\* setpgid: only a task that leads no session moves, and only into a group of its session.
LEMMA SetPgidKeeps ==
  ASSUME GroupsInv, TreeInv', NEW p \in Tids, SetPgid(p)
  PROVE  /\ pgid' \in [Tids -> Tids] /\ sid' \in [Tids -> Tids]
         /\ recycled' \in BOOLEAN /\ headless' \subseteq Tids
         /\ GroupParts'
<1> USE DEF GroupsInv
<1>1. PICK n \in Tids \cup {0}, g \in Tids \cup {0} : \E t \in Targets(p, n) :
        LET new == IF g = 0 THEN pid[t] ELSE g IN
          /\ pgid[t] # new /\ MayMove(t, new)
          /\ pgid' = [pgid EXCEPT ![t] = new]
          /\ headless' = headless \cup ({pid[t]} \cap {pgid[t]})
               \cup {new : l \in {x \in find_task_by_pid(new) : x # t /\ pgid[x] # new}}
  BY DEF SetPgid
<1>2. PICK t \in Targets(p, n) :
        LET new == IF g = 0 THEN pid[t] ELSE g IN
          /\ pgid[t] # new /\ MayMove(t, new)
          /\ pgid' = [pgid EXCEPT ![t] = new]
          /\ headless' = headless \cup ({pid[t]} \cap {pgid[t]})
               \cup {new : l \in {x \in find_task_by_pid(new) : x # t /\ pgid[x] # new}}
  BY <1>1
<1>3. /\ UNCHANGED vars /\ sid' = sid /\ recycled' = recycled /\ pc[p] = "run"
  BY DEF SetPgid
<1>4. t \in Tids /\ t \in Listed
  <2>1. t = p \/ t \in find_task_by_pid(n)
    BY DEF Targets, Meant
  <2>2. p \in Listed
    BY <1>3, ListedAre DEF TreeInv, Presence
  <2> QED
    BY <2>1, <2>2, LeaderFound DEF Listed
<1>5. PICK new \in Tids : new = IF g = 0 THEN pid[t] ELSE g
  BY <1>1, <1>4 DEF TreeInv, TypeOK
<1>6. /\ pgid[t] # new /\ MayMove(t, new) /\ pgid' = [pgid EXCEPT ![t] = new]
      /\ headless' = headless \cup ({pid[t]} \cap {pgid[t]})
           \cup {new : l \in {x \in find_task_by_pid(new) : x # t /\ pgid[x] # new}}
  BY <1>2, <1>5
<1>7. PICK l \in find_task_by_pid(new) : sid[l] = sid[t]
  BY <1>6 DEF MayMove
<1>8. l \in Listed /\ l \in Tids /\ pid[l] = new /\ (ProcessesOnly => l = new)
  BY LeaderFound DEF Listed
<1>9. /\ headless \subseteq headless' /\ headless' \subseteq Tids
      /\ pid[t] = pgid[t] => pid[t] \in headless'
      /\ l # t /\ pgid[l] # new => new \in headless'
  <2> DEFINE lost == {new : x \in {y \in find_task_by_pid(new) : y # t /\ pgid[y] # new}}
  <2>1. headless' = headless \cup ({pid[t]} \cap {pgid[t]}) \cup lost
    BY <1>6
  <2>2. lost \subseteq Tids /\ (l # t /\ pgid[l] # new => new \in lost)
    BY <1>7
  <2>3. pid[t] \in Tids
    BY <1>4 DEF TreeInv, TypeOK
  <2> HIDE DEF lost
  <2> QED
    BY <2>1, <2>2, <2>3
<1>10. \A u \in Tids : pgid'[u] = IF u = t THEN new ELSE pgid[u]
  BY <1>6
<1>11. /\ pgid' \in [Tids -> Tids] /\ sid' \in [Tids -> Tids]
       /\ recycled' \in BOOLEAN /\ headless' \subseteq Tids
  BY <1>3, <1>6, <1>9
<1>12. /\ Listed' = Listed /\ pid' = pid /\ world' = world
       /\ \A u \in Listed : u \in Tids
  BY <1>3 DEF vars, Listed
<1>13. SessionLeaderLeads'
  <2>1. sid[t] # pid[t]
    BY <1>6 DEF MayMove
  <2> QED
    BY <2>1, <1>3, <1>10, <1>12 DEF SessionLeaderLeads
<1>14. GroupInOneSession'
  <2> SUFFICES ASSUME ~recycled, ProcessesOnly, NEW u \in Listed, NEW v \in Listed,
                      pgid'[u] = pgid'[v], pgid'[u] \notin headless', u # v
               PROVE  sid[u] = sid[v]
    BY <1>3, <1>12 DEF GroupInOneSession, ProcessesOnly
  <2>1. ASSUME NEW w \in Listed, w # t, pgid[w] = new, new \notin headless'
        PROVE  sid[w] = sid[t]
    <3>1. l = new /\ pid[t] = t
      BY <1>8, <1>4 DEF TreeInv, Family
    <3>2. CASE l = t
      <4>1. t \in headless
        BY <2>1, <3>1, <3>2, <1>4, <1>6 DEF LeaderIsMember
      <4> QED
        BY <4>1, <2>1, <3>1, <3>2, <1>9
    <3>3. CASE l # t
      <4>1. pgid[l] = new
        BY <3>3, <2>1, <1>9
      <4>2. sid[w] = sid[l]
        BY <4>1, <2>1, <1>8, <1>9 DEF GroupInOneSession
      <4> QED
        BY <4>2, <1>7
    <3> QED
      BY <3>2, <3>3
  <2>2. CASE u = t
    BY <2>1, <2>2, <1>10, <1>12
  <2>3. CASE v = t
    BY <2>1, <2>3, <1>10, <1>12
  <2>4. CASE u # t /\ v # t
    BY <2>4, <1>9, <1>10, <1>12 DEF GroupInOneSession
  <2> QED
    BY <2>2, <2>3, <2>4
<1>15. LeaderIsMember'
  <2> SUFFICES ASSUME ~recycled, ProcessesOnly, NEW u \in Listed, NEW v \in Listed,
                      pgid'[u] # u, pgid'[v] = u
               PROVE  u \in headless'
    BY <1>3, <1>12 DEF LeaderIsMember, ProcessesOnly
  <2>0. l = new /\ pid[t] = t
    BY <1>8, <1>4 DEF TreeInv, Family
  <2>1. CASE u = t /\ pgid[t] = t
    BY <2>0, <2>1, <1>9
  <2>2. CASE u = t /\ pgid[t] # t
    <3>1. v # t
      BY <2>2, <1>10, <1>12
    <3>2. pgid[v] = t
      BY <2>2, <3>1, <1>10, <1>12
    <3> QED
      BY <2>2, <3>2, <1>4, <1>9 DEF LeaderIsMember
  <2>3. CASE u # t /\ v = t
    <3>1. u = new /\ pgid[u] # u
      BY <2>3, <1>10, <1>12
    <3> QED
      BY <3>1, <2>0, <2>3, <1>9
  <2>4. CASE u # t /\ v # t
    BY <2>4, <1>9, <1>10, <1>12 DEF LeaderIsMember
  <2> QED
    BY <2>1, <2>2, <2>3, <2>4
<1> QED
  BY <1>11, <1>13, <1>14, <1>15 DEF GroupParts

\* setsid: the caller leads no group, and no group with its number has a member, unless it
\* has lost its leader.
LEMMA SetSidKeeps ==
  ASSUME GroupsInv, TreeInv', NEW p \in Tids, SetSid(p)
  PROVE  /\ pgid' \in [Tids -> Tids] /\ sid' \in [Tids -> Tids]
         /\ recycled' \in BOOLEAN /\ headless' \subseteq Tids
         /\ GroupParts'
<1> USE DEF GroupsInv
<1>1. /\ UNCHANGED vars /\ recycled' = recycled /\ headless' = headless
      /\ pc[p] = "run" /\ pgid[p] # pid[p]
      /\ sid' = [sid EXCEPT ![p] = pid[p]] /\ pgid' = [pgid EXCEPT ![p] = pid[p]]
  BY DEF SetSid, MayLead, history
<1>2. pid[p] \in Tids /\ p \in Listed
  BY <1>1, ListedAre, ZenonT(60) DEF TreeInv, TypeOK, Presence
<1>3. \A u \in Tids : /\ pgid'[u] = IF u = p THEN pid[p] ELSE pgid[u]
                      /\ sid'[u] = IF u = p THEN pid[p] ELSE sid[u]
  BY <1>1
<1>4. /\ pgid' \in [Tids -> Tids] /\ sid' \in [Tids -> Tids]
      /\ recycled' \in BOOLEAN /\ headless' \subseteq Tids
  BY <1>1, <1>2
<1>5. /\ Listed' = Listed /\ pid' = pid /\ world' = world
      /\ \A u \in Listed : u \in Tids
  BY <1>1 DEF vars, Listed
<1>6. SessionLeaderLeads'
  BY <1>1, <1>3, <1>5 DEF SessionLeaderLeads
<1>7. ASSUME ~recycled, ProcessesOnly, NEW u \in Listed, u # p, pgid[u] = p
      PROVE  p \in headless /\ pid[p] = p
  <2>1. pid[p] = p
    BY <1>7 DEF TreeInv, Family
  <2> QED
    BY <2>1, <1>1, <1>2, <1>7 DEF LeaderIsMember
<1>8. GroupInOneSession'
  <2> SUFFICES ASSUME ~recycled, ProcessesOnly, NEW u \in Listed, NEW v \in Listed,
                      pgid'[u] = pgid'[v], pgid'[u] \notin headless, u # v
               PROVE  sid'[u] = sid'[v]
    BY <1>1, <1>5 DEF GroupInOneSession, ProcessesOnly
  <2>1. pid[p] = p
    BY DEF TreeInv, Family
  <2>2. u # p /\ v # p
    BY <2>1, <1>3, <1>5, <1>7
  <2> QED
    BY <2>2, <1>3, <1>5 DEF GroupInOneSession
<1>9. LeaderIsMember'
  <2> SUFFICES ASSUME ~recycled, ProcessesOnly, NEW u \in Listed, NEW v \in Listed,
                      pgid'[u] # u, pgid'[v] = u
               PROVE  u \in headless
    BY <1>1, <1>5 DEF LeaderIsMember, ProcessesOnly
  <2>1. pid[p] = p
    BY DEF TreeInv, Family
  <2>2. u # p /\ v # p
    BY <2>1, <1>3, <1>5
  <2> QED
    BY <2>2, <1>3, <1>5 DEF LeaderIsMember
<1> QED
  BY <1>4, <1>6, <1>8, <1>9 DEF GroupParts

\* One step of the specification keeps the invariant.
LEMMA StepGroups == GroupsInv /\ [GroupsNext]_gvars => GroupsInv'
<1> SUFFICES ASSUME GroupsInv, [GroupsNext]_gvars PROVE GroupsInv'
  OBVIOUS
<1>1. TreeInv'
  BY GroupsStepTree, StepTree DEF GroupsInv
<1>2. CASE GroupsNext
  <2>1. PICK p \in Tids : \/ Clone(p) /\ Inherit(p)
                          \/ /\ Exit(p) \/ WaitCall(p) \/ Leave(p) \/ Waiting(p)
                             /\ UNCHANGED <<pgid, sid, history>>
                          \/ SetPgid(p)
                          \/ SetSid(p)
    BY <1>2 DEF GroupsNext
  <2>2. /\ pgid' \in [Tids -> Tids] /\ sid' \in [Tids -> Tids]
        /\ recycled' \in BOOLEAN /\ headless' \subseteq Tids
        /\ GroupParts'
    BY <2>1, <1>1, InheritKeeps, LeaversKeepGroups, SetPgidKeeps, SetSidKeeps
  <2> QED
    BY <2>2, <1>1 DEF GroupsInv, GroupParts
<1>3. CASE UNCHANGED gvars
  <2>1. /\ pgid' = pgid /\ sid' = sid /\ recycled' = recycled /\ headless' = headless
        /\ UNCHANGED vars
    BY <1>3 DEF gvars, history
  <2>2. Listed' = Listed /\ pid' = pid /\ world' = world
    BY <2>1 DEF vars, Listed
  <2> QED
    BY <2>1, <2>2, <1>1
       DEF GroupsInv, SessionLeaderLeads, GroupInOneSession, LeaderIsMember, ProcessesOnly
<1> QED
  BY <1>2, <1>3

\* setpgid and setsid keep the members of a group in one session and a session leader in its
\* own group, while no tid is used again and no group has lost its leader.
THEOREM GroupsHold == GroupsSpec => []GroupsHoldTogether
<1>1. GroupsInv => GroupsHoldTogether
  BY DEF GroupsInv, GroupsHoldTogether
<1> QED
  BY <1>1, InitGroups, StepGroups, PTL DEF GroupsSpec
==============================================================================
