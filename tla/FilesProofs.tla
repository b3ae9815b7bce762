----------------------------- MODULE FilesProofs -----------------------------
(***************************************************************************)
(* Proofs about Files for any number of tasks, descriptor tables and       *)
(* InodeIDs, threads and processes, one CPU and several.                   *)
(***************************************************************************)
EXTENDS Files, FiniteSetTheorems, SequenceTheorems, TLAPS

(* SlotVec: the slots of one table *)

\* A set of naturals that is not empty has a least element.
LEMMA LeastOf ==
  ASSUME NEW T \in SUBSET Nat, T # {}
  PROVE  \E x \in T : \A y \in T : x <= y
<1> DEFINE R == OpToRel(<, Nat)
<1>1. IsWellFoundedOn(R, Nat)
  BY NatLessThanWellFounded
<1>2. \E x \in T : \A y \in T : ~ (<<y, x>> \in R)
  <2> HIDE DEF R
  <2> QED
    BY <1>1, WFMin
<1>3. \A x, y \in T : ~ (<<y, x>> \in R) => x <= y
  BY SMT DEF OpToRel
<1> QED
  BY <1>2, <1>3

\* What a slot holds.
Item == Objs \cup {None}

\* The slots in use, and the ShimFiles in them.
UsedIn(s) == {i \in DOMAIN s : s[i] # None}
Items(s) == {s[i] : i \in DOMAIN s} \ {None}

\* A ShimFile is not the empty slot.
LEMMA NoneIsNoShim == None \notin Objs
BY FilesAssumption DEF Objs

\* The slots in use can be counted; as many as there are slots means all of them.
LEMMA UsedFits ==
  ASSUME NEW s \in Seq(Item)
  PROVE  /\ IsFiniteSet(UsedIn(s)) /\ Cardinality(UsedIn(s)) \in 0 .. Len(s)
         /\ Cardinality(UsedIn(s)) = Len(s) => UsedIn(s) = DOMAIN s
<1>1. IsFiniteSet(1 .. Len(s)) /\ Cardinality(1 .. Len(s)) = Len(s)
  <2>1. PICK n \in Nat : n = Len(s)
    OBVIOUS
  <2>2. IsFiniteSet(1 .. n) /\ Cardinality(1 .. n) = n
    BY FS_Interval
  <2> QED
    BY <2>1, <2>2
<1>2. DOMAIN s = 1 .. Len(s) /\ UsedIn(s) \in SUBSET (1 .. Len(s))
  BY DEF UsedIn
<1>3. /\ IsFiniteSet(UsedIn(s)) /\ Cardinality(UsedIn(s)) <= Len(s)
      /\ Cardinality(UsedIn(s)) = Len(s) => UsedIn(s) = 1 .. Len(s)
  BY <1>1, <1>2, FS_Subset
<1>4. Cardinality(UsedIn(s)) \in Nat
  BY <1>3, FS_CardinalityType
<1> QED
  BY <1>2, <1>3, <1>4

\* A table with another item in slot i.
SetAt(s, i, o) == [s EXCEPT ![i] = o]

\* Another item in slot i: only that slot changes, and only the item in it can be lost.
LEMMA SlotSet ==
  ASSUME NEW s \in Seq(Item), NEW i \in 1 .. Len(s), NEW o \in Item,
         NEW r, r = SetAt(s, i, o)
  PROVE  /\ r \in Seq(Item) /\ Len(r) = Len(s)
         /\ o = None => UsedIn(r) = UsedIn(s) \ {i}
         /\ o # None => UsedIn(r) = UsedIn(s) \cup {i}
         /\ Items(r) \subseteq Items(s) \cup {o}
         /\ o # None => o \in Items(r)
         /\ Items(s) \subseteq Items(r) \cup {s[i]}
<1>1. PICK n \in Nat : n = Len(s)
  OBVIOUS
<1>2. /\ r \in Seq(Item) /\ Len(r) = n /\ DOMAIN r = 1 .. n /\ DOMAIN s = 1 .. n
      /\ r[i] = o /\ \A j \in 1 .. n : j # i => r[j] = s[j]
  BY <1>1 DEF SetAt
<1>3. i \in 1 .. n
  BY <1>1
<1>4. /\ o = None => UsedIn(r) = UsedIn(s) \ {i}
      /\ o # None => UsedIn(r) = UsedIn(s) \cup {i}
  BY <1>2, <1>3 DEF UsedIn
<1>5. /\ Items(r) \subseteq Items(s) \cup {o}
      /\ o # None => o \in Items(r)
      /\ Items(s) \subseteq Items(r) \cup {s[i]}
  BY <1>2, <1>3 DEF Items
<1> QED
  BY <1>1, <1>2, <1>4, <1>5

\* A ShimFile in slot i: that slot is in use.
LEMMA SlotFill ==
  ASSUME NEW s \in Seq(Item), NEW i \in 1 .. Len(s), NEW o \in Item, o # None
  PROVE  UsedIn(SetAt(s, i, o)) = UsedIn(s) \cup {i}
<1>1. PICK n \in Nat : n = Len(s)
  OBVIOUS
<1>2. PICK r : r = SetAt(s, i, o)
  OBVIOUS
<1>3. /\ DOMAIN r = 1 .. n /\ DOMAIN s = 1 .. n /\ i \in 1 .. n
      /\ r[i] = o /\ \A j \in 1 .. n : j # i => r[j] = s[j]
  BY <1>1, <1>2 DEF SetAt
<1>4. UsedIn(r) = UsedIn(s) \cup {i}
  BY <1>3 DEF UsedIn
<1> QED
  BY <1>2, <1>4

\* One more slot with an item in it.
LEMMA SlotAdd ==
  ASSUME NEW s \in Seq(Item), NEW o \in Objs, NEW r, r = Append(s, o)
  PROVE  /\ r \in Seq(Item) /\ Len(r) = Len(s) + 1
         /\ UsedIn(r) = UsedIn(s) \cup {Len(s) + 1} /\ Len(s) + 1 \notin UsedIn(s)
         /\ Items(r) = Items(s) \cup {o}
<1>1. PICK n \in Nat, m \in Nat : n = Len(s) /\ m = n + 1
  OBVIOUS
<1>2. /\ r \in Seq(Item) /\ Len(r) = m /\ DOMAIN r = 1 .. m /\ DOMAIN s = 1 .. n
      /\ r[m] = o /\ \A j \in 1 .. n : r[j] = s[j]
  BY <1>1 DEF Item
<1>3. o # None
  BY NoneIsNoShim
<1>4. /\ 1 .. n \subseteq 1 .. m /\ m \in 1 .. m /\ m \notin 1 .. n
      /\ \A j \in 1 .. m : j \in 1 .. n \/ j = m
  BY <1>1
<1>5. UsedIn(r) = UsedIn(s) \cup {m} /\ m \notin UsedIn(s)
  BY <1>2, <1>3, <1>4 DEF UsedIn
<1>6. Items(r) = Items(s) \cup {o}
  <2>1. Items(r) \subseteq Items(s) \cup {o}
    BY <1>2, <1>4 DEF Items
  <2>2. Items(s) \subseteq Items(r)
    BY <1>2, <1>4 DEF Items
  <2>3. o \in Items(r)
    BY <1>2, <1>3, <1>4 DEF Items
  <2> QED
    BY <2>1, <2>2, <2>3
<1> QED
  BY <1>1, <1>2, <1>5, <1>6

\* Empty slots at the end.
LEMMA SlotsGrow ==
  ASSUME NEW s \in Seq(Item), NEW k \in Nat, NEW r, r = s \o [i \in 1 .. k |-> None]
  PROVE  /\ r \in Seq(Item) /\ Len(r) = Len(s) + k
         /\ UsedIn(r) = UsedIn(s) /\ Items(r) = Items(s)
         /\ \A i \in 1 .. Len(s) : r[i] = s[i]
         /\ \A i \in 1 .. Len(r) : i > Len(s) => r[i] = None
<1>1. PICK n \in Nat, m \in Nat : n = Len(s) /\ m = n + k
  OBVIOUS
<1>2. PICK e : e = [i \in 1 .. k |-> None]
  OBVIOUS
<1>3. e \in Seq(Item) /\ Len(e) = k /\ \A i \in 1 .. k : e[i] = None
  <2>1. e \in [1 .. k -> Item]
    BY <1>2 DEF Item
  <2>2. e \in Seq(Item) /\ Len(e) = k
    BY <2>1
  <2> QED
    BY <1>2, <2>2
<1>4. /\ r \in Seq(Item) /\ Len(r) = m /\ DOMAIN r = 1 .. m /\ DOMAIN s = 1 .. n
      /\ \A j \in 1 .. n : r[j] = s[j]
      /\ \A j \in n + 1 .. m : r[j] = None
  <2>1. r = s \o e
    BY <1>2
  <2>2. r \in Seq(Item) /\ Len(r) = m /\ \A j \in 1 .. n : r[j] = s[j]
    BY <1>1, <1>3, <2>1, ConcatProperties
  <2>3. ASSUME NEW j \in n + 1 .. m PROVE r[j] = None
    <3>1. r[j] = e[j - n] /\ j - n \in 1 .. k
      BY <1>1, <1>3, <2>1
    <3> QED
      BY <1>3, <3>1
  <2> QED
    BY <1>1, <2>2, <2>3
<1>5. 1 .. n \subseteq 1 .. m /\ \A j \in 1 .. m : j \in 1 .. n \/ j \in n + 1 .. m
  BY <1>1
<1>6. UsedIn(r) = UsedIn(s)
  BY <1>4, <1>5 DEF UsedIn
<1>7. Items(r) = Items(s)
  BY <1>4, <1>5 DEF Items
<1> QED
  BY <1>1, <1>4, <1>6, <1>7
-----------------------------------------------------------------------------
(* The tables of all processes *)

\* Tables of the right types whose counts are exact.
TablesOK ==
  /\ slots \in [Tables -> Seq(Item)] /\ \A b \in Tables : Len(slots[b]) <= MaxFds
  /\ occupied \in [Tables -> 0..MaxFds]
  /\ \A b \in Tables : occupied[b] = Cardinality(UsedIn(slots[b]))

\* All tables but b are as before.
OnlyTable(b) == \A c \in Tables \ {b} : slots'[c] = slots[c]

\* What a change of one table leaves sound.
LEMMA TableChanges ==
  ASSUME TablesOK, NEW b \in Tables, NEW r \in Seq(Item), Len(r) <= MaxFds,
         NEW k, k = Cardinality(UsedIn(r)),
         slots' = [slots EXCEPT ![b] = r], occupied' = [occupied EXCEPT ![b] = k]
  PROVE  TablesOK' /\ slots'[b] = r /\ OnlyTable(b)
<1>1. MaxFds \in Nat
  BY FilesAssumption
<1>2. k \in 0 .. MaxFds
  <2>1. PICK n \in Nat : n = Len(r) /\ n <= MaxFds
    OBVIOUS
  <2>2. k \in 0 .. Len(r)
    BY UsedFits
  <2> QED
    BY <1>1, <2>1, <2>2
<1>3. /\ slots' \in [Tables -> Seq(Item)] /\ slots'[b] = r
      /\ \A c \in Tables \ {b} : slots'[c] = slots[c]
  BY DEF TablesOK
<1>4. /\ occupied' \in [Tables -> 0..MaxFds] /\ occupied'[b] = k
      /\ \A c \in Tables \ {b} : occupied'[c] = occupied[c]
  BY <1>2 DEF TablesOK
<1>5. \A c \in Tables : Len(slots'[c]) <= MaxFds /\ occupied'[c] = Cardinality(UsedIn(slots'[c]))
  BY <1>3, <1>4 DEF TablesOK
<1> QED
  BY <1>3, <1>4, <1>5 DEF TablesOK, OnlyTable

\* The unwrap in put cannot fail: when the count says that a slot is free, one is.
LEMMA PutFdIs ==
  ASSUME TablesOK, NEW b \in Tables
  PROVE  /\ PutFd(b) \in 0 .. Len(slots[b])
         /\ PutFd(b) = Len(slots[b]) <=> occupied[b] = Len(slots[b])
         /\ PutFd(b) # Len(slots[b]) => slots[b][PutFd(b) + 1] = None
<1>1. PICK s \in Seq(Item) : s = slots[b]
  BY DEF TablesOK
<1>2. PICK n \in Nat : n = Len(s)
  OBVIOUS
<1>3. CASE occupied[b] = Len(slots[b])
  BY <1>1, <1>2, <1>3 DEF PutFd
<1>4. CASE occupied[b] # Len(slots[b])
  <2> DEFINE T == {i \in 1 .. n : s[i] = None}
             first(i) == s[i] = None /\ \A j \in 1 .. (i - 1) : s[j] # None
  <2>1. T # {} /\ T \in SUBSET Nat
    <3>1. UsedIn(s) # DOMAIN s
      <4> SUFFICES ASSUME UsedIn(s) = DOMAIN s PROVE FALSE
        OBVIOUS
      <4>1. Cardinality(1 .. n) = n
        <5>1. Cardinality(1 .. n) = IF 1 > n THEN 0 ELSE n - 1 + 1
          BY FS_Interval
        <5> QED
          BY <5>1
      <4> QED
        BY <1>1, <1>2, <1>4, <4>1 DEF TablesOK
    <3> QED
      BY <1>2, <3>1 DEF UsedIn
  <2>2. PICK x \in T : \A y \in T : x <= y
    <3> HIDE DEF T
    <3> QED
      BY <2>1, LeastOf
  <2>3. x \in 1 .. n /\ first(x)
    BY <2>2
  <2>4. PICK z : z = CHOOSE i \in 1 .. n : first(i)
    OBVIOUS
  <2>5. z \in 1 .. n /\ first(z)
    <3> HIDE DEF first
    <3> QED
      BY <2>3, <2>4
  <2>6. PutFd(b) = z - 1
    BY <1>1, <1>2, <1>4, <2>4 DEF PutFd
  <2>7. PutFd(b) \in 0 .. n - 1 /\ PutFd(b) + 1 = z
    BY <2>5, <2>6
  <2>8. PutFd(b) \in 0 .. n /\ PutFd(b) # n
    BY <2>7
  <2> QED
    BY <1>1, <1>2, <1>4, <2>5, <2>7, <2>8
<1> QED
  BY <1>3, <1>4

\* A ShimFile is stored in the first free slot, or in a new one.
LEMMA PutKeeps ==
  ASSUME TablesOK, world \in Worlds, NEW b \in Tables, NEW o \in Objs, Put(b, o)
  PROVE  TablesOK' /\ OnlyTable(b) /\ InTable(b)' = InTable(b) \cup {o}
<1>1. PICK s \in Seq(Item) : s = slots[b]
  BY DEF TablesOK
<1>2. PICK n \in Nat : n = Len(s)
  OBVIOUS
<1>3. PICK k \in Nat : k = PutFd(b) /\ k <= n
  BY <1>1, <1>2, PutFdIs
<1>4. k < MaxFds
  <2>1. world.fds \in 0 .. MaxFds /\ MaxFds \in Nat
    BY FilesAssumption
  <2>2. k < world.fds
    BY <1>3 DEF Put
  <2> QED
    BY <2>1, <2>2
<1>5. PICK r : r = IF k = n THEN Append(s, o) ELSE SetAt(s, k + 1, o)
  OBVIOUS
<1>6. slots' = [slots EXCEPT ![b] = r]
  BY <1>1, <1>2, <1>3, <1>5 DEF Put, SetAt
<1>7. occupied' = [occupied EXCEPT ![b] = occupied[b] + 1] /\ occupied[b] = Cardinality(UsedIn(s))
  BY <1>1 DEF Put, TablesOK
<1>8. o # None /\ o \in Item
  BY NoneIsNoShim DEF Item
<1>9. /\ r \in Seq(Item) /\ Len(r) <= MaxFds
      /\ \E i \in Nat : i \notin UsedIn(s) /\ UsedIn(r) = UsedIn(s) \cup {i}
      /\ Items(r) = Items(s) \cup {o}
  <2>1. CASE k = n
    <3>1. r = Append(s, o)
      BY <1>5, <2>1
    <3>2. /\ r \in Seq(Item) /\ Len(r) = Len(s) + 1
          /\ UsedIn(r) = UsedIn(s) \cup {Len(s) + 1} /\ Len(s) + 1 \notin UsedIn(s)
          /\ Items(r) = Items(s) \cup {o}
      BY <3>1, SlotAdd
    <3>3. Len(r) <= MaxFds
      <4>1. Len(r) = k + 1
        BY <1>2, <2>1, <3>2
      <4> QED
        BY <1>4, <4>1, FilesAssumption
    <3> QED
      BY <1>2, <3>2, <3>3
  <2>2. CASE k # n
    <3>1. PICK i \in Nat : i = k + 1 /\ i \in 1 .. n
      BY <1>3, <2>2
    <3>2. s[i] = None
      BY <1>1, <1>2, <1>3, <2>2, <3>1, PutFdIs
    <3>3. r = SetAt(s, i, o) /\ i \in 1 .. Len(s)
      BY <1>2, <1>5, <2>2, <3>1
    <3>4. /\ r \in Seq(Item) /\ Len(r) = Len(s)
          /\ UsedIn(r) = UsedIn(s) \cup {i}
          /\ Items(r) \subseteq Items(s) \cup {o}
          /\ o \in Items(r)
          /\ Items(s) \subseteq Items(r) \cup {s[i]}
      <4>1. r \in Seq(Item) /\ Len(r) = Len(s)
        BY <1>8, <3>3, SlotSet
      <4>2. UsedIn(r) = UsedIn(s) \cup {i}
        BY <1>8, <3>3, SlotFill
      <4>3. Items(r) \subseteq Items(s) \cup {o} /\ o \in Items(r)
        BY <1>8, <3>3, SlotSet
      <4>4. Items(s) \subseteq Items(r) \cup {s[i]}
        BY <1>8, <3>3, SlotSet
      <4> QED
        BY <4>1, <4>2, <4>3, <4>4
    <3>5. i \notin UsedIn(s) /\ None \notin Items(s)
      BY <3>2 DEF UsedIn, Items
    <3>6. Len(r) <= MaxFds
      BY <1>1, <3>4 DEF TablesOK
    <3> QED
      BY <1>8, <3>2, <3>4, <3>5, <3>6
  <2> QED
    BY <2>1, <2>2
<1>10. Cardinality(UsedIn(r)) = occupied[b] + 1
  <2>1. PICK i \in Nat : i \notin UsedIn(s) /\ UsedIn(r) = UsedIn(s) \cup {i}
    BY <1>9
  <2>2. PICK U : U = UsedIn(s)
    OBVIOUS
  <2>3. IsFiniteSet(U)
    BY <2>2, UsedFits
  <2>4. Cardinality(U \cup {i}) = Cardinality(U) + 1
    BY <2>1, <2>2, <2>3, FS_AddElement
  <2> QED
    BY <1>7, <2>1, <2>2, <2>4
<1>11. TablesOK' /\ slots'[b] = r /\ OnlyTable(b)
  BY <1>6, <1>7, <1>9, <1>10, TableChanges
<1>12. InTable(b)' = InTable(b) \cup {o}
  <2>1. InTable(b)' = Items(r) /\ InTable(b) = Items(s)
    BY <1>1, <1>11 DEF InTable, Items
  <2> QED
    BY <1>9, <2>1
<1> QED
  BY <1>11, <1>12
\* What descriptor n of a table stands for.
At(s, n) == IF n + 1 \in DOMAIN s THEN s[n + 1] ELSE None

\* A ShimFile replaces the item of a descriptor, and is counted when the slot was free.
LEMMA PutAtKeeps ==
  ASSUME TablesOK, NEW b \in Tables, NEW o \in Objs, NEW d \in 0..(MaxFds - 1), PutAt(b, d, o)
  PROVE  /\ TablesOK' /\ OnlyTable(b)
         /\ InTable(b)' \subseteq InTable(b) \cup {o} /\ o \in InTable(b)'
         /\ InTable(b) \subseteq InTable(b)' \cup ({At(slots[b], d)} \ {None})
<1>1. PICK s \in Seq(Item) : s = slots[b]
  BY DEF TablesOK
<1>2. PICK n \in Nat : n = Len(s)
  OBVIOUS
<1>3. PICK i \in Nat : i = d + 1
  BY FilesAssumption
<1>4. PICK l : l = IF d < Len(s) THEN s ELSE s \o [j \in 1..(d + 1 - Len(s)) |-> None]
  OBVIOUS
<1>5. /\ l \in Seq(Item) /\ Len(l) <= MaxFds /\ i \in 1 .. Len(l)
      /\ UsedIn(l) = UsedIn(s) /\ Items(l) = Items(s) /\ l[i] = At(s, d)
  <2>1. MaxFds \in Nat /\ d \in Nat /\ d < MaxFds
    BY FilesAssumption
  <2>2. DOMAIN s = 1 .. n
    BY <1>2
  <2>3. CASE d < n
    <3>1. l = s
      BY <1>2, <1>4, <2>3
    <3>2. i \in 1 .. n /\ At(s, d) = s[i]
      BY <1>3, <2>1, <2>2, <2>3 DEF At
    <3> QED
      BY <1>1, <1>2, <3>1, <3>2 DEF TablesOK
  <2>4. CASE ~ (d < n)
    <3>1. PICK k \in Nat : k = d + 1 - n /\ n + k = i
      BY <1>3, <2>1, <2>4
    <3>2. l = s \o [j \in 1 .. k |-> None]
      BY <1>2, <1>4, <2>4, <3>1
    <3>3. l \in Seq(Item) /\ Len(l) = n + k
      BY <1>2, <3>2, SlotsGrow
    <3>4. UsedIn(l) = UsedIn(s) /\ Items(l) = Items(s)
      BY <3>2, SlotsGrow
    <3>5. i \in 1 .. Len(l) /\ i > Len(s) /\ i <= MaxFds
      BY <1>2, <1>3, <2>1, <2>4, <3>1, <3>3
    <3>6. l[i] = None
      BY <3>2, <3>5, SlotsGrow
    <3>7. At(s, d) = None
      BY <1>3, <2>1, <2>2, <2>4 DEF At
    <3> QED
      BY <3>1, <3>3, <3>4, <3>5, <3>6, <3>7
  <2> QED
    BY <2>3, <2>4
<1>6. PICK r : r = SetAt(l, i, o)
  OBVIOUS
<1>7. slots' = [slots EXCEPT ![b] = r]
  BY <1>1, <1>3, <1>4, <1>6 DEF PutAt, SetAt
<1>8. occupied' = [occupied EXCEPT ![b] = IF l[i] = None THEN occupied[b] + 1 ELSE occupied[b]]
  BY <1>1, <1>3, <1>4 DEF PutAt
<1>9. o # None /\ o \in Item
  BY NoneIsNoShim DEF Item
<1>10. UsedIn(r) = UsedIn(l) \cup {i}
  BY <1>5, <1>6, <1>9, SlotFill
<1>11. r \in Seq(Item) /\ Len(r) = Len(l)
  BY <1>5, <1>6, <1>9, SlotSet
<1>12. Items(r) \subseteq Items(l) \cup {o} /\ o \in Items(r)
  BY <1>5, <1>6, <1>9, SlotSet
<1>13. Items(l) \subseteq Items(r) \cup {l[i]}
  BY <1>5, <1>6, <1>9, SlotSet
<1>14. Cardinality(UsedIn(r)) = IF l[i] = None THEN occupied[b] + 1 ELSE occupied[b]
  <2>1. PICK U : U = UsedIn(l)
    OBVIOUS
  <2>2. IsFiniteSet(U) /\ Cardinality(U) = occupied[b]
    <3>1. IsFiniteSet(U)
      BY <1>5, <2>1, UsedFits
    <3>2. Cardinality(U) = occupied[b]
      BY <1>1, <1>5, <2>1 DEF TablesOK
    <3> QED
      BY <3>1, <3>2
  <2>3. CASE l[i] = None
    <3>1. i \notin U
      BY <2>1, <2>3 DEF UsedIn
    <3>2. Cardinality(U \cup {i}) = Cardinality(U) + 1
      BY <2>2, <3>1, FS_AddElement
    <3> QED
      BY <1>10, <2>1, <2>2, <2>3, <3>2
  <2>4. CASE l[i] # None
    <3>1. i \in U
      BY <1>5, <2>1, <2>4 DEF UsedIn
    <3>2. U \cup {i} = U
      BY <3>1
    <3> QED
      BY <1>10, <2>1, <2>2, <2>4, <3>2
  <2> QED
    BY <2>3, <2>4
<1>15. PICK c : c = IF l[i] = None THEN occupied[b] + 1 ELSE occupied[b]
  OBVIOUS
<1>16. Len(r) <= MaxFds /\ c = Cardinality(UsedIn(r)) /\ occupied' = [occupied EXCEPT ![b] = c]
  BY <1>5, <1>8, <1>11, <1>14, <1>15
<1>17. TablesOK' /\ slots'[b] = r /\ OnlyTable(b)
  BY <1>7, <1>11, <1>16, TableChanges
<1>18. InTable(b)' = Items(r) /\ InTable(b) = Items(s) /\ None \notin Items(s)
  BY <1>1, <1>17 DEF InTable, Items
<1> QED
  BY <1>1, <1>5, <1>12, <1>13, <1>17, <1>18

\* A slot in use is emptied.
LEMMA RemoveKeeps ==
  ASSUME TablesOK, NEW b \in Tables, NEW d \in Nat, At(slots[b], d) # None, Remove(b, d)
  PROVE  /\ TablesOK' /\ OnlyTable(b) /\ At(slots[b], d) \in InTable(b)
         /\ InTable(b)' \subseteq InTable(b)
         /\ InTable(b) \subseteq InTable(b)' \cup {At(slots[b], d)}
<1>1. PICK s \in Seq(Item) : s = slots[b]
  BY DEF TablesOK
<1>2. PICK i \in Nat : i = d + 1
  OBVIOUS
<1>3. i \in DOMAIN s /\ i \in 1 .. Len(s) /\ s[i] # None /\ s[i] = At(s, d)
  BY <1>1, <1>2 DEF At
<1>4. PICK r : r = SetAt(s, i, None)
  OBVIOUS
<1>5. slots' = [slots EXCEPT ![b] = r] /\ occupied' = [occupied EXCEPT ![b] = occupied[b] - 1]
  BY <1>1, <1>2, <1>4 DEF Remove, SetAt
<1>6. None \in Item
  BY DEF Item
<1>7. r \in Seq(Item) /\ Len(r) = Len(s)
  BY <1>3, <1>4, <1>6, SlotSet
<1>8. UsedIn(r) = UsedIn(s) \ {i}
  <2>1. /\ DOMAIN r = DOMAIN s
        /\ r[i] = None /\ \A j \in DOMAIN s : j # i => r[j] = s[j]
    BY <1>3, <1>4 DEF SetAt
  <2> QED
    BY <1>3, <2>1 DEF UsedIn
<1>9. Items(r) \subseteq Items(s) \cup {None}
  BY <1>3, <1>4, <1>6, SlotSet
<1>10. Items(s) \subseteq Items(r) \cup {s[i]}
  BY <1>3, <1>4, <1>6, SlotSet
<1>11. Cardinality(UsedIn(r)) = occupied[b] - 1
  <2>1. PICK U : U = UsedIn(s)
    OBVIOUS
  <2>2. IsFiniteSet(U) /\ i \in U
    BY <1>3, <2>1, UsedFits DEF UsedIn
  <2>3. Cardinality(U \ {i}) = Cardinality(U) - 1
    BY <2>2, FS_RemoveElement
  <2>4. Cardinality(U) = occupied[b]
    BY <1>1, <2>1 DEF TablesOK
  <2> QED
    BY <1>8, <2>1, <2>3, <2>4
<1>12. Len(r) <= MaxFds
  BY <1>1, <1>7 DEF TablesOK
<1>13. TablesOK' /\ slots'[b] = r /\ OnlyTable(b)
  BY <1>5, <1>7, <1>11, <1>12, TableChanges
<1>14. InTable(b)' = Items(r) /\ InTable(b) = Items(s) /\ None \notin Items(r)
  BY <1>1, <1>13 DEF InTable, Items
<1>15. s[i] \in Items(s)
  BY <1>3 DEF Items
<1> QED
  BY <1>1, <1>3, <1>9, <1>10, <1>13, <1>14, <1>15
-----------------------------------------------------------------------------
(* The inductive invariant *)

\* The names a call in progress can have.
OpNames == {"none", "read", "readv", "fchdir", "openat", "chdir", "faccessat", "fstatat",
            "truncate", "utimensat", "read_all", "socket_pair", "close", "dup", "fcntl",
            "dup2", "dup3"}

\* Types of the calls in progress, and of the rest but the tables.
CallTypes ==
  /\ held \in [Tasks -> SUBSET Objs] /\ ids \in [Tasks -> SUBSET Ids]
  /\ using \in [Tasks -> SUBSET Ids] /\ pc \in [Tasks -> PCs] /\ op \in [Tasks -> OpNames]
Types ==
  /\ table \in [Tasks -> Tables \cup {None}] /\ cwd \in [Tasks -> Objs]
  /\ fd \in [Tasks -> 0..(MaxFds - 1)]
  /\ file \in [Ids -> {"none", "kernel", "special", "lost"}]
  /\ shadow \subseteq Ids /\ meta \subseteq Ids /\ next \in 4..(MaxId + 1)
  /\ aliased \subseteq Ids /\ abandoned \subseteq Ids /\ world \in Worlds

\* The calls that enter the vfs domain, those that work on an id they opened themselves,
\* and those that work on the id of a descriptor or of the working directory.
VfsOps == {"read", "readv", "fchdir", "truncate", "read_all", "fstatat", "utimensat"}
OwnOps == {"openat", "chdir", "faccessat", "fstatat", "truncate", "utimensat", "read_all",
           "socket_pair"}
BareOps == {"read", "readv", "fchdir"}

\* What a call that is at p has in hand: its name, ids, Arcs and files in use; whether the
\* task was dropped.
ShapeOf(p, o, I, H, U, dead) ==
  /\ p = "idle" => o = "none" /\ I = {} /\ H = {}
  /\ p \in {"call", "in"} => o \in VfsOps /\ H = {} /\ (o = "fchdir" => \E i \in Ids : I = {i})
  /\ p = "new" => o = "socket_pair" /\ H = {}
  /\ p = "addfd" => o = "openat" /\ I # {} /\ H = {}
  /\ p = "setcwd" => o \in {"chdir", "fchdir"} /\ H = {} /\ \E i \in Ids : I = {i}
  /\ p = "setfd" => o = "dup3" /\ H = {} /\ I = {}
  /\ p = "insert" => o \in {"dup", "fcntl", "dup2", "dup3"} /\ I = {} /\ \E s \in Objs : H = {s}
  /\ p = "drop" => I = {}
  /\ p = "in" => U = I
  /\ p # "in" => U = {}
  /\ dead => p \in {"idle", "drop", "close"} /\ o # "dup3"
Shape(t) == ShapeOf(pc[t], op[t], ids[t], held[t], using[t], table[t] = None)

\* The ids that only this call knows: opened and not stored yet, or taken out to be closed.
OwnedOf(p, o, I) == IF p = "close" \/ o \in OwnOps THEN I ELSE {}
Owned(t) == OwnedOf(pc[t], op[t], ids[t])

\* The ShimFiles of an id, and the calls that own it.
Shims(i) == {o \in Referenced : Id(o) = i}
Owners(i) == {t \in Tasks : i \in Owned(t)}

\* The books of one id.  It was handed out before something refers to it; one call owns
\* it, or ShimFiles do, and then one only, unless fchdir gave it a second one; what is
\* referred to is open, and what is open is referred to.
Accounted(i) ==
  /\ i >= next => Shims(i) = {} /\ Owners(i) = {} /\ i \notin aliased
  /\ i \notin aliased => /\ \A t, u \in Owners(i) : t = u
                         /\ Shims(i) = {} \/ Owners(i) = {}
                         /\ Shims(i) \subseteq {Shim(i, 0)}
  /\ Shims(i) # {} \/ Owners(i) # {} => Present(i) \/ i \in aliased \/ file[i] = "lost"
  /\ i \notin Fixed /\ Present(i) => Shims(i) # {} \/ Owners(i) # {} \/ i \in abandoned

\* No call has an id that was not handed out.
Known(t) == \A i \in ids[t] : i < next

\* The shadow names the kernel files in VFS_MAP, and each has its kfile_ entry; an entry
\* besides these is of a file that was closed while a call still uses it.
DomainOK ==
  /\ shadow = {i \in Ids : file[i] = "kernel"} /\ Fixed \subseteq shadow /\ shadow \subseteq meta
  /\ \A i \in Ids : i >= next => file[i] = "none" /\ i \notin meta
  /\ \A i \in meta : i \in shadow \/ (~ Present(i) /\ \E u \in Tasks : i \in using[u])

\* Processes, as opposed to threads, have their own tables, so the id that a call took
\* from a descriptor stays in the table until the call ends.
Apart == ~ world.share => \A t, u \in Live : t # u => table[t] # table[u]
\* So does, on one CPU, the id that a thread took, until it first enters the vfs domain.
KeepsFile(p, o) ==
  /\ p \in {"call", "in"} /\ o \in BareOps
  /\ ~ world.share \/ (~ world.smp /\ p = "call" /\ o # "readv")
Bare(t) ==
  KeepsFile(pc[t], op[t])
    => ids[t] \subseteq Fixed \cup FdIds(t) \cup {Id(cwd[t])}

\* The inductive invariant.
FilesInv ==
  /\ TablesOK /\ CallTypes /\ Types
  /\ \A t \in Tasks : Shape(t) /\ Known(t) /\ Bare(t)
  /\ \A i \in Ids : Accounted(i)
  /\ DomainOK /\ Apart

-----------------------------------------------------------------------------
(* What a step of one task leaves alone *)

\* The call of t is at p now, and so on; nobody else's call moved.
Row(t, p, o, I, H, U) ==
  /\ pc' = [pc EXCEPT ![t] = p] /\ op' = [op EXCEPT ![t] = o] /\ ids' = [ids EXCEPT ![t] = I]
  /\ held' = [held EXCEPT ![t] = H] /\ using' = [using EXCEPT ![t] = U]
NewRow(t, p, o, I, H, U) ==
  pc'[t] = p /\ op'[t] = o /\ ids'[t] = I /\ held'[t] = H /\ using'[t] = U
OldRows(t) ==
  \A u \in Tasks \ {t} :
    pc'[u] = pc[u] /\ op'[u] = op[u] /\ ids'[u] = ids[u] /\ held'[u] = held[u] /\ using'[u] = using[u]

\* The types a new row has to have.
RowType(p, o, I, H, U) ==
  p \in PCs /\ o \in OpNames /\ I \in SUBSET Ids /\ H \in SUBSET Objs /\ U \in SUBSET Ids

\* What a row says.
LEMMA RowIs ==
  ASSUME CallTypes, NEW t \in Tasks, NEW p, NEW o, NEW I, NEW H, NEW U,
         RowType(p, o, I, H, U), Row(t, p, o, I, H, U)
  PROVE  CallTypes' /\ NewRow(t, p, o, I, H, U) /\ OldRows(t)
<1>1. pc' \in [Tasks -> PCs] /\ pc'[t] = p /\ \A u \in Tasks \ {t} : pc'[u] = pc[u]
  BY DEF CallTypes, RowType, Row
<1>2. op' \in [Tasks -> OpNames] /\ op'[t] = o /\ \A u \in Tasks \ {t} : op'[u] = op[u]
  BY DEF CallTypes, RowType, Row
<1>3. ids' \in [Tasks -> SUBSET Ids] /\ ids'[t] = I /\ \A u \in Tasks \ {t} : ids'[u] = ids[u]
  BY DEF CallTypes, RowType, Row
<1>4. held' \in [Tasks -> SUBSET Objs] /\ held'[t] = H /\ \A u \in Tasks \ {t} : held'[u] = held[u]
  BY DEF CallTypes, RowType, Row
<1>5. using' \in [Tasks -> SUBSET Ids] /\ using'[t] = U /\ \A u \in Tasks \ {t} : using'[u] = using[u]
  BY DEF CallTypes, RowType, Row
<1> QED
  BY <1>1, <1>2, <1>3, <1>4, <1>5 DEF CallTypes, NewRow, OldRows

\* No task is dropped but t, maybe.
Alive(t) == \A u \in Tasks \ {t} : table'[u] = None => table[u] = None

\* Every call has the shape of where it is.
LEMMA ShapeStep ==
  ASSUME \A u \in Tasks : Shape(u), NEW t \in Tasks, NEW p, NEW o, NEW I, NEW H, NEW U,
         NewRow(t, p, o, I, H, U), OldRows(t), ShapeOf(p, o, I, H, U, table'[t] = None), Alive(t)
  PROVE  \A u \in Tasks : Shape(u)'
<1>1. Shape(t)'
  BY DEF Shape, NewRow
<1>2. ASSUME NEW u \in Tasks \ {t} PROVE Shape(u)'
  BY <1>2 DEF Shape, ShapeOf, OldRows, Alive
<1> QED
  BY <1>1, <1>2

\* The ids owned by others are the same.
LEMMA OwnedStep ==
  ASSUME NEW t \in Tasks, NEW p, NEW o, NEW I, NEW H, NEW U,
         NewRow(t, p, o, I, H, U), OldRows(t)
  PROVE  /\ Owned(t)' = OwnedOf(p, o, I)
         /\ \A u \in Tasks \ {t} : Owned(u)' = Owned(u)
<1>1. Owned(t)' = OwnedOf(p, o, I)
  BY DEF Owned, NewRow, OwnedOf
<1>2. ASSUME NEW u \in Tasks \ {t} PROVE Owned(u)' = Owned(u)
  BY <1>2 DEF Owned, OldRows, OwnedOf
<1> QED
  BY <1>1, <1>2

\* What a call owns is among its ids.
LEMMA OwnedIds == \A t : Owned(t) \subseteq ids[t]
BY DEF Owned, OwnedOf

\* When references stay and a call forgets only ids that it leaves behind, the books
\* of every id stay right.
LEMMA BooksStay ==
  ASSUME NEW i \in Ids, Accounted(i), NEW t \in Tasks,
         Referenced' = Referenced, \A u \in Tasks \ {t} : Owned(u)' = Owned(u),
         Owned(t)' \subseteq Owned(t), Owned(t) \ Owned(t)' \subseteq abandoned',
         abandoned \subseteq abandoned', aliased' = aliased, file'[i] = file[i], next' = next
  PROVE  Accounted(i)'
<1>1. Shims(i)' = Shims(i)
  BY DEF Shims
<1>2. Owners(i)' \subseteq Owners(i) /\ (i \in abandoned' \/ Owners(i)' = Owners(i))
  <2>1. Owners(i)' = {u \in Tasks : i \in Owned(u)'}
    BY DEF Owners
  <2> QED
    BY <2>1 DEF Owners
<1>3. Present(i)' = Present(i)
  BY DEF Present
<1> QED
  BY <1>1, <1>2, <1>3 DEF Accounted
\* The ShimFiles that one task and one table hold, and all others.
Local(t, b) == InTable(b) \cup held[t] \cup {o \in {cwd[t]} : t \in Live}
Elsewhere(t, b) ==
  (UNION {InTable(c) : c \in Tables \ {b}}) \cup {cwd[u] : u \in Live \ {t}}
    \cup (UNION {held[u] : u \in Tasks \ {t}})

\* All but t and the table b keep what they hold.
OthersKeep(t, b) ==
  /\ OnlyTable(b)
  /\ \A u \in Tasks \ {t} : held'[u] = held[u] /\ table'[u] = table[u] /\ cwd'[u] = cwd[u]

\* Who can refer to a ShimFile.
LEMMA RefersBy ==
  \A o : o \in Referenced <=> \/ \E c \in Tables : o \in InTable(c)
                              \/ \E v \in Live : o = cwd[v]
                              \/ \E v \in Tasks : o \in held[v]
<1> SUFFICES ASSUME NEW o
             PROVE  o \in Referenced <=> \/ \E c \in Tables : o \in InTable(c)
                                         \/ \E v \in Live : o = cwd[v]
                                         \/ \E v \in Tasks : o \in held[v]
  OBVIOUS
<1>1. PICK A : A = UNION {InTable(b) : b \in Tables}
  OBVIOUS
<1>2. PICK B : B = {cwd[t] : t \in Live}
  OBVIOUS
<1>3. PICK C : C = UNION {held[t] : t \in Tasks}
  OBVIOUS
<1>4. Referenced = (A \cup B) \cup C
  BY <1>1, <1>2, <1>3 DEF Referenced
<1>5. o \in A <=> \E c \in Tables : o \in InTable(c)
  BY <1>1
<1>6. o \in B <=> \E v \in Live : o = cwd[v]
  BY <1>2
<1>7. o \in C <=> \E v \in Tasks : o \in held[v]
  BY <1>3
<1> QED
  BY <1>4, <1>5, <1>6, <1>7

\* Who else but t and the table b can.
LEMMA ElsewhereBy ==
  ASSUME NEW o, NEW t, NEW b
  PROVE  o \in Elsewhere(t, b) <=> \/ \E c \in Tables \ {b} : o \in InTable(c)
                                   \/ \E u \in Live \ {t} : o = cwd[u]
                                   \/ \E u \in Tasks \ {t} : o \in held[u]
<1>1. PICK A : A = UNION {InTable(c) : c \in Tables \ {b}}
  OBVIOUS
<1>2. PICK B : B = {cwd[u] : u \in Live \ {t}}
  OBVIOUS
<1>3. PICK C : C = UNION {held[u] : u \in Tasks \ {t}}
  OBVIOUS
<1>4. Elsewhere(t, b) = (A \cup B) \cup C
  BY <1>1, <1>2, <1>3 DEF Elsewhere
<1>5. o \in A <=> \E c \in Tables \ {b} : o \in InTable(c)
  BY <1>1
<1>6. o \in B <=> \E u \in Live \ {t} : o = cwd[u]
  BY <1>2
<1>7. o \in C <=> \E u \in Tasks \ {t} : o \in held[u]
  BY <1>3
<1> QED
  BY <1>4, <1>5, <1>6, <1>7

\* Nothing else holds a ShimFile.
LEMMA RefsSplit ==
  ASSUME NEW t \in Tasks, NEW b \in Tables
  PROVE  Referenced = Local(t, b) \cup Elsewhere(t, b)
<1> SUFFICES ASSUME NEW o PROVE o \in Referenced <=> o \in Local(t, b) \/ o \in Elsewhere(t, b)
  OBVIOUS
<1>1. o \in Local(t, b) <=> o \in InTable(b) \/ o \in held[t] \/ (t \in Live /\ o = cwd[t])
  BY DEF Local
<1> QED
  BY <1>1, RefersBy, ElsewhereBy

\* A step of one task changes what it holds, and its table.
LEMMA RefsStep ==
  ASSUME NEW t \in Tasks, NEW b \in Tables, OthersKeep(t, b)
  PROVE  /\ Referenced = Local(t, b) \cup Elsewhere(t, b)
         /\ Referenced' = Local(t, b)' \cup Elsewhere(t, b)
<1>1. Referenced = Local(t, b) \cup Elsewhere(t, b)
  BY RefsSplit
<1>2. (Referenced = Local(t, b) \cup Elsewhere(t, b))'
  BY RefsSplit, PTL
<1>3. Elsewhere(t, b)' = Elsewhere(t, b)
  <2>1. \A c \in Tables \ {b} : InTable(c)' = InTable(c)
    BY DEF OthersKeep, OnlyTable, InTable
  <2>2. Live' \ {t} = Live \ {t} /\ \A u \in Live \ {t} : cwd'[u] = cwd[u]
    BY DEF OthersKeep, Live
  <2>3. \A u \in Tasks \ {t} : held'[u] = held[u]
    BY DEF OthersKeep
  <2>4. UNION {InTable(c)' : c \in Tables \ {b}} = UNION {InTable(c) : c \in Tables \ {b}}
    BY <2>1
  <2>5. {cwd'[u] : u \in Live' \ {t}} = {cwd[u] : u \in Live \ {t}}
    BY <2>2
  <2>6. UNION {held'[u] : u \in Tasks \ {t}} = UNION {held[u] : u \in Tasks \ {t}}
    BY <2>3
  <2> QED
    BY <2>4, <2>5, <2>6 DEF Elsewhere
<1> QED
  BY <1>1, <1>2, <1>3

\* When tables, working directories and Arcs in hand are left alone, references stay.
LEMMA RefsStay ==
  ASSUME slots' = slots, table' = table, cwd' = cwd, \A u \in Tasks : held'[u] = held[u]
  PROVE  Referenced' = Referenced
<1>1. \A b \in Tables : InTable(b)' = InTable(b)
  BY DEF InTable
<1>2. UNION {InTable(b)' : b \in Tables} = UNION {InTable(b) : b \in Tables}
  BY <1>1
<1>3. UNION {held'[u] : u \in Tasks} = UNION {held[u] : u \in Tasks}
  OBVIOUS
<1>4. {cwd'[u] : u \in Live'} = {cwd[u] : u \in Live}
  BY DEF Live
<1> QED
  BY <1>2, <1>3, <1>4 DEF Referenced

\* What is in a table, is a working directory or is in hand is referenced.
LEMMA RefersTo ==
  /\ \A b \in Tables : InTable(b) \subseteq Referenced
  /\ \A t \in Live : cwd[t] \in Referenced
  /\ \A t \in Tasks : held[t] \subseteq Referenced
BY RefersBy

\* A ShimFile that is referenced has an id that was handed out, and is one.
LEMMA RefsAreKnown ==
  ASSUME FilesInv, NEW o \in Referenced
  PROVE  o \in Objs /\ Id(o) \in Ids /\ Id(o) < next
<1>1. o \in Objs
  <2>1. \A b \in Tables : InTable(b) \subseteq Objs
    <3> SUFFICES ASSUME NEW b \in Tables PROVE InTable(b) \subseteq Objs
      OBVIOUS
    <3>1. slots[b] \in Seq(Item)
      BY DEF FilesInv, TablesOK
    <3> QED
      BY <3>1 DEF InTable, Item
  <2>2. \A u \in Tasks : cwd[u] \in Objs /\ held[u] \subseteq Objs
    BY DEF FilesInv, Types, CallTypes
  <2> QED
    BY <2>1, <2>2, RefersBy DEF Live
<1>2. Id(o) \in Ids
  BY <1>1 DEF Objs, Id
<1>3. next \in Nat /\ Id(o) \in Nat
  BY <1>2, FilesAssumption DEF FilesInv, Types, Ids
<1>4. Accounted(Id(o)) /\ o \in Shims(Id(o))
  BY <1>2 DEF FilesInv, Shims
<1> QED
  BY <1>1, <1>2, <1>3, <1>4 DEF Accounted

\* The id of a file that a task can name was handed out.
LEMMA NamesAreKnown ==
  ASSUME FilesInv, NEW t \in Live
  PROVE  /\ \A i \in {0, Id(cwd[t])} \cup FdIds(t) : i \in Ids /\ i < next
         /\ FdIds(t) \subseteq user_path_at(t) /\ Dirs(t) \subseteq user_path_at(t)
         /\ user_path_at(t) = {0, Id(cwd[t])} \cup FdIds(t)
<1>1. cwd[t] \in Referenced /\ InTable(table[t]) \subseteq Referenced
  <2>1. table[t] \in Tables /\ t \in Tasks
    BY DEF FilesInv, Types, Live
  <2> QED
    BY <2>1, RefersTo
<1>2. 0 \in Ids /\ 0 < next
  BY FilesAssumption DEF Ids, FilesInv, Types
<1>3. \A o \in Referenced : Id(o) \in Ids /\ Id(o) < next
  BY RefsAreKnown
<1> QED
  BY <1>1, <1>2, <1>3 DEF FdIds, user_path_at, Dirs

\* The other calls keep the files of their descriptors when tables and working directories of
\* processes are left alone, or t changes its own: that is nobody else's, or t is alone.
LEMMA BareStep ==
  ASSUME FilesInv, NEW t \in Tasks, Alone(t), NEW b \in Tables, OthersKeep(t, b), OldRows(t),
         (slots'[b] = slots[b]) \/ table[t] = b \/ \A u \in Live : table[u] # b, world' = world
  PROVE  \A u \in Tasks \ {t} : Bare(u)'
<1> SUFFICES ASSUME NEW u \in Tasks \ {t}, KeepsFile(pc[u], op[u])
             PROVE  ids[u] \subseteq Fixed \cup FdIds(u)' \cup {Id(cwd'[u])}
  BY DEF Bare, KeepsFile, OldRows
<1>a. ~ world.share /\ pc[u] \in {"call", "in"}
  BY DEF KeepsFile, Alone
<1>1. u \in Live /\ table[u] \in Tables
  BY <1>a DEF FilesInv, Shape, ShapeOf, Live, Types
<1>2. table'[u] = table[u] /\ cwd'[u] = cwd[u]
  BY DEF OthersKeep
<1>3. slots'[table[u]] = slots[table[u]]
  <2>1. CASE table[u] # b
    BY <1>1, <2>1 DEF OthersKeep, OnlyTable
  <2>2. CASE table[u] = b /\ t \in Live
    <3>1. table[t] # b
      BY <1>1, <1>a, <2>2 DEF FilesInv, Apart
    <3> QED
      BY <1>1, <2>2, <3>1
  <2>3. CASE table[u] = b /\ t \notin Live
    <3>1. table[t] = None /\ None \notin Tables
      BY <2>3, FilesAssumption DEF Live
    <3> QED
      BY <1>1, <2>3, <3>1
  <2> QED
    BY <2>1, <2>2, <2>3
<1>4. FdIds(u)' = FdIds(u)
  BY <1>2, <1>3 DEF FdIds, InTable
<1>5. Bare(u)
  BY DEF FilesInv
<1> QED
  BY <1>2, <1>4, <1>5 DEF Bare
\* What a step may do to the variables besides tables and calls.
RestTypes ==
  /\ table \in [Tasks -> Tables \cup {None}] /\ cwd \in [Tasks -> Objs]
  /\ fd \in [Tasks -> 0..(MaxFds - 1)]

\* A step of one task, when the books and the vfs domain are known to be right after it.
LEMMA BaseStep ==
  ASSUME FilesInv, NEW t \in Tasks, Alone(t), NEW b \in Tables, NEW p, NEW o, NEW I, NEW H, NEW U,
         RowType(p, o, I, H, U), Row(t, p, o, I, H, U), ShapeOf(p, o, I, H, U, table'[t] = None),
         \A i \in I : i < next, next' = next, world' = world,
         OthersKeep(t, b), slots'[b] = slots[b] \/ table[t] = b \/ \A u \in Live : table[u] # b,
         TablesOK', Types', \A i \in Ids : Accounted(i)', DomainOK', Apart', Bare(t)'
  PROVE  FilesInv'
<1>1. CallTypes' /\ NewRow(t, p, o, I, H, U) /\ OldRows(t)
  BY RowIs DEF FilesInv
<1>2. \A u \in Tasks : Shape(u)'
  <2>1. Alive(t)
    BY DEF OthersKeep, Alive
  <2>2. \A u \in Tasks : Shape(u)
    BY DEF FilesInv
  <2> QED
    BY <1>1, <2>1, <2>2, ShapeStep
<1>3. \A u \in Tasks : Known(u)'
  BY <1>1 DEF FilesInv, Known, NewRow, OldRows
<1>4. \A u \in Tasks : Bare(u)'
  BY <1>1, BareStep
<1> QED
  BY <1>1, <1>2, <1>3, <1>4 DEF FilesInv

\* A step of one task outside the vfs domain: the references are the same, and it forgets
\* no id that it owns, unless it leaves it behind.
LEMMA TaskStep ==
  ASSUME FilesInv, NEW t \in Tasks, Alone(t), NEW b \in Tables, NEW p, NEW o, NEW I, NEW H, NEW U,
         RowType(p, o, I, H, U), Row(t, p, o, I, H, U), ShapeOf(p, o, I, H, U, table'[t] = None),
         \A i \in I : i < next,
         OwnedOf(p, o, I) \subseteq Owned(t), Owned(t) \ OwnedOf(p, o, I) \subseteq abandoned',
         abandoned \subseteq abandoned', abandoned' \subseteq Ids,
         OthersKeep(t, b), slots'[b] = slots[b] \/ table[t] = b \/ \A u \in Live : table[u] # b,
         TablesOK', RestTypes', Referenced' = Referenced,
         UNCHANGED <<vfsVars, aliased, world>>, using[t] \subseteq U, Apart', Bare(t)'
  PROVE  FilesInv'
<1>1. NewRow(t, p, o, I, H, U) /\ OldRows(t)
  BY RowIs DEF FilesInv
<1>2. Types' /\ next' = next /\ world' = world
  BY DEF FilesInv, Types, RestTypes, vfsVars
<1>3. \A i \in Ids : Accounted(i)'
  <2>1. Owned(t)' = OwnedOf(p, o, I) /\ \A u \in Tasks \ {t} : Owned(u)' = Owned(u)
    BY <1>1, OwnedStep
  <2>2. /\ Owned(t)' \subseteq Owned(t) /\ Owned(t) \ Owned(t)' \subseteq abandoned'
        /\ aliased' = aliased /\ file' = file /\ next' = next
    BY <2>1 DEF vfsVars
  <2> QED
    BY <2>1, <2>2, BooksStay DEF FilesInv
<1>4. DomainOK'
  <2>1. DomainOK /\ shadow' = shadow /\ meta' = meta /\ file' = file /\ next' = next
    BY DEF FilesInv, vfsVars
  <2>2. \A u \in Tasks : using[u] \subseteq using'[u]
    BY <1>1 DEF NewRow, OldRows
  <2> QED
    BY <2>1, <2>2 DEF DomainOK, Present
<1> QED
  BY <1>2, <1>3, <1>4, BaseStep

\* Tables of different processes are different as long as nobody changes his.
LEMMA ApartStay ==
  ASSUME Apart, world' = world, Live' \subseteq Live, \A u \in Live' : table'[u] = table[u]
  PROVE  Apart'
BY DEF Apart

\* The same for a step that leaves tables and working directories alone.
LEMMA CallStep ==
  ASSUME FilesInv, NEW t \in Tasks, Alone(t), NEW p, NEW o, NEW I, NEW U,
         RowType(p, o, I, held[t], U), Row(t, p, o, I, held[t], U),
         ShapeOf(p, o, I, held[t], U, table[t] = None),
         \A i \in I : i < next,
         OwnedOf(p, o, I) \subseteq Owned(t), Owned(t) \ OwnedOf(p, o, I) \subseteq abandoned',
         abandoned \subseteq abandoned', abandoned' \subseteq Ids,
         fd' \in [Tasks -> 0..(MaxFds - 1)],
         UNCHANGED <<taskVars, vfsVars, aliased, world>>, using[t] \subseteq U,
         KeepsFile(p, o) => I \subseteq Fixed \cup FdIds(t) \cup {Id(cwd[t])}
  PROVE  FilesInv'
<1>1. PICK b : b \in Tables
  BY FilesAssumption
<1>2. CallTypes' /\ NewRow(t, p, o, I, held[t], U) /\ OldRows(t)
  BY RowIs DEF FilesInv
<1>3. \A u \in Tasks : held'[u] = held[u]
  BY <1>2 DEF NewRow, OldRows
<1>4. slots' = slots /\ table' = table /\ cwd' = cwd /\ occupied' = occupied /\ world' = world
  BY DEF taskVars
<1>5. Referenced' = Referenced
  BY <1>3, <1>4, RefsStay
<1>6. OthersKeep(t, b) /\ slots'[b] = slots[b]
  BY <1>3, <1>4 DEF OthersKeep, OnlyTable
<1>7. TablesOK' /\ RestTypes'
  BY <1>4 DEF FilesInv, TablesOK, RestTypes, Types
<1>8. Apart'
  BY <1>4 DEF FilesInv, Apart, Live
<1>9. Bare(t)'
  <2>1. FdIds(t)' = FdIds(t)
    BY <1>4 DEF FdIds, InTable
  <2>2. pc'[t] = p /\ op'[t] = o /\ ids'[t] = I
    BY <1>2 DEF NewRow
  <2> QED
    BY <1>4, <2>1, <2>2 DEF Bare, KeepsFile
<1>10. ShapeOf(p, o, I, held[t], U, table'[t] = None)
  BY <1>4
<1> QED
  BY <1>1, <1>4, <1>5, <1>6, <1>7, <1>8, <1>9, <1>10, TaskStep
-----------------------------------------------------------------------------
(* The start of a system call *)

\* What is not changed is set to what it was.
LEMMA SameHeld ==
  ASSUME CallTypes, NEW t \in Tasks
  PROVE  held = [held EXCEPT ![t] = held[t]] /\ using = [using EXCEPT ![t] = using[t]]
BY DEF CallTypes

\* A call of one vfs operation on ids of the task.
LEMMA BeginKeeps ==
  ASSUME FilesInv, NEW t \in Live, NEW o \in BareOps,
         NEW I, I \subseteq {0, Id(cwd[t])} \cup FdIds(t), o = "fchdir" => \E i \in I : I = {i},
         Begin(t, o, "call", I)
  PROVE  FilesInv'
<1>1. t \in Tasks /\ table[t] # None
  BY DEF Live
<1>2. pc[t] = "idle" /\ ids[t] = {} /\ held[t] = {} /\ using[t] = {}
  BY <1>1 DEF FilesInv, Shape, ShapeOf, Begin, Ready
<1>3. \A i \in I : i \in Ids /\ i < next
  BY NamesAreKnown
<1>4. RowType("call", o, I, held[t], using[t])
  BY <1>2, <1>3 DEF RowType, PCs, OpNames, BareOps
<1>5. Row(t, "call", o, I, held[t], using[t])
  BY <1>1, SameHeld DEF FilesInv, Begin, Row
<1>6. ShapeOf("call", o, I, held[t], using[t], table[t] = None)
  BY <1>1, <1>2, <1>3 DEF ShapeOf, BareOps, VfsOps
<1>7. OwnedOf("call", o, I) = {} /\ Owned(t) = {}
  BY <1>2 DEF OwnedOf, Owned, BareOps, OwnOps
<1>8. fd' \in [Tasks -> 0..(MaxFds - 1)] /\ abandoned' = abandoned /\ abandoned \subseteq Ids
  BY DEF FilesInv, Types, Begin
<1>9. UNCHANGED <<taskVars, vfsVars, aliased, world>> /\ Alone(t)
  BY DEF Begin, Ready
<1>10. I \subseteq Fixed \cup FdIds(t) \cup {Id(cwd[t])}
  BY DEF Fixed
<1> QED
  BY <1>1, <1>3, <1>4, <1>5, <1>6, <1>7, <1>8, <1>9, <1>10, CallStep

\* get_fd, then one vfs call.
LEMMA OnFdKeeps ==
  ASSUME FilesInv, NEW t \in Live, NEW o \in BareOps, OnFd(t, o)
  PROVE  FilesInv'
BY BeginKeeps DEF OnFd

\* A path, then one vfs call.
LEMMA OnPathKeeps ==
  ASSUME FilesInv, NEW t \in Live, NEW o \in BareOps, OnPath(t, o)
  PROVE  FilesInv'
BY BeginKeeps DEF OnPath, user_path_at

\* The calls on descriptors.
LEMMA FdCallKeeps ==
  ASSUME FilesInv, NEW t \in Live, FdCall(t)
  PROVE  FilesInv'
<1>1. {"read", "readv", "fchdir"} \subseteq BareOps
  BY DEF BareOps
<1>2. CASE sys_sendfile(t)
  BY <1>1, <1>2, BeginKeeps DEF sys_sendfile
<1>3. CASE OnFd(t, "read") \/ OnFd(t, "readv") \/ OnFd(t, "fchdir")
  BY <1>1, <1>3, OnFdKeeps
<1> QED
  BY <1>2, <1>3 DEF FdCall, sys_write, sys_read, sys_ftruncate, sys_lseek, sys_fstat, sys_fsync,
     sys_pread64, sys_pwrite64, sys_getdents64, sys_fstatfs, sys_ioctl, sys_poll_ctl, sys_readv,
     sys_writev, sys_fchdir
\* A file with a new id: the call owns the id, or leaves it behind.
LEMMA BooksOpen ==
  ASSUME FilesInv, NEW i \in Ids, NEW t \in Tasks, NEW N \in SUBSET Ids,
         \A j \in N : j >= next /\ j < next' /\ j \notin Fixed /\ Present(j)',
         Referenced' = Referenced, \A u \in Tasks \ {t} : Owned(u)' = Owned(u),
         Owned(t) \subseteq Owned(t)', Owned(t)' \subseteq Owned(t) \cup N,
         N \subseteq Owned(t)' \cup abandoned', abandoned \subseteq abandoned',
         aliased' = aliased, next' \in Nat, next' >= next, \A j \in Ids \ N : file'[j] = file[j]
  PROVE  Accounted(i)'
<1>1. Accounted(i) /\ i \in Nat /\ next \in Nat
  BY FilesAssumption DEF FilesInv, Types, Ids
<1>2. Shims(i)' = Shims(i)
  BY DEF Shims
<1>3. Owners(i)' = {u \in Tasks : i \in Owned(u)'}
  BY DEF Owners
<1>4. CASE i \in N
  <2>1. Shims(i) = {} /\ Owners(i) = {} /\ i \notin aliased
    BY <1>1, <1>4 DEF Accounted
  <2>2. Owners(i)' = {t} \/ (Owners(i)' = {} /\ i \in abandoned')
    <3>1. \A u \in Tasks \ {t} : i \notin Owned(u)'
      BY <2>1 DEF Owners
    <3> QED
      BY <1>3, <1>4, <3>1
  <2>3. i < next' /\ Present(i)' /\ i \notin Fixed
    BY <1>4
  <2>4. \A u, v \in Owners(i)' : u = v
    BY <2>2
  <2> QED
    BY <1>1, <1>2, <2>1, <2>2, <2>3, <2>4 DEF Accounted
<1>5. CASE i \notin N
  <2>1. \A u \in Tasks : i \in Owned(u)' <=> i \in Owned(u)
    BY <1>5
  <2>2. Owners(i)' = Owners(i)
    BY <1>3, <2>1 DEF Owners
  <2>3. file'[i] = file[i] /\ Present(i)' = Present(i)
    BY <1>5 DEF Present
  <2> QED
    BY <1>1, <1>2, <2>2, <2>3 DEF Accounted
<1> QED
  BY <1>4, <1>5

\* A step that opens files.
LEMMA OpenStep ==
  ASSUME FilesInv, NEW t \in Tasks, NEW p, NEW o, NEW I, NEW N \in SUBSET Ids,
         RowType(p, o, I, held[t], using[t]), Row(t, p, o, I, held[t], using[t]),
         ShapeOf(p, o, I, held[t], using[t], table[t] = None),
         \A i \in I : i < next', o \notin BareOps,
         \A j \in N : j >= next /\ j < next' /\ j \notin Fixed /\ Present(j)',
         Owned(t) \subseteq OwnedOf(p, o, I), OwnedOf(p, o, I) \subseteq Owned(t) \cup N,
         N \subseteq OwnedOf(p, o, I) \cup abandoned',
         abandoned \subseteq abandoned', abandoned' \subseteq Ids,
         next' \in 4..(MaxId + 1), next' >= next, \A j \in Ids \ N : file'[j] = file[j],
         file' \in [Ids -> {"none", "kernel", "special", "lost"}],
         shadow' \subseteq Ids, meta' \subseteq Ids, DomainOK',
         UNCHANGED <<taskVars, fd, aliased, world>>
  PROVE  FilesInv'
<1>1. CallTypes' /\ NewRow(t, p, o, I, held[t], using[t]) /\ OldRows(t)
  BY RowIs DEF FilesInv
<1>2. slots' = slots /\ table' = table /\ cwd' = cwd /\ occupied' = occupied /\ world' = world
  BY DEF taskVars
<1>3. TablesOK' /\ Types' /\ Apart'
  BY <1>2 DEF FilesInv, TablesOK, Types, Apart, Live
<1>4. \A u \in Tasks : held'[u] = held[u]
  BY <1>1 DEF NewRow, OldRows
<1>5. \A u \in Tasks : Shape(u)'
  <2>1. Alive(t) /\ ShapeOf(p, o, I, held[t], using[t], table'[t] = None)
    BY <1>2 DEF Alive
  <2>2. \A u \in Tasks : Shape(u)
    BY DEF FilesInv
  <2> QED
    BY <1>1, <2>1, <2>2, ShapeStep
<1>6. next \in Nat /\ next' \in Nat /\ Ids \subseteq Nat
  BY FilesAssumption DEF FilesInv, Types, Ids
<1>7. \A u \in Tasks : Known(u)'
  <2>1. Known(t)'
    BY <1>1 DEF Known, NewRow
  <2>2. ASSUME NEW u \in Tasks \ {t} PROVE Known(u)'
    <3>1. ids'[u] = ids[u] /\ ids[u] \subseteq Ids /\ \A i \in ids[u] : i < next
      BY <1>1 DEF FilesInv, Known, OldRows, CallTypes
    <3>2. ASSUME NEW i \in ids[u] PROVE i < next'
      <4>1. i \in Nat /\ i < next
        BY <1>6, <3>1
      <4> QED
        BY <1>6, <4>1
    <3> QED
      BY <3>1, <3>2 DEF Known
  <2> QED
    BY <2>1, <2>2
<1>8. \A u \in Tasks : Bare(u)'
  <2>1. Bare(t)'
    BY <1>1 DEF Bare, KeepsFile, NewRow
  <2>2. ASSUME NEW u \in Tasks \ {t} PROVE Bare(u)'
    <3>1. FdIds(u)' = FdIds(u) /\ Bare(u)
      BY <1>2 DEF FdIds, InTable, FilesInv
    <3> QED
      BY <1>1, <1>2, <3>1 DEF Bare, KeepsFile, OldRows
  <2> QED
    BY <2>1, <2>2
<1>9. \A i \in Ids : Accounted(i)'
  <2>1. Owned(t)' = OwnedOf(p, o, I) /\ \A u \in Tasks \ {t} : Owned(u)' = Owned(u)
    BY <1>1, OwnedStep
  <2>2. Referenced' = Referenced
    BY <1>2, <1>4, RefsStay
  <2>3. aliased' = aliased
    OBVIOUS
  <2> QED
    BY <1>6, <2>1, <2>2, <2>3, BooksOpen
<1> QED
  BY <1>1, <1>3, <1>5, <1>7, <1>8, <1>9 DEF FilesInv
\* The calls that open a path.
OpenOps == {"openat", "chdir", "faccessat", "mkdirat", "fstatat", "truncate", "utimensat", "read_all"}

\* A vfs_open: the new id has its kfile_ entry, is in VFS_MAP and in the shadow.
LEMMA VfsOpenKeeps ==
  ASSUME FilesInv, NEW t \in Live, NEW o \in OpenOps, NEW starts, VfsOpen(t, o, starts)
  PROVE  FilesInv'
<1>1. t \in Tasks /\ table[t] # None
  BY DEF Live
<1>2. pc[t] = "idle" /\ ids[t] = {} /\ held[t] = {} /\ using[t] = {}
  BY <1>1 DEF FilesInv, Shape, ShapeOf, VfsOpen, Ready
<1>3. /\ MaxId \in Nat /\ MaxId > 3 /\ next \in 4..(MaxId + 1) /\ next <= MaxId
      /\ next \in Ids /\ next \notin Fixed /\ next' = next + 1 /\ next' \in 4..(MaxId + 1)
  <2>1. world.lastId \in 0 .. MaxId
    BY FilesAssumption DEF FilesInv, Types, Ids
  <2>2. MaxId \in Nat /\ MaxId > 3 /\ next \in 4..(MaxId + 1)
    BY FilesAssumption DEF FilesInv, Types
  <2>3. next <= world.lastId /\ next' = next + 1
    BY DEF VfsOpen
  <2> QED
    BY <2>1, <2>2, <2>3 DEF Ids, Fixed
<1>4. PICK p, q, I : /\ p = AfterOpen(o) /\ q = (IF o = "mkdirat" THEN "none" ELSE o)
                     /\ I = (IF o = "mkdirat" THEN {} ELSE {next})
  OBVIOUS
<1>5. RowType(p, q, I, held[t], using[t])
  BY <1>2, <1>3, <1>4 DEF RowType, PCs, OpNames, OpenOps, AfterOpen
<1>6. Row(t, p, q, I, held[t], using[t])
  BY <1>1, <1>4, SameHeld DEF FilesInv, VfsOpen, Row
<1>7. ShapeOf(p, q, I, held[t], using[t], table[t] = None)
  BY <1>1, <1>2, <1>3, <1>4 DEF ShapeOf, OpenOps, VfsOps, AfterOpen
<1>8. q \notin BareOps /\ \A i \in I : i < next'
  BY <1>3, <1>4 DEF BareOps, OpenOps
<1>9. Owned(t) = {} /\ OwnedOf(p, q, I) = I
  <2>1. Owned(t) = {}
    BY <1>2 DEF Owned, OwnedOf
  <2>2. OwnedOf(p, q, I) = I
    BY <1>4 DEF OwnedOf, OwnOps, OpenOps, AfterOpen
  <2> QED
    BY <2>1, <2>2
<1>10. abandoned \subseteq abandoned' /\ abandoned' \subseteq Ids /\ next \in I \cup abandoned'
  BY <1>3, <1>4 DEF VfsOpen, FilesInv, Types
<1>11. /\ file' \in [Ids -> {"none", "kernel", "special", "lost"}] /\ file'[next] = "kernel"
       /\ \A j \in Ids \ {next} : file'[j] = file[j]
  BY <1>3 DEF VfsOpen, FilesInv, Types
<1>12. shadow' = shadow \cup {next} /\ meta' = meta \cup {next} /\ shadow' \subseteq Ids /\ meta' \subseteq Ids
  BY <1>3 DEF VfsOpen, FilesInv, Types
<1>13. DomainOK'
  <2>1. DomainOK /\ shadow \subseteq Ids /\ meta \subseteq Ids
    BY DEF FilesInv, Types
  <2>2. shadow' = {i \in Ids : file'[i] = "kernel"} /\ Fixed \subseteq shadow' /\ shadow' \subseteq meta'
    BY <1>3, <1>11, <1>12, <2>1 DEF DomainOK
  <2>3. ASSUME NEW i \in Ids, i >= next' PROVE file'[i] = "none" /\ i \notin meta'
    <3>1. i \in Nat /\ i >= next /\ i # next
      BY <1>3, <2>3 DEF Ids
    <3> QED
      BY <1>11, <1>12, <2>1, <3>1 DEF DomainOK
  <2>4. ASSUME NEW i \in meta' PROVE i \in shadow' \/ (~ Present(i)' /\ \E u \in Tasks : i \in using'[u])
    <3>1. CASE i = next
      BY <1>12, <3>1
    <3>2. CASE i # next
      <4>1. using' = using /\ i \in meta /\ i \in Ids
        BY <1>12, <2>1, <3>2, <2>4 DEF VfsOpen
      <4> QED
        BY <1>11, <1>12, <2>1, <3>2, <4>1 DEF DomainOK, Present
    <3> QED
      BY <3>1, <3>2
  <2> QED
    BY <2>2, <2>3, <2>4 DEF DomainOK
<1>14. \A j \in {next} : j >= next /\ j < next' /\ j \notin Fixed /\ Present(j)'
  BY <1>3, <1>11 DEF Present
<1>15. UNCHANGED <<taskVars, fd, aliased, world>>
  BY DEF VfsOpen
<1>16. {next} \in SUBSET Ids /\ {next} \subseteq OwnedOf(p, q, I) \cup abandoned' /\ next' >= next
  BY <1>3, <1>9, <1>10
<1>17. Owned(t) \subseteq OwnedOf(p, q, I) /\ OwnedOf(p, q, I) \subseteq Owned(t) \cup {next}
  BY <1>4, <1>9
<1> QED
  BY <1>1, <1>3, <1>5, <1>6, <1>7, <1>8, <1>10, <1>11, <1>12, <1>13, <1>14, <1>15, <1>16, <1>17, OpenStep
\* New special files: they have no kfile_ entry and are not in the shadow.
LEMMA VfsNewKeeps ==
  ASSUME FilesInv, NEW t \in Live, NEW n \in {1, 2}, NEW o, NEW p,
         pc[t] = "idle" \/ pc[t] = "new",
         (o = "openat" /\ p = "addfd") \/ (o = "socket_pair" /\ p = "new"),
         VfsNew(t, o, n, p)
  PROVE  FilesInv'
<1>1. t \in Tasks /\ table[t] # None
  BY DEF Live
<1>2. held[t] = {} /\ using[t] = {} /\ Owned(t) = ids[t]
  BY <1>1 DEF FilesInv, Shape, ShapeOf, Owned, OwnedOf, OwnOps
<1>3. PICK N : N = next..(next + n - 1)
  OBVIOUS
<1>4. PICK I : I = ids[t] \cup N
  OBVIOUS
<1>5. /\ MaxId \in Nat /\ next \in 4..(MaxId + 1) /\ next' = next + n /\ next' \in 4..(MaxId + 1)
      /\ next' >= next
      /\ N \in SUBSET Ids /\ next \in N /\ \A j \in N : j >= next /\ j < next' /\ j \notin Fixed
      /\ \A j \in Ids : j >= next' => j >= next /\ j \notin N
  <2>1. world.lastId \in 0 .. MaxId
    BY FilesAssumption DEF FilesInv, Types, Ids
  <2>2. MaxId \in Nat /\ MaxId > 3 /\ next \in 4..(MaxId + 1)
    BY FilesAssumption DEF FilesInv, Types
  <2>3. next + n - 1 <= world.lastId /\ next' = next + n
    BY DEF VfsNew
  <2>4. n \in Nat /\ n >= 1
    OBVIOUS
  <2> QED
    BY <1>3, <2>1, <2>2, <2>3, <2>4 DEF Ids, Fixed
<1>6. ids[t] \subseteq Ids /\ \A i \in ids[t] : i < next
  BY <1>1 DEF FilesInv, CallTypes, Known
<1>7. RowType(p, o, I, held[t], using[t])
  BY <1>2, <1>4, <1>5, <1>6 DEF RowType, PCs, OpNames
<1>8. Row(t, p, o, I, held[t], using[t])
  BY <1>1, <1>3, <1>4, SameHeld DEF FilesInv, VfsNew, Row
<1>9. ShapeOf(p, o, I, held[t], using[t], table[t] = None)
  BY <1>1, <1>2, <1>4, <1>5 DEF ShapeOf
<1>10. o \notin BareOps /\ \A i \in I : i < next'
  <2>1. ASSUME NEW i \in ids[t] PROVE i < next'
    <3>1. i \in Nat /\ i < next
      BY <1>6, <2>1 DEF Ids
    <3> QED
      BY <1>5, <3>1
  <2> QED
    BY <1>4, <1>5, <2>1 DEF BareOps
<1>11. OwnedOf(p, o, I) = I
  BY DEF OwnedOf, OwnOps
<1>12. abandoned' = abandoned /\ abandoned \subseteq Ids
  BY DEF VfsNew, FilesInv, Types
<1>13. /\ file' \in [Ids -> {"none", "kernel", "special", "lost"}]
       /\ \A j \in N : file'[j] = "special"
       /\ \A j \in Ids \ N : file'[j] = file[j]
  BY <1>3, <1>5 DEF VfsNew, FilesInv, Types
<1>14. /\ shadow' = shadow /\ meta' = meta /\ using' = using
       /\ shadow' \subseteq Ids /\ meta' \subseteq Ids
  BY DEF VfsNew, FilesInv, Types
<1>15. DomainOK'
  <2>1. DomainOK
    BY DEF FilesInv
  <2>2. \A j \in N : file[j] = "none" /\ j \notin meta
    BY <1>5, <2>1 DEF DomainOK
  <2>3. shadow' = {i \in Ids : file'[i] = "kernel"}
    <3>1. \A i \in Ids : file'[i] = "kernel" <=> file[i] = "kernel"
      BY <1>5, <1>13, <2>2
    <3> QED
      BY <1>14, <2>1, <3>1 DEF DomainOK
  <2>4. ASSUME NEW i \in Ids, i >= next' PROVE file'[i] = "none" /\ i \notin meta'
    BY <1>5, <1>13, <1>14, <2>1, <2>4 DEF DomainOK
  <2>5. ASSUME NEW i \in meta' PROVE i \in shadow' \/ (~ Present(i)' /\ \E u \in Tasks : i \in using'[u])
    <3>1. i \in meta /\ i \in Ids \ N
      BY <1>14, <2>2, <2>5
    <3> QED
      BY <1>13, <1>14, <2>1, <3>1 DEF DomainOK, Present
  <2> QED
    BY <1>14, <2>1, <2>3, <2>4, <2>5 DEF DomainOK
<1>16. \A j \in N : j >= next /\ j < next' /\ j \notin Fixed /\ Present(j)'
  BY <1>5, <1>13 DEF Present
<1>17. UNCHANGED <<taskVars, fd, aliased, world>>
  BY DEF VfsNew
<1>18. /\ Owned(t) \subseteq OwnedOf(p, o, I) /\ OwnedOf(p, o, I) \subseteq Owned(t) \cup N
       /\ N \subseteq OwnedOf(p, o, I) \cup abandoned' /\ abandoned \subseteq abandoned'
       /\ abandoned' \subseteq Ids
  BY <1>2, <1>4, <1>11, <1>12
<1> QED
  BY <1>1, <1>5, <1>7, <1>8, <1>9, <1>10, <1>13, <1>14, <1>15, <1>16, <1>17, <1>18, OpenStep

\* The calls on paths.
LEMMA PathCallKeeps ==
  ASSUME FilesInv, NEW t \in Live, PathCall(t)
  PROVE  FilesInv'
<1>1. "read" \in BareOps
  BY DEF BareOps
<1>2. CASE OnPath(t, "read")
  BY <1>1, <1>2, OnPathKeeps
<1>3. CASE sys_linkat(t)
  BY <1>1, <1>3, BeginKeeps DEF sys_linkat, user_path_at
<1>4. CASE sys_renameat2(t)
  BY <1>1, <1>4, BeginKeeps DEF sys_renameat2, user_path_at
<1>5. CASE sys_getcwd(t)
  BY <1>1, <1>5, BeginKeeps DEF sys_getcwd
<1>6. CASE \E o \in OpenOps, starts \in {user_path_at(t), Dirs(t)} : VfsOpen(t, o, starts)
  BY <1>6, VfsOpenKeeps
<1> QED
  BY <1>2, <1>3, <1>4, <1>5, <1>6 DEF PathCall, sys_unlinkat, sys_symlinkat, sys_readlinkat,
     sys_openat, sys_fstatat, sys_faccessat, sys_truncate, sys_statfs, sys_utimensat,
     sys_mkdirat, sys_chdir, read_all, OpenOps
\* What a descriptor of the task stands for is in its table.
LEMMA GetIs ==
  ASSUME FilesInv, NEW t \in Live, NEW n \in Int
  PROVE  /\ table[t] \in Tables /\ Get(t, n) = At(slots[table[t]], n)
         /\ Get(t, n) # None => /\ Get(t, n) \in InTable(table[t]) /\ Get(t, n) \in Objs
                                /\ n \in Nat /\ Id(Get(t, n)) \in FdIds(t)
<1>1. PICK b \in Tables : b = table[t]
  BY DEF FilesInv, Types, Live
<1>2. PICK s \in Seq(Item) : s = slots[b]
  BY DEF FilesInv, TablesOK
<1>3. Get(t, n) = At(s, n)
  BY <1>1, <1>2 DEF Get, At
<1>4. ASSUME At(s, n) # None
      PROVE  At(s, n) \in InTable(b) /\ At(s, n) \in Objs /\ n \in Nat
  <2>1. PICK k \in Nat : k = Len(s) /\ DOMAIN s = 1 .. k
    OBVIOUS
  <2>2. n + 1 \in 1 .. k /\ At(s, n) = s[n + 1]
    BY <1>4, <2>1 DEF At
  <2>3. n \in Nat
    BY <2>2
  <2>4. s[n + 1] \in Item
    BY <2>1, <2>2
  <2> QED
    BY <1>2, <1>4, <2>1, <2>2, <2>3, <2>4 DEF InTable, Item
<1> QED
  BY <1>1, <1>2, <1>3, <1>4 DEF FdIds

\* get_file: an Arc of the table is cloned.
LEMMA GetFileKeeps ==
  ASSUME FilesInv, NEW t \in Live, NEW o \in {"dup", "fcntl", "dup2", "dup3"}, NEW n \in Int,
         NEW d \in 0..(MaxFds - 1), GetFile(t, o, n, d)
  PROVE  FilesInv'
<1>1. t \in Tasks /\ table[t] # None
  BY DEF Live
<1>2. pc[t] = "idle" /\ ids[t] = {} /\ held[t] = {} /\ using[t] = {}
  BY <1>1 DEF FilesInv, Shape, ShapeOf, GetFile, Ready
<1>3. PICK b \in Tables : b = table[t]
  BY GetIs
<1>4. PICK x \in Objs : x = Get(t, n) /\ x \in InTable(b)
  BY <1>3, GetIs DEF GetFile
<1>5. Row(t, "insert", o, {}, {x}, using[t])
  <2>1. ids = [ids EXCEPT ![t] = {}]
    BY <1>1, <1>2 DEF FilesInv, CallTypes
  <2> QED
    BY <1>1, <1>4, <2>1, SameHeld DEF FilesInv, GetFile, Row
<1>6. RowType("insert", o, {}, {x}, using[t])
  BY <1>2 DEF RowType, PCs, OpNames
<1>7. ShapeOf("insert", o, {}, {x}, using[t], table'[t] = None)
  BY <1>1, <1>2 DEF ShapeOf, GetFile, taskVars
<1>8. OwnedOf("insert", o, {}) = {} /\ Owned(t) = {}
  BY <1>2 DEF OwnedOf, Owned
<1>9. NewRow(t, "insert", o, {}, {x}, using[t]) /\ OldRows(t)
  BY <1>1, <1>5, <1>6, RowIs DEF FilesInv
<1>10. /\ slots' = slots /\ table' = table /\ cwd' = cwd /\ occupied' = occupied
       /\ abandoned' = abandoned /\ abandoned \subseteq Ids
       /\ UNCHANGED <<vfsVars, aliased, world>> /\ Alone(t)
  BY DEF GetFile, Ready, taskVars, FilesInv, Types
<1>11. fd' \in [Tasks -> 0..(MaxFds - 1)]
  BY DEF GetFile, FilesInv, Types
<1>12. OthersKeep(t, b) /\ slots'[b] = slots[b]
  BY <1>9, <1>10 DEF OthersKeep, OnlyTable, OldRows
<1>13. TablesOK' /\ RestTypes' /\ Apart'
  BY <1>10, <1>11 DEF FilesInv, TablesOK, RestTypes, Types, Apart, Live
<1>14. Referenced' = Referenced
  <2>1. Local(t, b)' = Local(t, b)
    BY <1>2, <1>4, <1>9, <1>10 DEF Local, InTable, Live, NewRow
  <2> QED
    BY <1>1, <1>12, <2>1, RefsStep
<1>15. Bare(t)'
  BY <1>9 DEF NewRow, Bare, KeepsFile
<1> QED
  BY <1>1, <1>5, <1>6, <1>7, <1>8, <1>10, <1>12, <1>13, <1>14, <1>15, TaskStep

\* remove_fd: an Arc leaves the table and is in the hands of the call.
LEMMA CloseKeeps ==
  ASSUME FilesInv, NEW t \in Live, sys_close(t)
  PROVE  FilesInv'
<1>1. t \in Tasks /\ table[t] # None
  BY DEF Live
<1>2. pc[t] = "idle" /\ ids[t] = {} /\ held[t] = {} /\ using[t] = {}
  BY <1>1 DEF FilesInv, Shape, ShapeOf, sys_close, Ready
<1>3. PICK n \in 0..(MaxFds - 1) : /\ Get(t, n) # None /\ Remove(table[t], n)
                                   /\ held' = [held EXCEPT ![t] = {Get(t, n)}]
  BY DEF sys_close
<1>4. n \in Int /\ MaxFds \in Nat
  BY FilesAssumption
<1>5. PICK b \in Tables : b = table[t]
  BY GetIs
<1>6. PICK x \in Objs : x = Get(t, n) /\ x \in InTable(b) /\ n \in Nat /\ x = At(slots[b], n)
  BY <1>3, <1>4, <1>5, GetIs
<1>7. x # None
  BY NoneIsNoShim
<1>8. TablesOK' /\ OnlyTable(b) /\ InTable(b)' \subseteq InTable(b) /\ InTable(b) \subseteq InTable(b)' \cup {x}
  BY <1>3, <1>5, <1>6, <1>7, RemoveKeeps DEF FilesInv
<1>9. Row(t, "drop", "close", {}, {x}, using[t])
  <2>1. ids = [ids EXCEPT ![t] = {}]
    BY <1>1, <1>2 DEF FilesInv, CallTypes
  <2> QED
    BY <1>1, <1>3, <1>6, <2>1, SameHeld DEF FilesInv, sys_close, Row
<1>10. RowType("drop", "close", {}, {x}, using[t])
  BY <1>2 DEF RowType, PCs, OpNames
<1>11. ShapeOf("drop", "close", {}, {x}, using[t], table'[t] = None)
  BY <1>1, <1>2 DEF ShapeOf
<1>12. OwnedOf("drop", "close", {}) = {} /\ Owned(t) = {}
  BY <1>2 DEF OwnedOf, Owned
<1>13. NewRow(t, "drop", "close", {}, {x}, using[t]) /\ OldRows(t)
  BY <1>1, <1>9, <1>10, RowIs DEF FilesInv
<1>14. /\ table' = table /\ cwd' = cwd /\ abandoned' = abandoned /\ abandoned \subseteq Ids
       /\ UNCHANGED <<vfsVars, aliased, world>> /\ fd' = fd /\ Alone(t)
  BY DEF sys_close, Ready, FilesInv, Types
<1>15. OthersKeep(t, b)
  BY <1>8, <1>13, <1>14 DEF OthersKeep, OldRows
<1>16. RestTypes' /\ Apart'
  BY <1>14 DEF FilesInv, RestTypes, Types, Apart, Live
<1>17. Referenced' = Referenced
  <2>1. Local(t, b)' = Local(t, b)
    BY <1>2, <1>6, <1>8, <1>13, <1>14 DEF Local, Live, NewRow
  <2> QED
    BY <1>1, <1>15, <2>1, RefsStep
<1>18. Bare(t)'
  BY <1>13 DEF NewRow, Bare, KeepsFile
<1> QED
  BY <1>1, <1>5, <1>8, <1>9, <1>10, <1>11, <1>12, <1>14, <1>15, <1>16, <1>17, <1>18, TaskStep
-----------------------------------------------------------------------------
(* Inside a system call: the task domain *)

\* The name of the call when it goes on at p.
GoOp(t, p) == IF p = "idle" THEN "none"
              ELSE IF p = "call" /\ op[t] \in {"fcntl", "dup3"} THEN "read" ELSE op[t]
GoIds(p, I) == IF p = "idle" THEN {} ELSE I

\* Where a call goes on.
LEMMA GotoIs ==
  ASSUME CallTypes, Types, NEW t \in Tasks, NEW p, NEW I, NEW H, NEW U, Goto(t, p, I),
         held' = [held EXCEPT ![t] = H], using' = [using EXCEPT ![t] = U]
  PROVE  /\ Row(t, p, GoOp(t, p), GoIds(p, I), H, U) /\ GoOp(t, p) \in OpNames
         /\ fd' \in [Tasks -> 0..(MaxFds - 1)]
<1>1. Row(t, p, GoOp(t, p), GoIds(p, I), H, U)
  BY DEF Goto, Row, GoOp, GoIds, CallTypes
<1>2. GoOp(t, p) \in OpNames
  BY DEF GoOp, CallTypes, OpNames
<1>3. fd' \in [Tasks -> 0..(MaxFds - 1)]
  BY FilesAssumption DEF Goto, Types
<1> QED
  BY <1>1, <1>2, <1>3

\* The second half of dup: the Arc is stored, a replaced one is in the hands of the call.
LEMMA DoDupKeeps ==
  ASSUME FilesInv, NEW t \in Tasks, DoDup(t)
  PROVE  FilesInv'
<1>1. /\ pc[t] = "insert" /\ op[t] \in {"dup", "fcntl", "dup2", "dup3"} /\ ids[t] = {}
      /\ using[t] = {} /\ table[t] # None /\ t \in Live
  BY DEF FilesInv, Shape, ShapeOf, DoDup, Live
<1>2. PICK x \in Objs : held[t] = {x}
  BY <1>1 DEF FilesInv, Shape, ShapeOf
<1>3. PICK b \in Tables : b = table[t]
  BY <1>1 DEF FilesInv, Types
<1>4. Owned(t) = {}
  BY <1>1 DEF OwnedOf, Owned
<1>5. /\ table' = table /\ cwd' = cwd /\ abandoned' = abandoned /\ abandoned \subseteq Ids
      /\ UNCHANGED <<vfsVars, aliased, world>> /\ using' = using /\ world \in Worlds /\ Alone(t)
  BY DEF DoDup, FilesInv, Types
<1>6. using' = [using EXCEPT ![t] = using[t]]
  BY <1>5, SameHeld DEF FilesInv
<1>7. SUFFICES ASSUME NEW p \in PCs, NEW I \in SUBSET Ids, NEW H \in SUBSET Objs,
                      Goto(t, p, I), held' = [held EXCEPT ![t] = H], TablesOK', OnlyTable(b),
                      InTable(b)' \cup H = InTable(b) \cup {x},
                      \/ /\ p \in {"call", "idle"} /\ op[t] \in {"dup", "fcntl"} /\ I = {Id(x)} /\ H = {}
                         /\ p = "call" => op[t] = "fcntl"
                         /\ x \in InTable(b)'
                      \/ /\ I = {} /\ p \in {"drop", AfterDrop(t)} /\ (p # "drop" => H = {})
               PROVE  FilesInv'
  <2>1. CASE op[t] \in {"dup", "fcntl"}
    <3>1. PICK p \in (IF op[t] = "fcntl" THEN {"call", "idle"} ELSE {"idle"}) : Goto(t, p, {Id(x)})
      BY <1>2, <2>1 DEF DoDup
    <3>2. Put(b, x) /\ held' = [held EXCEPT ![t] = {}]
      BY <1>2, <1>3, <2>1 DEF DoDup
    <3>3. TablesOK' /\ OnlyTable(b) /\ InTable(b)' = InTable(b) \cup {x}
      BY <1>5, <3>2, PutKeeps DEF FilesInv
    <3>4. p \in PCs /\ {Id(x)} \in SUBSET Ids
      BY DEF PCs, Objs, Id
    <3>5. p \in {"call", "idle"} /\ (p = "call" => op[t] = "fcntl")
      OBVIOUS
    <3>6. PICK I, H : I = {Id(x)} /\ H = {}
      OBVIOUS
    <3>7. InTable(b)' \cup H = InTable(b) \cup {x} /\ x \in InTable(b)' /\ H \in SUBSET Objs
      BY <3>3, <3>6
    <3>8. Goto(t, p, I) /\ held' = [held EXCEPT ![t] = H] /\ I \in SUBSET Ids
      BY <3>1, <3>2, <3>4, <3>6
    <3> QED
      BY <1>7, <2>1, <3>3, <3>4, <3>5, <3>6, <3>7, <3>8
  <2>2. CASE op[t] \notin {"dup", "fcntl"}
    <3>1. PICK y \in Item : y = Get(t, fd[t])
      BY <1>1, GetIs DEF FilesInv, TablesOK, At, Item, Get
    <3>2. fd[t] \in 0..(MaxFds - 1) /\ fd[t] \in Int
      BY FilesAssumption DEF FilesInv, Types
    <3>3. y = At(slots[b], fd[t]) /\ (y # None => y \in InTable(b) /\ y \in Objs)
      BY <1>1, <1>3, <3>1, <3>2, GetIs
    <3>4. PICK H : H = {y} \ {None}
      OBVIOUS
    <3>5. /\ PutAt(b, fd[t], x) /\ held' = [held EXCEPT ![t] = H]
          /\ Goto(t, IF y = None THEN AfterDrop(t) ELSE "drop", {})
      BY <1>2, <1>3, <2>2, <3>1, <3>4 DEF DoDup
    <3>6. /\ TablesOK' /\ OnlyTable(b)
          /\ InTable(b)' \subseteq InTable(b) \cup {x} /\ x \in InTable(b)'
          /\ InTable(b) \subseteq InTable(b)' \cup ({y} \ {None})
      BY <3>2, <3>3, <3>5, PutAtKeeps DEF FilesInv
    <3>7. PICK p \in PCs : p = IF y = None THEN AfterDrop(t) ELSE "drop"
      BY DEF AfterDrop, PCs
    <3>8. InTable(b)' \cup H = InTable(b) \cup {x}
      BY <3>3, <3>4, <3>6
    <3>9. H \in SUBSET Objs /\ p \in {"drop", AfterDrop(t)} /\ (p # "drop" => H = {})
      BY <3>3, <3>4, <3>7
    <3> QED
      BY <1>7, <3>4, <3>5, <3>6, <3>7, <3>8, <3>9
  <2> QED
    BY <2>1, <2>2
<1>8. PICK o, J : o = GoOp(t, p) /\ J = GoIds(p, I)
  OBVIOUS
<1>9. Row(t, p, o, J, H, using[t]) /\ o \in OpNames /\ fd' \in [Tasks -> 0..(MaxFds - 1)]
  BY <1>6, <1>7, <1>8, GotoIs DEF FilesInv
<1>10. RowType(p, o, J, H, using[t])
  BY <1>1, <1>7, <1>8, <1>9 DEF RowType, GoIds
<1>11. \/ p = "idle" /\ o = "none" /\ J = {} /\ H = {}
       \/ p = "call" /\ o = "read" /\ J = {Id(x)} /\ H = {} /\ x \in InTable(b)'
       \/ p = "drop" /\ o = op[t] /\ J = {}
       \/ p = "setfd" /\ o = "dup3" /\ J = {} /\ H = {}
  BY <1>1, <1>7, <1>8 DEF GoOp, GoIds, AfterDrop
<1>12. ShapeOf(p, o, J, H, using[t], table'[t] = None)
  BY <1>1, <1>5, <1>11 DEF ShapeOf, VfsOps
<1>13. OwnedOf(p, o, J) = {}
  BY <1>11 DEF OwnedOf, OwnOps
<1>14. NewRow(t, p, o, J, H, using[t]) /\ OldRows(t)
  BY <1>9, <1>10, RowIs DEF FilesInv
<1>15. OthersKeep(t, b)
  BY <1>5, <1>7, <1>14 DEF OthersKeep, OldRows
<1>16. RestTypes' /\ Apart'
  BY <1>5, <1>9 DEF FilesInv, RestTypes, Types, Apart, Live
<1>17. Referenced' = Referenced
  <2>1. Local(t, b)' = Local(t, b)
    BY <1>2, <1>5, <1>7, <1>14 DEF Local, Live, NewRow
  <2> QED
    BY <1>15, <2>1, RefsStep
<1>18. Bare(t)'
  <2>1. CASE p = "call"
    <3>1. ids'[t] = {Id(x)} /\ x \in InTable(b)' /\ table'[t] = b
      BY <1>3, <1>5, <1>11, <1>14, <2>1 DEF NewRow
    <3>2. Id(x) \in FdIds(t)'
      BY <3>1 DEF FdIds
    <3> QED
      BY <3>1, <3>2 DEF Bare
  <2>2. CASE p # "call"
    <3>1. pc'[t] \notin {"call", "in"}
      BY <1>11, <1>14, <2>2 DEF NewRow
    <3> QED
      BY <3>1 DEF Bare, KeepsFile
  <2> QED
    BY <2>1, <2>2
<1>19. \A i \in J : i < next
  BY <1>2, <1>11, RefersTo, RefsAreKnown
<1> QED
  BY <1>3, <1>4, <1>5, <1>7, <1>9, <1>10, <1>12, <1>13, <1>15, <1>16, <1>17, <1>18, <1>19, TaskStep
\* dup3 looks the descriptor up again before it sets the flag.
LEMMA SetFdKeeps ==
  ASSUME FilesInv, NEW t \in Tasks, SetFd(t)
  PROVE  FilesInv'
<1>1. /\ pc[t] = "setfd" /\ op[t] = "dup3" /\ ids[t] = {} /\ held[t] = {}
      /\ using[t] = {} /\ table[t] # None /\ t \in Live
  BY DEF FilesInv, Shape, ShapeOf, SetFd, Live
<1>2. Owned(t) = {}
  BY <1>1 DEF OwnedOf, Owned
<1>3. /\ abandoned' = abandoned /\ abandoned \subseteq Ids
      /\ UNCHANGED <<taskVars, vfsVars, aliased, world>> /\ using' = using /\ held' = held /\ Alone(t)
  BY DEF SetFd, FilesInv, Types
<1>4. using' = [using EXCEPT ![t] = using[t]] /\ held' = [held EXCEPT ![t] = held[t]]
  BY <1>3, SameHeld DEF FilesInv
<1>5. PICK p, I : /\ Goto(t, p, I)
                  /\ \/ p = "idle" /\ I = {}
                     \/ p = "call" /\ Get(t, fd[t]) # None /\ I = {Id(Get(t, fd[t]))}
  BY DEF SetFd
<1>6. fd[t] \in Int
  BY FilesAssumption DEF FilesInv, Types
<1>7. I \subseteq FdIds(t)
  BY <1>1, <1>5, <1>6, GetIs
<1>8. \A i \in I : i \in Ids /\ i < next
  BY <1>1, <1>7, NamesAreKnown
<1>9. PICK o, J : o = GoOp(t, p) /\ J = GoIds(p, I)
  OBVIOUS
<1>10. (p = "idle" /\ o = "none" /\ J = {}) \/ (p = "call" /\ o = "read" /\ J = I)
  BY <1>1, <1>5, <1>9 DEF GoOp, GoIds
<1>11. Row(t, p, o, J, held[t], using[t]) /\ o \in OpNames /\ fd' \in [Tasks -> 0..(MaxFds - 1)]
  BY <1>4, <1>5, <1>9, GotoIs DEF FilesInv
<1>12. RowType(p, o, J, held[t], using[t])
  BY <1>1, <1>8, <1>10, <1>11 DEF RowType, PCs
<1>13. ShapeOf(p, o, J, held[t], using[t], table[t] = None)
  BY <1>1, <1>10 DEF ShapeOf, VfsOps
<1>14. OwnedOf(p, o, J) = {}
  BY <1>10 DEF OwnedOf, OwnOps
<1>15. (\A i \in J : i < next) /\ J \subseteq Fixed \cup FdIds(t) \cup {Id(cwd[t])}
  BY <1>7, <1>8, <1>10
<1> QED
  BY <1>2, <1>3, <1>11, <1>12, <1>13, <1>14, <1>15, CallStep

\* do_clone: what the new task refers to, the old one refers to as well.
LEMMA DoCloneKeeps ==
  ASSUME FilesInv, NEW t \in Live, DoClone(t)
  PROVE  FilesInv'
<1>1. PICK u \in Tasks \ Live :
        /\ pc[u] = "idle"
        /\ \/ world.share /\ table' = [table EXCEPT ![u] = table[t]] /\ UNCHANGED <<slots, occupied>>
           \/ ~world.share /\ \E b \in {x \in Tables : \A v \in Live : table[v] # x /\ slots[x] = <<>>} :
                /\ table' = [table EXCEPT ![u] = b]
                /\ slots' = [slots EXCEPT ![b] = slots[table[t]]]
                /\ occupied' = [occupied EXCEPT ![b] = occupied[table[t]]]
        /\ cwd' = [cwd EXCEPT ![u] = cwd[t]]
  BY DEF DoClone
<1>2. /\ u \in Tasks /\ u \notin Live /\ t \in Tasks /\ t # u /\ table[u] = None
      /\ pc[u] = "idle" /\ op[u] = "none" /\ ids[u] = {} /\ held[u] = {} /\ using[u] = {}
  BY <1>1 DEF FilesInv, Shape, ShapeOf, Live
<1>3. PICK a \in Tables : a = table[t]
  BY DEF FilesInv, Types, Live
<1>4. PICK b \in Tables : /\ table' = [table EXCEPT ![u] = b]
                          /\ \/ world.share /\ b = a /\ slots' = slots /\ occupied' = occupied
                             \/ /\ ~ world.share /\ (\A v \in Live : table[v] # b) /\ slots[b] = <<>>
                                /\ slots' = [slots EXCEPT ![b] = slots[a]]
                                /\ occupied' = [occupied EXCEPT ![b] = occupied[a]]
  <2>1. CASE world.share
    BY <1>1, <1>3, <2>1
  <2>2. CASE ~ world.share
    <3>1. PICK b \in Tables : /\ \A v \in Live : table[v] # b /\ slots[b] = <<>>
                              /\ table' = [table EXCEPT ![u] = b]
                              /\ slots' = [slots EXCEPT ![b] = slots[table[t]]]
                              /\ occupied' = [occupied EXCEPT ![b] = occupied[table[t]]]
      BY <1>1, <2>2
    <3> QED
      BY <1>3, <2>2, <3>1
  <2> QED
    BY <2>1, <2>2
<1>5. UNCHANGED <<vfsVars, callVars, aliased, abandoned, world>> /\ Alone(u)
  BY DEF DoClone, Ready, Alone
<1>6. Row(u, "idle", "none", {}, {}, {}) /\ RowType("idle", "none", {}, {}, {})
  BY <1>2, <1>5 DEF Row, RowType, callVars, FilesInv, CallTypes, PCs, OpNames
<1>7. ShapeOf("idle", "none", {}, {}, {}, table'[u] = None)
  BY DEF ShapeOf
<1>8. NewRow(u, "idle", "none", {}, {}, {}) /\ OldRows(u)
  BY <1>2, <1>6, RowIs DEF FilesInv
<1>9. Owned(u) = {} /\ OwnedOf("idle", "none", {}) = {}
  BY <1>2 DEF Owned, OwnedOf
<1>10. TablesOK' /\ OnlyTable(b) /\ slots'[b] = slots[a]
  <2>1. CASE world.share
    BY <1>4, <2>1 DEF FilesInv, TablesOK, OnlyTable
  <2>2. CASE ~ world.share
    <3>1. PICK r \in Seq(Item) : r = slots[a] /\ Len(r) <= MaxFds
      BY DEF FilesInv, TablesOK
    <3>2. PICK k : k = Cardinality(UsedIn(r)) /\ k = occupied[a]
      BY <3>1 DEF FilesInv, TablesOK
    <3>3. slots' = [slots EXCEPT ![b] = r] /\ occupied' = [occupied EXCEPT ![b] = k]
      BY <1>4, <2>2, <3>1, <3>2
    <3> QED
      BY <3>1, <3>2, <3>3, TableChanges DEF FilesInv
  <2> QED
    BY <2>1, <2>2
<1>11. \A v \in Tasks \ {u} : table'[v] = table[v] /\ cwd'[v] = cwd[v]
  BY <1>1, <1>2, <1>4 DEF FilesInv, Types
<1>12. OthersKeep(u, b)
  BY <1>8, <1>10, <1>11 DEF OthersKeep, OldRows
<1>13. RestTypes'
  BY <1>1, <1>2, <1>4, <1>5 DEF RestTypes, FilesInv, Types, callVars
<1>14. slots'[b] = slots[b] \/ table[u] = b \/ \A v \in Live : table[v] # b
  BY <1>4
<1>15. table'[u] = b /\ cwd'[u] = cwd[t] /\ u \in Live'
  BY <1>1, <1>2, <1>4, FilesAssumption DEF FilesInv, Types, Live
<1>16. Apart'
  <2>1. CASE world.share
    BY <1>5, <2>1 DEF Apart
  <2>2. CASE ~ world.share
    <3>1. ASSUME NEW v \in Live', v # u PROVE v \in Live /\ table'[v] = table[v] /\ table[v] # b
      BY <1>4, <1>11, <2>2, <3>1 DEF Live
    <3> QED
      BY <1>5, <1>15, <3>1 DEF FilesInv, Apart
  <2> QED
    BY <2>1, <2>2
<1>17. Referenced' = Referenced
  <2>1. /\ Referenced = Local(u, b) \cup Elsewhere(u, b)
        /\ Referenced' = Local(u, b)' \cup Elsewhere(u, b)
    BY <1>2, <1>12, RefsStep
  <2>2. Local(u, b)' = InTable(a) \cup {cwd[t]}
    BY <1>8, <1>10, <1>15 DEF Local, InTable, NewRow
  <2>3. InTable(a) \cup {cwd[t]} \subseteq Referenced
    BY RefersTo
  <2>4. Local(u, b) \subseteq InTable(a)
    <3>1. Local(u, b) = InTable(b)
      BY <1>2 DEF Local
    <3>2. InTable(b) \subseteq InTable(a)
      <4>1. CASE world.share
        BY <1>4, <4>1
      <4>2. CASE ~ world.share
        BY <1>4, <4>2 DEF InTable
      <4> QED
        BY <4>1, <4>2
    <3> QED
      BY <3>1, <3>2
  <2> QED
    BY <2>1, <2>2, <2>3, <2>4
<1>18. Bare(u)'
  BY <1>8 DEF NewRow, Bare, KeepsFile
<1>19. using[u] \subseteq {} /\ abandoned' = abandoned /\ abandoned \subseteq Ids
  BY <1>2, <1>5 DEF FilesInv, Types
<1> QED
  BY <1>2, <1>5, <1>6, <1>7, <1>9, <1>10, <1>12, <1>13, <1>14, <1>16, <1>17, <1>18, <1>19, TaskStep
\* The end of a task: its Arcs, and those of a table nobody else uses, are on their way out.
LEMMA DropTaskKeeps ==
  ASSUME FilesInv, NEW t \in Live, DropTask(t)
  PROVE  FilesInv'
<1>1. t \in Tasks /\ table[t] # None
  BY DEF Live
<1>2. pc[t] = "idle" /\ op[t] = "none" /\ ids[t] = {} /\ held[t] = {} /\ using[t] = {}
  BY <1>1 DEF FilesInv, Shape, ShapeOf, DropTask, Ready
<1>3. PICK b \in Tables : b = table[t]
  BY DEF FilesInv, Types, Live
<1>4. PICK H : \/ /\ H = {cwd[t]} \cup InTable(b) /\ slots' = [slots EXCEPT ![b] = <<>>]
                  /\ occupied' = [occupied EXCEPT ![b] = 0] /\ held' = [held EXCEPT ![t] = H]
               \/ /\ H = {cwd[t]} /\ slots' = [slots EXCEPT ![b] = slots[b]]
                  /\ occupied' = [occupied EXCEPT ![b] = occupied[b]] /\ held' = [held EXCEPT ![t] = H]
  <2>1. CASE \A u \in Live \ {t} : table[u] # b
    BY <1>3, <2>1 DEF DropTask
  <2>2. CASE ~ \A u \in Live \ {t} : table[u] # b
    <3>1. /\ held' = [held EXCEPT ![t] = {cwd[t]} \cup {}] /\ slots' = [slots EXCEPT ![b] = slots[b]]
          /\ occupied' = [occupied EXCEPT ![b] = occupied[b]]
      BY <1>3, <2>2 DEF DropTask
    <3> QED
      BY <3>1
  <2> QED
    BY <2>1, <2>2
<1>5. /\ table' = [table EXCEPT ![t] = None] /\ cwd' = [cwd EXCEPT ![t] = ROOT]
      /\ Goto(t, "drop", {}) /\ UNCHANGED <<vfsVars, using, aliased, abandoned, world>> /\ Alone(t)
  BY DEF DropTask, Ready
<1>6. /\ Row(t, "drop", "none", {}, H, {}) /\ fd' \in [Tasks -> 0..(MaxFds - 1)]
  <2>1. using' = [using EXCEPT ![t] = {}] /\ held' = [held EXCEPT ![t] = H]
    BY <1>1, <1>2, <1>4, <1>5, SameHeld DEF FilesInv
  <2>2. GoOp(t, "drop") = "none" /\ GoIds("drop", {}) = {}
    BY <1>2 DEF GoOp, GoIds
  <2>3. /\ Row(t, "drop", GoOp(t, "drop"), GoIds("drop", {}), H, {})
        /\ fd' \in [Tasks -> 0..(MaxFds - 1)]
    BY <1>1, <1>5, <2>1, GotoIs DEF FilesInv
  <2> QED
    BY <2>2, <2>3
<1>7. RowType("drop", "none", {}, H, {})
  <2>1. InTable(b) \subseteq Objs /\ cwd[t] \in Objs
    BY <1>1, RefersTo, RefsAreKnown DEF FilesInv, Types
  <2> QED
    BY <1>4, <2>1 DEF RowType, PCs, OpNames
<1>8. ShapeOf("drop", "none", {}, H, {}, table'[t] = None)
  BY DEF ShapeOf
<1>9. OwnedOf("drop", "none", {}) = {} /\ Owned(t) = {}
  BY <1>2 DEF OwnedOf, Owned
<1>10. NewRow(t, "drop", "none", {}, H, {}) /\ OldRows(t)
  BY <1>1, <1>6, <1>7, RowIs DEF FilesInv
<1>11. TablesOK' /\ OnlyTable(b) /\ InTable(b)' \cup H = InTable(b) \cup {cwd[t]}
  <2>1. CASE H = {cwd[t]} \cup InTable(b) /\ slots' = [slots EXCEPT ![b] = <<>>] /\ occupied' = [occupied EXCEPT ![b] = 0]
    <3>1. PICK r \in Seq(Item) : r = <<>>
      BY EmptySeq
    <3>2. Len(r) <= MaxFds /\ UsedIn(r) = {} /\ Items(r) = {}
      BY <3>1, FilesAssumption DEF UsedIn, Items
    <3>3. Cardinality(UsedIn(r)) = 0
      BY <3>2, FS_EmptySet
    <3>4. PICK k : k = 0 /\ k = Cardinality(UsedIn(r))
      BY <3>3
    <3>5. slots' = [slots EXCEPT ![b] = r] /\ occupied' = [occupied EXCEPT ![b] = k]
      BY <2>1, <3>1, <3>4
    <3>6. TablesOK' /\ slots'[b] = r /\ OnlyTable(b)
      BY <3>2, <3>4, <3>5, TableChanges DEF FilesInv
    <3>7. InTable(b)' = {}
      BY <3>2, <3>6 DEF InTable, Items
    <3> QED
      BY <2>1, <3>6, <3>7
  <2>2. CASE H = {cwd[t]} /\ slots' = [slots EXCEPT ![b] = slots[b]] /\ occupied' = [occupied EXCEPT ![b] = occupied[b]]
    <3>1. slots' = slots /\ occupied' = occupied
      BY <2>2 DEF FilesInv, TablesOK
    <3> QED
      BY <2>2, <3>1 DEF FilesInv, TablesOK, OnlyTable, InTable
  <2> QED
    BY <1>4, <2>1, <2>2
<1>12. \A u \in Tasks \ {t} : table'[u] = table[u] /\ cwd'[u] = cwd[u]
  BY <1>1, <1>5 DEF FilesInv, Types
<1>13. table'[t] = None /\ t \notin Live'
  BY <1>1, <1>5 DEF FilesInv, Types, Live
<1>14. OthersKeep(t, b)
  BY <1>10, <1>11, <1>12 DEF OthersKeep, OldRows
<1>15. RestTypes'
  <2>1. ROOT \in Objs
    BY FilesAssumption DEF ROOT, Shim, Objs, Ids
  <2> QED
    BY <1>5, <1>6, <2>1 DEF RestTypes, FilesInv, Types
<1>16. Apart'
  <2>1. \A u \in Live' : u \in Live /\ table'[u] = table[u]
    BY <1>12, <1>13 DEF Live
  <2> QED
    BY <1>5, <2>1, ApartStay DEF FilesInv
<1>17. Referenced' = Referenced
  <2>1. Local(t, b)' = InTable(b)' \cup H
    BY <1>10, <1>13 DEF Local, NewRow
  <2>2. Local(t, b) = InTable(b) \cup {cwd[t]}
    BY <1>2 DEF Local
  <2> QED
    BY <1>1, <1>11, <1>14, <2>1, <2>2, RefsStep
<1>18. Bare(t)'
  BY <1>10 DEF NewRow, Bare, KeepsFile
<1>19. abandoned' = abandoned /\ abandoned \subseteq Ids
  BY <1>5 DEF FilesInv, Types
<1> QED
  BY <1>1, <1>2, <1>3, <1>5, <1>6, <1>7, <1>8, <1>9, <1>11, <1>14, <1>15, <1>16, <1>17, <1>18, <1>19, TaskStep

\* A reference that is new: the call owned its id, or it is known to be a second one.
LEMMA BooksStore ==
  ASSUME FilesInv, NEW i \in Ids, NEW t \in Tasks, NEW j \in Ids, j < next, NEW k \in 0..MaxAlias,
         Referenced' = Referenced \cup {Shim(j, k)},
         \A u \in Tasks \ {t} : Owned(u)' = Owned(u), Owned(t)' = Owned(t) \ {j},
         Present(j) \/ file[j] = "lost" \/ j \in aliased',
         j \in aliased' \/ (j \in Owned(t) /\ k = 0),
         aliased \subseteq aliased', aliased' \subseteq aliased \cup {j},
         abandoned' = abandoned, file' = file, next' = next
  PROVE  Accounted(i)'
<1>1. Accounted(i) /\ i \in Nat /\ next \in Nat
  BY FilesAssumption DEF FilesInv, Types, Ids
<1>2. Present(i)' = Present(i)
  BY DEF Present
<1>3. Owners(i)' = {u \in Tasks : i \in Owned(u)'}
  BY DEF Owners
<1>4. Shims(i)' = {o \in Referenced' : Id(o) = i}
  BY DEF Shims
<1>5. CASE i # j
  <2>1. Owners(i)' = Owners(i)
    BY <1>3, <1>5 DEF Owners
  <2>2. Shims(i)' = Shims(i)
    BY <1>4, <1>5 DEF Shims, Shim, Id
  <2>3. i \in aliased' <=> i \in aliased
    BY <1>5
  <2> QED
    BY <1>1, <1>2, <2>1, <2>2, <2>3 DEF Accounted
<1>6. CASE i = j
  <2>1. Shims(i)' = Shims(i) \cup {Shim(i, k)}
    BY <1>4, <1>6 DEF Shims, Shim, Id
  <2>2. Owners(i)' = Owners(i) \ {t}
    BY <1>3, <1>6 DEF Owners
  <2>3. i \notin aliased' => Owners(i)' = {} /\ Shims(i)' = {Shim(i, 0)}
    <3> SUFFICES ASSUME i \notin aliased' PROVE Owners(i)' = {} /\ Shims(i)' = {Shim(i, 0)}
      OBVIOUS
    <3>1. t \in Owners(i) /\ k = 0
      BY <1>6 DEF Owners
    <3>2. (\A u, v \in Owners(i) : u = v) /\ Shims(i) = {}
      BY <1>1, <3>1 DEF Accounted
    <3> QED
      BY <2>1, <2>2, <3>1, <3>2
  <2>4. ~ (i >= next')
    BY <1>1, <1>6
  <2> QED
    BY <1>1, <1>2, <1>6, <2>1, <2>3, <2>4 DEF Accounted
<1> QED
  BY <1>5, <1>6
\* An id that a call owns was handed out, and its file is open unless it is excepted.
LEMMA OwnedIsOpen ==
  ASSUME FilesInv, NEW t \in Tasks, NEW i \in Owned(t)
  PROVE  i \in Ids /\ i < next /\ (Present(i) \/ file[i] = "lost" \/ i \in aliased)
<1>1. i \in ids[t] /\ ids[t] \subseteq Ids /\ i < next
  BY OwnedIds DEF FilesInv, CallTypes, Known
<1>2. t \in Owners(i) /\ Accounted(i)
  BY <1>1 DEF Owners, FilesInv
<1> QED
  BY <1>1, <1>2 DEF Accounted

\* The vfs domain does not notice what is done to tables and Arcs.
LEMMA DomainStay ==
  ASSUME DomainOK, UNCHANGED vfsVars, \A u \in Tasks : using[u] \subseteq using'[u]
  PROVE  DomainOK'
<1>1. shadow' = shadow /\ meta' = meta /\ file' = file /\ next' = next
  BY DEF vfsVars
<1> QED
  BY <1>1 DEF DomainOK, Present

\* add_fd: a ShimFile takes over an id that the call opened.
LEMMA AddFdKeeps ==
  ASSUME FilesInv, NEW t \in Tasks, AddFd(t)
  PROVE  FilesInv'
<1>1. /\ pc[t] = "addfd" /\ op[t] = "openat" /\ ids[t] # {} /\ held[t] = {} /\ using[t] = {}
      /\ table[t] # None /\ t \in Live /\ ids[t] \subseteq Ids /\ Owned(t) = ids[t]
  BY DEF FilesInv, Shape, ShapeOf, AddFd, Live, CallTypes, Owned, OwnedOf, OwnOps
<1>2. PICK b \in Tables : b = table[t]
  BY <1>1 DEF FilesInv, Types
<1>3. PICK i : i = CHOOSE x \in ids[t] : \A y \in ids[t] : x <= y
  OBVIOUS
<1>4. i \in ids[t]
  <2>1. PICK T : T = ids[t]
    OBVIOUS
  <2>2. T \in SUBSET Nat /\ T # {}
    BY <1>1, <2>1, FilesAssumption DEF Ids
  <2>3. \E x \in T : \A y \in T : x <= y
    BY <2>2, LeastOf
  <2> QED
    BY <1>3, <2>1, <2>3
<1>5. i \in Ids /\ i < next /\ (Present(i) \/ file[i] = "lost" \/ i \in aliased) /\ i \in Owned(t)
  BY <1>1, <1>4, OwnedIsOpen
<1>6. PICK p, I : p = (IF ids[t] = {i} THEN "idle" ELSE "addfd") /\ I = ids[t] \ {i}
  OBVIOUS
<1>7. Put(b, Shim(i, 0)) /\ Goto(t, p, I)
  BY <1>2, <1>3, <1>6 DEF AddFd
<1>8. /\ table' = table /\ cwd' = cwd /\ aliased' = aliased /\ abandoned' = abandoned
      /\ UNCHANGED vfsVars /\ using' = using /\ held' = held /\ world' = world /\ world \in Worlds /\ Alone(t)
      /\ next' = next /\ file' = file /\ shadow' = shadow /\ meta' = meta
  BY DEF AddFd, FilesInv, Types, vfsVars
<1>9. GoOp(t, p) = (IF p = "idle" THEN "none" ELSE "openat") /\ GoIds(p, I) = I
  BY <1>1, <1>6 DEF GoOp, GoIds
<1>10. PICK o : o = IF p = "idle" THEN "none" ELSE "openat"
  OBVIOUS
<1>11. Row(t, p, o, I, held[t], using[t]) /\ fd' \in [Tasks -> 0..(MaxFds - 1)]
  <2>1. using' = [using EXCEPT ![t] = using[t]] /\ held' = [held EXCEPT ![t] = held[t]]
    BY <1>8, SameHeld DEF FilesInv
  <2>2. Row(t, p, GoOp(t, p), GoIds(p, I), held[t], using[t]) /\ fd' \in [Tasks -> 0..(MaxFds - 1)]
    BY <1>7, <2>1, GotoIs DEF FilesInv
  <2> QED
    BY <1>9, <1>10, <2>2
<1>12. RowType(p, o, I, held[t], using[t])
  BY <1>1, <1>6, <1>10 DEF RowType, PCs, OpNames
<1>13. ShapeOf(p, o, I, held[t], using[t], table'[t] = None)
  BY <1>1, <1>4, <1>6, <1>8, <1>10 DEF ShapeOf
<1>14. NewRow(t, p, o, I, held[t], using[t]) /\ OldRows(t)
  BY <1>11, <1>12, RowIs DEF FilesInv
<1>15. OwnedOf(p, o, I) = ids[t] \ {i}
  BY <1>6, <1>10 DEF OwnedOf, OwnOps
<1>16. Shim(i, 0) \in Objs /\ 0 \in 0..MaxAlias
  BY <1>5, FilesAssumption DEF Shim, Objs
<1>17. TablesOK' /\ OnlyTable(b) /\ InTable(b)' = InTable(b) \cup {Shim(i, 0)}
  BY <1>7, <1>8, <1>16, PutKeeps DEF FilesInv
<1>18. OthersKeep(t, b)
  BY <1>8, <1>14, <1>17 DEF OthersKeep, OldRows
<1>19. Referenced' = Referenced \cup {Shim(i, 0)}
  <2>1. Local(t, b)' = Local(t, b) \cup {Shim(i, 0)}
    BY <1>8, <1>14, <1>17 DEF Local, Live, NewRow
  <2> QED
    BY <1>18, <2>1, RefsStep
<1>20. \A j \in Ids : Accounted(j)'
  <2>1. Owned(t)' = Owned(t) \ {i} /\ \A u \in Tasks \ {t} : Owned(u)' = Owned(u)
    BY <1>1, <1>14, <1>15, OwnedStep
  <2>2. Present(i) \/ file[i] = "lost" \/ i \in aliased'
    BY <1>5, <1>8
  <2> QED
    BY <1>5, <1>8, <1>16, <1>19, <2>1, <2>2, BooksStore
<1>21. Types' /\ Apart'
  BY <1>8, <1>11 DEF FilesInv, Types, Apart, Live
<1>22. DomainOK'
  BY <1>8, DomainStay DEF FilesInv
<1>23. Bare(t)'
  <2>1. pc'[t] \notin {"call", "in"}
    BY <1>6, <1>14 DEF NewRow
  <2> QED
    BY <2>1 DEF Bare, KeepsFile
<1>24. \A j \in I : j < next
  BY <1>1, <1>6 DEF FilesInv, Known
<1> QED
  BY <1>2, <1>8, <1>11, <1>12, <1>13, <1>17, <1>18, <1>20, <1>21, <1>22, <1>23, <1>24, BaseStep

\* set_cwd: a new ShimFile takes over the id, or is a second one for it.
LEMMA SetCwdKeeps ==
  ASSUME FilesInv, NEW t \in Tasks, SetCwd(t)
  PROVE  FilesInv'
<1>1. /\ pc[t] = "setcwd" /\ op[t] \in {"chdir", "fchdir"} /\ held[t] = {} /\ using[t] = {}
      /\ table[t] # None /\ t \in Live /\ ids[t] \subseteq Ids
  BY DEF FilesInv, Shape, ShapeOf, SetCwd, Live, CallTypes
<1>2. PICK i \in Ids : ids[t] = {i}
  BY <1>1 DEF FilesInv, Shape, ShapeOf
<1>3. PICK b \in Tables : b = table[t]
  BY <1>1 DEF FilesInv, Types
<1>4. PICK k \in 0..MaxAlias : /\ \A n \in 0..k : Shim(i, n) \in Referenced <=> n < k
                               /\ cwd' = [cwd EXCEPT ![t] = Shim(i, k)]
                               /\ aliased' = IF op[t] = "fchdir" THEN aliased \cup {i} ELSE aliased
  BY <1>2 DEF SetCwd
<1>5. PICK H : H = {cwd[t]}
  OBVIOUS
<1>6. /\ slots' = slots /\ occupied' = occupied /\ table' = table /\ abandoned' = abandoned
      /\ UNCHANGED vfsVars /\ using' = using /\ world' = world
      /\ next' = next /\ file' = file /\ shadow' = shadow /\ meta' = meta
      /\ held' = [held EXCEPT ![t] = H] /\ Goto(t, "drop", {}) /\ Alone(t)
  BY <1>5 DEF SetCwd, vfsVars
<1>7. Row(t, "drop", op[t], {}, H, using[t]) /\ fd' \in [Tasks -> 0..(MaxFds - 1)]
  <2>1. using' = [using EXCEPT ![t] = using[t]]
    BY <1>6, SameHeld DEF FilesInv
  <2>2. GoOp(t, "drop") = op[t] /\ GoIds("drop", {}) = {}
    BY DEF GoOp, GoIds
  <2>3. /\ Row(t, "drop", GoOp(t, "drop"), GoIds("drop", {}), H, using[t])
        /\ fd' \in [Tasks -> 0..(MaxFds - 1)]
    BY <1>6, <2>1, GotoIs DEF FilesInv
  <2> QED
    BY <2>2, <2>3
<1>8. RowType("drop", op[t], {}, H, using[t])
  BY <1>1, <1>5 DEF RowType, PCs, FilesInv, CallTypes, Types
<1>9. ShapeOf("drop", op[t], {}, H, using[t], table'[t] = None)
  BY <1>1, <1>6 DEF ShapeOf
<1>10. NewRow(t, "drop", op[t], {}, H, using[t]) /\ OldRows(t)
  BY <1>7, <1>8, RowIs DEF FilesInv
<1>11. Shim(i, k) \in Objs
  BY DEF Shim, Objs
<1>12. TablesOK' /\ Types' /\ Apart'
  BY <1>4, <1>6, <1>7, <1>11 DEF FilesInv, TablesOK, Types, Apart, Live
<1>13. \A u \in Tasks \ {t} : cwd'[u] = cwd[u]
  BY <1>4 DEF FilesInv, Types
<1>14. OthersKeep(t, b) /\ slots'[b] = slots[b]
  BY <1>6, <1>10, <1>13 DEF OthersKeep, OnlyTable, OldRows
<1>15. Referenced' = Referenced \cup {Shim(i, k)}
  <2>1. cwd'[t] = Shim(i, k) /\ t \in Live'
    BY <1>1, <1>4, <1>6 DEF FilesInv, Types, Live
  <2>2. Local(t, b)' = InTable(b) \cup {cwd[t]} \cup {Shim(i, k)}
    BY <1>5, <1>6, <1>10, <2>1 DEF Local, InTable, NewRow
  <2>3. Local(t, b) = InTable(b) \cup {cwd[t]}
    BY <1>1 DEF Local
  <2> QED
    BY <1>14, <2>2, <2>3, RefsStep
<1>16. i < next
  BY <1>2 DEF FilesInv, Known
<1>17. Owned(t)' = {} /\ \A u \in Tasks \ {t} : Owned(u)' = Owned(u)
  <2>1. OwnedOf("drop", op[t], {}) = {}
    BY DEF OwnedOf
  <2> QED
    BY <1>10, <2>1, OwnedStep
<1>18. \A j \in Ids : Accounted(j)'
  <2>1. CASE op[t] = "fchdir"
    <3>1. Owned(t) = {} /\ Owned(t)' = Owned(t) \ {i}
      BY <1>1, <1>17, <2>1 DEF Owned, OwnedOf, OwnOps
    <3>2. i \in aliased' /\ aliased \subseteq aliased' /\ aliased' \subseteq aliased \cup {i}
      BY <1>4, <2>1
    <3> QED
      BY <1>6, <1>15, <1>16, <1>17, <3>1, <3>2, BooksStore
  <2>2. CASE op[t] = "chdir"
    <3>1. Owned(t) = {i} /\ Owned(t)' = Owned(t) \ {i}
      BY <1>1, <1>2, <1>17, <2>2 DEF Owned, OwnedOf, OwnOps
    <3>2. aliased' = aliased
      BY <1>4, <2>2
    <3>3. Present(i) \/ file[i] = "lost" \/ i \in aliased'
      BY <3>1, <3>2, OwnedIsOpen
    <3>4. i \in aliased' \/ (i \in Owned(t) /\ k = 0)
      <4> SUFFICES ASSUME i \notin aliased PROVE k = 0
        BY <3>1, <3>2
      <4>1. t \in Owners(i) /\ Accounted(i)
        BY <3>1 DEF Owners, FilesInv
      <4>2. Shims(i) = {}
        BY <4>1 DEF Accounted
      <4>3. Shim(i, 0) \notin Referenced
        BY <4>2 DEF Shims, Shim, Id
      <4>4. k \in Nat /\ 0 \in 0..k
        BY FilesAssumption
      <4>5. ~ (0 < k)
        BY <1>4, <4>3, <4>4
      <4> QED
        BY <4>4, <4>5
    <3> QED
      BY <1>6, <1>15, <1>16, <1>17, <3>1, <3>2, <3>3, <3>4, BooksStore
  <2> QED
    BY <1>1, <2>1, <2>2
<1>19. DomainOK'
  BY <1>6, DomainStay DEF FilesInv
<1>20. Bare(t)'
  BY <1>10 DEF NewRow, Bare, KeepsFile
<1> QED
  BY <1>6, <1>7, <1>8, <1>9, <1>12, <1>14, <1>18, <1>19, <1>20, BaseStep
\* An Arc in hand is dropped: the ShimFile is gone when it was the last one.
LEMMA ArcDropped ==
  ASSUME CallTypes, NEW t \in Tasks, NEW x \in held[t],
         slots' = slots, table' = table, cwd' = cwd, held' = [held EXCEPT ![t] = held[t] \ {x}]
  PROVE  Referenced' = IF LastArc(t, x) THEN Referenced \ {x} ELSE Referenced
<1>1. \A b \in Tables : InTable(b)' = InTable(b)
  BY DEF InTable
<1>2. Live' = Live
  BY DEF Live
<1>3. held'[t] = held[t] \ {x} /\ \A u \in Tasks \ {t} : held'[u] = held[u]
  BY DEF CallTypes
<1>4. \A o : o \in Referenced' <=> \/ \E c \in Tables : o \in InTable(c)
                                   \/ \E v \in Live : o = cwd[v]
                                   \/ \E v \in Tasks : o \in held'[v]
  <2>1. (\A o : o \in Referenced <=> \/ \E c \in Tables : o \in InTable(c)
                                     \/ \E v \in Live : o = cwd[v]
                                     \/ \E v \in Tasks : o \in held[v])'
    BY RefersBy, PTL
  <2> QED
    BY <1>1, <1>2, <2>1
<1>5. \A o : o \in Referenced <=> \/ \E b \in Tables : o \in InTable(b)
                                  \/ \E u \in Live : o = cwd[u]
                                  \/ \E u \in Tasks : o \in held[u]
  BY RefersBy
<1>6. \A o : o # x => (o \in Referenced' <=> o \in Referenced)
  BY <1>3, <1>4, <1>5
<1>7. x \in Referenced
  BY <1>5
<1>8. x \in Referenced' <=> ~ LastArc(t, x)
  BY <1>3, <1>4 DEF LastArc
<1> QED
  BY <1>6, <1>7, <1>8

\* The last Arc of a ShimFile is gone: the call that dropped it owns the id.
LEMMA BooksDrop ==
  ASSUME FilesInv, NEW i \in Ids, NEW t \in Tasks, NEW x \in Referenced,
         Referenced' = Referenced \ {x}, Owned(t) = {}, Owned(t)' = {Id(x)},
         \A u \in Tasks \ {t} : Owned(u)' = Owned(u),
         aliased' = aliased, abandoned' = abandoned, file' = file, next' = next
  PROVE  Accounted(i)'
<1>1. Accounted(i) /\ x \in Objs /\ Id(x) \in Ids /\ Id(x) < next /\ i \in Nat /\ next \in Nat
  BY RefsAreKnown, FilesAssumption DEF FilesInv, Types, Ids
<1>2. Present(i)' = Present(i)
  BY DEF Present
<1>3. Owners(i)' = {u \in Tasks : i \in Owned(u)'}
  BY DEF Owners
<1>4. Shims(i)' = {o \in Referenced' : Id(o) = i}
  BY DEF Shims
<1>5. CASE i # Id(x)
  <2>1. Owners(i)' = Owners(i)
    BY <1>3, <1>5 DEF Owners
  <2>2. Shims(i)' = Shims(i)
    BY <1>4, <1>5 DEF Shims
  <2> QED
    BY <1>1, <1>2, <2>1, <2>2 DEF Accounted
<1>6. CASE i = Id(x)
  <2>1. Shims(i)' = Shims(i) \ {x} /\ x \in Shims(i)
    BY <1>4, <1>6 DEF Shims
  <2>2. Owners(i)' = Owners(i) \cup {t}
    BY <1>3, <1>6 DEF Owners
  <2>3. i \notin aliased => Owners(i)' = {t} /\ Shims(i)' = {}
    BY <1>1, <2>1, <2>2 DEF Accounted
  <2>4. ~ (i >= next)
    BY <1>1, <1>6
  <2>5. Owners(i)' # {}
    BY <2>2
  <2> QED
    BY <1>1, <1>2, <2>1, <2>3, <2>4, <2>5 DEF Accounted
<1> QED
  BY <1>5, <1>6

\* Arc::drop and, for the last one, ShimFile::drop, which goes on to close the id.
LEMMA DropShimKeeps ==
  ASSUME FilesInv, NEW t \in Tasks, DropShim(t)
  PROVE  FilesInv'
<1>1. pc[t] = "drop" /\ ids[t] = {} /\ using[t] = {} /\ Owned(t) = {} /\ (table[t] = None => op[t] # "dup3")
  BY DEF FilesInv, Shape, ShapeOf, DropShim, Owned, OwnedOf
<1>2. PICK x \in held[t] : /\ held' = [held EXCEPT ![t] = held[t] \ {x}]
                           /\ IF LastArc(t, x) THEN Goto(t, "close", {Id(x)})
                              ELSE Goto(t, IF held'[t] = {} THEN AfterDrop(t) ELSE "drop", {})
  BY DEF DropShim
<1>3. PICK H : H = held[t] \ {x}
  OBVIOUS
<1>4. held' = [held EXCEPT ![t] = H] /\ held'[t] = H /\ H \in SUBSET Objs
  BY <1>2, <1>3 DEF FilesInv, CallTypes
<1>5. PICK b \in Tables : TRUE
  BY FilesAssumption
<1>6. /\ slots' = slots /\ occupied' = occupied /\ table' = table /\ cwd' = cwd
      /\ aliased' = aliased /\ abandoned' = abandoned /\ abandoned \subseteq Ids
      /\ UNCHANGED vfsVars /\ using' = using /\ world' = world /\ Alone(t)
      /\ next' = next /\ file' = file /\ shadow' = shadow /\ meta' = meta
  BY DEF DropShim, taskVars, vfsVars, FilesInv, Types
<1>7. using' = [using EXCEPT ![t] = using[t]]
  BY <1>6, SameHeld DEF FilesInv
<1>8. x \in Referenced /\ Id(x) \in Ids /\ Id(x) < next
  BY <1>2, RefersTo, RefsAreKnown
<1>9. Referenced' = IF LastArc(t, x) THEN Referenced \ {x} ELSE Referenced
  BY <1>2, <1>6, ArcDropped DEF FilesInv
<1>10. PICK p, I : /\ p = (IF LastArc(t, x) THEN "close" ELSE IF H = {} THEN AfterDrop(t) ELSE "drop")
                   /\ I = (IF LastArc(t, x) THEN {Id(x)} ELSE {})
  OBVIOUS
<1>11. Goto(t, p, I)
  BY <1>2, <1>4, <1>10
<1>12. PICK o : o = IF p = "idle" THEN "none" ELSE op[t]
  OBVIOUS
<1>13. GoOp(t, p) = o /\ GoIds(p, I) = I
  BY <1>10, <1>12 DEF GoOp, GoIds, AfterDrop
<1>14. Row(t, p, o, I, H, using[t]) /\ o \in OpNames /\ fd' \in [Tasks -> 0..(MaxFds - 1)]
  <2>1. /\ Row(t, p, GoOp(t, p), GoIds(p, I), H, using[t]) /\ GoOp(t, p) \in OpNames
        /\ fd' \in [Tasks -> 0..(MaxFds - 1)]
    BY <1>4, <1>7, <1>11, GotoIs DEF FilesInv
  <2> QED
    BY <1>13, <2>1
<1>15. RowType(p, o, I, H, using[t])
  BY <1>1, <1>4, <1>8, <1>10, <1>14 DEF RowType, PCs, AfterDrop
<1>16. ShapeOf(p, o, I, H, using[t], table'[t] = None)
  BY <1>1, <1>6, <1>10, <1>12 DEF ShapeOf, AfterDrop
<1>17. NewRow(t, p, o, I, H, using[t]) /\ OldRows(t)
  BY <1>14, <1>15, RowIs DEF FilesInv
<1>18. OwnedOf(p, o, I) = I
  BY <1>10 DEF OwnedOf
<1>19. OthersKeep(t, b) /\ slots'[b] = slots[b]
  BY <1>6, <1>17 DEF OthersKeep, OnlyTable, OldRows
<1>20. TablesOK' /\ Types' /\ Apart'
  BY <1>6, <1>14 DEF FilesInv, TablesOK, Types, Apart, Live
<1>21. \A i \in Ids : Accounted(i)'
  <2>1. Owned(t)' = I /\ \A u \in Tasks \ {t} : Owned(u)' = Owned(u)
    BY <1>17, <1>18, OwnedStep
  <2>2. CASE LastArc(t, x)
    <3>1. Referenced' = Referenced \ {x} /\ Owned(t)' = {Id(x)}
      BY <1>9, <1>10, <2>1, <2>2
    <3> QED
      BY <1>1, <1>6, <1>8, <2>1, <3>1, BooksDrop
  <2>3. CASE ~ LastArc(t, x)
    <3>1. Referenced' = Referenced /\ Owned(t)' = {}
      BY <1>9, <1>10, <2>1, <2>3
    <3> QED
      BY <1>1, <1>6, <2>1, <3>1, BooksStay DEF FilesInv
  <2> QED
    BY <2>2, <2>3
<1>22. DomainOK'
  BY <1>6, DomainStay DEF FilesInv
<1>23. Bare(t)'
  <2>1. pc'[t] \notin {"call", "in"}
    BY <1>10, <1>17 DEF NewRow, AfterDrop
  <2> QED
    BY <2>1 DEF Bare, KeepsFile
<1>24. \A j \in I : j < next
  BY <1>8, <1>10
<1> QED
  BY <1>5, <1>6, <1>14, <1>15, <1>16, <1>19, <1>20, <1>21, <1>22, <1>23, <1>24, BaseStep
-----------------------------------------------------------------------------
(* Inside a system call: the vfs domain *)

\* Where a call goes on after the vfs domain: it keeps its ids, and what it forgets of
\* those that it opened it leaves behind.
Returned(t, p, o, J) ==
  /\ RowType(p, o, J, {}, {}) /\ ShapeOf(p, o, J, {}, {}, FALSE) /\ J \subseteq ids[t]
  /\ OwnedOf(p, o, J) \subseteq Owned(t) /\ Owned(t) \ OwnedOf(p, o, J) \subseteq abandoned'
  /\ abandoned \subseteq abandoned' /\ abandoned' \subseteq Ids
  /\ (o \in BareOps /\ p \in {"call", "in"} => o = op[t] /\ J = ids[t])

\* A vfs call returns.
LEMMA ReturnIs ==
  ASSUME FilesInv, NEW t \in Tasks, NEW ok \in BOOLEAN, NEW p \in AfterCall(op[t], ok),
         pc[t] \in {"call", "in"}, Return(t, p),
         NEW U, held' = [held EXCEPT ![t] = {}], using' = [using EXCEPT ![t] = U]
  PROVE  \E o, J : /\ Row(t, p, o, J, {}, U) /\ Returned(t, p, o, J)
                   /\ fd' \in [Tasks -> 0..(MaxFds - 1)]
<1>1. /\ op[t] \in VfsOps /\ table[t] # None /\ ids[t] \subseteq Ids
      /\ (op[t] = "fchdir" => \E i \in Ids : ids[t] = {i}) /\ op[t] \in OpNames
  BY DEF FilesInv, Shape, ShapeOf, CallTypes
<1>2. Owned(t) = IF op[t] \in OwnOps THEN ids[t] ELSE {}
  BY DEF Owned, OwnedOf
<1>3. /\ p \in {"idle", "call", "setcwd", "close"}
      /\ (p = "idle" => op[t] \in {"read", "readv", "fchdir", "fstatat", "utimensat"})
      /\ (p = "setcwd" => op[t] = "fchdir")
  BY <1>1 DEF AfterCall, VfsOps
<1>4. PICK o, J : o = GoOp(t, p) /\ J = GoIds(p, ids[t])
  OBVIOUS
<1>5. Row(t, p, o, J, {}, U) /\ o \in OpNames /\ fd' \in [Tasks -> 0..(MaxFds - 1)]
  <2>1. /\ Row(t, p, GoOp(t, p), GoIds(p, ids[t]), {}, U) /\ GoOp(t, p) \in OpNames
        /\ fd' \in [Tasks -> 0..(MaxFds - 1)]
    BY GotoIs DEF FilesInv, Return
  <2> QED
    BY <1>4, <2>1
<1>6. (p = "idle" /\ o = "none" /\ J = {}) \/ (p # "idle" /\ o = op[t] /\ J = ids[t])
  BY <1>1, <1>4 DEF GoOp, GoIds, VfsOps
<1>7. abandoned' = IF p = "idle" /\ op[t] \in {"fstatat", "utimensat"} THEN abandoned \cup ids[t] ELSE abandoned
  BY DEF Return
<1>8. RowType(p, o, J, {}, {})
  BY <1>1, <1>3, <1>5, <1>6 DEF RowType, PCs
<1>9. ShapeOf(p, o, J, {}, {}, FALSE)
  BY <1>1, <1>3, <1>6 DEF ShapeOf
<1>10. abandoned \subseteq abandoned' /\ abandoned' \subseteq Ids /\ J \subseteq ids[t]
  BY <1>1, <1>6, <1>7 DEF FilesInv, Types
<1>11. OwnedOf(p, o, J) \subseteq Owned(t) /\ Owned(t) \ OwnedOf(p, o, J) \subseteq abandoned'
  <2>1. CASE p = "idle"
    <3>1. OwnedOf(p, o, J) = {}
      BY <1>6, <2>1 DEF OwnedOf
    <3>2. Owned(t) \subseteq abandoned'
      BY <1>2, <1>3, <1>7, <2>1 DEF OwnOps
    <3> QED
      BY <3>1, <3>2
  <2>2. CASE p # "idle"
    <3>1. p = "close" => op[t] \in OwnOps
      BY <1>1 DEF AfterCall, VfsOps, OwnOps
    <3>2. OwnedOf(p, o, J) = Owned(t)
      BY <1>2, <1>6, <2>2, <3>1 DEF OwnedOf
    <3> QED
      BY <3>2
  <2> QED
    BY <2>1, <2>2
<1>12. o \in BareOps /\ p \in {"call", "in"} => o = op[t] /\ J = ids[t]
  BY <1>6 DEF BareOps
<1> QED
  BY <1>5, <1>8, <1>9, <1>10, <1>11, <1>12 DEF Returned

\* get_file for every id: the call is inside the vfs domain, or fails.
LEMMA VfsEnterKeeps ==
  ASSUME FilesInv, NEW t \in Tasks, VfsEnter(t)
  PROVE  FilesInv'
<1>1. /\ pc[t] = "call" /\ op[t] \in VfsOps /\ held[t] = {} /\ using[t] = {} /\ table[t] # None
      /\ (op[t] = "fchdir" => \E i \in Ids : ids[t] = {i})
      /\ ids[t] \subseteq Ids /\ op[t] \in OpNames
  BY DEF FilesInv, Shape, ShapeOf, CallTypes, VfsEnter
<1>2. UNCHANGED <<taskVars, vfsVars, aliased, world>> /\ held' = held /\ Alone(t)
  BY DEF VfsEnter
<1>3. \A i \in ids[t] : i < next
  BY DEF FilesInv, Known
<1>4. op[t] \in BareOps /\ ~ world.share => ids[t] \subseteq Fixed \cup FdIds(t) \cup {Id(cwd[t])}
  BY <1>1 DEF FilesInv, Bare, KeepsFile
<1>5. CASE \A i \in ids[t] : Present(i)
  <2>1. using' = [using EXCEPT ![t] = ids[t]] /\ Goto(t, "in", ids[t]) /\ abandoned' = abandoned
    BY <1>5 DEF VfsEnter
  <2>2. held' = [held EXCEPT ![t] = held[t]]
    BY <1>2, SameHeld DEF FilesInv
  <2>3. GoOp(t, "in") = op[t] /\ GoIds("in", ids[t]) = ids[t]
    BY DEF GoOp, GoIds
  <2>4. /\ Row(t, "in", GoOp(t, "in"), GoIds("in", ids[t]), held[t], ids[t])
        /\ fd' \in [Tasks -> 0..(MaxFds - 1)]
    BY <2>1, <2>2, GotoIs DEF FilesInv
  <2>5. Row(t, "in", op[t], ids[t], held[t], ids[t])
    BY <2>3, <2>4
  <2>6. RowType("in", op[t], ids[t], held[t], ids[t])
    BY <1>1 DEF RowType, PCs
  <2>7. ShapeOf("in", op[t], ids[t], held[t], ids[t], table[t] = None)
    BY <1>1 DEF ShapeOf
  <2>8. OwnedOf("in", op[t], ids[t]) = Owned(t)
    BY <1>1 DEF OwnedOf, Owned
  <2>9. abandoned' \subseteq Ids /\ abandoned \subseteq abandoned' /\ using[t] \subseteq ids[t]
    BY <1>1, <2>1 DEF FilesInv, Types
  <2>10. /\ OwnedOf("in", op[t], ids[t]) \subseteq Owned(t)
         /\ Owned(t) \ OwnedOf("in", op[t], ids[t]) \subseteq abandoned'
    BY <2>8
  <2>11. KeepsFile("in", op[t]) => ids[t] \subseteq Fixed \cup FdIds(t) \cup {Id(cwd[t])}
    BY <1>4 DEF KeepsFile
  <2> QED
    BY <1>2, <1>3, <2>4, <2>5, <2>6, <2>7, <2>9, <2>10, <2>11, CallStep
<1>6. CASE ~ \A i \in ids[t] : Present(i)
  <2>1. PICK p \in AfterCall(op[t], FALSE) : Return(t, p)
    BY <1>6 DEF VfsEnter
  <2>2. using' = [using EXCEPT ![t] = {}] /\ held' = [held EXCEPT ![t] = {}]
    <3>1. using' = using
      BY <1>6 DEF VfsEnter
    <3> QED
      BY <1>1, <1>2, <3>1, SameHeld DEF FilesInv
  <2>3. PICK o, J : /\ Row(t, p, o, J, {}, {}) /\ Returned(t, p, o, J)
                    /\ fd' \in [Tasks -> 0..(MaxFds - 1)]
    BY <1>1, <2>1, <2>2, ReturnIs
  <2>4. RowType(p, o, J, held[t], {}) /\ Row(t, p, o, J, held[t], {})
    BY <1>1, <2>3 DEF Returned
  <2>5. ShapeOf(p, o, J, held[t], {}, table[t] = None)
    BY <1>1, <2>3 DEF Returned
  <2>6. /\ \A i \in J : i < next
        /\ KeepsFile(p, o) => J \subseteq Fixed \cup FdIds(t) \cup {Id(cwd[t])}
    <3>1. KeepsFile(p, o) => op[t] \in BareOps /\ o = op[t] /\ J = ids[t]
      BY <2>3 DEF Returned, KeepsFile
    <3>2. p \in {"call", "in"} => op[t] \notin BareOps
      BY <2>1 DEF AfterCall, BareOps
    <3> QED
      BY <1>3, <2>3, <3>1, <3>2 DEF Returned, KeepsFile
  <2>7. /\ OwnedOf(p, o, J) \subseteq Owned(t) /\ Owned(t) \ OwnedOf(p, o, J) \subseteq abandoned'
        /\ abandoned \subseteq abandoned' /\ abandoned' \subseteq Ids /\ using[t] \subseteq {}
    BY <1>1, <2>3 DEF Returned
  <2> QED
    BY <1>2, <2>3, <2>4, <2>5, <2>6, <2>7, CallStep
<1> QED
  BY <1>5, <1>6

\* The call leaves the vfs domain: the entries of files closed meanwhile go with it.
LEMMA VfsLeaveKeeps ==
  ASSUME FilesInv, NEW t \in Tasks, VfsLeave(t)
  PROVE  FilesInv'
<1>1. /\ pc[t] = "in" /\ op[t] \in VfsOps /\ held[t] = {} /\ using[t] = ids[t] /\ table[t] # None
      /\ ids[t] \subseteq Ids
  BY DEF FilesInv, Shape, ShapeOf, CallTypes, VfsLeave
<1>2. /\ slots' = slots /\ occupied' = occupied /\ table' = table /\ cwd' = cwd
      /\ aliased' = aliased /\ file' = file /\ shadow' = shadow /\ next' = next
      /\ held' = held /\ world' = world /\ Alone(t)
      /\ using' = [using EXCEPT ![t] = {}]
      /\ meta' = meta \ {i \in using[t] : ~Present(i) /\ NotUsed(t, i)}
  BY DEF VfsLeave, taskVars
<1>3. \A i \in ids[t] : i < next
  BY DEF FilesInv, Known
<1>4. PICK p \in AfterCall(op[t], TRUE) : Return(t, p)
  BY DEF VfsLeave
<1>5. held' = [held EXCEPT ![t] = {}]
  BY <1>1, <1>2, SameHeld DEF FilesInv
<1>6. PICK o, J : /\ Row(t, p, o, J, {}, {}) /\ Returned(t, p, o, J)
                  /\ fd' \in [Tasks -> 0..(MaxFds - 1)]
  BY <1>1, <1>2, <1>4, <1>5, ReturnIs
<1>7. RowType(p, o, J, {}, {}) /\ ShapeOf(p, o, J, {}, {}, table'[t] = None)
  BY <1>1, <1>2, <1>6 DEF Returned
<1>8. NewRow(t, p, o, J, {}, {}) /\ OldRows(t)
  BY <1>6, <1>7, RowIs DEF FilesInv
<1>9. PICK b \in Tables : TRUE
  BY FilesAssumption
<1>10. OthersKeep(t, b) /\ slots'[b] = slots[b]
  BY <1>2, <1>8 DEF OthersKeep, OnlyTable, OldRows
<1>11. TablesOK' /\ Types' /\ Apart'
  BY <1>2, <1>6 DEF FilesInv, TablesOK, Types, Apart, Live, Returned
<1>12. Referenced' = Referenced
  BY <1>2, RefsStay
<1>13. \A i \in Ids : Accounted(i)'
  <2>1. Owned(t)' = OwnedOf(p, o, J) /\ \A u \in Tasks \ {t} : Owned(u)' = Owned(u)
    BY <1>8, OwnedStep
  <2>2. /\ Owned(t)' \subseteq Owned(t) /\ Owned(t) \ Owned(t)' \subseteq abandoned'
        /\ abandoned \subseteq abandoned'
    BY <1>6, <2>1 DEF Returned
  <2> QED
    BY <1>2, <1>12, <2>1, <2>2, BooksStay DEF FilesInv
<1>14. DomainOK'
  <2>1. DomainOK /\ meta \subseteq Ids
    BY DEF FilesInv, Types
  <2>2. shadow' \subseteq meta'
    BY <1>2, <2>1 DEF DomainOK, Present
  <2>3. ASSUME NEW i \in meta', i \notin shadow' PROVE ~ Present(i)' /\ \E u \in Tasks : i \in using'[u]
    <3>1. i \in meta /\ ~ Present(i) /\ ~ Present(i)'
      BY <1>2, <2>1, <2>3 DEF DomainOK, Present
    <3>2. PICK u \in Tasks : i \in using[u]
      BY <1>2, <2>1, <2>3 DEF DomainOK
    <3>3. \E v \in Tasks \ {t} : i \in using[v]
      <4>1. CASE u = t
        BY <1>2, <2>3, <3>1, <3>2, <4>1 DEF NotUsed
      <4>2. CASE u # t
        BY <3>2, <4>2
      <4> QED
        BY <4>1, <4>2
    <3> QED
      BY <1>8, <3>1, <3>3 DEF OldRows
  <2>4. meta' \subseteq meta
    BY <1>2
  <2> QED
    BY <1>2, <2>1, <2>2, <2>3, <2>4 DEF DomainOK
<1>15. Bare(t)'
  <2>1. pc'[t] = p /\ op'[t] = o /\ ids'[t] = J
    BY <1>8 DEF NewRow
  <2>2. FdIds(t)' = FdIds(t)
    BY <1>2 DEF FdIds, InTable
  <2>3. p \in {"call", "in"} /\ o \in BareOps => o = op[t] /\ J = ids[t]
    BY <1>6 DEF Returned
  <2>4. KeepsFile(p, o) => o = op[t] /\ J = ids[t] /\ KeepsFile(pc[t], op[t])
    <3>1. p = "call" /\ op[t] \in BareOps => op[t] = "readv"
      BY <1>4 DEF AfterCall, BareOps
    <3> QED
      BY <1>1, <2>3, <3>1 DEF KeepsFile
  <2>5. Bare(t)
    BY DEF FilesInv
  <2>6. KeepsFile(p, o)' <=> KeepsFile(p, o)
    BY <1>2 DEF KeepsFile
  <2> QED
    BY <1>2, <2>1, <2>2, <2>4, <2>5, <2>6 DEF Bare, KeepsFile
<1>16. \A i \in J : i < next
  BY <1>3, <1>6 DEF Returned
<1> QED
  BY <1>2, <1>6, <1>7, <1>9, <1>10, <1>11, <1>13, <1>14, <1>15, <1>16, BaseStep
\* A file is closed by the only call that owns it.
LEMMA BooksClose ==
  ASSUME FilesInv, NEW i \in Ids, NEW t \in Tasks, pc[t] = "close",
         Referenced' = Referenced, Owned(t)' = {},
         \A u \in Tasks \ {t} : Owned(u)' = Owned(u),
         file' = [j \in Ids |-> IF j \in ids[t] \ Fixed THEN "none" ELSE file[j]],
         aliased' = aliased, abandoned' = abandoned, next' = next
  PROVE  Accounted(i)'
<1>1. Accounted(i) /\ Owned(t) = ids[t]
  BY DEF FilesInv, Owned, OwnedOf
<1>2. Shims(i)' = Shims(i)
  BY DEF Shims
<1>3. Owners(i)' = {u \in Tasks : i \in Owned(u)'}
  BY DEF Owners
<1>4. CASE i \notin ids[t]
  <2>1. Owners(i)' = Owners(i)
    BY <1>1, <1>3, <1>4 DEF Owners
  <2>2. file'[i] = file[i] /\ Present(i)' = Present(i)
    BY <1>4 DEF Present
  <2> QED
    BY <1>1, <1>2, <2>1, <2>2 DEF Accounted
<1>5. CASE i \in ids[t]
  <2>1. Owners(i)' = Owners(i) \ {t} /\ t \in Owners(i)
    BY <1>1, <1>3, <1>5 DEF Owners
  <2>2. i \notin aliased => Owners(i)' = {} /\ Shims(i) = {}
    BY <1>1, <2>1 DEF Accounted
  <2>3. i \in Fixed \/ ~ Present(i)'
    BY <1>5 DEF Present
  <2>4. ~ (i >= next)
    BY <1>1, <2>1 DEF Accounted
  <2> QED
    BY <1>1, <1>2, <2>1, <2>2, <2>3, <2>4 DEF Accounted
<1> QED
  BY <1>4, <1>5

\* vfs_close: the id leaves VFS_MAP and the shadow, its entry stays while it is used.
LEMMA VfsCloseKeeps ==
  ASSUME FilesInv, NEW t \in Tasks, VfsClose(t)
  PROVE  FilesInv'
<1>1. pc[t] = "close" /\ using[t] = {} /\ ids[t] \subseteq Ids /\ (table[t] = None => op[t] # "dup3")
  BY DEF FilesInv, Shape, ShapeOf, CallTypes, VfsClose
<1>2. PICK gone : gone = ids[t] \ Fixed
  OBVIOUS
<1>3. /\ slots' = slots /\ occupied' = occupied /\ table' = table /\ cwd' = cwd
      /\ aliased' = aliased /\ abandoned' = abandoned /\ next' = next
      /\ held' = held /\ world' = world /\ using' = using /\ Alone(t)
      /\ file' = [i \in Ids |-> IF i \in gone THEN "none" ELSE file[i]]
      /\ meta' = meta \ {i \in gone : Present(i) /\ NotUsed(t, i)}
      /\ shadow' = shadow \ gone
      /\ Goto(t, IF held[t] = {} THEN AfterDrop(t) ELSE "drop", {})
  BY <1>2 DEF VfsClose, taskVars
<1>4. PICK p : p = IF held[t] = {} THEN AfterDrop(t) ELSE "drop"
  OBVIOUS
<1>5. PICK o : o = IF p = "idle" THEN "none" ELSE op[t]
  OBVIOUS
<1>6. using' = [using EXCEPT ![t] = using[t]] /\ held' = [held EXCEPT ![t] = held[t]]
  BY <1>3, SameHeld DEF FilesInv
<1>7. Row(t, p, o, {}, held[t], using[t]) /\ o \in OpNames /\ fd' \in [Tasks -> 0..(MaxFds - 1)]
  <2>1. GoOp(t, p) = o /\ GoIds(p, {}) = {}
    BY <1>4, <1>5 DEF GoOp, GoIds, AfterDrop
  <2>2. /\ Row(t, p, GoOp(t, p), GoIds(p, {}), held[t], using[t]) /\ GoOp(t, p) \in OpNames
        /\ fd' \in [Tasks -> 0..(MaxFds - 1)]
    BY <1>3, <1>4, <1>6, GotoIs DEF FilesInv
  <2> QED
    BY <2>1, <2>2
<1>8. RowType(p, o, {}, held[t], using[t])
  BY <1>1, <1>4, <1>7 DEF RowType, PCs, AfterDrop, FilesInv, CallTypes
<1>9. ShapeOf(p, o, {}, held[t], using[t], table'[t] = None)
  BY <1>1, <1>3, <1>4, <1>5 DEF ShapeOf, AfterDrop
<1>10. NewRow(t, p, o, {}, held[t], using[t]) /\ OldRows(t)
  BY <1>7, <1>8, RowIs DEF FilesInv
<1>11. PICK b \in Tables : TRUE
  BY FilesAssumption
<1>12. OthersKeep(t, b) /\ slots'[b] = slots[b]
  BY <1>3, <1>10 DEF OthersKeep, OnlyTable, OldRows
<1>13. TablesOK' /\ Types' /\ Apart'
  BY <1>3, <1>7 DEF FilesInv, TablesOK, Types, Apart, Live
<1>14. Referenced' = Referenced
  BY <1>3, RefsStay
<1>15. \A i \in Ids : Accounted(i)'
  <2>1. OwnedOf(p, o, {}) = {}
    BY DEF OwnedOf
  <2>2. Owned(t)' = {} /\ \A u \in Tasks \ {t} : Owned(u)' = Owned(u)
    BY <1>10, <2>1, OwnedStep
  <2> QED
    BY <1>1, <1>2, <1>3, <1>14, <2>2, BooksClose
<1>16. DomainOK'
  <2>1. DomainOK /\ meta \subseteq Ids /\ gone \subseteq Ids /\ gone \cap Fixed = {}
    BY <1>1, <1>2 DEF FilesInv, Types
  <2>2. shadow' = {i \in Ids : file'[i] = "kernel"} /\ Fixed \subseteq shadow'
    <3>1. \A i \in Ids : file'[i] = "kernel" <=> file[i] = "kernel" /\ i \notin gone
      BY <1>3
    <3> QED
      BY <1>3, <2>1, <3>1 DEF DomainOK
  <2>3. shadow' \subseteq meta'
    BY <1>3, <2>1 DEF DomainOK
  <2>4. ASSUME NEW i \in meta', i \notin shadow' PROVE ~ Present(i)' /\ \E u \in Tasks : i \in using'[u]
    <3>1. CASE i \in gone
      <4>1. ~ Present(i)'
        BY <1>3, <2>1, <3>1 DEF Present
      <4>2. \E u \in Tasks : i \in using[u]
        <5>1. i \in meta
          BY <1>3, <2>4
        <5>2. CASE Present(i)
          BY <1>3, <2>4, <3>1, <5>2 DEF NotUsed
        <5>3. CASE ~ Present(i)
          BY <2>1, <5>1, <5>3 DEF DomainOK, Present
        <5> QED
          BY <5>2, <5>3
      <4> QED
        BY <1>3, <4>1, <4>2
    <3>2. CASE i \notin gone
      <4>1. i \in meta /\ i \in Ids /\ i \notin shadow /\ file'[i] = file[i]
        BY <1>3, <2>1, <2>4, <3>2
      <4> QED
        BY <1>3, <2>1, <4>1 DEF DomainOK, Present
    <3> QED
      BY <3>1, <3>2
  <2>5. ASSUME NEW i \in Ids, i >= next' PROVE file'[i] = "none" /\ i \notin meta'
    BY <1>3, <2>1, <2>5 DEF DomainOK
  <2> QED
    BY <2>2, <2>3, <2>4, <2>5 DEF DomainOK
<1>17. Bare(t)'
  <2>1. pc'[t] \notin {"call", "in"}
    BY <1>4, <1>10 DEF NewRow, AfterDrop
  <2> QED
    BY <2>1 DEF Bare, KeepsFile
<1> QED
  BY <1>3, <1>7, <1>8, <1>9, <1>11, <1>12, <1>13, <1>15, <1>16, <1>17, BaseStep

\* A new vfs domain: kernel files are found again, special files are lost.
LEMMA UpdateKeeps ==
  ASSUME FilesInv, Update
  PROVE  FilesInv'
<1>1. /\ slots' = slots /\ occupied' = occupied /\ table' = table /\ cwd' = cwd
      /\ aliased' = aliased /\ abandoned' = abandoned /\ next' = next /\ shadow' = shadow
      /\ meta' = meta /\ held' = held /\ world' = world /\ using' = using /\ pc' = pc /\ op' = op
      /\ ids' = ids /\ fd' = fd
      /\ file' = [i \in Ids |-> IF i \in shadow THEN "kernel"
                                ELSE IF file[i] = "special" THEN "lost" ELSE file[i]]
  BY DEF Update, taskVars, callVars
<1>2. DomainOK /\ meta \subseteq Ids
  BY DEF FilesInv, Types
<1>3. \A i \in Ids : /\ (file'[i] = "kernel" <=> file[i] = "kernel")
                     /\ (file'[i] = "none" <=> file[i] = "none")
                     /\ file'[i] # "special" /\ (file[i] = "lost" => file'[i] = "lost")
                     /\ (file[i] = "special" => file'[i] = "lost")
  BY <1>1, <1>2 DEF DomainOK, FilesInv, Types
<1>4. TablesOK' /\ CallTypes' /\ Types' /\ Apart'
  BY <1>1 DEF FilesInv, TablesOK, CallTypes, Types, Apart, Live
<1>5. \A t \in Tasks : Shape(t)' /\ Known(t)'
  BY <1>1 DEF FilesInv, Shape, ShapeOf, Known
<1>6. \A t \in Tasks : Bare(t)'
  <2>1. \A t \in Tasks : FdIds(t)' = FdIds(t)
    BY <1>1 DEF FdIds, InTable
  <2> QED
    BY <1>1, <2>1 DEF FilesInv, Bare, KeepsFile
<1>7. \A i \in Ids : Accounted(i)'
  <2> SUFFICES ASSUME NEW i \in Ids PROVE Accounted(i)'
    OBVIOUS
  <2>1. Referenced' = Referenced
    BY <1>1, RefsStay
  <2>2. Shims(i)' = Shims(i)
    BY <2>1 DEF Shims
  <2>3. Owners(i)' = Owners(i)
    BY <1>1 DEF Owners, Owned, OwnedOf
  <2>4. Accounted(i)
    BY DEF FilesInv
  <2>5. /\ Present(i)' => Present(i)
        /\ Present(i) \/ file[i] = "lost" => Present(i)' \/ file'[i] = "lost"
    BY <1>3 DEF Present
  <2> QED
    BY <1>1, <2>2, <2>3, <2>4, <2>5 DEF Accounted
<1>8. DomainOK'
  <2>1. shadow' = {i \in Ids : file'[i] = "kernel"}
    BY <1>1, <1>2, <1>3 DEF DomainOK
  <2>2. \A i \in Ids : ~ Present(i) => ~ Present(i)'
    BY <1>3 DEF Present
  <2> QED
    BY <1>1, <1>2, <1>3, <2>1, <2>2 DEF DomainOK
<1> QED
  BY <1>4, <1>5, <1>6, <1>7, <1>8 DEF FilesInv
-----------------------------------------------------------------------------
(* The invariant holds *)

\* The table of the first program: its standard streams, but for those it has closed.
Stdio(shut) == [i \in 1..3 |-> IF i \in shut THEN None ELSE IF i = 1 THEN STDIN ELSE STDOUT]

\* Those that are left are counted.
LEMMA StdioIs ==
  ASSUME NEW shut \in SUBSET (1..3)
  PROVE  /\ Stdio(shut) \in Seq(Item) /\ Len(Stdio(shut)) = 3
         /\ Cardinality(UsedIn(Stdio(shut))) = 3 - Cardinality(shut)
         /\ Items(Stdio(shut)) \subseteq {STDIN, STDOUT}
<1>1. STDIN \in Objs /\ STDOUT \in Objs
  BY FilesAssumption DEF STDIN, STDOUT, Shim, Objs, Ids
<1>2. PICK s : s = Stdio(shut)
  OBVIOUS
<1>3. s \in [1..3 -> Item] /\ \A i \in 1..3 : s[i] = IF i \in shut THEN None ELSE IF i = 1 THEN STDIN ELSE STDOUT
  BY <1>1, <1>2 DEF Stdio, Item
<1>4. s \in Seq(Item) /\ Len(s) = 3 /\ DOMAIN s = 1..3
  <2>1. PICK n \in Nat : n = 3
    OBVIOUS
  <2>2. s \in [1..n -> Item]
    BY <1>3, <2>1
  <2>3. s \in Seq(Item) /\ Len(s) = n /\ DOMAIN s = 1..n
    BY <2>2
  <2> QED
    BY <2>1, <2>3
<1>5. UsedIn(s) = (1..3) \ shut
  BY <1>1, <1>3, <1>4, NoneIsNoShim DEF UsedIn
<1>6. IsFiniteSet(1..3) /\ Cardinality(1..3) = 3
  <2>1. PICK m \in Int, n \in Int : m = 1 /\ n = 3
    OBVIOUS
  <2>2. IsFiniteSet(m..n) /\ Cardinality(m..n) = IF m > n THEN 0 ELSE n - m + 1
    BY FS_Interval
  <2> QED
    BY <2>1, <2>2
<1>7. PICK T : T = 1..3
  OBVIOUS
<1>8. Cardinality(T \ shut) = Cardinality(T) - Cardinality(T \cap shut) /\ T \cap shut = shut
  BY <1>6, <1>7, FS_Difference
<1>9. Items(s) \subseteq {STDIN, STDOUT}
  BY <1>3, <1>4 DEF Items
<1> QED
  BY <1>2, <1>4, <1>5, <1>6, <1>7, <1>8, <1>9

\* The first program has its standard streams and the root.
LEMMA InitHolds ==
  ASSUME Init
  PROVE  FilesInv
<1>1. PICK a \in Tables : table = [t \in Tasks |-> IF t = FirstTask THEN a ELSE None]
  <2>1. (CHOOSE b \in Tables : TRUE) \in Tables
    BY FilesAssumption
  <2> QED
    BY <2>1 DEF Init
<1>2. FirstTask \in Tasks /\ table[FirstTask] = a /\ Live = {FirstTask}
  BY <1>1, FilesAssumption DEF Live
<1>3. PICK shut \in SUBSET (1..3) :
        /\ slots = [b \in Tables |-> IF b = a THEN Stdio(shut) ELSE <<>>]
        /\ occupied = [b \in Tables |-> IF b = a THEN 3 - Cardinality(shut) ELSE 0]
  <2>1. PICK shut \in Closed :
          LET stdio == Stdio(shut)
          IN  /\ slots = [b \in Tables |-> IF b = table[FirstTask] THEN stdio ELSE <<>>]
              /\ occupied = [b \in Tables |-> IF b = table[FirstTask] THEN 3 - Cardinality(shut) ELSE 0]
    BY Zenon DEF Init, Stdio
  <2>2. shut \in SUBSET (1..3)
    BY FilesAssumption
  <2> QED
    BY <1>2, <2>1, <2>2
<1>4. /\ cwd = [t \in Tasks |-> ROOT]
      /\ held = [t \in Tasks |-> {}] /\ using = [t \in Tasks |-> {}]
      /\ pc = [t \in Tasks |-> "idle"] /\ op = [t \in Tasks |-> "none"]
      /\ ids = [t \in Tasks |-> {}] /\ fd = [t \in Tasks |-> 0]
      /\ file = [i \in Ids |-> IF i \in Fixed THEN "kernel" ELSE "none"]
      /\ shadow = Fixed /\ meta = Fixed /\ next = 4
      /\ aliased = {} /\ abandoned = {} /\ world \in Worlds
  BY DEF Init
<1>5. /\ \A b \in Tables : slots[b] \in Seq(Item) /\ Len(slots[b]) <= MaxFds
      /\ \A b \in Tables : occupied[b] = Cardinality(UsedIn(slots[b])) /\ occupied[b] \in 0..MaxFds
      /\ \A b \in Tables : Items(slots[b]) \subseteq {STDIN, STDOUT}
  <2> SUFFICES ASSUME NEW b \in Tables
               PROVE  /\ slots[b] \in Seq(Item) /\ Len(slots[b]) <= MaxFds
                      /\ occupied[b] = Cardinality(UsedIn(slots[b])) /\ occupied[b] \in 0..MaxFds
                      /\ Items(slots[b]) \subseteq {STDIN, STDOUT}
    OBVIOUS
  <2>1. MaxFds \in Nat /\ MaxFds > 3
    BY FilesAssumption
  <2>2. CASE b = a
    <3>1. PICK s \in Seq(Item) : s = Stdio(shut)
      BY StdioIs
    <3>2. /\ Len(s) = 3 /\ Cardinality(UsedIn(s)) = 3 - Cardinality(shut)
          /\ Items(s) \subseteq {STDIN, STDOUT}
      BY <3>1, StdioIs
    <3>3. slots[b] = s /\ occupied[b] = Cardinality(UsedIn(s))
      BY <1>3, <2>2, <3>1, <3>2
    <3>4. Cardinality(UsedIn(s)) \in 0..3
      BY <3>2, UsedFits
    <3>5. Len(s) <= MaxFds /\ Cardinality(UsedIn(s)) \in 0..MaxFds
      BY <2>1, <3>2, <3>4
    <3> QED
      BY <3>2, <3>3, <3>5
  <2>3. CASE b # a
    <3>1. PICK s \in Seq(Item) : s = <<>>
      BY EmptySeq
    <3>2. Len(s) = 0 /\ UsedIn(s) = {} /\ Items(s) = {}
      BY <3>1 DEF UsedIn, Items
    <3>3. Cardinality(UsedIn(s)) = 0
      BY <3>2, FS_EmptySet
    <3>4. slots[b] = s /\ occupied[b] = 0
      BY <1>3, <2>3, <3>1
    <3> QED
      BY <2>1, <3>2, <3>3, <3>4
  <2> QED
    BY <2>2, <2>3
<1>6. TablesOK
  <2>1. DOMAIN slots = Tables /\ DOMAIN occupied = Tables
    BY <1>3
  <2>2. slots = [b \in Tables |-> slots[b]] /\ occupied = [b \in Tables |-> occupied[b]]
    BY <1>3
  <2> QED
    BY <1>5, <2>2 DEF TablesOK
<1>7. MaxId \in Nat /\ MaxId > 3 /\ MaxFds \in Nat /\ MaxFds > 3 /\ MaxAlias \in Nat /\ Fixed \subseteq Ids
  BY FilesAssumption DEF Fixed, Ids
<1>8. CallTypes /\ Types
  <2>1. ROOT \in Objs
    BY <1>7 DEF ROOT, Shim, Objs, Ids
  <2>2. CallTypes
    BY <1>4 DEF CallTypes, PCs, OpNames
  <2>3. 4 \in 4..(MaxId + 1) /\ 0 \in 0..(MaxFds - 1)
    BY <1>7
  <2> QED
    BY <1>1, <1>4, <1>7, <2>1, <2>2, <2>3 DEF Types
<1>9. \A t \in Tasks : Shape(t) /\ Known(t) /\ Bare(t)
  BY <1>4 DEF Shape, ShapeOf, Known, Bare, KeepsFile
<1>10. Referenced \subseteq {STDIN, STDOUT, ROOT}
  <2>1. \A b \in Tables : InTable(b) \subseteq {STDIN, STDOUT}
    BY <1>5 DEF InTable, Items
  <2>2. \A t \in Tasks : cwd[t] = ROOT /\ held[t] = {}
    BY <1>4
  <2>3. \A t \in Live : cwd[t] = ROOT
    BY <2>2 DEF Live
  <2> QED
    BY <2>1, <2>2, <2>3, RefersBy
<1>11. \A i \in Ids : Accounted(i)
  <2> SUFFICES ASSUME NEW i \in Ids PROVE Accounted(i)
    OBVIOUS
  <2>1. i \in Nat
    BY <1>7 DEF Ids
  <2>2. \A o \in Referenced : Id(o) \in 0..3 /\ o = Shim(Id(o), 0)
    BY <1>10 DEF STDIN, STDOUT, ROOT, Shim, Id
  <2>3. Shims(i) \subseteq {Shim(i, 0)} /\ (Shims(i) # {} => i \in 0..3)
    BY <2>2 DEF Shims
  <2>4. Owners(i) = {}
    BY <1>4 DEF Owners, Owned, OwnedOf
  <2>5. (i \in 0..3 => Present(i)) /\ (i \notin Fixed => ~ Present(i))
    BY <1>4 DEF Present, Fixed
  <2>6. i >= 4 => i \notin 0..3
    BY <2>1
  <2> QED
    BY <1>4, <2>3, <2>4, <2>5, <2>6 DEF Accounted
<1>12. DomainOK
  <2>1. shadow = {i \in Ids : file[i] = "kernel"}
    BY <1>4, <1>7
  <2>2. \A i \in Ids : i >= 4 => i \notin Fixed
    BY <1>7 DEF Ids, Fixed
  <2> QED
    BY <1>4, <2>1, <2>2 DEF DomainOK
<1>13. Apart
  BY <1>2 DEF Apart
<1> QED
  BY <1>6, <1>8, <1>9, <1>11, <1>12, <1>13 DEF FilesInv
\* The calls on tables.
LEMMA TableCallKeeps ==
  ASSUME FilesInv, NEW t \in Live, TableCall(t)
  PROVE  FilesInv'
<1>1. 0 \in 0..(MaxFds - 1) /\ NewFds \subseteq 0..(MaxFds - 1) /\ 0..(MaxFds - 1) \subseteq Int
  BY FilesAssumption
<1>2. CASE sys_pipe2(t) \/ sys_poll_createl(t) \/ sys_eventfd2(t) \/ sys_socket(t)
  BY <1>2, VfsNewKeeps DEF sys_pipe2, sys_poll_createl, sys_eventfd2, sys_socket, Ready
<1>3. CASE sys_socket_pair(t)
  BY <1>3, VfsNewKeeps DEF sys_socket_pair, Ready
<1>4. CASE sys_close(t)
  BY <1>4, CloseKeeps
<1>5. CASE \E o \in {"dup", "fcntl", "dup2", "dup3"}, n \in 0..(MaxFds - 1), d \in 0..(MaxFds - 1) : GetFile(t, o, n, d)
  BY <1>1, <1>5, GetFileKeeps
<1>6. CASE OnFd(t, "read")
  BY <1>6, OnFdKeeps DEF BareOps
<1>7. CASE DoClone(t)
  BY <1>7, DoCloneKeeps
<1>8. CASE DropTask(t)
  BY <1>8, DropTaskKeeps
<1>9. CASE sys_dup(t) \/ sys_dup2(t) \/ sys_dup3(t)
  BY <1>1, <1>5, <1>9 DEF sys_dup, sys_dup2, sys_dup3
<1>10. CASE sys_fcntl(t)
  BY <1>1, <1>5, <1>6, <1>10 DEF sys_fcntl
<1> QED
  BY <1>2, <1>3, <1>4, <1>7, <1>8, <1>9, <1>10 DEF TableCall

\* The rest of a system call.
LEMMA ContinueKeeps ==
  ASSUME FilesInv, NEW t \in Tasks, Continue(t)
  PROVE  FilesInv'
BY DoDupKeeps, SetFdKeeps, DropShimKeeps, AddFdKeeps, SetCwdKeeps, VfsEnterKeeps, VfsLeaveKeeps,
   VfsCloseKeeps DEF Continue

\* Every step keeps the invariant.
LEMMA NextKeeps ==
  ASSUME FilesInv, [Next]_vars
  PROVE  FilesInv'
<1>1. CASE \E t \in Live : FdCall(t) \/ PathCall(t) \/ TableCall(t)
  BY <1>1, FdCallKeeps, PathCallKeeps, TableCallKeeps
<1>2. CASE \E t \in Tasks : Continue(t)
  BY <1>2, ContinueKeeps
<1>3. CASE Update
  BY <1>3, UpdateKeeps
<1>4. CASE UNCHANGED vars
  <2>1. /\ slots' = slots /\ occupied' = occupied /\ table' = table /\ cwd' = cwd
        /\ aliased' = aliased /\ abandoned' = abandoned /\ next' = next /\ shadow' = shadow
        /\ meta' = meta /\ held' = held /\ world' = world /\ using' = using /\ pc' = pc /\ op' = op
        /\ ids' = ids /\ fd' = fd /\ file' = file
    BY <1>4 DEF vars, taskVars, vfsVars, callVars
  <2>2. TablesOK' /\ CallTypes' /\ Types' /\ Apart' /\ DomainOK'
    BY <2>1 DEF FilesInv, TablesOK, CallTypes, Types, Apart, Live, DomainOK, Present
  <2>3. \A t \in Tasks : Shape(t)' /\ Known(t)' /\ Bare(t)'
    BY <2>1 DEF FilesInv, Shape, Known, Bare, KeepsFile, FdIds, InTable
  <2>4. Referenced' = Referenced
    BY <2>1, RefsStay
  <2>5. \A t \in Tasks : Owned(t)' = Owned(t)
    BY <2>1 DEF Owned, OwnedOf
  <2>6. \A i \in Ids : Accounted(i)'
    <3>1. PICK t \in Tasks : TRUE
      BY FilesAssumption
    <3> QED
      BY <2>1, <2>4, <2>5, BooksStay DEF FilesInv
  <2> QED
    BY <2>2, <2>3, <2>6 DEF FilesInv
<1> QED
  BY <1>1, <1>2, <1>3, <1>4 DEF Next

\* The invariant holds in every state the program can reach.
THEOREM InvariantHolds == Spec => []FilesInv
BY InitHolds, NextKeeps, PTL DEF Spec

\* Every SlotVec is sound through put, put_at, remove, clone and drop: num_occupied is the
\* number of slots in use, so the unwrap in put cannot fail.
THEOREM TablesHold == Spec => []TableIsSound
<1>1. FilesInv => TableIsSound
  <2> SUFFICES ASSUME FilesInv PROVE TypeOK /\ OccupiedIsExact
    BY DEF TableIsSound
  <2>1. OccupiedIsExact
    BY DEF OccupiedIsExact, FilesInv, TablesOK, UsedIn
  <2>2. TypeOK
    BY DEF TypeOK, FilesInv, TablesOK, CallTypes, Types, Item
  <2> QED
    BY <2>1, <2>2
<1> QED
  BY <1>1, InvariantHolds, PTL

\* A file is open as long as a descriptor, a working directory or a call refers to it, and
\* no longer; a vfs domain that replaces another finds exactly the open kernel files.
THEOREM OpenFilesHold == Spec => []OpenFilesAreExact
<1>1. FilesInv => OpenFilesAreExact
  <2> SUFFICES ASSUME FilesInv PROVE OpenFilesAreExact
    OBVIOUS
  <2>1. ReferencedFileIsOpen
    <3> SUFFICES ASSUME NEW o \in Referenced
                 PROVE  Present(Id(o)) \/ Id(o) \in aliased \/ file[Id(o)] = "lost"
      BY DEF ReferencedFileIsOpen
    <3>1. Id(o) \in Ids /\ o \in Shims(Id(o))
      BY RefsAreKnown DEF Shims
    <3> QED
      BY <3>1 DEF FilesInv, Accounted
  <2>2. NoFileIsLeaked
    <3> SUFFICES ASSUME NEW i \in Ids \ Fixed, Present(i)
                 PROVE  \/ \E o \in Referenced : Id(o) = i
                        \/ \E t \in Tasks : i \in ids[t] /\ pc[t] # "idle"
                        \/ i \in abandoned
      BY DEF NoFileIsLeaked
    <3>1. Shims(i) # {} \/ Owners(i) # {} \/ i \in abandoned
      BY DEF FilesInv, Accounted
    <3>2. Owners(i) # {} => \E t \in Tasks : i \in ids[t]
      BY OwnedIds DEF Owners
    <3>3. \A t \in Tasks : pc[t] = "idle" => ids[t] = {}
      BY DEF FilesInv, Shape, ShapeOf
    <3> QED
      BY <3>1, <3>2, <3>3 DEF Shims
  <2>3. RecoveryIsExact
    <3> SUFFICES ASSUME Quiet PROVE shadow = meta /\ shadow = {i \in Ids : file[i] = "kernel"}
      BY DEF RecoveryIsExact
    <3>1. DomainOK
      BY DEF FilesInv
    <3>2. \A t \in Tasks : using[t] = {}
      BY DEF Quiet, FilesInv, Shape, ShapeOf
    <3> QED
      BY <3>1, <3>2 DEF DomainOK
  <2> QED
    BY <2>1, <2>2, <2>3 DEF OpenFilesAreExact
<1> QED
  BY <1>1, InvariantHolds, PTL

\* The id that a call took from a descriptor, the working directory or its own vfs_open still has
\* its file when the call reaches the vfs domain: in processes always, in threads that share a table
\* for every call that works on an id of its own, and on one CPU for every call that enters the
\* vfs domain once.
THEOREM CallsHold == Spec => []CallFindsItsFile
<1>1. FilesInv => CallFindsItsFile
  <2> SUFFICES ASSUME FilesInv, NEW t \in Tasks, pc[t] = "call", ~Exposed(t), NEW i \in ids[t]
               PROVE  Present(i) \/ i \in aliased \/ file[i] = "lost"
    BY DEF CallFindsItsFile
  <2>1. op[t] \in VfsOps /\ t \in Live /\ i \in Ids /\ table[t] \in Tables
    BY DEF FilesInv, Shape, ShapeOf, Live, CallTypes, Types
  <2>2. CASE op[t] \in OwnOps
    <3>1. i \in Owned(t)
      BY <2>2 DEF Owned, OwnedOf
    <3> QED
      BY <3>1, OwnedIsOpen
  <2>3. CASE op[t] \notin OwnOps
    <3>1. i \in Fixed \cup FdIds(t) \cup {Id(cwd[t])}
      <4>1. KeepsFile(pc[t], op[t])
        BY <2>1, <2>3 DEF KeepsFile, Exposed, BareOps, VfsOps, OwnOps
      <4> QED
        BY <4>1 DEF FilesInv, Bare
    <3>2. CASE i \in Fixed
      BY <2>1, <3>2 DEF FilesInv, DomainOK, Present
    <3>3. CASE i \notin Fixed
      <4>1. \E o \in Referenced : Id(o) = i
        BY <2>1, <3>1, <3>3, RefersTo DEF FdIds
      <4>2. Shims(i) # {}
        BY <4>1 DEF Shims
      <4> QED
        BY <2>1, <4>2 DEF FilesInv, Accounted
    <3> QED
      BY <3>2, <3>3
  <2> QED
    BY <2>2, <2>3
<1> QED
  BY <1>1, InvariantHolds, PTL

\* An InodeID never gets a second meaning, whatever a task does with a number it kept, and
\* however often the vfs domain is replaced.
THEOREM IdsHold == Spec => IdIsNeverReissued
<1>1. ASSUME FilesInv, [Next]_vars
      PROVE  [/\ next' >= next
              /\ \A i \in Ids : i < next /\ ~Present(i) => ~(file'[i] \in {"kernel", "special"})]_vars
  <2> SUFFICES ASSUME Next
               PROVE  /\ next' >= next
                      /\ \A i \in Ids : i < next /\ ~Present(i) => ~(file'[i] \in {"kernel", "special"})
    BY <1>1
  <2>1. next \in Nat
    BY <1>1 DEF FilesInv, Types
  <2>2. CASE next' = next /\ file' = file
    BY <2>1, <2>2 DEF Present
  <2>3. CASE \E t \in Live : \E o, S : VfsOpen(t, o, S)
    <3>1. next' = next + 1 /\ \A i \in Ids : i # next => file'[i] = file[i]
      BY <1>1, <2>3 DEF VfsOpen, FilesInv, Types
    <3> QED
      BY <2>1, <3>1 DEF Present, Ids
  <2>4. CASE \E t \in Live, n \in {1, 2} : \E o, p : VfsNew(t, o, n, p)
    <3>1. PICK n \in {1, 2} : /\ next' = next + n
                              /\ file' = [i \in Ids |-> IF i \in next..(next + n - 1) THEN "special" ELSE file[i]]
      BY <2>4 DEF VfsNew
    <3>2. \A i \in Ids : i < next => file'[i] = file[i]
      BY <2>1, <3>1 DEF Ids
    <3> QED
      BY <2>1, <3>1, <3>2 DEF Present
  <2>5. CASE \E t \in Tasks : VfsClose(t)
    <3>1. next' = next /\ \A i \in Ids : file'[i] \in {"none", file[i]}
      BY <2>5 DEF VfsClose
    <3> QED
      BY <2>1, <3>1 DEF Present
  <2>6. CASE Update
    <3>1. next' = next /\ \A i \in Ids : file'[i] = IF i \in shadow THEN "kernel"
                                                    ELSE IF file[i] = "special" THEN "lost" ELSE file[i]
      BY <2>6 DEF Update
    <3>2. \A i \in shadow : Present(i)
      BY <1>1 DEF FilesInv, DomainOK, Present
    <3> QED
      BY <2>1, <3>1, <3>2 DEF Present
  <2>7. ASSUME NEW t \in Live, FdCall(t) PROVE next' = next /\ file' = file
    <3>1. \E o, I : Begin(t, o, "call", I)
      BY <2>7 DEF FdCall, sys_write, sys_read, sys_ftruncate, sys_lseek, sys_fstat, sys_fsync,
         sys_pread64, sys_pwrite64, sys_getdents64, sys_fstatfs, sys_ioctl, sys_poll_ctl, sys_readv,
         sys_writev, sys_fchdir, sys_sendfile, OnFd
    <3> QED
      BY <3>1 DEF Begin, vfsVars
  <2>8. ASSUME NEW t \in Live, PathCall(t)
        PROVE  (next' = next /\ file' = file) \/ \E o, S : VfsOpen(t, o, S)
    <3>1. (\E o, I : Begin(t, o, "call", I)) \/ \E o, S : VfsOpen(t, o, S)
      BY <2>8 DEF PathCall, sys_unlinkat, sys_symlinkat, sys_readlinkat, sys_linkat, sys_renameat2,
         sys_getcwd, OnPath, sys_openat, sys_fstatat, sys_faccessat, sys_truncate, sys_statfs,
         sys_utimensat, sys_mkdirat, sys_chdir, read_all
    <3> QED
      BY <3>1 DEF Begin, vfsVars
  <2>9. ASSUME NEW t \in Live, TableCall(t)
        PROVE  (next' = next /\ file' = file) \/ \E n \in {1, 2} : \E o, p : VfsNew(t, o, n, p)
    <3>1. CASE \E n \in {1, 2} : \E o, p : VfsNew(t, o, n, p)
      BY <3>1
    <3>2. CASE (\E o, n, d : GetFile(t, o, n, d)) \/ OnFd(t, "read") \/ sys_close(t) \/ DoClone(t) \/ DropTask(t)
      BY <3>2 DEF GetFile, OnFd, Begin, sys_close, DoClone, DropTask, vfsVars
    <3> QED
      BY <2>9, <3>1, <3>2 DEF TableCall, sys_pipe2, sys_poll_createl, sys_eventfd2, sys_socket,
         sys_socket_pair, sys_dup, sys_fcntl, sys_dup2, sys_dup3
  <2>10. ASSUME NEW t \in Tasks, Continue(t) PROVE (next' = next /\ file' = file) \/ VfsClose(t)
    BY <2>10 DEF Continue, DoDup, SetFd, DropShim, AddFd, SetCwd, VfsEnter, VfsLeave, vfsVars
  <2> QED
    BY <2>2, <2>3, <2>4, <2>5, <2>6, <2>7, <2>8, <2>9, <2>10 DEF Next
<1> QED
  BY <1>1, InvariantHolds, PTL DEF Spec, IdIsNeverReissued
==============================================================================
