-------------------------- MODULE ErofsLayoutProofs --------------------------
(***************************************************************************)
(* Proofs about ErofsLayout, for every geometry, every tree and every      *)
(* table size.                                                             *)
(***************************************************************************)
EXTENDS ErofsLayout, ErofsGeometryProofs

(***************************************************************************)
(* The inductive invariant                                                 *)
(*                                                                         *)
(* The disjointness of inodes is not inductive: what keeps the next        *)
(* footprint off the earlier ones is that all of them end at or before     *)
(* `next`.  In the same way all payloads end at or before `alloc`, and the *)
(* nodes that have a payload are exactly those the loops have passed.      *)
(***************************************************************************)
NodeOK(k) == list[k] \in Job /\ (list[k].dir => list[k].blocks > 0)

Progress ==
  /\ phase = "nids" => i = Len(nid) + 1
  /\ phase # "nids" => Len(nid) = Len(list)

InodesBelowNext ==
  /\ next > 0
  /\ \A a \in Placed :
       /\ nid[a] + Slots(a) <= next
       /\ ClearOfSuperblock(nid[a], Slots(a))

RegionClosed ==
  phase # "nids" =>
    /\ metaEnd = MetaBlock + CeilDiv(next, SlotsPerBlock)
    /\ metaEnd + table <= alloc
    /\ table > 0 => tableAt = metaEnd

PayloadNodes ==
  DOMAIN at = {k \in 1..Len(list) :
                 /\ list[k].blocks > 0
                 /\ \/ phase = "dirs" /\ list[k].dir /\ k < i
                    \/ phase = "files" /\ (list[k].dir \/ k < i)
                    \/ phase = "done"}

PayloadsBelowAlloc ==
  /\ \A k \in DOMAIN at : metaEnd + table <= at[k] /\ at[k] + list[k].blocks <= alloc
  /\ \A k, m \in DOMAIN at :
       k # m => at[k] + list[k].blocks <= at[m] \/ at[m] + list[m].blocks <= at[k]

IInv ==
  /\ TypeOK
  /\ Progress
  /\ InodesBelowNext
  /\ InodesDisjoint
  /\ RegionClosed
  /\ PayloadNodes
  /\ PayloadsBelowAlloc

\* What the assumptions say of the node a loop is at.
LEMMA NodeFacts ==
  ASSUME list \in Trees
  PROVE  /\ Len(list) \in Nat
         /\ \A k \in 1..Len(list) : NodeOK(k) /\ Slots(k) \in Nat \ {0}
<1>1. list \in Seq(Job)
  BY LayoutAssumption
<1>2. ASSUME NEW k \in 1..Len(list)
      PROVE  NodeOK(k) /\ Slots(k) \in Nat \ {0}
  <2>1. list[k] \in Job
    BY <1>1
  <2>2. NodeOK(k)
    BY <2>1, LayoutAssumption DEF NodeOK
  <2>3. list[k].ctx \in BOOLEAN /\ list[k].clusters \in Nat
    BY <2>1 DEF Job
  <2> QED
    BY <2>2, <2>3, InodeSlotsPositive DEF Slots
<1> QED
  BY <1>1, <1>2

LEMMA InitIInv == Init => IInv
<1> SUFFICES ASSUME Init PROVE IInv
  OBVIOUS
<1>1. Len(list) \in Nat
  BY NodeFacts DEF Init
<1>2. TypeOK
  BY <1>1, LayoutAssumption DEF Init, TypeOK
<1>3. PayloadNodes
  BY <1>1 DEF Init, PayloadNodes
<1> QED
  BY <1>2, <1>3 DEF Init, IInv, Progress, InodesBelowNext, InodesDisjoint,
       RegionClosed, PayloadsBelowAlloc, Placed

LEMMA SkipSlotIInv == IInv /\ SkipSlot => IInv'
<1> SUFFICES ASSUME IInv, SkipSlot PROVE IInv'
  OBVIOUS
<1> USE DEF SkipSlot, SkippedTo
<1>1. TypeOK'
  BY DEF IInv, TypeOK
<1>2. InodesBelowNext'
  <2>1. \A a \in Placed : nid[a] \in Nat /\ Slots(a) \in Nat
    BY NodeFacts DEF IInv, TypeOK, Progress, Placed
  <2> QED
    BY <2>1 DEF IInv, TypeOK, InodesBelowNext, Placed, Slots
<1>3. InodesDisjoint'
  BY DEF IInv, InodesDisjoint, Placed, Slots
<1>4. Progress' /\ RegionClosed' /\ PayloadNodes' /\ PayloadsBelowAlloc'
  BY DEF IInv, Progress, RegionClosed, PayloadNodes, PayloadsBelowAlloc
<1> QED
  BY <1>1, <1>2, <1>3, <1>4 DEF IInv

LEMMA PlaceInodeIInv == IInv /\ PlaceInode => IInv'
<1> SUFFICES ASSUME IInv, PlaceInode PROVE IInv'
  OBVIOUS
<1> USE DEF PlaceInode, NextNid, FootprintClear, Advance
<1>1. /\ Len(list) \in Nat /\ i \in 1..Len(list) /\ i = Len(nid) + 1
      /\ nid \in Seq(Nat) /\ next \in Nat
      /\ \A k \in 1..Len(list) : Slots(k) \in Nat \ {0}
  BY NodeFacts DEF IInv, TypeOK, Progress
<1>2. /\ nid' \in Seq(Nat) /\ Len(nid') = i
      /\ nid'[i] = next
      /\ \A a \in Placed : nid'[a] = nid[a] /\ nid[a] \in Nat
      /\ Placed' = Placed \cup {i} /\ Placed = 1..i - 1
  BY <1>1 DEF Placed
<1>3. TypeOK'
  BY <1>1, <1>2 DEF IInv, TypeOK
<1>4. InodesBelowNext'
  <2>1. next' > 0 /\ next' = next + Slots(i)
    BY <1>1 DEF IInv, InodesBelowNext
  <2>2. ASSUME NEW a \in Placed'
        PROVE  nid'[a] + Slots(a)' <= next' /\ ClearOfSuperblock(nid'[a], Slots(a)')
    <3> Slots(a)' = Slots(a)
      BY DEF Slots
    <3>1. CASE a = i
      BY <1>1, <1>2, <2>1, <3>1
    <3>2. CASE a \in Placed
      <4>1. nid[a] + Slots(a) <= next /\ ClearOfSuperblock(nid[a], Slots(a))
        BY <3>2 DEF IInv, InodesBelowNext
      <4>2. nid'[a] = nid[a] /\ nid[a] \in Nat /\ Slots(a) \in Nat /\ Slots(i) \in Nat
        BY <1>1, <1>2, <3>2
      <4>3. ClearOfSuperblock(nid'[a], Slots(a)')
        BY <4>1, <4>2
      <4> QED
        BY <1>1, <2>1, <4>1, <4>2, <4>3
    <3> QED
      BY <1>2, <3>1, <3>2
  <2> QED
    BY <2>1, <2>2 DEF InodesBelowNext
<1>5. InodesDisjoint'
  <2> SUFFICES ASSUME NEW a \in Placed', NEW b \in Placed', a < b
               PROVE  nid'[a] + Slots(a)' <= nid'[b]
    BY DEF InodesDisjoint
  <2> Slots(a)' = Slots(a)
    BY DEF Slots
  <2>1. a \in Placed
    BY <1>1, <1>2
  <2>2. CASE b = i
    BY <1>1, <1>2, <2>1, <2>2 DEF IInv, InodesBelowNext
  <2>3. CASE b \in Placed
    BY <1>1, <1>2, <2>1, <2>3 DEF IInv, InodesDisjoint
  <2> QED
    BY <1>2, <2>2, <2>3
<1>6. Progress' /\ RegionClosed'
  BY <1>1, <1>2 DEF IInv, Progress, RegionClosed
<1>7. PayloadNodes'
  BY DEF IInv, PayloadNodes
<1>8. PayloadsBelowAlloc'
  BY DEF IInv, PayloadsBelowAlloc
<1> QED
  BY <1>3, <1>4, <1>5, <1>6, <1>7, <1>8 DEF IInv

LEMMA CloseInodeRegionIInv == IInv /\ CloseInodeRegion => IInv'
<1> SUFFICES ASSUME IInv, CloseInodeRegion PROVE IInv'
  OBVIOUS
<1> USE DEF CloseInodeRegion, InodeBlocks, FirstFree
<1>1. /\ Len(list) \in Nat /\ next \in Nat /\ table \in Nat
      /\ i = Len(list) + 1 /\ Len(nid) = Len(list)
      /\ DOMAIN at = {}
      /\ \A k \in 1..Len(list) : NodeOK(k)
  BY NodeFacts, LayoutAssumption DEF IInv, TypeOK, Progress, PayloadNodes
<1>2. /\ metaEnd' \in Nat /\ alloc' \in Nat /\ tableAt' \in Nat
      /\ metaEnd' + table <= alloc'
  <2>1. CeilDiv(next, SlotsPerBlock) \in Nat
    BY <1>1, CeilDivBounds, GeometryAssumption
  <2> QED
    BY <1>1, <2>1, GeometryAssumption
<1>3. TypeOK'
  BY <1>1, <1>2 DEF IInv, TypeOK
<1>4. InodesBelowNext' /\ InodesDisjoint'
  BY DEF IInv, InodesBelowNext, InodesDisjoint, Placed, Slots
<1>5. Progress' /\ RegionClosed'
  BY <1>1, <1>2 DEF Progress, RegionClosed
<1>6. PayloadNodes'
  BY <1>1 DEF PayloadNodes
<1>7. PayloadsBelowAlloc'
  BY <1>1 DEF PayloadsBelowAlloc
<1> QED
  BY <1>3, <1>4, <1>5, <1>6, <1>7 DEF IInv

LEMMA PlaceBlocksIInv == IInv /\ PlaceBlocks => IInv'
<1> SUFFICES ASSUME IInv, PlaceBlocks PROVE IInv'
  OBVIOUS
<1> USE DEF PlaceBlocks, Advance, TakesBlocks
<1> \A k \in 1..Len(list) : list[k].blocks \in Nat /\ list[k].dir \in BOOLEAN
  BY NodeFacts DEF IInv, TypeOK, NodeOK, Job
<1>1. /\ Len(list) \in Nat /\ i \in 1..Len(list) /\ phase \in {"dirs", "files"}
      /\ list[i].blocks \in Nat /\ list[i].dir \in BOOLEAN
      /\ metaEnd \in Nat /\ table \in Nat /\ alloc \in Nat
      /\ metaEnd + table <= alloc
      /\ DOMAIN at \subseteq 1..Len(list)
      /\ \A k \in DOMAIN at : at[k] \in Nat
  BY NodeFacts, LayoutAssumption DEF IInv, TypeOK, RegionClosed
<1>2. Progress' /\ InodesBelowNext' /\ InodesDisjoint'
  BY <1>1 DEF IInv, Progress, InodesBelowNext, InodesDisjoint, Placed, Slots
<1>3. CASE ~TakesBlocks
  <2>1. TypeOK'
    BY <1>1, <1>3 DEF IInv, TypeOK
  <2>2. RegionClosed'
    BY <1>1, <1>3 DEF IInv, RegionClosed
  <2>3. PayloadNodes'
    <3>1. ASSUME NEW k \in 1..Len(list), k # i  PROVE k < i <=> k < i'
      BY <1>1, <3>1
    <3>2. DOMAIN at' = DOMAIN at /\ phase' = phase /\ list' = list
      BY <1>3
    <3> QED
      BY <1>1, <1>3, <3>1, <3>2 DEF IInv, PayloadNodes
  <2>4. PayloadsBelowAlloc'
    BY <1>3 DEF IInv, PayloadsBelowAlloc
  <2> QED
    BY <1>2, <2>1, <2>2, <2>3, <2>4 DEF IInv
<1>4. CASE TakesBlocks
  <2>1. /\ DOMAIN at' = DOMAIN at \cup {i}
        /\ at'[i] = alloc
        /\ \A k \in DOMAIN at : k # i => at'[k] = at[k]
        /\ alloc' = alloc + list[i].blocks
    BY <1>4
  <2>2. i \notin DOMAIN at
    BY <1>1, <1>4 DEF IInv, PayloadNodes
  <2>3. TypeOK'
    <3>1. DOMAIN at' \subseteq 1..Len(list) /\ alloc' \in Nat /\ i' \in 1..Len(list) + 1
      BY <1>1, <2>1
    <3>2. \A k \in DOMAIN at' : at'[k] \in Nat
      BY <1>1, <2>1
    <3> QED
      BY <3>1, <3>2 DEF IInv, TypeOK
  <2>4. RegionClosed'
    BY <1>1, <2>1 DEF IInv, RegionClosed
  <2>5. PayloadNodes'
    <3>1. ASSUME NEW k \in 1..Len(list), k # i  PROVE k < i <=> k < i'
      BY <1>1, <3>1
    <3> QED
      BY <1>1, <1>4, <2>1, <3>1 DEF IInv, PayloadNodes
  <2>6. \A k \in DOMAIN at' : metaEnd' + table' <= at'[k] /\ at'[k] + list'[k].blocks <= alloc'
    <3>1. \A k \in DOMAIN at : metaEnd + table <= at[k] /\ at[k] + list[k].blocks <= alloc
      BY DEF IInv, PayloadsBelowAlloc
    <3>2. \A k \in DOMAIN at : k \in 1..Len(list) /\ k # i /\ at[k] \in Nat
      BY <1>1, <2>2
    <3>3. metaEnd' = metaEnd /\ table' = table /\ list' = list
      OBVIOUS
    <3> SUFFICES ASSUME NEW k \in DOMAIN at'
                 PROVE  metaEnd + table <= at'[k] /\ at'[k] + list[k].blocks <= alloc'
      BY <3>3
    <3>4. CASE k = i
      BY ONLY <1>1, <2>1, <3>4
    <3>5. CASE k # i
      <4>1. k \in DOMAIN at /\ at'[k] = at[k]
        BY ONLY <2>1, <3>5
      <4>2. k \in 1..Len(list) /\ list[k].blocks \in Nat
        BY <3>2, <4>1
      <4> QED
        BY ONLY <1>1, <2>1, <3>1, <3>2, <4>1, <4>2
    <3> QED
      BY <3>4, <3>5
  <2>7. ASSUME NEW k \in DOMAIN at', NEW m \in DOMAIN at', k # m
        PROVE  at'[k] + list'[k].blocks <= at'[m] \/ at'[m] + list'[m].blocks <= at'[k]
    BY <1>1, <2>1, <2>2, <2>7 DEF IInv, PayloadsBelowAlloc
  <2> QED
    BY <1>2, <2>3, <2>4, <2>5, <2>6, <2>7 DEF IInv, PayloadsBelowAlloc
<1> QED
  BY <1>3, <1>4

LEMMA NextPhaseIInv == IInv /\ NextPhase => IInv'
<1> SUFFICES ASSUME IInv, NextPhase PROVE IInv'
  OBVIOUS
<1> USE DEF NextPhase
<1>1. Len(list) \in Nat /\ i = Len(list) + 1 /\ phase \in {"dirs", "files"}
  BY NodeFacts DEF IInv, TypeOK
<1>2. TypeOK'
  BY <1>1 DEF IInv, TypeOK
<1>3. Progress' /\ InodesBelowNext' /\ InodesDisjoint' /\ RegionClosed'
  BY <1>1 DEF IInv, Progress, InodesBelowNext, InodesDisjoint, RegionClosed, Placed, Slots
<1>4. PayloadNodes'
  BY <1>1 DEF IInv, PayloadNodes
<1>5. PayloadsBelowAlloc'
  BY DEF IInv, PayloadsBelowAlloc
<1> QED
  BY <1>2, <1>3, <1>4, <1>5 DEF IInv

LEMMA StepIInv == IInv /\ [Next]_vars => IInv'
<1> SUFFICES ASSUME IInv, [Next]_vars PROVE IInv'
  OBVIOUS
<1>1. CASE SkipSlot
  BY <1>1, SkipSlotIInv
<1>2. CASE PlaceInode
  BY <1>2, PlaceInodeIInv
<1>3. CASE CloseInodeRegion
  BY <1>3, CloseInodeRegionIInv
<1>4. CASE PlaceBlocks
  BY <1>4, PlaceBlocksIInv
<1>5. CASE NextPhase
  BY <1>5, NextPhaseIInv
<1>6. CASE UNCHANGED vars
  BY <1>6 DEF vars, IInv, TypeOK, Progress, InodesBelowNext, InodesDisjoint,
       RegionClosed, PayloadNodes, PayloadsBelowAlloc, Placed, Slots
<1> QED
  BY <1>1, <1>2, <1>3, <1>4, <1>5, <1>6 DEF Next

(***************************************************************************)
(* The theorems                                                            *)
(***************************************************************************)

\* The inductive invariant holds throughout every rebuild.
THEOREM LayoutInvariant == Spec => []IInv
<1>1. Init => IInv
  BY InitIInv
<1>2. IInv /\ [Next]_vars => IInv'
  BY StepIInv
<1> QED
  BY <1>1, <1>2, PTL DEF Spec

\* rebuild: every variable keeps its type, whatever tree is written.
THEOREM LayoutTypes == Spec => []TypeOK
<1>1. IInv => TypeOK
  BY DEF IInv
<1> QED
  BY <1>1, LayoutInvariant, PTL

\* assign_nids_strided: no two inodes of a rebuilt image share a slot.
THEOREM InodesNeverOverlap == Spec => []InodesDisjoint
<1>1. IInv => InodesDisjoint
  BY DEF IInv
<1> QED
  BY <1>1, LayoutInvariant, PTL

\* What is written for an inode stays in its own slots and off the superblock.
THEOREM WritesNeverStray == Spec => []WritesStayInFootprint
<1>1. IInv => WritesStayInFootprint
  <2> SUFFICES ASSUME IInv, NEW a \in Placed
               PROVE  /\ WriteEnd(nid[a], list[a].ctx, list[a].clusters)
                            <= (SlotOf(nid[a]) + Slots(a)) * SlotBytes
                      /\ ClearOfSuperblock(nid[a], Slots(a))
    BY DEF WritesStayInFootprint
  <2>1. /\ a \in 1..Len(list) /\ nid[a] \in Nat
        /\ ClearOfSuperblock(nid[a], Slots(a))
    BY NodeFacts DEF IInv, TypeOK, Progress, InodesBelowNext, Placed
  <2>2. list[a].ctx \in BOOLEAN /\ list[a].clusters \in Nat
    BY <2>1, NodeFacts DEF IInv, TypeOK, NodeOK, Job
  <2> QED
    BY <2>1, <2>2, FootprintCoversWrites DEF Slots
<1> QED
  BY <1>1, LayoutInvariant, PTL

\* The closed inode region holds every footprint.
THEOREM RegionHoldsInodes == Spec => []InodesInRegion
<1>1. IInv => InodesInRegion
  <2> SUFFICES ASSUME IInv, phase # "nids", NEW a \in Placed
               PROVE  SlotOf(nid[a]) + Slots(a) <= metaEnd * SlotsPerBlock
    BY DEF InodesInRegion
  <2>1. /\ nid[a] \in Nat /\ Slots(a) \in Nat /\ next \in Nat
        /\ nid[a] + Slots(a) <= next
    BY NodeFacts DEF IInv, TypeOK, Progress, InodesBelowNext, Placed
  <2> DEFINE c == CeilDiv(next, SlotsPerBlock)
  <2>2. c \in Nat /\ next <= c * SlotsPerBlock
    BY <2>1, CeilDivBounds, GeometryAssumption
  <2>3. metaEnd = MetaBlock + c
    BY DEF IInv, RegionClosed
  <2> HIDE DEF c
  <2>4. metaEnd * SlotsPerBlock = MetaBlock * SlotsPerBlock + c * SlotsPerBlock
    BY <2>2, <2>3, GeometryAssumption
  <2> QED
    BY <2>1, <2>2, <2>4, GeometryAssumption DEF SlotOf
<1> QED
  BY <1>1, LayoutInvariant, PTL

\* No two payloads, the table, the inodes or the superblock share a block.
THEOREM PayloadsNeverOverlap == Spec => []PayloadsDisjoint
<1>1. IInv => PayloadsDisjoint
  <2> SUFFICES ASSUME IInv, phase # "nids" PROVE PayloadsDisjoint
    BY DEF PayloadsDisjoint
  <2>1. table \in Nat /\ metaEnd \in Nat /\ metaEnd > 0
    <3>1. CeilDiv(next, SlotsPerBlock) \in Nat /\ CeilDiv(next, SlotsPerBlock) > 0
      BY CeilDivBounds, GeometryAssumption DEF IInv, TypeOK, InodesBelowNext
    <3> QED
      BY <3>1, LayoutAssumption, GeometryAssumption DEF IInv, TypeOK, RegionClosed
  <2>2. ASSUME NEW k \in DOMAIN at PROVE SbEnd <= at[k] * SlotsPerBlock
    <3>1. at[k] \in Nat /\ at[k] >= 1
      BY <2>1 DEF IInv, TypeOK, PayloadsBelowAlloc
    <3>2. at[k] * SlotsPerBlock >= SlotsPerBlock
      BY <3>1, GeometryAssumption
    <3> QED
      BY <3>1, <3>2, GeometryAssumption
  <2> QED
    BY <2>1, <2>2 DEF IInv, RegionClosed, PayloadsBelowAlloc, PayloadsDisjoint
<1> QED
  BY <1>1, LayoutInvariant, PTL

\* A finished layout has placed every inode and every payload.
THEOREM LayoutIsComplete == Spec => []LayoutComplete
<1>1. IInv => LayoutComplete
  BY NodeFacts DEF IInv, TypeOK, Progress, PayloadNodes, LayoutComplete, Placed
<1> QED
  BY <1>1, LayoutInvariant, PTL

(***************************************************************************)
(* Where the skip stops                                                    *)
(*                                                                         *)
(* skip_superblock is a loop of single steps; SkipSuperblock is its closed *)
(* form.  That an inode is placed where the closed form says is not        *)
(* inductive: the invariant remembers that every position the loop has     *)
(* left behind since the last inode would have hit the superblock.         *)
(***************************************************************************)
SkipFrom == IF nid = << >> THEN 1 ELSE nid[Len(nid)] + Slots(Len(nid))

PassedAreBlocked ==
  phase = "nids" /\ i <= Len(list) =>
    /\ SkipFrom <= next
    /\ \A n \in SkipFrom..next - 1 : ~ClearOfSuperblock(n, Slots(i))

SkipIInv == SkipIsFirstClear /\ PassedAreBlocked

\* A clear position with only blocked ones before it is the closed form's.
LEMMA FirstClearIsClosedForm ==
  ASSUME NEW from \in Nat, NEW n \in Nat, NEW s \in Nat,
         from <= n, ClearOfSuperblock(n, s),
         \A m \in from..n - 1 : ~ClearOfSuperblock(m, s)
  PROVE  n = SkipSuperblock(from, s)
<1> DEFINE base == MetaBlock * SlotsPerBlock
<1>1. base \in Nat /\ SbFirst \in Nat /\ SbEnd \in Nat
  BY GeometryAssumption
<1> HIDE DEF base
<1>2. \A m : ClearOfSuperblock(m, s) <=> base + m + s <= SbFirst \/ base + m >= SbEnd
  BY DEF ClearOfSuperblock, SlotOf, base
<1>3. CASE from = n
  BY <1>3 DEF SkipSuperblock
<1>4. CASE from < n
  <2>1. ~ClearOfSuperblock(from, s) /\ ~ClearOfSuperblock(n - 1, s)
    BY <1>4
  <2>2. base + n = SbEnd
    BY <1>1, <1>2, <1>4, <2>1
  <2> QED
    BY <1>1, <2>1, <2>2 DEF SkipSuperblock, base
<1> QED
  BY <1>3, <1>4

\* A turn of the skip leaves one more blocked position behind.
LEMMA SkipSlotSkips == IInv /\ SkipIInv /\ SkipSlot => SkipIInv'
<1> SUFFICES ASSUME IInv, SkipIInv, SkipSlot PROVE SkipIInv'
  OBVIOUS
<1> USE DEF SkipSlot, SkippedTo, FootprintClear
<1>1. SkipIsFirstClear'
  BY DEF SkipIInv, SkipIsFirstClear, Placed, Slots
<1>2. next \in Nat /\ SkipFrom \in Nat
  BY NodeFacts DEF IInv, TypeOK, Progress, SkipFrom
<1>3. \A n \in SkipFrom..next : ~ClearOfSuperblock(n, Slots(i))
  BY <1>2 DEF SkipIInv, PassedAreBlocked
<1>4. SkipFrom' = SkipFrom /\ Slots(i)' = Slots(i) /\ SkipFrom <= next + 1
  BY <1>2 DEF SkipFrom, Slots, SkipIInv, PassedAreBlocked
<1>5. PassedAreBlocked'
  BY <1>2, <1>3, <1>4 DEF PassedAreBlocked
<1> QED
  BY <1>1, <1>5 DEF SkipIInv

\* An inode is placed at the first clear position, and the next skip starts
\* behind it with nothing passed.
LEMMA PlaceInodeSkips == IInv /\ SkipIInv /\ PlaceInode => SkipIInv'
<1> SUFFICES ASSUME IInv, SkipIInv, PlaceInode PROVE SkipIInv'
  OBVIOUS
<1> USE DEF PlaceInode, NextNid, FootprintClear, Advance
<1>1. /\ Len(list) \in Nat /\ i \in 1..Len(list) /\ i = Len(nid) + 1
      /\ nid \in Seq(Nat) /\ next \in Nat
      /\ \A k \in 1..Len(list) : Slots(k) \in Nat \ {0}
  BY NodeFacts DEF IInv, TypeOK, Progress
<1>2. /\ Len(nid') = i /\ nid'[i] = next /\ nid' # << >>
      /\ \A a \in 1..i - 1 : nid'[a] = nid[a]
  BY <1>1
<1>3. SkipFrom \in Nat /\ SkipFrom = IF i = 1 THEN 1 ELSE nid[i-1] + Slots(i-1)
  <2>1. nid = << >> <=> i = 1
    BY <1>1
  <2>2. Len(nid) = i - 1 /\ (i # 1 => nid[i-1] \in Nat /\ Slots(i-1) \in Nat)
    BY <1>1
  <2> QED
    BY <2>1, <2>2 DEF SkipFrom
<1>4. next = SkipSuperblock(SkipFrom, Slots(i))
  BY <1>1, <1>3, FirstClearIsClosedForm DEF SkipIInv, PassedAreBlocked
<1>5. SkipIsFirstClear'
  <2> SUFFICES ASSUME NEW a \in 1..i
               PROVE  nid'[a] = SkipSuperblock(IF a = 1 THEN 1 ELSE nid'[a-1] + Slots(a-1),
                                               Slots(a))
    BY <1>2 DEF SkipIsFirstClear, Placed, Slots
  <2>1. a # 1 => nid'[a-1] = nid[a-1]
    BY <1>1, <1>2
  <2>2. CASE a = i
    BY <1>2, <1>3, <1>4, <2>1, <2>2
  <2>3. CASE a \in 1..i - 1
    BY <1>1, <1>2, <2>1, <2>3 DEF SkipIInv, SkipIsFirstClear, Placed
  <2> QED
    BY <1>1, <2>2, <2>3
<1>6. SkipFrom' = next'
  BY <1>2 DEF SkipFrom, Slots
<1>7. PassedAreBlocked'
  BY <1>1, <1>6 DEF PassedAreBlocked
<1> QED
  BY <1>5, <1>7 DEF SkipIInv

\* The other steps place no inode and belong to the later phases.
LEMMA OthersSkip ==
  IInv /\ SkipIInv /\ (CloseInodeRegion \/ PlaceBlocks \/ NextPhase \/ UNCHANGED vars)
    => SkipIInv'
<1> SUFFICES ASSUME SkipIInv,
                    CloseInodeRegion \/ PlaceBlocks \/ NextPhase \/ UNCHANGED vars
             PROVE  SkipIInv'
  OBVIOUS
<1>1. UNCHANGED <<list, nid>> /\ (phase' = "nids" => UNCHANGED <<i, next>> /\ phase = "nids")
  BY DEF CloseInodeRegion, PlaceBlocks, NextPhase, vars
<1>2. SkipIsFirstClear'
  BY <1>1 DEF SkipIInv, SkipIsFirstClear, Placed, Slots
<1>3. PassedAreBlocked'
  BY <1>1 DEF SkipIInv, PassedAreBlocked, SkipFrom, Slots
<1> QED
  BY <1>2, <1>3 DEF SkipIInv

\* skip_superblock stops at the first position whose whole footprint misses
\* the superblock: no inode wastes a slot it could have had, and where each
\* one lies follows from the footprints before it alone.
THEOREM SkipsToTheFirstClearSlot == Spec => []SkipIsFirstClear
<1>1. Init => SkipIInv
  <2> SUFFICES ASSUME Init PROVE SkipIInv
    OBVIOUS
  <2>1. nid = << >> /\ next = 1 /\ Len(nid) = 0
    BY DEF Init
  <2> QED
    BY <2>1 DEF SkipIInv, SkipIsFirstClear, PassedAreBlocked, SkipFrom, Placed
<1>2. IInv /\ SkipIInv /\ [Next]_vars => SkipIInv'
  BY SkipSlotSkips, PlaceInodeSkips, OthersSkip DEF Next
<1>3. SkipIInv => SkipIsFirstClear
  BY DEF SkipIInv
<1> QED
  BY <1>1, <1>2, <1>3, LayoutInvariant, PTL DEF Spec
=============================================================================
