----------------------------- MODULE ErofsLayout -----------------------------
(***************************************************************************)
(* How a full rebuild lays an EROFS image out (rebuild and                 *)
(* rebuild_compressed in write/mod.rs): NIDs are handed out in preorder    *)
(* with a stride of the inode's footprint, stepping over the superblock;   *)
(* the inode region is closed at a block boundary; then one bump pointer   *)
(* gives blocks to the shared xattr table, to every directory and to every *)
(* file.                                                                   *)
(*                                                                         *)
(* A node of the tree is only what the layout looks at: is it a directory, *)
(* does it carry a SELinux context, how many logical clusters a compressed *)
(* file has (0 means plain) and how many blocks its payload takes.         *)
(***************************************************************************)
EXTENDS ErofsGeometry, Sequences

CONSTANTS
  Trees,        \* the trees a rebuild may be asked to write, in preorder
  TableSizes    \* blocks of the shared xattr table (0: no context anywhere)

Job == [dir : BOOLEAN, ctx : BOOLEAN, clusters : Nat, blocks : Nat]

\* A directory always has a block ("." and ".."), and is never compressed.
ASSUME LayoutAssumption ==
  /\ Trees \subseteq Seq(Job)
  /\ \A t \in Trees : \A k \in 1..Len(t) :
       t[k].dir => t[k].blocks > 0 /\ t[k].clusters = 0
  /\ TableSizes \subseteq Nat

VARIABLES
  list,     \* nodes(root): the tree in preorder
  table,    \* blocks of the packed xattr table
  phase,    \* the loop the writer is in
  i,        \* the node that loop handles next
  next,     \* the next free NID
  nid,      \* the NIDs given so far
  metaEnd,  \* first block past the inode region
  alloc,    \* alloc_block / cursor: the next free block
  tableAt,  \* xattr_blkaddr, 0 when there is no table
  at        \* the first payload block of the nodes that have one so far

vars == <<list, table, phase, i, next, nid, metaEnd, alloc, tableAt, at>>

Slots(k) == InodeSlots(list[k].ctx, list[k].clusters)

\* The NID that follows an inode placed at `next`.
\* A mutant: one slot per inode.
DenseStride == next + 1
NextNid == next + Slots(i)

\* One turn of the loop of skip_superblock moves on by one slot.
\* Mutants: moving by the footprint, and not moving.
SkipByStride == next + Slots(i)
SkipNothing == next
SkippedTo == next + 1

\* The footprint about to be assigned must clear the superblock.
\* A mutant: only the inode body must.
BodyClear == ClearOfSuperblock(next, 1)
FootprintClear == ClearOfSuperblock(next, Slots(i))

\* Blocks of the inode region, and the first block past it and the table.
\* A mutant: rounded down.
InodeBlocksDown == next \div SlotsPerBlock
InodeBlocks == CeilDiv(next, SlotsPerBlock)
\* A mutant: the table is not counted.
NoRoomForTable == MetaBlock + InodeBlocks
FirstFree == MetaBlock + InodeBlocks + table

\* Directories are placed by one loop, files that have a payload by the next.
\* A mutant: payloads of one block are left out.
LargeInPhase == list[i].dir = (phase = "dirs") /\ list[i].blocks > 1
TakesBlocks == list[i].dir = (phase = "dirs") /\ list[i].blocks > 0

\* A mutant: every other node.
SkipNode == i' = i + 2
Advance == i' = i + 1

Init ==
  /\ list \in Trees
  /\ table \in TableSizes
  /\ phase = "nids"
  /\ i = 1
  /\ next = 1
  /\ nid = << >>
  /\ metaEnd = 0
  /\ alloc = 0
  /\ tableAt = 0
  /\ at = [k \in {} |-> 0]

SkipSlot ==
  /\ phase = "nids"
  /\ i <= Len(list)
  /\ ~FootprintClear
  /\ next' = SkippedTo
  /\ UNCHANGED <<list, table, phase, i, nid, metaEnd, alloc, tableAt, at>>

\* assign_nids_strided gives the node its NID and steps over its footprint.
PlaceInode ==
  /\ phase = "nids"
  /\ i <= Len(list)
  /\ FootprintClear
  /\ nid' = Append(nid, next)
  /\ next' = NextNid
  /\ Advance
  /\ UNCHANGED <<list, table, phase, metaEnd, alloc, tableAt, at>>

\* The inode region is rounded up to whole blocks and the table follows it.
CloseInodeRegion ==
  /\ phase = "nids"
  /\ i > Len(list)
  /\ metaEnd' = MetaBlock + InodeBlocks
  /\ tableAt' = IF table = 0 THEN 0 ELSE MetaBlock + InodeBlocks
  /\ alloc' = FirstFree
  /\ phase' = "dirs"
  /\ i' = 1
  /\ UNCHANGED <<list, table, next, nid, at>>

\* One turn of the loop that places the directories, or of the one that
\* places the files; a node of the other kind, or an empty file, gets nothing.
PlaceBlocks ==
  /\ phase \in {"dirs", "files"}
  /\ i <= Len(list)
  /\ Advance
  /\ IF TakesBlocks
     THEN /\ at' = [k \in DOMAIN at \cup {i} |-> IF k = i THEN alloc ELSE at[k]]
          /\ alloc' = alloc + list[i].blocks
     ELSE UNCHANGED <<at, alloc>>
  /\ UNCHANGED <<list, table, phase, next, nid, metaEnd, tableAt>>

NextPhase ==
  /\ phase \in {"dirs", "files"}
  /\ i > Len(list)
  /\ phase' = IF phase = "dirs" THEN "files" ELSE "done"
  /\ i' = 1
  /\ UNCHANGED <<list, table, next, nid, metaEnd, alloc, tableAt, at>>

Next == SkipSlot \/ PlaceInode \/ CloseInodeRegion \/ PlaceBlocks \/ NextPhase

Spec == Init /\ [][Next]_vars /\ WF_vars(Next)
-----------------------------------------------------------------------------
Placed == 1..Len(nid)

TypeOK ==
  /\ list \in Trees
  /\ table \in TableSizes
  /\ phase \in {"nids", "dirs", "files", "done"}
  /\ i \in 1..Len(list) + 1
  /\ next \in Nat
  /\ nid \in Seq(Nat)
  /\ metaEnd \in Nat /\ alloc \in Nat /\ tableAt \in Nat
  /\ DOMAIN at \subseteq 1..Len(list)
  /\ \A k \in DOMAIN at : at[k] \in Nat

\* No two inodes share a slot: the footprints the strides reserve (two slots
\* for an inode with a context, more for a compressed one) follow each other.
InodesDisjoint ==
  \A a, b \in Placed : a < b => nid[a] + Slots(a) <= nid[b]

\* Everything written for an inode (body, xattr area, map header, index) ends
\* within the footprint reserved for it and misses the superblock, so that
\* neither the order of the patches nor a later inode can damage it.
WritesStayInFootprint ==
  \A a \in Placed :
    /\ WriteEnd(nid[a], list[a].ctx, list[a].clusters)
         <= (SlotOf(nid[a]) + Slots(a)) * SlotBytes
    /\ ClearOfSuperblock(nid[a], Slots(a))

\* Once the region is closed every footprint lies in it: no inode reaches the
\* table, the directories or the payload behind it.
InodesInRegion ==
  phase # "nids" =>
    \A a \in Placed : SlotOf(nid[a]) + Slots(a) <= metaEnd * SlotsPerBlock

\* Payloads, directories and the table never share a block with each other,
\* with the inode region or with the superblock.
PayloadsDisjoint ==
  phase # "nids" =>
    /\ table > 0 => tableAt = metaEnd /\ tableAt + table <= alloc
    /\ \A k \in DOMAIN at :
         /\ metaEnd + table <= at[k] /\ at[k] + list[k].blocks <= alloc
         /\ SbEnd <= at[k] * SlotsPerBlock
    /\ \A k, m \in DOMAIN at :
         k # m => \/ at[k] + list[k].blocks <= at[m]
                  \/ at[m] + list[m].blocks <= at[k]

\* A finished layout has given every node an inode and every node that has a
\* payload its blocks.
LayoutComplete ==
  phase = "done" =>
    /\ Placed = 1..Len(list)
    /\ DOMAIN at = {k \in 1..Len(list) : list[k].blocks > 0}

\* The closed form SkipSuperblock is where the loop stops: the next inode is
\* placed at the first clear slot at or after the end of the previous one.
SkipIsFirstClear ==
  \A a \in Placed :
    nid[a] = SkipSuperblock(IF a = 1 THEN 1 ELSE nid[a-1] + Slots(a-1), Slots(a))

\* The loop of skip_superblock and the placement loops come to an end.
Terminates == <>(phase = "done")
=============================================================================
