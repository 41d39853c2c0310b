------------------------------ MODULE Ext4Plan ------------------------------
(***************************************************************************)
(* The geometry of an ext4 rebuild (write/ext4.rs): how much each block    *)
(* group spends on metadata and how many blocks plan_total_blocks asks for *)
(* before anything is written.  A tree is the list that collect() makes of *)
(* it, in the order in which assign() numbers inodes; a node is its kind   *)
(* and its data, one content a block.                                      *)
(***************************************************************************)
EXTENDS Integers, Sequences, FiniteSetsExt

CONSTANTS
    BlocksPerGroup, InodesPerGroup,
    DescriptorsPerBlock,    \* group descriptors in a block (block size / 32)
    TableBlocks,            \* blocks of a group's inode table
    FirstInode,             \* 11: the first inode that is not reserved
    InodeMargin,            \* 16: inodes planned on top of the nodes
    FixRounds, RoomRounds,  \* 32 and 1024: rounds of the plan's two loops
    Zero,                   \* the content of a block of zeros
    Hash                    \* what DefaultHasher makes of each other content

ASSUME GeometryAssumption ==
    /\ BlocksPerGroup \in Nat \ {0} /\ InodesPerGroup \in Nat \ {0}
    /\ DescriptorsPerBlock \in Nat \ {0} /\ TableBlocks \in Nat
    /\ FirstInode \in Nat \ {0, 1, 2}
    /\ FixRounds \in Nat \ {0} /\ RoomRounds \in Nat
    /\ InodeMargin \in Nat /\ InodeMargin >= FirstInode - 2

Ceil(a, b) == (a + b - 1) \div b
AtLeast(a, b) == IF a < b THEN b ELSE a

(* A node of the tree: its kind, and its data block by block.  *)
Node == [kind : {"dir", "file", "inline"}, data : Seq({Zero} \cup DOMAIN Hash)]

(* The root is inode 2, its descendants follow in preorder.  *)
Nid(i) == IF i = 1 THEN 2 ELSE FirstInode + i - 2

(* A file's data; directories are serialised, short links live inline.  *)
Shares(shared, node) == shared /\ node.kind = "file" /\ node.data # <<>>
TakesBlocks(node) == node.kind # "inline"

DescriptorBlocks(groups) == Ceil(groups, DescriptorsPerBlock)

(* meta_blocks: superblock, descriptors, two bitmaps, inode table.  *)
MetaBlocks(groups) == 1 + DescriptorBlocks(groups) + 2 + TableBlocks

(* The data a plan counts: every block of every node or, for a compact     *)
(* image with shared blocks, each hash of a file's non-zero blocks once.   *)
DataBlocks(nodes, dedup) ==
    LET counted(i) == TakesBlocks(nodes[i]) /\ ~(dedup /\ nodes[i].kind = "file")
        hashes == UNION {{Hash[nodes[i].data[k]] : k \in {k \in DOMAIN nodes[i].data :
                                                       nodes[i].data[k] # Zero}} :
                         i \in {i \in DOMAIN nodes : dedup /\ nodes[i].kind = "file"}}
    IN MapThenSumSet(LAMBDA i : Len(nodes[i].data), {i \in DOMAIN nodes : counted(i)})
           + Cardinality(hashes)

(* A mutant: the metadata of one group only.  *)
NeedOneGroup(nodes, data, groups) == data + Len(nodes) + MetaBlocks(groups)

(* The data, one extent-tree block a node, and the metadata of every group.  *)
Need(nodes, data, groups) ==
    data + Len(nodes) + groups * MetaBlocks(groups)

(* A mutant: nobody counts the inodes of tiny files.  *)
GroupsForSpace(nodes, data, reserve, groups) ==
    AtLeast(Ceil(Need(nodes, data, groups) + reserve, BlocksPerGroup), 1)

(* Groups for the blocks and for the inodes.  *)
WantGroups(nodes, data, reserve, groups) ==
    AtLeast(AtLeast(Ceil(Need(nodes, data, groups) + reserve, BlocksPerGroup),
                    Ceil(Len(nodes) + InodeMargin, InodesPerGroup)),
            1)

(* The fixed point from below, over once a round asks for no more groups.  *)
FixedPoint(nodes, data, reserve) ==
    LET groups[n \in 0..FixRounds] ==
            IF n = 0 THEN 1
            ELSE LET before == groups[n - 1]
                 IN AtLeast(before, WantGroups(nodes, data, reserve, before))
    IN groups[FixRounds]

(* The free space asked for: a quarter of a group, or the reserve.  *)
Margin(reserve) == AtLeast(BlocksPerGroup \div 4, reserve)

(* plan_total_blocks: groups are added until the margin is free as well.   *)
PlanTotal(nodes, dedup, reserve) ==
    LET data == DataBlocks(nodes, dedup)
        from == FixedPoint(nodes, data, reserve)
        roomy == {g \in from..(from + RoomRounds) :
                      \/ g * BlocksPerGroup - Need(nodes, data, g) >= Margin(reserve)
                      \/ g = from + RoomRounds}
    IN Min(roomy) * BlocksPerGroup

(* A mutant: the reserve does not reach the plan.  *)
TargetWithoutReserve(nodes, shared, compact, reserve, inputBlocks) ==
    LET plan == PlanTotal(nodes, shared /\ compact, 0)
    IN IF compact THEN plan ELSE AtLeast(plan, inputBlocks)

(* rebuild_generic: an image that is not compacted never shrinks.  *)
TargetBlocks(nodes, shared, compact, reserve, inputBlocks) ==
    LET plan == PlanTotal(nodes, shared /\ compact, reserve)
    IN IF compact THEN plan ELSE AtLeast(plan, inputBlocks)

=============================================================================
