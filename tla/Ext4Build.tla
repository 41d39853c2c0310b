------------------------------ MODULE Ext4Build ------------------------------
(***************************************************************************)
(* The ext4 writer (write/ext4.rs): build_grown's grow-and-retry loop      *)
(* around rebuild_groups_to, which lays out the groups, gives every node   *)
(* its blocks first-fit, then the extent trees theirs, then writes.  With  *)
(* shared blocks a file's block goes to an earlier block of the same       *)
(* content, and zeros stay holes.                                          *)
(***************************************************************************)
EXTENDS Ext4Plan

CONSTANTS
    TreeFanout,     \* 340: extents in an extent-tree block
    RootFanout,     \* 4: extent-tree blocks in an inode
    MaxExtentLen,   \* 32767: blocks of one extent
    MaxAttempts,    \* 16: rounds of the grow-and-retry loop
    CapSlack,       \* 65536: growth allowed beyond twice the plan
    Dirents,        \* the content of a directory's blocks
    Jobs            \* what to build: a set of records [nodes, shared, compact,
                    \* reserve, inputBlocks]

ASSUME FanoutAssumption == /\ TreeFanout \in Nat \ {0} /\ RootFanout \in Nat \ {0}
                           /\ MaxExtentLen \in Nat \ {0} /\ MaxAttempts \in Nat \ {0}

ASSUME JobsAssumption ==
    Jobs \subseteq [nodes : Seq(Node), shared : BOOLEAN, compact : BOOLEAN,
                    reserve : Nat, inputBlocks : Nat]

VARIABLES
    job,
    pc,         \* "layout", "place", "trees", "write", "done" or "failed"
    reason,     \* why a round failed
    total,      \* blocks of the image in this round
    attempt,
    used,       \* the blocks taken, `used` as a set
    next,       \* the allocator's cursor
    node,       \* the node being placed, given trees or written
    logical,    \* its next logical block
    extents,    \* for each node, its extents <<logical, physical, length>>
    trees,      \* for each node, its extent-tree blocks
    disk        \* the content of each block

vars == <<job, pc, reason, total, attempt, used, next, node, logical, extents, trees, disk>>

Groups == Ceil(total, BlocksPerGroup)
GroupBlocks(g) == Min({BlocksPerGroup, total - g * BlocksPerGroup})
MetaOf(g) == (g * BlocksPerGroup)..(g * BlocksPerGroup + MetaBlocks(Groups) - 1)
Metadata == UNION {MetaOf(g) : g \in 0..(Groups - 1)}

Nodes == job.nodes
Cap == LET plan == TargetBlocks(job.nodes, job.shared, job.compact, job.reserve, job.inputBlocks)
       IN Max({4 * job.inputBlocks, 2 * plan + CapSlack})

(* The allocator: the first free block at or after the cursor, if any.  *)
FreeFrom(b) == {x \in b..(total - 1) : x \notin used}

Free == FreeFrom(next)
FirstFree == Min(Free)

(* A mutant: an extent is as long as the free run.  *)
WholeRun(start, wanted) ==
    Max({n \in 1..wanted : \A x \in start..(start + n - 1) : x < total /\ x \notin used})

(* The longest run of free blocks from `start` that an extent can take.  *)
RunLength(start, wanted) ==
    Max({n \in 1..Min({wanted, MaxExtentLen}) :
             \A x \in start..(start + n - 1) : x < total /\ x \notin used})

(* A mutant: logical neighbours are merged wherever they lie.  *)
LogicalAfter(exts, l, physical) ==
    exts # <<>> /\ exts[Len(exts)][1] + exts[Len(exts)][3] = l

(* The block continues the file's last extent, in the file and on disk.  *)
Continues(exts, l, physical) ==
    /\ exts # <<>>
    /\ exts[Len(exts)][1] + exts[Len(exts)][3] = l
    /\ exts[Len(exts)][2] + exts[Len(exts)][3] = physical

WithBlock(exts, l, physical) ==
    IF Continues(exts, l, physical) THEN [exts EXCEPT ![Len(exts)][3] = @ + 1]
                                    ELSE Append(exts, <<l, physical, 1>>)

MaxExtents == RootFanout * TreeFanout

(* tree_count: none for a single extent.  *)
TreeCount(n) == IF n = 0 THEN 0 ELSE Ceil(n - 1, TreeFanout)

(* A mutant: the block given is not marked.  *)
GiveUnmarked(b) == used' = used /\ next' = b + 1

Give(b) == used' = used \cup {b} /\ next' = b + 1

(* "no free" in the error's text is what build_grown retries on.  *)
Fail(why) ==
    /\ pc' = "failed" /\ reason' = why
    /\ UNCHANGED <<job, total, attempt, used, next, node, logical, extents, trees, disk>>

-----------------------------------------------------------------------------
Init ==
    /\ job \in Jobs
    /\ pc = "layout" /\ reason = "none" /\ attempt = 1
    /\ total = TargetBlocks(job.nodes, job.shared, job.compact, job.reserve, job.inputBlocks)
    /\ used = {} /\ next = 0 /\ node = 1 /\ logical = 0
    /\ extents = <<>> /\ trees = <<>> /\ disk = <<>>

(* The output is truncated and every group's metadata set aside; a last    *)
(* group too short for its metadata ends the rebuild.                      *)
LayoutGroups ==
    /\ pc = "layout"
    /\ IF \E g \in 0..(Groups - 1) : MetaBlocks(Groups) > GroupBlocks(g)
       THEN Fail("no_room")
       ELSE /\ used' = Metadata /\ next' = 0
            /\ extents' = [i \in DOMAIN Nodes |-> <<>>]
            /\ trees' = [i \in DOMAIN Nodes |-> <<>>]
            /\ disk' = [b \in 0..(total - 1) |-> Zero]
            /\ pc' = "place" /\ node' = 1 /\ logical' = 0
            /\ UNCHANGED <<job, reason, total, attempt>>

Placing == pc = "place" /\ node <= Len(Nodes)
NodeHasMore == TakesBlocks(Nodes[node]) /\ logical < Len(Nodes[node].data)
Content == Nodes[node].data[logical + 1]
AtLimit == Len(extents[node]) >= MaxExtents

(* A mutant: the hash decides alone.  *)
HashedTwins == {b \in used \ Metadata : /\ Content # Zero /\ disk[b] # Zero
                                         /\ Hash[disk[b]] = Hash[Content]}

(* find_or_insert_shared_block's candidates: what files were given so far  *)
(* and holds the same content, verified byte for byte.                     *)
Twins == {b \in used \ Metadata : disk[b] = Content}

Advance(n) ==
    /\ logical' = logical + n
    /\ UNCHANGED <<job, pc, reason, total, attempt, node, trees>>

(* A block of zeros stays a hole while the file may have more extents.  *)
SkipHole ==
    /\ Placing /\ NodeHasMore /\ Shares(job.shared, Nodes[node])
    /\ Content = Zero /\ ~AtLimit
    /\ Advance(1)
    /\ UNCHANGED <<used, next, extents, disk>>

Hole == Content = Zero /\ ~AtLimit

(* The block's content is on the image already.  *)
ShareBlock ==
    /\ Placing /\ NodeHasMore /\ Shares(job.shared, Nodes[node])
    /\ ~Hole /\ ~AtLimit /\ Twins # {}
    /\ extents' = [extents EXCEPT ![node] = WithBlock(@, logical, Min(Twins))]
    /\ Advance(1)
    /\ UNCHANGED <<used, next, disk>>

(* A new block, written at once; at the limit always, so that it may merge.*)
PlaceShared ==
    /\ Placing /\ NodeHasMore /\ Shares(job.shared, Nodes[node])
    /\ ~Hole /\ (AtLimit \/ Twins = {})
    /\ IF Free = {} THEN Fail("no_free")
       ELSE /\ Give(FirstFree)
            /\ disk' = [disk EXCEPT ![FirstFree] = Content]
            /\ extents' = [extents EXCEPT ![node] = WithBlock(@, logical, FirstFree)]
            /\ Advance(1)

(* Without sharing, and for directories: the longest free run.  *)
PlaceRun ==
    /\ Placing /\ NodeHasMore /\ ~Shares(job.shared, Nodes[node])
    /\ IF Free = {} THEN Fail("no_free")
       ELSE LET n == RunLength(FirstFree, Len(Nodes[node].data) - logical)
            IN /\ used' = used \cup (FirstFree..(FirstFree + n - 1))
               /\ next' = FirstFree + n
               /\ extents' = [extents EXCEPT ![node] = Append(@, <<logical, FirstFree, n>>)]
               /\ Advance(n)
               /\ UNCHANGED disk

PlaceNext ==
    /\ Placing /\ ~NodeHasMore
    /\ node' = node + 1 /\ logical' = 0
    /\ UNCHANGED <<job, pc, reason, total, attempt, used, next, extents, trees, disk>>

PlaceDone ==
    /\ pc = "place" /\ node > Len(Nodes)
    /\ pc' = "trees" /\ node' = 1
    /\ UNCHANGED <<job, reason, total, attempt, used, next, logical, extents, trees, disk>>

GrowTree ==
    /\ pc = "trees" /\ node <= Len(Nodes)
    /\ Len(trees[node]) < TreeCount(Len(extents[node])) \/ Len(extents[node]) > MaxExtents
    /\ CASE Len(extents[node]) > MaxExtents -> Fail("too_deep")
         [] Len(extents[node]) <= MaxExtents /\ Free = {} -> Fail("no_free")
         [] OTHER -> /\ Give(FirstFree)
                     /\ trees' = [trees EXCEPT ![node] = Append(@, FirstFree)]
                     /\ UNCHANGED <<job, pc, reason, total, attempt, node, logical,
                                    extents, disk>>

TreeNext ==
    /\ pc = "trees" /\ node <= Len(Nodes)
    /\ Len(extents[node]) <= MaxExtents
    /\ Len(trees[node]) = TreeCount(Len(extents[node]))
    /\ node' = node + 1
    /\ UNCHANGED <<job, pc, reason, total, attempt, used, next, logical, extents, trees, disk>>

TreeDone ==
    /\ pc = "trees" /\ node > Len(Nodes)
    /\ pc' = "write" /\ node' = 1
    /\ UNCHANGED <<job, reason, total, attempt, used, next, logical, extents, trees, disk>>

(* write_inode into the table of the node's group, which must exist, and   *)
(* the data of directories and of files that are not shared.               *)
WriteNode ==
    /\ pc = "write" /\ node <= Len(Nodes)
    /\ disk' = IF Shares(job.shared, Nodes[node]) THEN disk
               ELSE [b \in DOMAIN disk |->
                        LET hit == {j \in DOMAIN extents[node] :
                                        /\ extents[node][j][2] <= b
                                        /\ b < extents[node][j][2] + extents[node][j][3]}
                            ext == extents[node][Max(hit)]
                        IN IF hit = {} THEN disk[b]
                           ELSE Nodes[node].data[ext[1] + (b - ext[2]) + 1]]
    /\ node' = node + 1
    /\ UNCHANGED <<job, pc, reason, total, attempt, used, next, logical, extents, trees>>

WriteDone ==
    /\ pc = "write" /\ node > Len(Nodes)
    /\ pc' = "done"
    /\ UNCHANGED <<job, reason, total, attempt, used, next, node, logical, extents, trees, disk>>

CanGrow == reason = "no_free" /\ total < Cap /\ attempt < MaxAttempts

(* A mutant: the retry runs at the same size.  *)
SameSize == total

GrowTo == total + BlocksPerGroup

(* Out of space: one more group and again from the start.  *)
Grow ==
    /\ pc = "failed" /\ CanGrow
    /\ total' = GrowTo /\ attempt' = attempt + 1
    /\ pc' = "layout" /\ reason' = "none"
    /\ UNCHANGED <<job, used, next, node, logical, extents, trees, disk>>

(* The command has ended.  *)
Finished == (pc = "done" \/ (pc = "failed" /\ ~CanGrow)) /\ UNCHANGED vars

Next ==
    \/ LayoutGroups
    \/ SkipHole \/ ShareBlock \/ PlaceShared \/ PlaceRun \/ PlaceNext \/ PlaceDone
    \/ GrowTree \/ TreeNext \/ TreeDone
    \/ WriteNode \/ WriteDone
    \/ Grow \/ Finished

Spec == Init /\ [][Next]_vars

-----------------------------------------------------------------------------
(* The blocks of an extent.  *)
Span(ext) == ext[2]..(ext[2] + ext[3] - 1)

TypeOK ==
    /\ pc \in {"layout", "place", "trees", "write", "done", "failed"}
    /\ reason \in {"none", "no_free", "no_room", "too_deep"}
    /\ attempt \in 1..MaxAttempts /\ total \in Nat
    /\ next \in 0..total /\ node \in 1..(Len(Nodes) + 1) /\ logical \in Nat
    /\ used \subseteq 0..(total - 1)
    /\ \A i \in DOMAIN extents : \A j \in DOMAIN extents[i] :
           /\ extents[i][j][3] \in 1..BlocksPerGroup
           /\ ~Shares(job.shared, Nodes[i]) => extents[i][j][3] <= MaxExtentLen

(* The extents a reader finds: collect_extents over the inode itself or    *)
(* over its tree blocks, each of which holds TreeFanout extents in order.  *)
Reachable(i) ==
    IF trees[i] = <<>> THEN DOMAIN extents[i]
    ELSE {j \in DOMAIN extents[i] : j <= Len(trees[i]) * TreeFanout}

(* read_data: holes read as zeros.  *)
FileBlock(i, l) ==
    LET hit == {j \in Reachable(i) : extents[i][j][1] <= l /\ l < extents[i][j][1] + extents[i][j][3]}
    IN IF hit = {} THEN Zero
       ELSE disk[extents[i][Max(hit)][2] + l - extents[i][Max(hit)][1]]

(* A finished image gives every file and directory back block for block,   *)
(* whatever was shared, skipped as a hole or merged into an extent, and    *)
(* whatever a retry left behind of the round before.  Extents that the     *)
(* extent trees have no place for are the matter of OneLevelTreesHoldAll.  *)
FilesReadBack ==
    pc = "done" => \A i \in DOMAIN Nodes :
        TakesBlocks(Nodes[i]) /\ Reachable(i) = DOMAIN extents[i] =>
            \A l \in 0..(Len(Nodes[i].data) - 1) : FileBlock(i, l) = Nodes[i].data[l + 1]

(* The places that refer to a block: data and tree blocks.  *)
Referred == UNION {UNION {Span(extents[i][j]) : j \in DOMAIN extents[i]} : i \in DOMAIN extents}
TreeBlocks == UNION {{trees[i][j] : j \in DOMAIN trees[i]} : i \in DOMAIN trees}

(* Payloads go to fresh blocks (README.md:57): no metadata, no tree block, *)
(* and two nodes refer to one block only if both share and agree on it.    *)
BlocksHaveOneOwner ==
    pc \in {"place", "trees", "write", "done"} =>
        /\ Referred \cap Metadata = {} /\ TreeBlocks \cap (Metadata \cup Referred) = {}
        /\ \A i1, i2 \in DOMAIN extents : \A j1 \in DOMAIN extents[i1], j2 \in DOMAIN extents[i2] :
               <<i1, j1>> # <<i2, j2>> =>
                   \A b \in Span(extents[i1][j1]) \cap Span(extents[i2][j2]) :
                       /\ Shares(job.shared, Nodes[i1]) /\ Shares(job.shared, Nodes[i2])
                       /\ Nodes[i1].data[extents[i1][j1][1] + b - extents[i1][j1][2] + 1]
                          = Nodes[i2].data[extents[i2][j2][1] + b - extents[i2][j2][2] + 1]

(* The block bitmaps mark what is referred to and nothing else, which is   *)
(* what e2fsck compares (README.md:209).                                   *)
BitmapAgrees ==
    pc \in {"place", "trees", "write", "done"} => used = Metadata \cup Referred \cup TreeBlocks

(* Every inode number falls into a group that the image has: the writer    *)
(* indexes the groups' tables with it unchecked.                           *)
InodesFit ==
    pc = "write" => \A i \in DOMAIN Nodes : (Nid(i) - 1) \div InodesPerGroup < Groups

(* What a plan is made for: an image that spends no more on descriptors    *)
(* than it (a larger input may have a last group that adds a block of them *)
(* to every group), and trees of one block a node (its comment expects     *)
(* fresh runs to be long).                                                 *)
PlanBlocks == PlanTotal(job.nodes, job.shared /\ job.compact, job.reserve)
Foreseen == /\ DescriptorBlocks(Groups) = DescriptorBlocks(PlanBlocks \div BlocksPerGroup)
            /\ Cardinality(TreeBlocks) <= Len(Nodes)

(* The image that a plan makes has its margin, so that the loop that adds  *)
(* groups for it has not run out of rounds.                                *)
HasMargin(j) ==
    LET dedup == j.shared /\ j.compact
        groups == PlanTotal(j.nodes, dedup, j.reserve) \div BlocksPerGroup
    IN groups * BlocksPerGroup - Need(j.nodes, DataBlocks(j.nodes, dedup), groups)
           >= Margin(j.reserve)

(* Unless it was estimated from hashes, the plan is enough (its comment    *)
(* calls it the worst case): the first round never runs out of blocks.     *)
PlanSuffices ==
    reason = "no_free" /\ Foreseen => job.shared /\ job.compact

(* What --reserve-mb asks for is free, and a margin if it asks for none.   *)
ReserveIsFree ==
    pc = "done" /\ ~(job.shared /\ job.compact) /\ Foreseen =>
        total - Cardinality(used) >= Margin(job.reserve)

(* Growing converges (write/ext4.rs:374-375): whatever the plan overlooked, *)
(* build_grown never gives up for want of space.                           *)
GrowthConverges == pc = "failed" => CanGrow \/ reason # "no_free"

(* The only limit the writer names is a tree deeper than one level (its    *)
(* error at write/ext4.rs:774-776): below it every extent is in a tree     *)
(* block, or in the inode.                                                 *)
OneLevelTreesHoldAll ==
    pc = "done" => \A i \in DOMAIN extents : Reachable(i) = DOMAIN extents[i]

=============================================================================
