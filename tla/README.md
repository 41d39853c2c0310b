# image-worker in TLA+

image-worker reads, edits (`write`) and converts Android system images: ext4
and EROFS filesystems, raw or wrapped in an Android sparse container. It runs
one command at a time and keeps nothing between commands but the images, so
what is hard about it is not concurrency. It is that every edit rewrites
on-disk structures that refer to one another, that four different EROFS writers
and one ext4 writer must agree on what a tree in memory means, that a long
sequence of legal commands works on images earlier commands wrote, and that any
command may stop half way. These modules model that: the command line that
picks a writer, the edits and the writers, block and slot allocation, compressed
indexes, the sparse encoders, the converters with their cached reads, and the
failures in between.

Line numbers refer to the repository: `mod.rs` is `src/write/mod.rs`, `ext4.rs`
is `src/write/ext4.rs`, `convert.rs` is `src/write/convert.rs`, `compress.rs`
is `src/fs/erofs/compress.rs`, `image.rs` is `src/core/image.rs`.

## The system

| Part | State | Operations | Interacts with |
|---|---|---|---|
| Edit tree (mod.rs 37-213, 368-662) | a tree of `Node`s: metadata, `payload`, `nid`, `original_nid`, `modified`, `content_changed`, `context_explicit` | add, copy, move, remove, mode/owner, context | made from the image by `Source::tree`, consumed by a writer |
| EROFS readers (fs/erofs) | none beyond the image | superblock, inode, directory, xattr, (de)compression | every command reads images through them |
| EROFS rebuild (mod.rs 222-367, 1488-2196) | NID counter, block cursor, xattr table | stride NIDs, place table, directories, payloads; plain or compressed | base image, edit tree |
| EROFS append (825-969) | one new inode behind the inode count, tail blocks | a queue of exactly one `--add` | falls back to the rebuild |
| EROFS overlay (1054-1468) | patches over the source, tail, `rewritten`, next NID | phases A (new files), B (replaced), C (directories), D (metadata) | falls back to the rebuild |
| Metadata patch (1003-1052) | patches over the source | mode and owner of each inode | |
| Sparse containers (image.rs 98-253, 380-563; mod.rs 710-823, 2198-2276) | chunk descriptors, output file, `.sparse_tmp` sibling | scan, header, emit, rename; parse and read | every writer's output, every reader's input |
| ext4 writer (ext4.rs) | `used` bitmap, cursor, extents, extent trees, shared-block index | plan, lay out groups, place, write, grow and retry | edit tree, `BlockSource`, sparse encoder |
| ext4 readers (fs/ext4) | none | superblock, inode, extents, directory, SELinux xattr | source of an ext4 rebuild |
| Converters (convert.rs) | a block source with a segment cache | EROFS to ext4 and back, container only | readers of one side, writer of the other |
| Compression (fs/erofs/compress.rs, mod.rs 1690-1829) | cluster batches | pack in parallel (order kept), encode the index, decode segments | EROFS rebuild, readers |
| Command line (main.rs, `parse_args` and `run` of mod.rs) | options, the action queue, metadata waiting for an action, the spool of standard input | dispatch, parse, choose a writer | every writer and converter |
| `read` (read/mod.rs), globbing (core/util.rs) | the stack of `--find`, the cursor of `--cat` | list, find, cat, info | readers |
| Error and buffer helpers | none | bounds-checked access | every reader |

What is hard, part by part (the full list, at its lines, is in
`PROJECT.json`):

- *Where do a node's bytes come from?* Five fields of a node answer that, and
  each writer asks different ones.
- *Which NIDs are free?* An image numbered by `mkfs` and one numbered by the
  rebuild with strides differ in what the inode count says about it.
- *Stale comparisons:* directory membership against a snapshot of names, a
  block against a buffer that has been overwritten.
- *Footprints:* the stride reserved for an inode and the bytes later written
  for it are computed in different places, next to a superblock in the middle
  of the inode area.
- *Estimates against allocators:* the ext4 plan counts by other rules than the
  allocator places by, and must be right or be retried.
- *Caches:* the block source of a conversion keeps an index, a place in it and
  a decoded segment between calls.
- *Two encodings of one thing:* a compressed index says where a cluster lies
  both by its anchors and by the chain of segments, and each reader trusts one.
- *Which options reach which writer:* it depends on the mix of actions, on what
  the image holds, and on whether an earlier writer gave up.
- *Stopping:* an error or a kill between any two writes of a container.

What makes each part correct: a run's output holds exactly the tree the actions
describe (edit tree, EROFS writers); no two structures share space they do not
mean to share (layouts, ext4 blocks); bitmaps, extents and trees agree (ext4);
what a container gives back is the image it was made from, or an error (sparse);
every range of a file comes back as the file has it, whatever was read before
(compressed indexes, block sources, `--cat`); and a command that succeeds has
honoured its options (command line).

## Modules

    ErofsGeometry --- ErofsLayout --- MCErofsLayout
         |                 \--------- ErofsLayoutProofs
         +-- ErofsGeometryProofs -----/
         |
         +-- ErofsImage -- EditTree -- ErofsWriters -- ErofsEdit -- ErofsPromises -- MCErofsEdit
    ImagePaths --/                                                    |  (refinement)
         \---- ImageEdit ---------------------------------------------/
    SparseScan --- SparseContainer --- MCSparseContainer
                        \------------- SparseContainerProofs
    Ext4Plan --- Ext4Build --- MCExt4Build
                      \------- Ext4BuildProofs
    ErofsGeometry, ClusterIndex --- ClusterStream --- ClusterPromises --- MCClusters
                                     ErofsGeometryProofs ---\-- ClusterProofs
    BlockService (abstract) --------\ (refinement)
    BlockSources --+-- Converter ----+-- WriteCommand --\
    Glob ----------+-- ReadCommand -----------------------+-- Commands -- CommandPromises
                                                                 MCCommands --/    \-- CommandsProofs -- ConversionProofs

A line leads from a module to those that extend it. `OrderFacts` has the lemmas
that `SparseContainerProofs`, `Ext4BuildProofs`, `ClusterProofs` and
`CommandsProofs` share.

Each module names its mutants where it defines them: an operator whose comment
begins "A mutant" is a plausible wrong form of the definition that follows it.
They are no part of the specification; they show that a property can fail.

### EROFS layout

`ErofsGeometry` has the arithmetic of slots: 32-byte NID slots, the superblock
at `SbFirst..SbEnd-1`, the slots an inode takes with a context and a compressed
index (`inode_slots`), and the bytes actually written for it. `ErofsLayout` is
the allocation half of `rebuild` and `rebuild_compressed` as a state machine
with one action for each loop turn: `SkipSlot` (one turn of `skip_superblock`),
`PlaceInode`, `CloseInodeRegion` (round up, put the xattr table), `PlaceBlocks`
(one node of the directory or file loop) and `NextPhase`. `list` is the tree in
preorder, `next` the NID counter, `alloc` the block cursor.

### EROFS editing

`ImagePaths` is trees as functions from paths: subtree, prune, graft, preorder.
`ErofsImage` is an image as a function from slots to cells (superblock, inode,
xattr area, payload, directory), and the readers over it: a payload can be read
only if its block is intact, a context only if the area and the table are. This
is what lets a writer that puts an inode in the wrong place damage something.
`EditTree` is `Node` and `apply_action`. `ErofsWriters` is the four writers as
operators from (source image, edited tree) to the output. `ErofsEdit` is the
command: `Open`, one action for each kind of queue entry, and one for each
branch of the dispatch at the end of `run` (`WriteMetadata`, `WriteRebuild`,
`WriteAppend`, `WriteOverlay`, the latter two with the fallback to the
rebuild). The output of a run is the input of the next.

`ImageEdit` is the abstract specification: a tree, a working copy, the actions,
commit and abort. `ErofsPromises` maps the detailed program to it (`fs` is what
a reader of the image sees, `work` what the tree in memory promises) and says
for each writer how much of the promise it keeps.

### Sparse containers

`SparseScan` is the pass that turns blocks into chunk runs: `OpenRun` and
`ExtendRun`, with the strict rule of `scan_sparse_runs` and the loose one of
`write_patched_sparse` and `convert_raw_to_sparse`. A block is zero, a pattern
(one 32-bit word repeated) or a texture. `SparseContainer` has the routes that
write a file, each as the order of its steps:

| route | code | steps | rule |
|---|---|---|---|
| `in_place` | `sparsify_file_in_place` | create the sibling with a placeholder header, scan, emit, patch the header, rename | strict |
| `rebuilt` | `convert_raw_to_sparse` | scan, create the sibling, header, emit, rename | loose |
| `stream` | `convert_container` | scan, create the output, header, emit | strict |
| `patched` | `write_patched_image` | create the output, scan, header, emit | loose |

Chunk headers and payload blocks are written one step at a time, `Stop` may
come between any two, nothing is cleaned up (as in the code), and `Rerun` starts
over on what is left. The reader (`Opens`, `ReadAt`, `Contents`) is
`SparseImage::parse`, which seeks over payloads without looking at them, and
`read_at`, which does look.

### ext4

`Ext4Plan` is the geometry and `plan_total_blocks`: data blocks (by hash where
the image is compacted and shares blocks), one tree block a node, metadata of
every group, the fixed point on the number of groups, the margin and the
reserve. `Ext4Build` is `rebuild_generic`, `build_grown` and
`rebuild_groups_to`: `LayoutGroups`; `SkipHole`, `ShareBlock`, `PlaceShared`
(one block of a file that shares) or `PlaceRun` (one extent of anything else);
`GrowTree` (one extent-tree block); `WriteNode`; and `Grow`, which adds a group
and starts over. `PlaceNext`, `TreeNext` and the like move the loops on.
`FileBlock` is the reader: `collect_extents` over the trees as they were
written, then `read_data`.

### Compressed files

`ClusterIndex` is the compact index as operators: what `pack_pair` may make of
two clusters (the codec is the set of its outcomes: the pair pays off jointly,
or each cluster does or does not alone), `EncodePclusters` into packs of two
16-bit entries and an anchor, `CompactEntries` and `Segments` back. Entries are
read as the code reads them, out of a 32-bit word into which the next entry or
the anchor reaches. `ClusterStream` is the payload phase: `StartFile` writes the
map header, `WriteBatch` packs one batch and writes packs and blocks, then come
`EndFile` and `CheckReservations`. The code carries the last cluster of an odd
batch over to the next one, and so does the model, but batches are whole pairs
and it never comes to that (`NothingIsCarriedOver`). `meta`
is the inode area in units of 8 bytes, with the NIDs and the reservations of
`ErofsGeometry`, so an index that is too long lands on a neighbour. The readers
are `ReadStreaming`, `ReadRange` and `ReadWhole`.

### Commands

`BlockService` is the abstract `BlockSource`: asked for a range, it answers with
the bytes the file has there. `BlockSources` is the two implementations: ext4
by extents, without memory, and `ErofsBlockSource` with `file_nid`, `segments`,
`seg_idx` and `decoded`, one action for each branch of the loop of
`read_node_block`. `Converter` drives them as `copy_extents` and the writers do,
in chunks or blocks: `NextFile`, `NextExtent`, `AskChunk`, `WriteChunk`. Reading
a file whole, as `read` does, is `FileContent` over the same images.

`ReadCommand` is `parse_cli` (`Positionals`: which argument is what, for
`--stdin`, `--find`, `--find=PATTERN` and `-`; `BadArguments`: what is refused),
`find_path`, `--info`, `--ls`, `--find` (`VisitDirectory` pops a directory, `FindEntry` takes one entry
of it: what is left of the directory is `listing`) and `--cat` (one extent a step
for ext4; the code sorts them, so the step takes the first in the file of those
left). A call comes with what is meant by it, so that a property can ask whether
it was understood. `Glob` is `matches_pattern`: `Advance` is one round of its loop, over a
`Place` of its four variables, and `MatchesPattern` follows the rounds to where
they stop. Beside it stands what a glob means, `Glob`: some way to cut the name
into one piece for each character of the pattern.

`WriteCommand` is `parse_args`, one argument a step (`TakeOption`,
`TakeFileAction`, `TakeOtherAction`, `TakeMetadata`, where `held` is `pending`
of the code), and the dispatch of `run` with what each writer is told of every
option (`route`): `Only` the options it has a parameter for, with the defaults
that `run` puts in.
What the writers then do is `ErofsEdit`'s and `Ext4Build`'s. Whether an append
or an overlay gives up depends on the image, so here either may happen.
`Commands` composes it all into one invocation; `CommandPromises` says what it
must do.

## Runs

| run | instance | what it shows |
|---|---|---|
| `layout_small` | every preorder list of up to 4 nodes of 8 shapes (directories of one and two blocks, empty, plain, compressed with an index that fits the second slot and one that does not; with and without context), with and without a table, superblock in slots 3-4 | no two footprints, tables, directories or payloads overlap; writes stay inside reserved slots; the region covers them; the skip loop stops at the first clear slot; the loops end |
| `edit_packed` | 2 images, 4 paths, a file and a directory from the host, runs of 2 and 1 actions, explicit compression | the program implements `ImageEdit` |
| `edit_routes` | the same, with empty and standard input too, `--compress` not given or `none` | every writer on its own terms, the second run on what the first left |
| `edit_host_bytes` | expected violation | an overlay loses host bytes put over a file of the image |
| `sparse_writers` | every image of up to 4 blocks over 5 blocks (zero, 2 patterns, 2 textures), RAW limit 2, all routes | strict routes restore the image; in-place routes never lose it; a cut container is refused |
| `sparse_loose` | expected violation | a FILL chunk swallows blocks of another word |
| `ext4_rebuild` | groups of 9 blocks, 5 or 6 of them metadata, 2 inodes a group; one file of every content of up to 3 blocks over {zero, a, b} with every companion, files of 6 ragged blocks, one of 15 different blocks, pairs of files that fill up a plan; shared or not, compact or not, reserve 0 or 6, input of 0, 30, 34 or 63 blocks; all hashes collide | files read back, blocks have one owner, the bitmap agrees, inodes fit, plan and reserve suffice, growth converges |
| `ext4_trees` | expected violation | a file with one extent more than its tree blocks hold loses it |
| `clusters_stream` | two files of up to 7 clusters, the last one short or full, with and without a context, every outcome of packing, batches of two pairs | the index leads every reader to every byte; anchors lead to their blocks; no index leaves its reservation |
| `commands` | EROFS images with segments cut in 4 ways, hard links, plain, inline and special nodes, indexes that begin late; ext4 images with holes, unwritten extents and extents past the end; of each kind one with a directory that lies in itself; every documented form of read arguments over 6 paths and 6 globs, and undocumented ones; every write call of up to 3 actions and metadata options, and of options with actions or conversions | conversions and `--cat` bring the bytes, the cache implements `BlockService`, `--find` is exact but for two refused forms, every option given is told to the writer but for those named as dropped, metadata arrives, the command ends but for `--find` in a cycle (173,728 states) |
| `convert_links` | expected violation | the second hard link to a compressed file is converted to zeros |
| `read_cat` | expected violation | `--cat` writes more than the file has |

### Why the bounds are enough

*Layout.* The stride depends on the tree only through the shapes, and the
superblock in the middle of a small region is met by every shape at every
offset. Four nodes give every pair of neighbours before and after the skip. The
theorems below remove the bound for all safety properties.

*Editing.* The defects need two actions, or two runs; the runs allow three
actions in total. Names are compared within a directory, so two
directories and up to two names in each distinguish everything the writers
look at. Both source images matter: `PlainImage` has room in a plain directory
(append in place), `MixedImage` has inline directories, a packed file and
contexts. The slot in front of the first block is the superblock, so that NIDs
of a rebuild start below it as in the code. `Paths` bounds what trees exist: an
action that would leave it is not taken.

*Sparse.* Four blocks hold every pair of neighbouring runs and a RAW run that
reaches, meets and passes the limit. The theorems cover images of any length.

*ext4.* Four blocks are left of each group, one of them for the root directory in the
first, so that files of more than three blocks, and most with companions, cross
a group; two extents to a tree block and two tree blocks to an inode
make files with no, one and two tree blocks, at the limit of extents and past
it; with all hashes equal the plan of a compacted image is too small and
growing takes more than one round; 30 blocks leave a last group without room
for its metadata. 16 rounds of growth are bounded by 4 here, which makes
`GrowthConverges` stronger.

*Compressed files.* Blocks have 4 KiB as in the code, because the widths of
entries depend on it. A batch has two pairs, four clusters, so that seven
clusters are a full batch and one that ends in half a pair; fewer end on every
other remainder; the second file shows whether the first one's index or blocks run over. Slots of 128 to a block with
the superblock in 32..35 put an inode before and behind it. Each pair's outcome
is chosen freely, so no codec can do what was not tried.

*Commands.* A block has 2 bytes and a chunk two blocks, so that segments end
within blocks, chunks within segments and files within either; files of 5 to 8
bytes have up to three segments and a chunk that meets four blocks. The file
visited between two links of one inode makes the cache change hands and come
back. The images of the passing run have no two links in a row to a file of
several segments, which is the matter of `convert_links`. Three arguments reach
a metadata option before, after and between two actions, and every mix of two
actions the dispatch tells apart; the calls with an option take one more. An
image has three or four directories, so that a tree of more than `TreeDepth`, 4,
levels (512 in the code) is one with a cycle, as it would be there. `--find` has
no limit in the code; `WalkBound`, 6, is the model's, and lies beyond every path
of an image without cycles and beyond where `GoesRound` is reached. Globs
of up to four characters over names of up to three have stars that must give
back what they took.

### Deadlock and fairness

The runs of the sparse, ext4, cluster and command modules check for deadlock:
the only stuttering step is `Finished`, taken when the command has ended (or
when `--find` in a cycle has come to the model's bound), so that their loops
cannot get stuck anywhere else. The others say
`CHECK_DEADLOCK FALSE`: the layout ends, and a command line that is not given
another command stops.

Fairness is stated twice. `WF_vars(Next)` in `ErofsLayout`: the loops are plain
sequential code that takes its next turn; `Terminates` needs it.
`WF_vars(Proceed)` in `Commands`: the process is alone and runs on; that a read
of the source fails (`Fails`) is possible but nothing makes it happen.
`CommandEnds` needs it. Elsewhere nothing is promised to happen: a user may
stop, and a process may be killed.

## What the properties say

Layout: `InodesDisjoint`, `WritesStayInFootprint` (what `data_off`, map header
and index really write, against the reserved slots, and the superblock),
`InodesInRegion`, `PayloadsDisjoint`, `LayoutComplete`, `SkipIsFirstClear`,
`Terminates`.

Editing: `ImplementsImageEdit` is refinement: with explicit compression every
output is exactly the promised tree. The other writers fall short of that, and
the properties say exactly where, so that any other loss would be found:
`RebuildAndPatchKeepPromise` (always, but for a hard link under a patch),
`PlainRebuildLosesOnlyChangedFiles`, `AppendKeepsPromise`,
`OverlayKeepsPromise`, and `ParentEntriesFollow` for `..`. The exceptions are
named predicates of `ErofsPromises` (`NidsTaken`, `HostBytesOverImageFile`,
`SameNamesOtherInodes`, `FreshFileReplaced`, `ExplicitContextInherited`), each
of which stands for a defect described below.

Sparse: `RunsTile`, `RunsRestore`, `RawRunsStayShort` (the scan);
`StrictRoutesRestore`, `RawImageIsThereUntilTheRename`,
`CutContainersAreRefused` (the files).

ext4: `FilesReadBack`, `BlocksHaveOneOwner` (shared blocks only where both
files share and agree on the content), `BitmapAgrees`, `InodesFit`,
`PlanSuffices`, `ReserveIsFree`, `GrowthConverges`. `FilesReadBack` leaves out
files that lose an extent by the miscount of tree blocks, which is the matter
of `OneLevelTreesHoldAll`. `PlanSuffices` and `ReserveIsFree` leave out
compacted images with shared blocks, whose plan trusts hashes, and images that
are not as `Foreseen`: with more descriptor blocks than the plan has (see
below), or with more tree blocks than nodes, which takes files of more than 341
extents.

Compressed files: `FilesReadBack` (all three readers, for ranges at and across
block boundaries), `AnchorsLead`, `ReservationsHold`. The readers here follow
the chain of segments and would not notice a wrong anchor but the first; the
kernel resolves each entry from its own, which is why `AnchorsLead` is a
property of its own.

Commands: `ImplementsBlockService` is refinement: however calls are interleaved,
the cached source is a `BlockService`. `ConvertedFilesReadBack` is about the
outcome: every file arrives, with its bytes as the read command would print
them, but for unwritten extents. `CatAgrees` holds two readers of the same file
against each other and names where they differ (`Doubles`, and indexes whose
segments do not cover the file, `Tiled`). `FindIsExact` compares the walk with
the set of paths below the directory, without using the matcher or the stack,
for every call in a `Documented` form: the pattern before the image, in
`--find=PATTERN`, or none; the image by name, as `-`, or through `--stdin`; the
path behind it or, with `--find=PATTERN`, before it. Two of the forms are
refused by the code, and the property says so (`DashIsTheImage`,
`PatternIsAFile`).

`OptionsAreHonoured` holds what the writer was told of each option against what
the user asked for, `Wanted`: the option as given, `--compact` with a removal,
the default codec of the help. It allows for options that are documented to do
nothing (`NoOp`) and names the others that do not arrive (`Dropped`); without
any one of its lines the run finds a call that loses the option. Besides,
removals lead to a writer that shrinks, and the spool is gone.

`OptionsAreHonoured` and `MetadataReachesItsAction` are stated over the command
line, not over the parser's state; the same holds of `FindIsExact`, whose start
and pattern are the call's and not what `parse_cli` made of it.

`CommandEnds` is liveness, for cyclic images too. The loop of `read_node_block`
could fail it, and the walk of `--find` does: its exception, `GoesRound`, is a
search that is deeper below its start than the image has directories, which only
a directory in itself allows. `<>Ended` alone is violated by those images.

## Disagreements the runs show

Each has a run in which TLC finds the violation.

1. `edit_host_bytes`: `insert_path` lets host bytes inherit the origin of the
   file they replace, so the overlay (mod.rs 1302-1324) takes them for bytes of
   the image and points the inode at block 0.
2. `sparse_loose`: `buffer[..4] == buffer[..4]` (776; the test is missing at
   2222) lets a FILL chunk take in blocks of other words, and of zeros.
3. `ext4_trees`: the number of tree blocks is computed from the extents minus
   one (ext4.rs 778), one short at 341, 681 and 1021 extents.
4. `convert_links`: the cached index is checked by the nid only (convert.rs
   126), so a second hard link in a row starts at the end of the index and is
   filled with zeros. The same would befall the first file of a second round of
   the ext4 builder with shared blocks, which reads while it places.
5. `read_cat`: `write_data` (fs/ext4/inode.rs 246-267) counts a hole twice when
   an unwritten extent follows it, and writes zeros up to an extent beyond the
   end of the file.

Each of these is a named exception of a property in `edit_routes`; without the
exception the run finds the loss:

- The inode count is used as the next free NID (847, 1439); a rebuild numbers
  inodes 1..count and beyond, so the next run's new inode lies on an old one,
  or on the superblock (`NidsTaken`).
- `overlay_dirs` (1361) compares sorted names only (`SameNamesOtherInodes`).
- `emit_raw_file` (2184) writes a modified file from memory, where a file of
  the image has nothing (`PlainRebuildLosesOnlyChangedFiles`).

Met while reading or proving, without a run of their own:

- The plan takes the reserve out of the groups it plans, but an input that is
  larger is kept at its size (ext4.rs 355). If its last group is short and is
  the first of a new descriptor block (with blocks of 4 KiB the 129th, 257th,
  ...), each group gives up a block that nobody planned, and the reserve is not
  all free although "the output additionally guarantees that much" (337).
  `Foreseen` leaves these images out.
- The append writes the replaced file's or grown parent's inode afresh without
  its xattr count (890-900, 944-953), and adds a host directory without its
  children (`AppendKeepsPromise` excludes both).
- A file without an inode that is replaced before it gets one is patched from
  the zeros of the source (`FreshFileReplaced`); an inherited explicit context
  loses its mark (472-476, `ExplicitContextInherited`); `..` of a moved
  directory stays (`ParentEntriesFollow`).
- Options that are accepted and dropped without a word (`Dropped`): a queue of
  metadata actions only, which is patched, ignores `--compress`,
  `--shared-blocks`, `--sparse-output` and `-` as output (2954-2969); every edit
  of an EROFS image ignores `--shared-blocks` (2906-3021), although conversions
  to EROFS refuse it; the append and the overlay keep compressed files with
  `--compress none`; a conversion to ext4 ignores `--compact` (`run_converted`,
  ext4.rs 317, passes `false` on); a conversion to the same filesystem ignores all but
  `--sparse-output` (convert.rs 36-39), although the help has `--shared-blocks`
  and `--reserve-mb` apply to ext4 targets as usual.
- A metadata option that no action follows is dropped, and the copy of standard
  input stays behind when the command fails early.
- `-` for the image, documented in the usage (read/mod.rs 420, main.rs 20,
  README.md 116 and 121), is refused as no file (read/mod.rs 532); `--stdin` is
  the form that works (`DashIsTheImage`).
- `--find PATTERN image` takes the pattern for the image when the working
  directory has a file of that name (read/mod.rs 494), as a plain name like
  `fstab.zuma` of the help may (`PatternIsAFile`).
- "Maximum directory recursion depth: 512 levels (protects against cyclic
  references)" (README.md 70): the writers have the limit (mod.rs 163, ext4.rs
  127), `--find` has none (read/mod.rs 116-147, 301-327) and goes round until
  memory runs out (`GoesRound`).
- `--ls` and `--cat` test one bit of the mode (read/mod.rs 95, 113, 150, 330), so
  that a block device or a socket is an empty directory to them
  (`PassesAsDirectory`).
- The end-of-index check of `ext4_to_erofs_compressed` (convert.rs 731) compares
  where indexes start, since `index_off` is never written back.
- `encode_pclusters` puts the kind of an entry at bit 12 whatever the block
  size, while the reader takes it from bit 13 and up for blocks of 8 KiB and
  more (compress.rs 88, 680).
- `--find / image` takes `/` for the pattern; the matcher lets a literal `*` in
  a name match any character of the pattern's star (`FindIsExact` leaves such
  names out).
- `lost+found` is carried over by conversions although the help says it is
  dropped.
- The mode of stdin input has no file type (575).
- ext4 with 1 KiB blocks: the superblock lies in block 1, where the descriptors
  are written (ext4.rs 650), and readers look for them in block 2. 340 entries
  do not fit a tree block below 4 KiB (1175).
- A last group without room for its metadata is not retried, although one more
  group would do (655, 396).
- Unwritten extents of an ext4 source are read as data by a rebuild (158), an
  exception of `ConvertedFilesReadBack`.
- CRC32 chunks have no blocks and are rejected (image.rs 139), though the help
  lists them. An interrupted run leaves its `.sparse_tmp` or spool file; an
  interrupted raw output looks like a smaller image.

## What is proved

All proofs are checked by TLAPS with the SMT solver, Zenon and LS4. The
constants are arbitrary but for the named assumptions of the modules that
declare them, which TLC checks in the runs.

### Layout

`ErofsLayoutProofs`, for every block size, superblock position, set of trees
and table sizes (`GeometryAssumption`, `LayoutAssumption`): `LayoutTypes`,
`InodesNeverOverlap`, `WritesNeverStray`, `RegionHoldsInodes`,
`PayloadsNeverOverlap`, `LayoutIsComplete`, `SkipsToTheFirstClearSlot`. None of
these is inductive. `IInv` adds `Progress` (how many NIDs have been given in
each phase), `InodesBelowNext` (every footprint ends at or below the counter:
that is why the next one is disjoint), `RegionClosed` (what was fixed when the
region was closed), `PayloadNodes` (which nodes have blocks already) and
`PayloadsBelowAlloc` (the same argument for the block cursor). The proof has a
lemma for each action. Three facts about the arithmetic, in
`ErofsGeometryProofs`, carry it: bounds of rounding up, that every footprint has
a slot, and that a footprint covers what is written (`FootprintCoversWrites`). The skip loop needs `PassedAreBlocked`
besides: every position it has left behind was blocked; a clear position with
only blocked ones before it is the closed form that the property states.

### Sparse containers

The scan, in `SparseContainerProofs`, for images of any length, over any disjoint
sets of blocks and any limit, under the strict rule (`ScanSpec`): `ScanRestores`, `ScanTiles`,
`ScanKeepsRawRunsShort`. `ScanIInv` is the conjunction of types and the three
properties with the ends of all runs below the scan's head; merging is sound
because a block's kind and word determine it where it is not RAW (`KindTells`).
For the loose rule the theorem is false, as `sparse_loose` shows.

The containers, for all routes, with stops and reruns anywhere
(`BoundAssumption`: there is some bound on the length of an image, whichever):
`ContainerTypes`, `StrictWritersRestore`, `InPlaceKeepsTheImage`,
`CutContainersNeverMislead`. None of them is inductive, since they speak of what
a reader gets at the end or after a stop. `IInv` says what there is at every
step: `TargetHasChunks`, that the file under way has the header that goes with
the step and the chunks of a prefix of the runs, the last one possibly in part;
and `OtherFiles`, what is at the other path, in terms that do not mention the
runs, so that they outlive the run that wrote it. From there on the argument is
about the reader: a container of all runs opens and serves every block
(`Emitted`, `WholeChunks`), and one that is cut, or whose header has no counts,
fails at the latest at the block that is missing.

### ext4

`Ext4BuildProofs`, for every job, geometry, hash and number of rounds (`GeometryAssumption`, `FanoutAssumption`, `JobsAssumption`):
`Ext4Types`, `BlocksNeverClash` (`BlocksHaveOneOwner`), `BitmapIsExact`,
`InodesAlwaysFit`, `FilesAlwaysReadBack`, `PlanIsEnough`, `ReserveStaysFree`.
That a finished image reads back says
nothing about the rounds before, so `IInv` follows the allocator:

- `Marked`: the bitmap covers the metadata, the tree blocks and what extents
  map, and nothing else; the three are apart. A fresh block is free, hence
  nobody's.
- `Alone`: a block of a node that does not share is nobody else's.
- `Contents` and `FreeIsBlank`: a shared block is written when it is given, the
  others at the end, and what was not given is blank. A directory's block is
  therefore blank while files look for twins, and no later write changes a
  shared block.
- `Covered`: of the blocks handled so far each is mapped, or is a hole.
- `Shape` and `Planned`: extents are in order and do not overlap; the groups of
  the plan, to which growing only adds, have the inodes. `FixedPointFitsInodes`
  shows that the loop of the plan never ends below the groups the inodes need,
  for which one round is enough (`FixRounds`).

`PlacesKeeps` treats the three ways of giving blocks at once. That two owners of
a block agree on its content, and that a reader finds an extent's block, both
follow from the relation `Maps` between a file's blocks and the image's.

`PlanIsEnough` (`PlanSuffices`) and `ReserveStaysFree` (`ReserveIsFree`) hold the
plan against the allocator. The plan is a sum over the nodes, the bitmap a set;
they meet in the number of blocks. `UnionsAreBounded` compares the sum, as the
fold of the model computes it, with a union of sets; by `Maps` a node takes no
more blocks than it has (`ExtentsAreCounted`), so that what is taken is at most
the metadata, the data and the tree blocks (`UsedIsCounted`).
`MoreGroupsLeaveMore` is the arithmetic of an input larger than the plan: as
every group has room for its metadata, further groups of the same metadata leave
no less. `RoomInvariant` adds that the plan fits into every round and that the
cursor has passed only blocks that are taken, so that the allocator gives up only
when the whole image is (`FreeUnlessFull`). Both theorems suppose that the jobs'
plans have their margin (`HasMargin`), which TLC checks of the runs' jobs: the
loop that adds groups for it ends after 1024 rounds, and whether that is enough
depends on the geometry. `PlanIsEnough` also supposes groups of at least four
blocks, a quarter of which is a block; those of ext4 have thousands. A first
attempt without `Foreseen` failed where the input adds a group, which is how the
exception was found.

### Compressed files

`ClusterProofs`, for any number of files of any size, any batch size and every
outcome of the codec (`GeometryAssumption`, `BlockBitsAssumption`,
`StreamAssumption`): `FilesAlwaysReadBack` (`FilesReadBack`), `AnchorsAlwaysLead`
(`AnchorsLead`), `ReservationsAlwaysHold` (`ReservationsHold`) and
`NothingIsCarriedOver`, that only the last batch of a file can be odd. The last
two are for any block size. The first two suppose blocks of 4 KiB, `BlockBits =
12`, because only there do writer and reader put the kind of an entry at the
same bit (see above).

The code lays inodes out with the length an index will have, before anything is
packed, and compares afterwards (mod.rs 222, 2028). The property is not
inductive, as it does not say where the next pack goes. `StreamInvariant` is:

- `Streaming`: the place in the index is that of the map header and one unit for
  each pair of clusters read. It holds because a batch that is not the last of
  its file is whole pairs (`BatchesAreWhole`, `PairsGrow`), and because whatever
  the codec makes of a pair, it has one entry for each cluster
  (`PackingsKeepClusters`, from `FlattenAppend`).
- `IndexesEnd`: a finished index ends exactly where its reservation does, so
  that nothing is wasted either.
- `BodiesStand` and `HeadersStand`: inodes, and the headers of files begun, are
  what they were written as. A pack lands between the header and the end of the
  reservation of its own file, and reservations are apart: NIDs follow one
  another by whole footprints, also across the superblock (`NidsFollow`,
  `InodesApart`), and a footprint covers what is written, which is the same
  `FootprintCoversWrites` that carries the layout.

That an index leads its readers to the file takes a second invariant, about
what packs and blocks say once they are written (`IndexInvariant`, with
`StreamInvariant`):

- `PacksStand`: every pack written so far leads to blocks below the cursor that
  hold its clusters: one head for both, or each for itself, or the one that is
  left. A batch reads its clusters in pairs, so a pack is exactly one pair of
  the codec (`PackingsKeepClusters`, `PackOfAPair`); no later batch writes its
  unit or its blocks (`PackStays`, `EarlierPacksApart`).
- `PacksFollow` and `LastPackEnds`: the blocks of a pack begin where those of
  the pack before end, and the last ones end at the cursor. Within a file this
  is all that lets a reader count blocks instead of looking them up, and it
  holds across batches only because nothing is written between them.

Decoding is then about words and arithmetic: `DecodedWords` reads each entry
back out of its neighbours, `EntriesStand` says what entry an index has for
every cluster, which is `AnchorsLead`. For the chain of segments
(`SegmentsStand`) the cursor of `segments()` is shown to be, after every entry,
the block the anchor of the next one names; so the two ways of finding a block
agree. The segments tile the file (`HeadsFollow`, `EndsOfSegments`), and pieces
cut from tiles yield any range of it (`PiecesYield`), for every offset and
length and not only for those the run tries.

### Commands

`CommandsProofs`, for every command line and every image. (`WriteCallsAssumption`
and `ReadCallsAssumption` say that arguments are finite lists.)

`WritersAreTold` is `OptionsAreHonoured`. Alone it is not inductive: it speaks of
the end, and an append or an overlay ends two steps after it was chosen.
`WriteInvariant` adds `StagesAreSelected`: whatever stage is waiting to write was
reached with the conditions that select it. One lemma for each way to a writer
(`RebuildIsTold`, `FastPathIsTold`, `PatchIsTold`, `ConversionIsTold`,
`Ext4IsTold`) shows of every option that the writer has `Heard` of it, or that
it is one that does nothing there or is named as dropped.

`MetadataIsNeverMisplaced` is `MetadataReachesItsAction`. The property compares
the queue with the whole command line, so the invariant has to say it of a part:
`OwnMetadata`, an argument read so far is in the metadata of an action exactly
if it is the last of its kind that this action owns so far; and `HeldBack`, what
stands before every action is held exactly until the first file action comes. The
owner of an argument is a position among all actions, hence the count of
actions (`CountFacts`) in `ParseInvariant`.

`DecodedStaysCurrent`: the bytes kept decoded are those of the segment they are
kept for, so that reusing them is sound even where the place in the index is
stale.

`MatcherIsGlob`: for every pattern and every name without a star, the matcher
says what `Glob` says. The matcher goes back to the last star only, and never to
an earlier one, so the invariant of its rounds (`Hopeful`) is about what that
gives away: if any cut of the whole name exists, then one exists for the rest
from where the scan stands, or one in which the last star reaches further. What
makes it true is that a star takes any number of characters (`FitsPast`): a cut
that an earlier star could still give, the later star can give as well. That the
loop stops at all is a measure that every round lowers (`RoundsEnd`), and that
its end is where the recursive function of the module leads is `LoopsEnd`. With
a star in the name the theorem fails, and so does the code: a star of the
pattern is then taken for that character.

`FindPrintsThePaths` is `FindIsExact`, for every image of which `Walkable` holds
(the names of a directory are distinct and lead to what the image has, and no
directory lies in itself at any depth) and every call in a `Documented` form,
about which nothing is supposed; the two forms that are refused are shown to be
refused. `MCCommands` has TLC check that its images are `Walkable`, the cyclic
ones excepted. The argument has
three parts. `BelowIs` turns the set of paths that the property speaks of, built
level by level, into one told by the names of a path (`Descends`); a path has no
more names than there are directories (`NotTooLong`), since every directory on
the way is lower than the one before. `FindInvariant` says how far a search is:
while it goes on, `Searching`, what is printed is exactly what is sought and not
still `Ahead`, that is, strictly below a pending directory or at or below an
entry of the listing. A step must not lose or repeat anything: that a pushed
entry takes its subtree from the listing to the stack and only its own path is
settled is `AheadAfter`, and it needs `Apart`, that no pending directory lies at,
above or below another one or a listed entry; else one subtree would be printed
twice. `DocumentedIsUnderstood` is `parse_cli`: of each documented form it makes the
image, the path and the pattern that were meant, but for the two refused ones.

`ConversionProofs`, for blocks, chunks and extents of any size
(`ChunkAssumption`): `ConversionsKeepTheFiles` (`ConvertedFilesReadBack`) and
`SourcesAreABlockService` (`ImplementsBlockService`, the refinement, step by
step). `ConversionInvariant` is about a conversion half way:

- `FilesArrive` and `PlaceInFile`: the files before this one are complete, of
  this one there is all before the place of the copy, and the place is where
  the extents of the new file say.
- `AnswerIsRight`: a request lies within the extent, and what has been put into
  its answer is what the file has there.
- `CacheIsRight`: the index loaded is that of the compressed file read last, and
  the place in it is never ahead of the place in the file. This is what the
  code leaves to the order of calls: the cursor only moves forward, and is reset
  only when the nid changes.

Both theorems suppose `SourcesAreWellFormed`: nodes are of the types the
loaders produce, extents do not overlap, segments are in order (gaps between
them are allowed), hard links to an inode have one index and one size, and no
two compressed files that are read in a row are links to one file of several
segments. The last is what `convert_links` shows to be needed. `MCCommands` has
TLC check (`SomeImagesAreWellFormed`) that all images of the passing run meet
it, those with late and gapped indexes included, and that one of
`convert_links` does not.

`CatWritesTheFile` is `CatAgrees`, for images of which `Readable` holds: nodes
as above, extents of at least one block, and directories whose entries lead to
what the image has; `MCCommands` has TLC check it of all images too. The
inductive invariant is `CatInvariant`, and its heart `Catting`: while extents
are left, what was written is the file up to the cursor; the extents left begin
at or behind the cursor, and all others end before it. So an extent begins where
the gap before it ends, and no byte between two extents is any extent's
(`ExtentIsTheFile`, `BytesOfExtents`). That is where the writer of zeros for an
unwritten extent, which counts from the old cursor, needs `~Doubles`: without
it the step is not to be proved, as `read_cat` shows. A compressed file is
written at once, and is the file because tiles in order, put one after another,
are what they tile (`TilesAreTheFile`). That there is a node at all is
`PathsLead` (`CommandsProofs`): whatever path is given, `find_path` stays among
the places of the image.

### Lemmas

`OrderFacts` has the induction the proofs need: `LeastElement`, that a set of
naturals has a least element, so that a property that fails fails first
somewhere; `LoopHasValues`, that a recursive function over the rounds of a loop
is defined and has the type of its rounds; `LoopsEnd`, that a recursive function
that follows a step to where it stops is defined, if each step is nearer to the
end; `ProductsGrow`; and `FlattenAppend`,
that `FlattenSeq` of a longer sequence is that of the shorter one with the new
part behind it, which gives the length of what a fold computes. The library's own
induction theorems take an operator as parameter and cannot be used.

### What stays with TLC

- *Everything about editing* (`ErofsEdit`, its `TypeOK` and its refinement of
  `ImageEdit`): trees and images are built with `:>`, `@@` and folds over
  sequences, which `tlapm` does not translate; its values are what a fold over
  a tree computes.
- `GrowthConverges`: a plan made from hashes may be short by any number of
  blocks, and that 16 rounds of one more group make up for it is not true of
  every hash, only of the ones that rarely collide.
- `Terminates` and `CommandEnds`: liveness under fairness is out of the
  prover's reach.

## Abstractions

- Mode bits, uid and gid are one value `perm`; the type is kept apart.
- The bytes of a file are one value, a payload is one block or one inline slot.
  The layout module has payloads of many blocks, the edit modules do not.
- Inodes are compact; extended inodes, times and link counts are left out, and
  contexts are always in the shared table.
- Directory entries are a function from names to NIDs; a directory's length
  counts entries.
- An image is loaded only if its superblock is whole and everything named in it
  can be read (`Loads`).
- Sparse blocks are values of three kinds, and a FILL word stands for its
  block. Writes reach the disk in order: a process that stops is modelled, a
  power failure is not (the code never syncs).
- ext4 nodes are a preorder list with the content of each block, a directory's
  content is one value. Superblock, descriptor and xattr bytes are left out,
  and the inode bitmap with them.
- The hash index is modelled by what it finds: any earlier shared block of the
  same content, since candidates are compared byte for byte. Where several hold
  it the first is taken.
- A conversion is one pass over the files: a round of the ext4 builder that runs
  out of blocks and starts again is modelled in `Ext4Build`, not together with
  the cache of the block source. Where the new blocks lie is left to the layout
  modules. Block sources answer for the bytes of the file; the zeros with which
  a last block is filled up are left out.
- Source files are given by the leaves of their extent tree or the segments of
  their index. Images with an index that begins late, or an extent past the end
  of the file, are among them; images that make a reader fail are not, and a
  failing read is the action `ConversionFails`.
- Block devices and sockets are not told from other special files, so a special
  file may pass for a directory or not.
- An argument is known by whether the host has a file of its name, and whether
  that file is an image; which image, does not matter, as a command reads one.
- `--context` alone could be a read option or metadata without an action: it is
  left to the read command and not enumerated as a bare call. A reserve of 0 is
  no reserve.
- Extents of files that share blocks merge without limit, as in ext4.rs 718-721;
  that an extent is written with 16 bits of its length (1188-1192) is left out. A
  group of 4 KiB blocks, whose metadata no extent crosses, has 32768 of them.
- The arguments of options are given as parsed. What a codec makes of a cluster
  is one of the possible outcomes, not bytes.
- The cap on growth leaves out the 32-bit limit on blocks, and planning leaves
  out the cap of two million hashes.

## Not modelled, and the plan

Modelled so far, in the order in which it was planned: layout, editing and its
writers, sparse containers, ext4 planning and building, compressed files,
converters, the read command and globbing, the command line. Next:

1. *Run lifecycle*: partial outputs, an output that is the input, what is left
   behind by each failing step.
2. *Indexes of mkfs.erofs*: full, 2-byte and big-pcluster indexes, which this
   program reads and never writes.
3. *ext4 readers*: directories of several blocks, SELinux attributes, block maps.
4. *Composition* of the ext4 builder's retries with the block source's cache.
5. *Proofs*: that `Prune` and `Graft` keep trees well formed, as lemmas for the
   types of `ErofsEdit`.

Left out for good: the layout of listings and reports, the help text, error and
buffer helpers, and the build script. They keep no state that outlives a call.
