------------------------------ MODULE Converter ------------------------------
(***************************************************************************)
(* The converters (write/convert.rs): the tree of the source image is      *)
(* loaded, special files are dropped, and every file's content is fetched  *)
(* from the BlockSource and written out.  Where the blocks go is           *)
(* Ext4Build's and ErofsLayout's matter; here it is what arrives.  The     *)
(* copy is one pass: the rounds of the ext4 builder that run out of blocks *)
(* and start again are Ext4Build's too.                                    *)
(***************************************************************************)
EXTENDS BlockSources

CONSTANTS
    ChunkBytes,     \* 64 KiB: the buffer of the copying loops
    MaxExtent       \* blocks an extent of the new ext4 image has at most

ASSUME ChunkAssumption ==
    BlockBytes \in Nat \ {0} /\ ChunkBytes \in Nat \ {0} /\ MaxExtent \in Nat \ {0}

VARIABLES
    target,         \* "erofs" or "ext4"
    options,        \* those the converter honours: [shared, compress]
    convert,        \* its stage: "idle", "copy", "container" or "done"
    file,           \* the node being copied
    extent,         \* its extent being copied
    src_pos,        \* the place in the file
    extent_bytes,   \* bytes of the extent left
    remaining,      \* bytes of the file left
    out             \* for each node, the bytes written

converterVars == <<target, options, convert, file, extent, src_pos, extent_bytes, remaining, out>>

(* A mutant: only directories and regular files are kept.  *)
WithoutSymlinks(nodes) == SelectSeq(nodes, LAMBDA n : n.mode \in {"regular", "directory"})

(* Nothing but files, directories and symlinks has an encoding in EROFS.  *)
HasEncoding(n) == n.mode \in {"regular", "directory", "symlink"}
PruneSpecials(nodes) ==
    LET kept[k \in 0..Len(nodes)] ==
            IF k = 0 THEN <<>>
            ELSE IF HasEncoding(nodes[k]) THEN Append(kept[k - 1], nodes[k]) ELSE kept[k - 1]
    IN  kept[Len(nodes)]

(* Same filesystem: the container is converted (SparseContainer), the     *)
(* payload untouched; else the tree is loaded.                             *)
StartConversion(to, with) ==
    /\ convert = "idle"
    /\ target' = to /\ options' = with
    /\ IF to = image.fs
       THEN convert' = "container" /\ UNCHANGED tree
       ELSE /\ convert' = "copy"
            /\ tree' = IF to = "erofs" THEN PruneSpecials(image.nodes) ELSE image.nodes
    /\ file' = 0 /\ extent' = 0 /\ src_pos' = 0 /\ extent_bytes' = 0 /\ remaining' = 0
    /\ out' = <<>>
    /\ UNCHANGED image /\ UNCHANGED sourceVars

(* Which writer asks: the allocator of shared blocks and the cluster       *)
(* writer block by block, the others in chunks.                            *)
Grain == IF options.shared \/ (target = "erofs" /\ options.compress) THEN BlockBytes ELSE ChunkBytes

(* The file's extents in the new image, <<logical, length>> in blocks:     *)
(* runs of the allocator for the copy of plain ext4 files, else the whole. *)
NewExtents(node) ==
    LET blocks == (node.size + BlockBytes - 1) \div BlockBytes
        run == IF target = "ext4" /\ ~options.shared THEN MaxExtent ELSE blocks
    IN  IF blocks = 0 THEN <<>>
        ELSE [x \in 1..((blocks + run - 1) \div run) |->
                <<(x - 1) * run, Smaller(run, blocks - (x - 1) * run)>>]

(* Directories are serialised anew, and an inode holds a short symlink.  *)
Fetched(node) ==
    node.mode # "directory" /\ ~(target = "ext4" /\ node.mode = "symlink" /\ node.inline)

Copying == convert = "copy" /\ request = Nothing
FileDone == extent_bytes = 0 /\ (file > 0 => extent = Len(NewExtents(tree[file])))

NextFile ==
    /\ Copying /\ FileDone /\ file < Len(tree)
    /\ file' = file + 1
    /\ IF Fetched(tree[file + 1])
       THEN /\ out' = Append(out, <<>>)
            /\ extent' = 0 /\ remaining' = tree[file + 1].size
       ELSE /\ out' = Append(out, Content(tree[file + 1]))
            /\ extent' = Len(NewExtents(tree[file + 1])) /\ remaining' = 0
    /\ src_pos' = 0 /\ extent_bytes' = 0
    /\ UNCHANGED <<image, tree, target, options, convert>> /\ UNCHANGED sourceVars

NextExtent ==
    /\ Copying /\ file > 0 /\ extent_bytes = 0
    /\ extent < Len(NewExtents(tree[file]))
    /\ LET e == NewExtents(tree[file])[extent + 1]
       IN  /\ src_pos' = e[1] * BlockBytes
           /\ extent_bytes' = Smaller(e[2] * BlockBytes, remaining)
    /\ extent' = extent + 1
    /\ UNCHANGED <<image, tree, target, options, convert, file, remaining, out>> /\ UNCHANGED sourceVars

(* A chunk, never beyond the end of the file.  *)
AskChunk ==
    /\ Copying /\ file > 0 /\ extent_bytes > 0
    /\ request' = [node |-> tree[file], from |-> src_pos, len |-> Smaller(extent_bytes, Grain)]
    /\ UNCHANGED <<image, tree, buf, file_nid, segments, seg_idx, decoded_idx, decoded>>
    /\ UNCHANGED converterVars

Answered == request # Nothing /\ Len(buf) = request.len

Written(bytes, at, data) ==
    [k \in 1..(IF at + Len(data) > Len(bytes) THEN at + Len(data) ELSE Len(bytes)) |->
        IF at < k /\ k <= at + Len(data) THEN data[k - at]
        ELSE IF k <= Len(bytes) THEN bytes[k] ELSE Zero]

WriteChunk ==
    /\ convert = "copy" /\ Answered
    /\ out' = [out EXCEPT ![file] = Written(@, src_pos, buf)]
    /\ src_pos' = src_pos + request.len
    /\ extent_bytes' = extent_bytes - request.len
    /\ remaining' = remaining - request.len
    /\ request' = Nothing /\ buf' = <<>>
    /\ UNCHANGED <<image, tree, file_nid, segments, seg_idx, decoded_idx, decoded>>
    /\ UNCHANGED <<target, options, convert, file, extent>>

FinishConversion ==
    /\ \/ Copying /\ FileDone /\ file = Len(tree)
       \/ convert = "container"
    /\ convert' = "done"
    /\ UNCHANGED <<image, tree, target, options, file, extent, src_pos, extent_bytes, remaining, out>>
    /\ UNCHANGED sourceVars

ConverterInit ==
    /\ target = "none" /\ options = [shared |-> FALSE, compress |-> FALSE]
    /\ convert = "idle" /\ file = 0 /\ extent = 0 /\ src_pos = 0
    /\ extent_bytes = 0 /\ remaining = 0 /\ out = <<>>

ConverterStep ==
    \/ NextFile \/ NextExtent \/ AskChunk \/ WriteChunk \/ FinishConversion
    \/ ReadNodeBlock /\ UNCHANGED converterVars

-----------------------------------------------------------------------------
(* The content of a node of the tree: for ext4, without the marks.  *)
TreeContent(node) ==
    IF image.fs = "ext4" /\ node.kind = "file"
    THEN ReadPrefix([node EXCEPT !.extents = TreeExtents(node)], node.size)
    ELSE Content(node)

Service == INSTANCE BlockService
           WITH contents <- [n \in Range(image.nodes) |-> TreeContent(n)],
                answer <- IF Answered THEN buf ELSE Nothing
=============================================================================
