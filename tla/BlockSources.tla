---------------------------- MODULE BlockSources ----------------------------
(***************************************************************************)
(* The two BlockSources: ext4 images through their extents (Source,        *)
(* write/ext4.rs), which keeps nothing between calls, and EROFS images     *)
(* through ErofsBlockSource (write/convert.rs), which keeps the index of   *)
(* the file read last, its place in it, and the pcluster decoded last.     *)
(***************************************************************************)
EXTENDS Integers, Sequences, SequencesExt, FiniteSetsExt

CONSTANTS
    BlockBytes,     \* bytes of a block
    Images          \* the source images: [fs, nodes, dirs], the nodes in tree order

VARIABLES
    image,          \* the source image
    tree,           \* the nodes loaded from it
    request,        \* what the writer asks for: [node, from, len]
    buf,            \* the part of the answer that is there
    file_nid,       \* ErofsBlockSource: the file the index is of
    segments,       \* its segments
    seg_idx,        \* the segment read last
    decoded_idx,    \* the segment whose bytes are in `decoded`
    decoded

sourceVars == <<request, buf, file_nid, segments, seg_idx, decoded_idx, decoded>>

Nothing == <<>>
NoSegment == 0              \* usize::MAX: no segment is decoded

(* Directories: `image.dirs`, the entries of each, [name, dir, to].  *)
Root == 1
Entries(dir) == image.dirs[dir]
Dots == {<<".">>, <<".", ".">>}

(* The bytes of an image: those on disk, those a pcluster decodes to.  *)
Zero == <<"zero">>
Raw(address) == <<"raw", address>>
Decoded(physical, at) == <<"decoded", physical, at>>
Zeros(n) == [k \in 1..n |-> Zero]

Smaller(a, b) == IF a < b THEN a ELSE b

-----------------------------------------------------------------------------
(* The file as the read side finds it in the image.                        *)

InExtent(e, block) == e.logical <= block /\ block < e.logical + e.length

(* ext4's read_prefix: a buffer of zeros, over which every extent that is  *)
(* not marked unwritten is read.                                           *)
ReadPrefix(node, limit) ==
    [k \in 1..Smaller(node.size, limit) |->
        LET block == (k - 1) \div BlockBytes
            here == {x \in DOMAIN node.extents :
                        ~node.extents[x].unwritten /\ InExtent(node.extents[x], block)}
        IN  IF here = {} THEN Zero
            ELSE LET e == node.extents[Max(here)]
                 IN  Raw((e.physical + block - e.logical) * BlockBytes + ((k - 1) % BlockBytes))]

(* read_segment: stored bytes, or those the pcluster decodes to.  *)
SegmentBytes(s) ==
    [k \in 1..(s.end - s.start) |->
        IF s.kind = "plain" THEN Raw(s.physical * BlockBytes + k - 1)
                            ELSE Decoded(s.physical, k)]

(* A whole file: zeros where a malformed index has no segment.  *)
Content(node) ==
    [k \in 1..node.size |->
        IF node.layout = "compressed"
        THEN LET here == {x \in Range(node.segments) : x.start < k /\ k <= x.end}
             IN  IF here = {} THEN Zero
                 ELSE LET s == CHOOSE x \in here : TRUE IN SegmentBytes(s)[k - s.start]
        ELSE Raw(node.raw_block * BlockBytes + k - 1)]

FileContent(fs, node) ==
    IF fs = "ext4" /\ node.kind # "memory" THEN ReadPrefix(node, node.size) ELSE Content(node)

(* The tree of an ext4 image (tree_depth) keeps the extents, not their     *)
(* marks: an unwritten one reads as what its blocks hold.                  *)
TreeExtents(node) == [x \in DOMAIN node.extents |-> [node.extents[x] EXCEPT !.unwritten = FALSE]]

HasUnwritten(node) == node.kind = "file" /\ \E x \in DOMAIN node.extents : node.extents[x].unwritten

Asked == request.node
Pending == request # Nothing /\ Len(buf) < request.len
Pos == request.from + Len(buf)
Left == request.len - Len(buf)

KeepIndex == UNCHANGED <<image, tree, request, file_nid, segments, seg_idx, decoded_idx, decoded>>

(* Content kept in memory (slice_serve): symlinks that preload_symlinks    *)
(* read, and what ext4 keeps outside of extents.                           *)
SliceServe(data, from, len) ==
    [k \in 1..len |-> IF from + k <= Len(data) THEN data[from + k] ELSE Zero]

ServeMemory ==
    /\ Pending /\ Asked.kind = "memory"
    /\ buf' = SliceServe(Content(Asked), request.from, request.len)
    /\ KeepIndex

-----------------------------------------------------------------------------
(* ext4: block by block, the first extent that holds the block.            *)
ExtentByte(node, at) ==
    LET block == at \div BlockBytes
        extents == TreeExtents(node)
        here == {x \in DOMAIN extents : InExtent(extents[x], block)}
    IN  IF here = {} THEN Zero
        ELSE LET e == extents[Min(here)]
             IN  Raw((e.physical + block - e.logical) * BlockBytes + (at % BlockBytes))

ServeExtents ==
    /\ Pending /\ image.fs = "ext4" /\ Asked.kind = "file"
    /\ buf' = [k \in 1..request.len |-> ExtentByte(Asked, request.from + k - 1)]
    /\ KeepIndex

-----------------------------------------------------------------------------
(* EROFS.  Plain files are read in place, whatever lies behind their end;  *)
(* inline files through read_range, which stops at the end.                *)
ServePlain ==
    /\ Pending /\ image.fs = "erofs" /\ Asked.kind = "file" /\ Asked.layout = "plain"
    /\ buf' = [k \in 1..request.len |-> Raw(Asked.raw_block * BlockBytes + request.from + k - 1)]
    /\ KeepIndex

ServeInline ==
    /\ Pending /\ image.fs = "erofs" /\ Asked.kind = "file" /\ Asked.layout = "inline"
    /\ buf' = SliceServe(Content(Asked), request.from, request.len)
    /\ KeepIndex

Compressed == Pending /\ image.fs = "erofs" /\ Asked.kind = "file" /\ Asked.layout = "compressed"

(* A mutant: the index of the file is new, the decoded pcluster is not.  *)
LoadIndexOnly ==
    /\ Compressed /\ file_nid # Asked.nid
    /\ file_nid' = Asked.nid /\ segments' = Asked.segments /\ seg_idx' = 1
    /\ UNCHANGED <<image, tree, request, buf, decoded_idx, decoded>>

(* Another file than the last one: its index, from its first segment.  *)
LoadIndex ==
    /\ Compressed /\ file_nid # Asked.nid
    /\ file_nid' = Asked.nid /\ segments' = Asked.segments /\ seg_idx' = 1
    /\ decoded_idx' = NoSegment /\ decoded' = <<>>
    /\ UNCHANGED <<image, tree, request, buf>>

Serving == Compressed /\ file_nid = Asked.nid

(* A mutant: not over the segment that ends at the place.  *)
SegmentReaching(at) ==
    LET ahead == {s \in seg_idx..Len(segments) : segments[s].end >= at}
    IN  IF ahead = {} THEN Len(segments) + 1 ELSE Min(ahead)

(* The index moves on over the segments that end before the place.  *)
SegmentAt(at) ==
    LET ahead == {s \in seg_idx..Len(segments) : segments[s].end > at}
    IN  IF ahead = {} THEN Len(segments) + 1 ELSE Min(ahead)

Here == SegmentAt(Pos)
Found == Here <= Len(segments)
Span == Smaller(segments[Here].end - Pos, Left)

(* Behind the last segment: zeros, and the call returns.  *)
PastSegments ==
    /\ Serving /\ ~Found
    /\ buf' = buf \o Zeros(Left) /\ seg_idx' = Here
    /\ UNCHANGED <<image, tree, request, file_nid, segments, decoded_idx, decoded>>

InGap == Serving /\ Found /\ segments[Here].start > Pos

(* Before the segment: zeros up to it.  *)
FillGap ==
    /\ InGap
    /\ buf' = buf \o Zeros(Smaller(segments[Here].start - Pos, Left)) /\ seg_idx' = Here
    /\ UNCHANGED <<image, tree, request, file_nid, segments, decoded_idx, decoded>>

FromSegment(bytes) == SubSeq(bytes, Pos - segments[Here].start + 1, Pos - segments[Here].start + Span)

CopyStored ==
    /\ Serving /\ Found /\ ~InGap /\ segments[Here].kind = "plain"
    /\ buf' = buf \o FromSegment(SegmentBytes(segments[Here])) /\ seg_idx' = Here
    /\ UNCHANGED <<image, tree, request, file_nid, segments, decoded_idx, decoded>>

(* The segment is decoded unless it is the one decoded last.  *)
CopyDecoded ==
    /\ Serving /\ Found /\ ~InGap /\ segments[Here].kind = "head"
    /\ decoded' = IF decoded_idx = Here THEN decoded ELSE SegmentBytes(segments[Here])
    /\ decoded_idx' = Here /\ seg_idx' = Here
    /\ buf' = buf \o FromSegment(decoded')
    /\ UNCHANGED <<image, tree, request, file_nid, segments>>

ReadNodeBlock ==
    \/ ServeMemory \/ ServeExtents \/ ServePlain \/ ServeInline \/ LoadIndex
    \/ PastSegments \/ FillGap \/ CopyStored \/ CopyDecoded

SourceInit ==
    /\ image \in Images /\ tree = <<>>
    /\ request = Nothing /\ buf = <<>>
    /\ file_nid = 0 /\ segments = <<>> /\ seg_idx = 1
    /\ decoded_idx = NoSegment /\ decoded = <<>>
=============================================================================
