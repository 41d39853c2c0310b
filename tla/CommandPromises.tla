-------------------------- MODULE CommandPromises --------------------------
(***************************************************************************)
(* What the read and the write command must do, and where they do not.     *)
(***************************************************************************)
EXTENDS Commands

(* The adapters over the source image are a BlockSource: every range they  *)
(* are asked for comes back as the file has it, whatever was read before   *)
(* and is still cached (convert.rs, ErofsBlockSource).  But for two hard   *)
(* links in a row to a compressed file: see GapsAreMalformed.              *)
ImplementsBlockService == Service!Spec

(* The bytes kept decoded are those of the segment they are kept for, of   *)
(* the file whose index is loaded (`decoded_idx`, convert.rs): reusing     *)
(* them gives what decoding again would.                                   *)
DecodedIsCurrent == decoded_idx # NoSegment => decoded = SegmentBytes(segments[decoded_idx])

(* A conversion brings every regular file and symlink over with its bytes. *)
(* Except for unwritten extents, whose mark the tree of the ext4 source    *)
(* has lost (ext4.rs, tree_depth).                                         *)
ConvertedFilesReadBack ==
    (convert = "done" /\ target # image.fs) =>
        /\ {n \in Range(tree) : n.mode # "special"} = {n \in Range(image.nodes) : n.mode # "special"}
        /\ Len(out) = Len(tree)
        /\ \A i \in DOMAIN tree :
              \/ out[i] = FileContent(image.fs, tree[i])
              \/ image.fs = "ext4" /\ HasUnwritten(tree[i])

(* What the streaming reader gets wrong: zeros for a hole before an        *)
(* unwritten extent, or one beyond the end, are written twice.             *)
HoleBefore(node, x) ==
    LET e == node.extents[x]
    IN  e.logical > 0 /\ ~\E y \in DOMAIN node.extents :
            node.extents[y].logical + node.extents[y].length = e.logical
Doubles(node) ==
    \E x \in DOMAIN node.extents :
        /\ HoleBefore(node, x)
        /\ node.extents[x].unwritten \/ node.extents[x].logical * BlockBytes >= node.size

(* Segments of a well-formed index lie side by side and cover the file.    *)
Tiled(node) ==
    node.layout = "compressed" =>
        /\ node.segments # <<>>
        /\ node.segments[1].start = 0 /\ node.segments[Len(node.segments)].end = node.size
        /\ \A x \in 2..Len(node.segments) : node.segments[x].start = node.segments[x - 1].end

(* --cat writes what the reader of whole files returns, however the file   *)
(* is cut into extents, holes and unwritten runs (ext4 write_data), or     *)
(* into the segments of a well-formed index.                               *)
CatAgrees ==
    (read = "done" /\ cli.operation = "cat" /\ ~Doubles(CatNode) /\ Tiled(CatNode)) =>
        emitted = FileContent(image.fs, CatNode)

(* The documentation of write_data and of --cat: the bytes of the file.    *)
CatIsTheFile ==
    (read = "done" /\ cli.operation = "cat") => Len(emitted) = CatNode.size

(* The paths below a directory; they are no longer than there are          *)
(* directories.                                                            *)
Depth == Cardinality(DOMAIN image.dirs)

EntryNames == {e.name : e \in UNION {Range(Entries(d)) : d \in DOMAIN image.dirs}} \ Dots
NextLevel(level) == {Append(p, name) : p \in {q \in level : Resolve(q).dir /\ Resolve(q).to # 0},
                                       name \in EntryNames}
Below(path) ==
    LET level[k \in 0..Depth] == IF k = 0 THEN {path} ELSE NextLevel(level[k - 1])
    IN  {p \in UNION {level[k] : k \in 1..Depth} : Resolve(p).to # 0}

Starred(path) == "*" \in Range(path[Len(path)])

(* The documented forms of --find: the pattern before the image, or in     *)
(* --find=PATTERN, or none; then the image, which "-" stands for too       *)
(* (read/mod.rs, print_help), unless it comes with --stdin; then the path. *)
(* With --find=PATTERN the path may come before the image.  What stands    *)
(* for a path or a pattern must not be another image.                      *)
Documented(c) ==
    LET p == c.positional
        first == IF Bare(c) /\ c.pattern # None THEN 2 ELSE 1
        Follows(k) == /\ k <= Len(p) => p[k].is # "image"
                      /\ c.path = IF k <= Len(p) THEN p[k].path ELSE <<>>
    IN  /\ c.operations = <<"find">>
        /\ IF ~Bare(c) THEN c.inline.name = c.pattern /\ c.pattern # None
           ELSE IF c.pattern # None THEN p # <<>> /\ p[1].name = c.pattern /\ p[1].is # "image"
           ELSE c.stdin => p = <<>>
        /\ IF c.stdin THEN Follows(first)
           ELSE \/ /\ first <= Len(p) /\ p[first] = c.image
                   /\ c.image.is \in {"image", "stdin"} /\ Follows(first + 1)
                \/ /\ ~Bare(c) /\ Len(p) >= 2 /\ ~IsFile(p[1])
                   /\ p[2] = c.image /\ c.image.is = "image" /\ c.path = p[1].path

(* Two forms the code refuses.  "-" for the image, although documented, is *)
(* no file that parse_cli finds; and a pattern that is also the name of a  *)
(* file in the host's working directory is taken for the image.            *)
DashIsTheImage(c) == ~c.stdin /\ c.image.is = "stdin"
PatternIsAFile(c) == Bare(c) /\ c.pattern # None /\ ~c.stdin /\ IsFile(c.positional[1])

(* --find prints every path below the directory whose name fits the glob,  *)
(* and each once, in whichever documented form the arguments came, but for *)
(* the two that are refused; the matcher takes a star in a name for one of *)
(* the pattern's.  A special file may pass for a directory, an empty one.  *)
FindIsExact ==
    (read \in {"done", "error"} /\ call # None /\ Documented(call)) =>
        LET start == Resolve(call.path)
            wanted == {p \in Below(call.path) :
                          call.pattern = None \/ Glob(p[Len(p)], call.pattern)}
        IN  IF DashIsTheImage(call) \/ PatternIsAFile(call)
            THEN read = "error" /\ printed = <<>>
            ELSE IF start.to # 0 /\ start.dir
            THEN /\ read = "done"
                 /\ IsInjective(printed)
                 /\ {p \in Range(printed) : ~Starred(p)} = {p \in wanted : ~Starred(p)}
            ELSE /\ printed = <<>>
                 /\ read = "error" \/ PassesAsDirectory

(* A metadata option belongs to the action before it, else to the next     *)
(* file action; a later option of the same kind replaces it (parse_args,   *)
(* `pending` and action_metadata).                                         *)
IsAction(x) == args[x].opt \in FileActions \cup MetadataActions \cup {"remove"}
ActionsUpTo(x) == {y \in 1..x : IsAction(y)}
OwnerOf(x) ==
    IF ActionsUpTo(x) # {} THEN Cardinality(ActionsUpTo(x))
    ELSE LET next == {y \in DOMAIN args : args[y].opt \in FileActions}
         IN  IF next = {} THEN 0 ELSE Cardinality(ActionsUpTo(Min(next)))
MetadataReachesItsAction ==
    write = "done" =>
        \A x \in {y \in DOMAIN args : args[y].opt = "meta"} :
            \A j \in DOMAIN queue :
                x \in Range(queue[j].meta) <=>
                    /\ OwnerOf(x) = j
                    /\ ~\E y \in (x + 1)..Len(args) :
                           args[y].opt = "meta" /\ args[y].value = args[x].value /\ OwnerOf(y) = j

(* What the user asked of the writer: the options given, --compact with    *)
(* any removal, and without --compress lz4 for ext4 sources that become    *)
(* EROFS and for rebuilds of compressed ones (help, mod.rs).               *)
Output == IF (IF Converts THEN ToExt4 ELSE IsExt4) THEN "ext4" ELSE "erofs"
HasCompressed == \E x \in DOMAIN image.nodes : image.nodes[x].layout = "compressed"
DefaultAlgo(writer) ==
    IF Output = "ext4" \/ writer \notin {"rebuild", "convert"} THEN "unset"
    ELSE IF Converts \/ HasCompressed THEN "lz4" ELSE "none"
Wanted(writer, o) ==
    IF o = "compact" /\ "remove" \in Kinds THEN "yes"
    ELSE IF o = "compress" /\ ~Given(o) THEN DefaultAlgo(writer) ELSE config[o]

(* Documented to do nothing: shrinking EROFS images, which are minimal,    *)
(* and --compress none where nothing is compressed.                        *)
NoOp(o) ==
    \/ o = "compact" /\ Output = "erofs"
    \/ o = "compress" /\ Output = "ext4" /\ config.compress = "none"

(* Dropped without a word: a metadata patch copies the image as it is, and *)
(* so does a conversion to the same filesystem but for the container; the  *)
(* edits of EROFS images know of no shared blocks, and the fast paths keep *)
(* compressed files with --compress none; erofs_to_ext4 is not told to     *)
(* shrink.                                                                 *)
Dropped(writer, o) ==
    \/ writer = "patch" /\ o \in {"sparse", "shared", "compress"}
    \/ writer = "container" /\ o # "sparse"
    \/ writer \in {"rebuild", "append", "overlay"} /\ o = "shared"
    \/ writer \in {"append", "overlay"} /\ o = "compress" /\ config.compress = "none"
    \/ writer = "convert" /\ Output = "ext4" /\ o = "compact"

(* Whatever writer the mix of actions leads to, it was told of every       *)
(* option just what the user asked for, but for those that do nothing and  *)
(* those dropped.  Removals lead to a writer that shrinks.                 *)
Heard(writer, told) ==
    /\ \A o \in DOMAIN NoOptions \ {"convert"} :
          \/ told[o] = Wanted(writer, o)
          \/ told[o] = "unset" /\ (NoOp(o) \/ Dropped(writer, o))
    /\ "remove" \in Kinds => writer \in {"rebuild", "ext4"}

(* A write command that succeeds has honoured its options, and cleaned up  *)
(* the copy of its standard input (run, mod.rs).                           *)
OptionsAreHonoured == write = "done" => Heard(route.writer, route.told) /\ ~spool

(* --find is deeper below where it started than there are directories: it  *)
(* has met one in itself, and has no limit to stop it (read/mod.rs; the    *)
(* writers have one, TooDeep).                                             *)
GoesRound == read = "find" /\ Len(within) >= Len(cli.path) + Depth

(* Every command comes to an end, also those on images with a directory    *)
(* that lies in itself; but for --find when it meets one.                  *)
CommandEnds == <>(Ended \/ GoesRound)

(* "Gap before the segment: zeros (should not happen in well-formed        *)
(* images)" (convert.rs): the index cached is at or before the place asked *)
(* for.                                                                    *)
GapsAreMalformed == ~InGap
-----------------------------------------------------------------------------
(* The images for which a conversion keeps these promises: their nodes are *)
(* what the loaders make (a file has content on disk, as every regular     *)
(* file and no directory), extents do not overlap, segments follow one     *)
(* another, gaps or not, and hard links have one index.  And two compressed*)
(* files that are read one after the other are not links to one file of    *)
(* several segments (GapsAreMalformed).                                    *)
SourceSegment == [start : Nat, end : Nat, physical : Nat, kind : {"plain", "head"}]
SourceExtent == [logical : Nat, length : Nat, physical : Nat, unwritten : BOOLEAN]
SourceNode ==
    [mode : {"regular", "directory", "symlink", "special"}, kind : {"file", "memory"},
     nid : Nat \ {0}, size : Nat, inline : BOOLEAN, layout : {"plain", "inline", "compressed"},
     raw_block : Nat, segments : Seq(SourceSegment), extents : Seq(SourceExtent)]

OnDisk(node) == node.kind = "file" => node.mode = "regular" \/ (node.mode = "symlink" /\ ~node.inline)

ExtentsApart(node) ==
    \A x, y \in DOMAIN node.extents :
        x # y => \/ node.extents[x].logical + node.extents[x].length <= node.extents[y].logical
                 \/ node.extents[y].logical + node.extents[y].length <= node.extents[x].logical

SegmentsInOrder(node) ==
    /\ \A x \in DOMAIN node.segments : node.segments[x].start <= node.segments[x].end
    /\ \A x, y \in DOMAIN node.segments : x < y => node.segments[x].end <= node.segments[y].start

Indexed(node) == node.kind = "file" /\ node.layout = "compressed" /\ node.size > 0
OneSegment(node) == Len(node.segments) = 1 /\ node.size <= node.segments[1].end

LinksAgree(nodes) ==
    \A i, j \in DOMAIN nodes :
        Indexed(nodes[i]) /\ Indexed(nodes[j]) /\ nodes[i].nid = nodes[j].nid
            => nodes[i].segments = nodes[j].segments /\ nodes[i].size = nodes[j].size

LinksApart(nodes) ==
    \A i, j \in DOMAIN nodes :
        /\ i < j /\ Indexed(nodes[i]) /\ Indexed(nodes[j]) /\ nodes[i].nid = nodes[j].nid
        /\ \A k \in (i + 1)..(j - 1) : ~Indexed(nodes[k])
        => OneSegment(nodes[j])

WellFormed(source) ==
    /\ source.nodes \in Seq(SourceNode)
    /\ \A n \in Range(source.nodes) : OnDisk(n) /\ ExtentsApart(n) /\ SegmentsInOrder(n)
    /\ source.fs \in {"ext4", "erofs"}
    /\ LinksAgree(source.nodes) /\ LinksApart(source.nodes)

(* The images of which --cat is promised to write the bytes: their nodes   *)
(* are as above, an extent has a block, and the names in a directory lead  *)
(* to what the image has.                                                  *)
NamesLead(source) ==
    /\ Root \in DOMAIN source.dirs
    /\ \A d \in DOMAIN source.dirs :
          /\ source.dirs[d] \in Seq([name : Seq(STRING), dir : BOOLEAN, to : Nat])
          /\ \A x \in DOMAIN source.dirs[d] :
                source.dirs[d][x].to \in IF source.dirs[d][x].dir THEN DOMAIN source.dirs
                                                                ELSE DOMAIN source.nodes

Readable(source) ==
    /\ source.nodes \in Seq(SourceNode) /\ NamesLead(source)
    /\ \A n \in Range(source.nodes) :
          /\ ExtentsApart(n) /\ SegmentsInOrder(n)
          /\ \A x \in DOMAIN n.extents : n.extents[x].length > 0

(* The images of which --find is promised to print each path once: no      *)
(* directory has two entries of one name, or lies in itself, at any depth. *)
Walkable(source) ==
    /\ NamesLead(source) /\ IsFiniteSet(DOMAIN source.dirs)
    /\ 0 \notin DOMAIN source.dirs /\ 0 \notin DOMAIN source.nodes
    /\ \A d \in DOMAIN source.dirs :
          \A x, y \in DOMAIN source.dirs[d] :
              source.dirs[d][x].name = source.dirs[d][y].name => x = y
    /\ \E height \in [DOMAIN source.dirs -> 1..Cardinality(DOMAIN source.dirs)] :
          \A d \in DOMAIN source.dirs : \A x \in DOMAIN source.dirs[d] :
              LET e == source.dirs[d][x]
              IN  e.dir /\ e.name \notin Dots => height[e.to] < height[d]
=============================================================================
