---------------------------- MODULE ReadCommand ----------------------------
(***************************************************************************)
(* The read command (read/mod.rs): parse_cli makes out which argument is   *)
(* the image, the path and the pattern; --find walks the directories with  *)
(* a stack, --cat streams a file, --ls lists a directory.                  *)
(***************************************************************************)
EXTENDS BlockSources, Glob

CONSTANTS
    ReadCalls,      \* [operations, inline, also, stdin, positional, and what is
                    \* meant by them: image, path, pattern]: `inline` is the
                    \* argument in --find=PATTERN, `also` what else is asked for
    WalkBound       \* the deepest path --find is followed to: the code has no limit

(* An argument: `is` is "image" or "file" for what the host has as a file, *)
(* "stdin" for "-", else "text"; and what it says as a path or a pattern.  *)
ReadArg == [is : {"image", "file", "stdin", "text"}, path : Seq(Seq(STRING)), name : Seq(STRING)]

None == <<>>

ASSUME ReadCallsAssumption ==
    /\ WalkBound \in Nat
    /\ \A c \in ReadCalls : c.positional \in Seq(ReadArg) /\ c.inline \in {None} \cup ReadArg

VARIABLES
    call,           \* the arguments of the read command
    read,           \* its stage: "idle", "parsed", "find", "cat", "done", "error"
    cli,            \* what parse_cli made of them: [operation, also, image,
                    \* path, pattern]
    pending,        \* find: directories to visit, [dir, path]
    listing,        \* find: the entries left of the directory being visited
    within,         \* find: its path
    printed,        \* the paths and names printed
    unread,         \* cat: the extents left
    cursor,         \* cat: the end of what was passed so far
    emitted         \* cat: the bytes written

findVars == <<pending, listing, within>>
readVars == <<call, read, cli, findVars, printed, unread, cursor, emitted>>

ImageArg == [is |-> "image", path |-> <<>>, name |-> <<>>]
StdinArg == [is |-> "stdin", path |-> <<<<"-">>>>, name |-> <<"-">>]

At(positional, k) == IF k <= Len(positional) THEN positional[k] ELSE None
IsFile(arg) == arg # None /\ arg.is \in {"image", "file"}

(* --find, and the pattern, if any, is the first positional argument.      *)
Bare(c) == c.operations # <<>> /\ c.operations[1] = "find" /\ c.inline = None

(* The image, the path and the pattern.  A bare --find takes what comes    *)
(* before the image for the pattern; else the image may also come second.  *)
Positionals(c) ==
    LET p == c.positional
    IN  IF c.stdin
        THEN IF Bare(c) /\ p # <<>>
             THEN <<StdinArg, At(p, 2), p[1]>>
             ELSE <<StdinArg, At(p, 1), c.inline>>
        ELSE IF Bare(c) /\ Len(p) >= 2 /\ ~IsFile(p[1])
        THEN <<p[2], At(p, 3), p[1]>>
        ELSE IF Len(p) >= 2 /\ ~IsFile(p[1]) /\ IsFile(p[2])
        THEN <<p[2], p[1], c.inline>>
        ELSE <<At(p, 1), At(p, 2), c.inline>>

(* Two operations, an empty pattern, no image, none that is a file, "-"    *)
(* among them, or one that does not open as an image.                      *)
BadArguments(c, opened) ==
    \/ Len(c.operations) > 1
    \/ c.inline # None /\ c.inline.name = <<>>
    \/ opened = None
    \/ ~c.stdin /\ opened.is # "image"

Operation(c) ==
    IF c.operations # <<>> THEN c.operations[1]
    ELSE IF "info" \in c.also THEN "info" ELSE "list"

Stop(stage) ==
    /\ read' = stage
    /\ UNCHANGED <<call, cli, findVars, printed, unread, cursor, emitted>>

ParseCli ==
    /\ read = "idle"
    /\ \E c \in ReadCalls :
         LET parsed == Positionals(c)
         IN  /\ call' = c
             /\ cli' = [operation |-> Operation(c), also |-> c.also,
                        image |-> parsed[1], pattern |-> parsed[3],
                        path |-> IF parsed[2] = None THEN <<>> ELSE parsed[2].path]
             /\ read' = IF BadArguments(c, parsed[1]) THEN "error" ELSE "parsed"
    /\ UNCHANGED <<findVars, printed, unread, cursor, emitted>>

-----------------------------------------------------------------------------
(* find_path: the first entry of the name, component by component; 0 when  *)
(* there is none.  What it leads to is a directory or a node.              *)
Resolve(path) ==
    LET walk[k \in 0..Len(path)] ==
            IF k = 0 THEN [dir |-> TRUE, to |-> Root]
            ELSE LET before == walk[k - 1]
                     here == IF before.to = 0 \/ ~before.dir THEN {}
                             ELSE {x \in DOMAIN Entries(before.to) :
                                      Entries(before.to)[x].name = path[k]}
                 IN  IF here = {} THEN [dir |-> FALSE, to |-> 0]
                     ELSE LET e == Entries(before.to)[Min(here)]
                          IN  [dir |-> e.dir, to |-> e.to]
    IN  walk[Len(path)]

Target == Resolve(cli.path)
Asks(operation) == read = "parsed" /\ cli.operation = operation

(* The directory bit is set in the modes of block devices and sockets too: *)
(* they pass for directories without entries.                              *)
PassesAsDirectory == Target.to # 0 /\ ~Target.dir /\ image.nodes[Target.to].mode = "special"

(* --info alone prints nothing of the tree.  *)
Info == Asks("info") /\ Stop("done")

RefuseTarget ==
    /\ read = "parsed" /\ cli.operation \in {"list", "find"}
    /\ Target.to = 0 \/ ~Target.dir
    /\ Stop("error")

ListNothing ==
    /\ read = "parsed" /\ cli.operation \in {"list", "find"}
    /\ PassesAsDirectory
    /\ Stop("done")

List ==
    /\ Asks("list") /\ Target.to # 0 /\ Target.dir
    /\ printed' = [k \in DOMAIN SelectSeq(Entries(Target.to), LAMBDA e : e.name \notin Dots) |->
                      <<SelectSeq(Entries(Target.to), LAMBDA e : e.name \notin Dots)[k].name>>]
    /\ read' = "done"
    /\ UNCHANGED <<call, cli, findVars, unread, cursor, emitted>>

StartFind ==
    /\ Asks("find") /\ Target.to # 0 /\ Target.dir
    /\ pending' = <<[dir |-> Target.to, path |-> cli.path]>>
    /\ read' = "find"
    /\ UNCHANGED <<call, cli, listing, within, printed, unread, cursor, emitted>>

Selected(e) == cli.pattern = None \/ MatchesPattern(e.name, cli.pattern.name)

(* The directory pushed last is visited, however deep it lies (but for the *)
(* model's bound) ...                                                      *)
VisitDirectory ==
    /\ read = "find" /\ listing = <<>> /\ pending # <<>>
    /\ Len(pending[Len(pending)].path) <= WalkBound
    /\ LET at == pending[Len(pending)]
       IN  listing' = Entries(at.dir) /\ within' = at.path
    /\ pending' = SubSeq(pending, 1, Len(pending) - 1)
    /\ UNCHANGED <<call, read, cli, printed, unread, cursor, emitted>>

(* ... entry by entry: one that matches is printed, a directory pushed.    *)
FindEntry ==
    /\ read = "find" /\ listing # <<>>
    /\ LET e == Head(listing)
           path == Append(within, e.name)
           real == e.name \notin Dots
       IN  /\ printed' = IF real /\ Selected(e) THEN Append(printed, path) ELSE printed
           /\ pending' = IF real /\ e.dir THEN Append(pending, [dir |-> e.to, path |-> path]) ELSE pending
    /\ listing' = Tail(listing)
    /\ UNCHANGED <<call, read, cli, within, unread, cursor, emitted>>

EndFind == read = "find" /\ listing = <<>> /\ pending = <<>> /\ Stop("done")

-----------------------------------------------------------------------------
(* --cat.  Files of EROFS images are streamed, the compressed ones segment *)
(* after segment; what ext4 keeps in the inode is written at once.         *)
ReadDataStreaming(node) ==
    IF node.layout = "compressed"
    THEN FlattenSeq([x \in DOMAIN node.segments |-> SegmentBytes(node.segments[x])])
    ELSE Content(node)

CatNode == image.nodes[Target.to]

RefuseCat ==
    /\ Asks("cat")
    /\ cli.also # {} \/ Target.to = 0 \/ Target.dir \/ PassesAsDirectory
    /\ Stop("error")

StartCat ==
    /\ Asks("cat") /\ cli.also = {} /\ Target.to # 0 /\ ~Target.dir
    /\ IF image.fs = "ext4" /\ CatNode.kind = "file" /\ CatNode.size > 0
       THEN /\ unread' = Range(CatNode.extents)
            /\ cursor' = 0 /\ read' = "cat"
            /\ UNCHANGED emitted
       ELSE /\ emitted' = ReadDataStreaming(CatNode) /\ read' = "done"
            /\ UNCHANGED <<unread, cursor>>
    /\ UNCHANGED <<call, cli, findVars, printed>>

Larger(a, b) == IF a > b THEN a ELSE b

(* A mutant: the last extent is written to its end.  *)
WholeExtent(e) == (e.logical + e.length) * BlockBytes

(* Where an extent ends, in the file.  *)
EndOfExtent(e) == Smaller((e.logical + e.length) * BlockBytes, CatNode.size)
CursorAfter(e) == Larger(cursor, EndOfExtent(e))

(* One extent: zeros up to its start, then its bytes, or, when it is       *)
(* unwritten or beyond the end, zeros from the cursor to its end.          *)
Gap(e) == Zeros(IF e.logical * BlockBytes > cursor THEN e.logical * BlockBytes - cursor ELSE 0)

ExtentBytes(e) ==
    LET start == e.logical * BlockBytes
        end == EndOfExtent(e)
    IN  IF ~e.unwritten /\ start < CatNode.size /\ end > start
        THEN [k \in 1..(end - start) |-> Raw(e.physical * BlockBytes + k - 1)]
        ELSE Zeros(IF end > cursor THEN end - cursor ELSE 0)

(* The extents are sorted by their logical blocks.  *)
CatExtent ==
    /\ read = "cat"
    /\ \E e \in unread :
         /\ \A f \in unread : e.logical <= f.logical
         /\ emitted' = emitted \o Gap(e) \o ExtentBytes(e)
         /\ cursor' = CursorAfter(e)
         /\ unread' = IF cursor' >= CatNode.size THEN {} ELSE unread \ {e}
    /\ UNCHANGED <<call, read, cli, findVars, printed>>

CatTail ==
    /\ read = "cat" /\ unread = {}
    /\ emitted' = emitted \o Zeros(IF cursor < CatNode.size THEN CatNode.size - cursor ELSE 0)
    /\ read' = "done"
    /\ UNCHANGED <<call, cli, findVars, printed, unread, cursor>>

ReadInit ==
    /\ call = None /\ read = "idle" /\ cli = None
    /\ pending = <<>> /\ listing = <<>> /\ within = <<>> /\ printed = <<>>
    /\ unread = {} /\ cursor = 0 /\ emitted = <<>>

ReadStep ==
    \/ Info \/ RefuseTarget \/ ListNothing \/ List
    \/ StartFind \/ VisitDirectory \/ FindEntry \/ EndFind
    \/ RefuseCat \/ StartCat \/ CatExtent \/ CatTail
=============================================================================
