------------------------------ MODULE ErofsEdit ------------------------------
(***************************************************************************)
(* `image-worker write` on an EROFS image: a run opens the image, applies  *)
(* its queue of actions to the tree in memory, and one of the writers of   *)
(* ErofsWriters turns the tree into the output, which is the input of the  *)
(* next run.  Which writer that is depends on the queue, on --compress and *)
(* on what the writers themselves refuse.                                  *)
(***************************************************************************)
EXTENDS ErofsWriters

CONSTANTS
  Images,       \* the trees an external mkfs made the first image from
  Hosts,        \* what --add can bring in; stdin has kind "untyped"
  Perms,        \* values of --mode and --owner
  Contexts,     \* values of --context
  Compress,     \* values of --compress: "default" is no option given
  ActionBound   \* bound: how many actions each run has at most

VARIABLES
  image,     \* the image, slot by slot
  editing,   \* a run has opened the image and not yet written its output
  compress,  \* that run's --compress
  tree,      \* that run's tree in memory
  queue,     \* kinds of the actions it applied so far
  route,     \* the writer that ended the last run
  runs       \* runs so far, at most Len(ActionBound)

vars == <<image, editing, compress, tree, queue, route, runs>>

Kinds == {"add", "copy", "move", "meta", "remove"}
Routes == {"none", "failed", "patch", "append", "overlay", "plain", "packed"}

NoOverride == [perm |-> Keep, ctx |-> Keep]
Metas == [perm : Perms \cup {Keep}, ctx : Contexts \cup {Keep}]

-----------------------------------------------------------------------------
\* mkfs (not part of this program): NIDs past the superblock, any layout per
\* file, an inline payload in the slot behind the inode, a directory with slack.
MkFs(f) ==
  LET order == Preorder(f)
      Behind(e) == IF e.ctx # NoCtx \/ e.layout = "packed" THEN 1 ELSE 0
      Width(e) == 1 + Behind(e) + (IF e.layout = "inline" THEN 1 ELSE 0)
      placed == AssignNids(f, SbEnd, [p \in DOMAIN f |-> Width(f[p])])
      nid == placed.nid
      table == MetaBlock + CeilDiv(placed.next, SlotsPerBlock)
      stored == SelectSeq(order, LAMBDA p : f[p].layout # "inline" /\ f[p].size > 0)
      At(p) == table + SelectInSeq(stored, LAMBDA q : q = p)
      base == [s \in 0..(table + Len(stored) + 1) * SlotsPerBlock - 1 |-> Zero]
      Payload(p) == IF IsDir(f[p]) THEN DirectoryOf(f, nid, p)
                    ELSE FileData(f[p].bytes, f[p].layout = "packed")
      PutNode(d, p) ==
        LET e == f[p]
            slot == SlotOf(nid[p])
            payload == CASE e.size = 0          -> << >>
                         [] e.layout = "inline" -> slot + 1 + Behind(e) :> Payload(p)
                         [] OTHER               -> FillBlock(At(p), Payload(p))
            area == IF Behind(e) = 1
                    THEN slot + 1 :> Area(e.ctx, e.layout = "packed") ELSE << >>
            ino == Inode(e.kind, e.perm, IF IsDir(e) THEN DirectoryLen(f, p) + e.slack ELSE e.size,
                         e.layout, IF e.layout = "inline" THEN 0 ELSE At(p), e.ctx # NoCtx)
        IN  Patch(d, payload @@ area @@ (slot :> ino))
  IN  Patch(FoldLeft(PutNode, base, order),
            FillBlock(table, TableData)
              @@ SuperblockAt(Superblock(Len(order), nid[<< >>], table)))

-----------------------------------------------------------------------------
Init ==
  /\ image \in {MkFs(f) : f \in Images}
  /\ editing = FALSE /\ compress = "default"
  /\ tree = << >> /\ queue = << >> /\ route = "none" /\ runs = 0

\* Source::open, Source::tree and the parsed configuration.
Open ==
  /\ ~editing /\ runs < Len(ActionBound)
  /\ Loads(image)
  /\ editing' = TRUE /\ runs' = runs + 1
  /\ compress' \in Compress
  /\ tree' = LoadTree(image) /\ queue' = << >>
  /\ UNCHANGED <<image, route>>

\* The run is over, with this image as its output.
Finished(d, r) ==
  /\ image' = d /\ route' = r /\ editing' = FALSE
  /\ compress' = "default" /\ tree' = << >> /\ queue' = << >>
  /\ UNCHANGED runs

\* apply_action for one action of the queue: its effect on the tree, or an
\* error that ends the run before anything is written.
Applied(kind, allowed, t) ==
  IF allowed
  THEN /\ tree' = t /\ queue' = Append(queue, kind)
       /\ UNCHANGED <<image, editing, compress, route, runs>>
  ELSE Finished(image, "failed")

Applying == editing /\ Len(queue) < ActionBound[runs]

\* Bound: only results whose paths are in Paths.
FitsPaths(dst, s) == {dst \o r : r \in DOMAIN s} \subseteq Paths

Inserted(kind, t, dst, s, m, keepIdentity) ==
  /\ FitsPaths(dst, s)
  /\ Applied(kind, MayInsert(t, dst, s), InsertPath(t, dst, s, m, keepIdentity))

Add ==
  /\ Applying
  /\ \E h \in Hosts, dst \in Paths, m \in Metas :
       Inserted("add", tree, dst, [r \in DOMAIN h |-> HostNode(h[r])], m, FALSE)

Copy ==
  /\ Applying
  /\ \E src \in DOMAIN tree, dst \in Paths, m \in Metas :
       Inserted("copy", tree, dst, Subtree(tree, src), m, FALSE)

\* The node is taken out first, so a move below itself finds no directory.
Move ==
  /\ Applying
  /\ \E src \in DOMAIN tree \ {<< >>}, dst \in Paths, m \in Metas :
       Inserted("move", Prune(tree, src), dst, Subtree(tree, src), m, TRUE)

SetMode ==
  /\ Applying
  /\ \E p \in Paths, perm \in Perms :
       Applied("meta", p \in DOMAIN tree,
               [tree EXCEPT ![p] = ApplyMetadata(@, [perm |-> perm, ctx |-> Keep])])

SetContext ==
  /\ Applying
  /\ \E p \in Paths, ctx \in Contexts :
       Applied("meta", p \in DOMAIN tree,
               [tree EXCEPT ![p] = ApplyMetadata(@, [perm |-> Keep, ctx |-> ctx])])

RemovePath ==
  /\ Applying
  /\ \E p \in Paths, recursive \in BOOLEAN :
       Applied("remove", MayRemove(tree, p, recursive), Prune(tree, p))

-----------------------------------------------------------------------------
\* How the run ends: the dispatch at the end of `run`.

MetadataOnly == ToSet(queue) \subseteq {"meta"}
SingleAdd == queue = <<"add">>

\* --compress if given, else whatever the source image uses.
PackedOutput ==
  compress = "packed" \/ (compress = "default" /\ HasCompressed(LoadTree(image)))

RebuildOnly ==
  IF MetadataOnly THEN HasExplicitContext(tree)
  ELSE "remove" \in ToSet(queue) \/ compress = "packed"

FullRebuild ==
  Finished(Rebuild(tree, image, PackedOutput), IF PackedOutput THEN "packed" ELSE "plain")

Ending == editing /\ queue # << >>

WriteMetadata ==
  /\ Ending /\ MetadataOnly /\ ~RebuildOnly
  /\ Finished(PatchMetadata(tree, image), "patch")

WriteRebuild == Ending /\ RebuildOnly /\ FullRebuild

WriteAppend ==
  /\ Ending /\ SingleAdd /\ ~RebuildOnly
  /\ LET a == AppendImage(tree, image)
     IN  IF a.ok THEN Finished(a.image, "append") ELSE FullRebuild

WriteOverlay ==
  /\ Ending /\ ~SingleAdd /\ ~MetadataOnly /\ ~RebuildOnly
  /\ LET o == Overlay(tree, image)
     IN  IF o.ok THEN Finished(o.image, "overlay") ELSE FullRebuild

Next ==
  \/ Open
  \/ Add \/ Copy \/ Move \/ SetMode \/ SetContext \/ RemovePath
  \/ WriteMetadata \/ WriteRebuild \/ WriteAppend \/ WriteOverlay

Spec == Init /\ [][Next]_vars

-----------------------------------------------------------------------------
\* Types: the tree is well formed and knows its inodes, and the image has a
\* whole number of blocks.
TypeOK ==
  /\ editing \in BOOLEAN /\ compress \in Compress \cup {"default"}
  /\ queue \in Seq(Kinds) /\ route \in Routes /\ runs \in 0..Len(ActionBound)
  /\ DOMAIN image = 0..BlocksOf(image) * SlotsPerBlock - 1
  /\ editing => WellFormed(tree) /\ DOMAIN tree \subseteq Paths
=============================================================================
