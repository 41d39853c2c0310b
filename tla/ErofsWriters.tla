---------------------------- MODULE ErofsWriters ----------------------------
(***************************************************************************)
(* The four EROFS writers of write/mod.rs, as operators from the source    *)
(* image d and the edited tree t to the output image: the full rebuild     *)
(* (plain or packed), the single-add append, the overlay and the           *)
(* metadata patch.                                                         *)
(***************************************************************************)
EXTENDS EditTree

\* Cells written over an image.
Patch(d, cells) == cells @@ d

\* A mutant: ".." leads to the directory itself.
SelfParentDirectoryOf(t, nid, p) ==
  DirData([name \in {Last(c) : c \in ChildrenOf(t, p)} |-> nid[Append(p, name)]], nid[p])

\* directory_bytes: the entries of p under the NIDs the nodes have, and "..".
DirectoryOf(t, nid, p) ==
  DirData([name \in {Last(c) : c \in ChildrenOf(t, p)} |-> nid[Append(p, name)]],
          nid[IF p = << >> THEN p ELSE Front(p)])

\* Length of a directory, counting entries ("." and ".." included).
DirectoryLen(t, p) == Cardinality(ChildrenOf(t, p)) + 2

-----------------------------------------------------------------------------
(***************************************************************************)
(* Full rebuild                                                            *)
(***************************************************************************)

\* A mutant: one slot for every inode.
BodySlot(node, packed) == 1

\* A packed file is small here: one cluster.
NodeSlots(node, packed) ==
  InodeSlots(node.ctx # NoCtx, IF packed /\ ~IsDir(node) THEN node.size ELSE 0)

\* assign_nids_strided over the tree from NID `first`; footprint has the slots
\* of every path's inode.
AssignNids(t, first, footprint) ==
  FoldLeft(LAMBDA acc, p :
             LET n == SkipSuperblock(acc.next, footprint[p])
             IN  [next |-> n + footprint[p], nid |-> (p :> n) @@ acc.nid],
           [next |-> first, nid |-> << >>], Preorder(t))

\* The cells of one rebuilt inode: its body, and the slot behind it when it has
\* a context or an index.
InodeCells(n, node, size, layout, raw) ==
  (SlotOf(n) :> Inode(node.kind, node.perm, size, layout, raw, node.ctx # NoCtx)) @@
  (IF node.ctx # NoCtx \/ layout = "packed"
   THEN (SlotOf(n) + 1 :> Area(node.ctx, layout = "packed")) ELSE << >>)

\* emit_raw_file: a node that was modified, or comes from the host, is written
\* from memory (which may hold nothing); any other is copied from the source.
PlainBytes(d, node) ==
  IF node.modified \/ node.orig = 0 THEN node.mem ELSE Bytes(d, node.orig)

\* A mutant: the choice the plain writer makes.
PlainlyPackedBytes(d, node) == IF node.modified THEN node.mem ELSE Bytes(d, node.orig)

\* rebuild_compressed: from memory if the bytes are there, else from the source.
PackedBytes(d, node) ==
  IF node.mem # NoBytes THEN node.mem ELSE Bytes(d, node.orig)

\* Nothing is written for a node without bytes: its block keeps what the base
\* holds.  The base of a plain rebuild is the source image, grown or cut; a
\* packed rebuild starts from an empty file.
Rebuild(t, d, packed) ==
  LET order == Preorder(t)
      placed == AssignNids(t, 1, [p \in DOMAIN t |-> NodeSlots(t[p], packed)])
      nid == placed.nid
      hasTable == \E p \in DOMAIN t : t[p].ctx # NoCtx
      tableAt == MetaBlock + CeilDiv(placed.next, SlotsPerBlock)
      dirs == SelectSeq(order, LAMBDA p : IsDir(t[p]))
      files == SelectSeq(order, LAMBDA p : ~IsDir(t[p]) /\ t[p].size > 0)
      first == tableAt + (IF hasTable THEN 1 ELSE 0)
      stored == dirs \o files
      end == first + Len(stored)
      \* 0 for a file without bytes.
      At(p) == LET k == SelectInSeq(stored, LAMBDA q : q = p)
               IN  IF k = 0 THEN 0 ELSE first + k - 1
      base == [s \in 0..end * SlotsPerBlock - 1 |->
                 IF ~packed /\ s \in DOMAIN d THEN d[s] ELSE Zero]
      WriteNode(img, p) ==
        LET node == t[p]
            layout == IF packed /\ ~IsDir(node) /\ node.size > 0 THEN "packed" ELSE "plain"
            size == IF IsDir(node) THEN DirectoryLen(t, p) ELSE node.size
            bytes == IF packed THEN PackedBytes(d, node) ELSE PlainBytes(d, node)
            payload ==
              IF IsDir(node) THEN FillBlock(At(p), DirectoryOf(t, nid, p))
              ELSE IF node.size > 0 /\ bytes # NoBytes
                   THEN FillBlock(At(p), FileData(bytes, packed)) ELSE << >>
        IN  Patch(img, payload @@ InodeCells(nid[p], node, size, layout, At(p)))
      written == FoldLeft(WriteNode, base, order)
      tabled == IF hasTable THEN Patch(written, FillBlock(tableAt, TableData)) ELSE written
      oldTable == IF packed THEN 0 ELSE Sb(d).table
  IN  Patch(tabled, SuperblockAt(Superblock(Len(order), nid[<< >>],
                                            IF hasTable THEN tableAt ELSE oldTable)))
-----------------------------------------------------------------------------
(***************************************************************************)
(* In-place writers: what they share                                       *)
(***************************************************************************)

\* The inode of a node written afresh: 32 bytes, plain, no xattr count.
BareInode(node, size, raw) == Inode(node.kind, node.perm, size, "plain", raw, FALSE)

\* The superblock fields every in-place writer patches last: the inode count
\* (and block count, features, checksum).  Root and table stay.
CountInodes(img, count) ==
  Patch(img, [s \in SbFirst..SbEnd - 1 |->
    IF img[s].t = "sb" THEN [img[s] EXCEPT !.inodes = count] ELSE img[s]])

\* Mode and owner fields of an inode, overwritten where they lie.
PatchOwner(cell, node) ==
  IF cell.t = "inode" THEN [cell EXCEPT !.kind = node.kind, !.perm = node.perm]
  ELSE Foreign

-----------------------------------------------------------------------------
(***************************************************************************)
(* Single-add append                                                       *)
(***************************************************************************)

\* A mutant: no look at the room there is.
AlwaysFits(t, p) == TRUE

\* A plain directory is rewritten where it lies only if it does not grow.
FitsInPlace(t, p) == DirectoryLen(t, p) <= t[p].size

Nids(t) == [p \in DOMAIN t |-> t[p].nid]

\* append_image: the added file takes the NID equal to the inode count, its
\* data goes behind the image, and its parent is rewritten in place (plain) or
\* moved behind the image.  A replaced file is written afresh at its NID.
\* `ok` is FALSE where the code returns an error.
AppendImage(t, d) ==
  LET added == SelectSeq(Preorder(t), LAMBDA p : p # << >> /\ t[p].nid = 0)
      changed == SelectSeq(Preorder(t), LAMBDA p : t[p].modified)
      isNew == added # << >>
      target == IF isNew THEN added[1] ELSE changed[1]
      n == IF isNew THEN Sb(d).inodes ELSE t[target].nid
      parent == Front(target)
      nid == [Nids(t) EXCEPT ![target] = n]
      inPlace == t[parent].layout = "plain"
      tailBlock == BlocksOf(d)
      parentCells ==
        CASE ~isNew  -> << >>
          [] inPlace -> FillBlock(t[parent].raw, DirectoryOf(t, nid, parent))
          [] OTHER   ->
               (SlotOf(nid[parent]) :>
                  BareInode(t[parent], DirectoryLen(t, parent), tailBlock)) @@
               FillBlock(tailBlock, DirectoryOf(t, nid, parent))
      dataBlock == tailBlock + (IF isNew /\ ~inPlace THEN 1 ELSE 0)
      data == IF t[target].mem = NoBytes THEN << >>
              ELSE FillBlock(dataBlock, FileData(t[target].mem, FALSE))
      inode == SlotOf(n) :> BareInode(t[target], IF data = << >> THEN 0 ELSE 1, dataBlock)
      img == data @@ Patch(d, inode @@ parentCells)
  IN  IF HasExplicitContext(t) \/ (~isNew /\ changed = << >>)
         \/ (isNew /\ inPlace /\ ~FitsInPlace(t, parent))
      THEN [ok |-> FALSE]
      ELSE [ok |-> TRUE,
            image |-> CountInodes(img, Sb(d).inodes + (IF isNew THEN 1 ELSE 0))]

-----------------------------------------------------------------------------
(***************************************************************************)
(* Overlay.  The context c is TailCtx with the tree the phases update; ok  *)
(* turns FALSE where the code falls back to the full rebuild.              *)
(***************************************************************************)

\* TailCtx::append: a payload goes behind the image.
AppendTail(c, cell) ==
  [c EXCEPT !.raw = c.cursor, !.size = 1, !.cursor = @ + 1,
            !.tail = FillBlock(c.cursor, cell) @@ @]

\* Where a node's bytes are found: blocks shared with the plain file they come
\* from, or a copy behind the image.
PlaceBytes(c, d, node) ==
  IF node.orig # 0 /\ node.layout = "plain"
  THEN [c EXCEPT !.raw = node.raw, !.size = node.size]
  ELSE LET bytes == IF node.orig = 0 THEN node.mem ELSE Bytes(d, node.orig)
       IN  IF bytes = NoBytes THEN [c EXCEPT !.raw = 0, !.size = 0]
           ELSE AppendTail(c, FileData(bytes, FALSE))

\* A mutant: an inode written afresh where an existing one is patched.
RewriteInode(c, d, nid, node, size) ==
  [c EXCEPT !.patches = (SlotOf(nid) :> BareInode(node, size, c.raw)) @@ @,
            !.rewritten = @ \cup {nid}]

\* repatch_inode: the inode the SOURCE holds at nid, turned plain, with new
\* mode, owner, size and block; its xattr count stays.
RepatchInode(c, d, nid, node, size) ==
  LET old == CellAt(d, nid)
      fresh == BareInode(node, size, c.raw)
      cell == CASE old.t = "inode" -> [fresh EXCEPT !.xattr = old.xattr]
                [] old.t = "zero"  -> fresh
                [] OTHER           -> Foreign
  IN  [c EXCEPT !.patches = (SlotOf(nid) :> cell) @@ @, !.rewritten = @ \cup {nid}]

\* Phase A: files that have no inode yet, with the xattr area of the inode
\* their bytes come from.
OverlayNewFile(d, c, p) ==
  LET node == c.tree[p]
      placed == PlaceBytes(c, d, node)
      hasArea == node.orig # 0 /\ CellAt(d, node.orig).xattr
      fresh == [BareInode(node, placed.size, placed.raw) EXCEPT !.xattr = hasArea]
      area == IF hasArea
              THEN SlotOf(c.next) + 1 :> Area(CellAt(d, node.orig + 1).ctx, FALSE)
              ELSE << >>
  IN  IF ~c.ok \/ p = << >> \/ node.nid # 0 THEN c
      ELSE IF IsDir(node) THEN [c EXCEPT !.ok = FALSE]
      ELSE [placed EXCEPT !.patches = (SlotOf(c.next) :> fresh) @@ area @@ @,
                          !.rewritten = @ \cup {c.next},
                          !.tree[p].nid = c.next,
                          !.next = @ + (IF hasArea THEN 2 ELSE 1),
                          !.new = @ + 1]

\* Phase B: content put over something that was there.
OverlayReplaced(d, c, p) ==
  LET node == c.tree[p]
      placed == PlaceBytes(c, d, node)
  IN  IF ~c.ok \/ ~node.contentChanged THEN c
      ELSE IF IsDir(node) THEN [c EXCEPT !.ok = FALSE]
      ELSE RepatchInode(placed, d, node.nid, node, placed.size)

\* snapshot_dirs, taken from the tree as it was loaded: the names in a directory.
NamesBefore(d, nid) == DOMAIN Entries(d, nid)
NamesNow(t, p) == {Last(q) : q \in ChildrenOf(t, p)}

\* Phase C: directories whose names changed move behind the image.
OverlayDir(d, c, p) ==
  LET node == c.tree[p]
      moved == AppendTail(c, DirectoryOf(c.tree, Nids(c.tree), p))
  IN  IF ~c.ok \/ ~IsDir(node) THEN c
      ELSE IF node.nid \notin c.dirs THEN [c EXCEPT !.ok = FALSE]
      ELSE IF NamesNow(c.tree, p) = NamesBefore(d, node.nid) THEN c
      ELSE RepatchInode(moved, d, node.nid, node, DirectoryLen(c.tree, p))

\* Phase D: metadata of inodes no earlier phase wrote.
OverlayMeta(d, c, p) ==
  LET node == c.tree[p]
      slot == SlotOf(node.nid)
  IN  IF ~c.ok \/ ~node.modified \/ node.nid \in c.rewritten THEN c
      ELSE [c EXCEPT !.patches = (slot :> PatchOwner((@ @@ d)[slot], node)) @@ @]

\* overlay_rebuild: the four phases over the tree in preorder.  NIDs start at
\* the inode count of the source.  `ok` is FALSE on a fallback.
Overlay(t, d) ==
  LET loaded == NidOf(d)
      start == [ok |-> ~HasExplicitContext(t), tree |-> t, patches |-> << >>,
                tail |-> << >>, cursor |-> BlocksOf(d), next |-> Sb(d).inodes,
                new |-> 0, rewritten |-> {}, raw |-> 0, size |-> 0,
                dirs |-> {n \in Range(loaded) : CellAt(d, n).kind = "dir"}]
      order == Preorder(t)
      a == FoldLeft(LAMBDA c, p : OverlayNewFile(d, c, p), start, order)
      b == FoldLeft(LAMBDA c, p : OverlayReplaced(d, c, p), a, order)
      e == FoldLeft(LAMBDA c, p : OverlayDir(d, c, p), b, order)
      f == FoldLeft(LAMBDA c, p : OverlayMeta(d, c, p), e, order)
  IN  IF f.ok
      THEN [ok |-> TRUE,
            image |-> CountInodes(f.tail @@ Patch(d, f.patches), Sb(d).inodes + f.new)]
      ELSE [ok |-> FALSE]

-----------------------------------------------------------------------------
(***************************************************************************)
(* Metadata patch                                                          *)
(***************************************************************************)

\* A mutant: the recursion starts below the root.
PatchBelowRoot(t, d) ==
  FoldLeft(LAMBDA img, p :
             IF t[p].modified /\ p # << >>
             THEN Patch(img, SlotOf(t[p].nid) :> PatchOwner(CellAt(d, t[p].nid), t[p]))
             ELSE img,
           d, Preorder(t))

\* patch_inode_metadata: mode and owner of every modified node, in a copy.
PatchMetadata(t, d) ==
  FoldLeft(LAMBDA img, p :
             IF t[p].modified
             THEN Patch(img, SlotOf(t[p].nid) :> PatchOwner(CellAt(d, t[p].nid), t[p]))
             ELSE img,
           d, Preorder(t))
=============================================================================
