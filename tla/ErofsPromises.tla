---------------------------- MODULE ErofsPromises ----------------------------
(***************************************************************************)
(* What the runs of ErofsEdit keep of the promise of ImageEdit, writer by  *)
(* writer.  The packed rebuild and the metadata patch keep all of it.  The *)
(* other three are held to it except in the situations named here, which   *)
(* are real losses: without its exception a property fails.                *)
(***************************************************************************)
EXTENDS ErofsEdit

HostEntries ==
  {[r \in DOMAIN h |-> [kind |-> h[r].kind, bytes |-> h[r].bytes,
                        perm |-> h[r].perm, ctx |-> NoCtx]] : h \in Hosts}

VARIABLES
  shown,  \* what a reader of the image sees
  due     \* what the tree being edited says the output should hold

\* The program, watched: both variables are functions of its state, kept so
\* that they are computed once per step.
Due(busy, t, d, view) == IF busy THEN Promised(t, d) ELSE view

WatchedInit == Init /\ shown = View(image) /\ due = shown
WatchedNext ==
  /\ Next
  /\ shown' = IF image' = image THEN shown ELSE View(image')
  /\ due' = Due(editing', tree', image', shown')
WatchedSpec == WatchedInit /\ [][WatchedNext]_<<vars, shown, due>>

Promise == INSTANCE ImageEdit WITH Hosts <- HostEntries, fs <- shown, work <- due

\* The step ends a run with this writer's output.
Wrote(routes) == editing /\ ~editing' /\ route' \in routes

\* What the output holds is what the tree promised.
KeptAll == shown' = due

-----------------------------------------------------------------------------
(* Situations in which a writer is known to lose something. *)

\* Slots of everything a reader of d follows, the superblock included.
LiveSlots(d) ==
  LET nid == NidOf(d)
      Payload(n) ==
        LET ino == CellAt(d, n)
            behind == IF ino.xattr \/ HasIndex(d, n) THEN 1 ELSE 0
        IN  CASE ino.size = 0          -> {}
              [] ino.layout = "inline" -> {SlotOf(n) + 1 + behind}
              [] OTHER                 -> SlotsOfBlock(ino.raw)
      Body(n) == {SlotOf(n)} \cup
                 (IF CellAt(d, n).xattr \/ HasIndex(d, n) THEN {SlotOf(n) + 1} ELSE {})
      table == IF \E p \in DOMAIN nid : CellAt(d, nid[p]).xattr
               THEN SlotsOfBlock(Sb(d).table) ELSE {}
  IN  (SbFirst..SbEnd - 1) \cup table \cup
      UNION {Body(nid[p]) \cup Payload(nid[p]) : p \in DOMAIN nid}

Fresh(t) == {p \in DOMAIN t : t[p].nid = 0}

\* The NIDs from the inode count on are not free for the new inodes.
NidsTaken ==
  LET next == SlotOf(Sb(image).inodes)
  IN  next..next + 2 * Cardinality(Fresh(tree)) - 1 \cap LiveSlots(image) # {}

\* Two paths of the image lead to one inode.
HardLinked(d) ==
  LET nid == NidOf(d) IN \E p, q \in DOMAIN nid : p # q /\ nid[p] = nid[q]

\* Host bytes took over the origin of the image file they replaced.
HostBytesOverImageFile ==
  \E p \in DOMAIN tree : tree[p].mem # NoBytes /\ tree[p].orig # 0

\* A directory holds the same names as before, but not the same inodes.
SameNamesOtherInodes ==
  \E p \in DOMAIN tree :
    /\ IsDir(tree[p]) /\ NamesNow(tree, p) = NamesBefore(image, tree[p].nid)
    /\ \E q \in ChildrenOf(tree, p) :
         tree[q].nid # Entries(image, tree[p].nid)[Last(q)]

\* A file that has no inode yet took the place, or is the copy, of another.
FreshFileReplaced == \E p \in Fresh(tree) : tree[p].contentChanged
\* A replacement inherited a context that an earlier action of the run had set,
\* and is no longer marked as having an explicit one.
ExplicitContextInherited ==
  \E p \in DOMAIN tree :
    /\ tree[p].nid # 0 /\ tree[p].contentChanged /\ ~tree[p].ctxExplicit
    /\ tree[p].ctx # Context(image, tree[p].nid)

-----------------------------------------------------------------------------
(* Properties *)

\* With explicit compression every run either leaves the image as it was or
\* leaves exactly the tree its actions describe: the detailed program, inodes,
\* blocks and all, implements ImageEdit (rebuild_compressed,
\* patch_inode_metadata and all of apply_action).
ImplementsImageEdit == Promise!Spec

\* A packed rebuild keeps the promise whatever earlier runs did to the image;
\* a metadata patch does unless two paths share the inode it patches.
RebuildAndPatchKeepPromise ==
  [][/\ Wrote({"packed"}) => KeptAll
     /\ Wrote({"patch"}) /\ ~HardLinked(image) => KeptAll]_vars

\* A plain rebuild keeps names, types, metadata and contexts, and every byte
\* except those of files of the image that were changed (emit_raw_file writes
\* a changed file from memory, where only host bytes are).
PlainRebuildLosesOnlyChangedFiles ==
  [][Wrote({"plain"}) =>
       /\ DOMAIN shown' = DOMAIN tree
       /\ \A p \in DOMAIN tree :
            \/ shown'[p] = due[p]
            \/ /\ tree[p].modified /\ tree[p].mem = NoBytes
               /\ [shown'[p] EXCEPT !.bytes = due[p].bytes] = due[p]]_vars

\* The append keeps the promise when its NID is free, unless it rewrites an
\* inode that had a context, or adds a host directory that is not empty.
AppendKeepsPromise ==
  [][LET added == Fresh(tree)
         rewritten == {p \in DOMAIN tree : tree[p].contentChanged} \cup
                      {Front(p) : p \in added}
     IN  Wrote({"append"}) /\ ~NidsTaken /\ ~HardLinked(image)
           /\ Cardinality(added) <= 1 /\ (\A p \in rewritten : tree[p].ctx = NoCtx)
         => KeptAll]_vars

\* The overlay keeps the promise when its NIDs are free, except for host bytes
\* over a file of the image, names swapped within their directories, files
\* without an inode that were replaced before they got one, and contexts of the
\* same run that a replacement inherited.
OverlayKeepsPromise ==
  [][Wrote({"overlay"}) /\ ~NidsTaken /\ ~HardLinked(image)
       /\ ~HostBytesOverImageFile /\ ~SameNamesOtherInodes
       /\ ~FreshFileReplaced /\ ~ExplicitContextInherited
     => KeptAll]_vars

\* Every ".." leads to the directory that names it: a rebuild leaves it so, and
\* an append or overlay makes it wrong for moved directories only (overlay_dirs
\* rewrites a directory for its names, not for its parent).
UpWrong(d) ==
  LET nid == NidOf(d)
  IN  {p \in DOMAIN nid :
         /\ DOMAIN Entries(d, nid[p]) # {}
         /\ PayloadCell(d, nid[p]).up # nid[IF p = << >> THEN p ELSE Front(p)]}

ParentEntriesFollow ==
  [][/\ Wrote({"plain", "packed"}) => UpWrong(image') = {}
     /\ Wrote({"append", "overlay"}) /\ ~NidsTaken /\ ~HardLinked(image) =>
          \A p \in UpWrong(image') :
            \/ p \in DOMAIN tree /\ p \in UpWrong(image)
            \/ p \notin DOMAIN NidOf(image) \/ NidOf(image)[p] # tree[p].nid]_vars
-----------------------------------------------------------------------------
(* What the repository says of its writers, and a run refutes. *)

\* mod.rs:1303, "Host/stdin bytes replace whatever was there": after an overlay
\* a file whose content came from the host reads as the host's bytes.
HostBytesReplace ==
  [][Wrote({"overlay"}) =>
       \A p \in DOMAIN tree : tree[p].mem # NoBytes /\ tree[p].nid # 0 =>
         p \in DOMAIN shown' /\ shown'[p].bytes = tree[p].mem]_vars
=============================================================================
