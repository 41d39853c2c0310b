------------------------------ MODULE EditTree ------------------------------
(***************************************************************************)
(* The in-memory tree of write/mod.rs and the operations of apply_action   *)
(* on it.  A node remembers which inode it is (nid, 0 when it needs a new  *)
(* one), which inode its bytes come from (original_nid, 0 for the host),   *)
(* and what was done to it, because the writers choose by these.           *)
(*                                                                         *)
(* perm stands for mode bits, uid and gid together; kind is the file type  *)
(* part of the mode, and "untyped" is a mode without one.                  *)
(***************************************************************************)
EXTENDS ErofsImage

CONSTANT Keep   \* an override that is not given

\* tree_depth: the node of inode n.  Its bytes stay in the image.
ImageNode(d, n) ==
  LET ino == CellAt(d, n)
  IN  [kind |-> ino.kind, perm |-> ino.perm, ctx |-> Context(d, n), ctxExplicit |-> FALSE,
       mem |-> NoBytes, size |-> ino.size, layout |-> ino.layout, raw |-> ino.raw,
       nid |-> n, orig |-> n, modified |-> FALSE, contentChanged |-> FALSE]

LoadTree(d) == LET nid == NidOf(d) IN [p \in DOMAIN nid |-> ImageNode(d, nid[p])]

\* host_node, stdin_node: bytes in memory, no inode yet.
HostNode(e) ==
  [kind |-> e.kind, perm |-> e.perm, ctx |-> NoCtx, ctxExplicit |-> FALSE,
   mem |-> e.bytes, size |-> IF e.bytes = NoBytes THEN 0 ELSE 1,
   layout |-> "plain", raw |-> 0, nid |-> 0, orig |-> 0,
   modified |-> TRUE, contentChanged |-> FALSE]

IsDir(node) == node.kind = "dir"

ApplyMetadata(node, m) ==
  [node EXCEPT !.perm = IF m.perm = Keep THEN @ ELSE m.perm,
               !.ctx = IF m.ctx = Keep THEN @ ELSE m.ctx,
               !.ctxExplicit = @ \/ m.ctx # Keep,
               !.modified = @ \/ m.perm # Keep \/ m.ctx # Keep]

ClearIdentity(s) == [r \in DOMAIN s |-> [s[r] EXCEPT !.nid = 0]]

\* What a node takes over from the one it replaces: the metadata not given,
\* the inode, and for host bytes (orig = 0) the origin too.
Inherit(node, old, m) ==
  [node EXCEPT !.kind = IF m.perm = Keep THEN old.kind ELSE @,
               !.perm = IF m.perm = Keep THEN old.perm ELSE @,
               !.ctx = IF m.ctx = Keep THEN old.ctx ELSE @,
               !.ctxExplicit = @ /\ m.ctx # Keep,
               !.nid = old.nid,
               !.orig = IF @ = 0 THEN old.orig ELSE @,
               !.modified = TRUE,
               !.contentChanged = TRUE]

\* insert_path's early returns.
MayInsert(t, dst, s) ==
  /\ dst # << >>
  /\ ParentIsDir(t, dst)
  /\ dst \in DOMAIN t => IsDir(t[dst]) = IsDir(s[<< >>])

\* insert_path: replace what is at dst, or add a node there; only a move keeps
\* the inodes of what it adds.
InsertPath(t, dst, s, m, keepIdentity) ==
  LET node == ApplyMetadata(s[<< >>], m)
  IN  IF dst \in DOMAIN t
      THEN Graft(t, dst, [s EXCEPT ![<< >>] = Inherit(node, t[dst], m)])
      ELSE LET moved == [s EXCEPT ![<< >>] = node]
           IN  Graft(t, dst, IF keepIdentity THEN moved ELSE ClearIdentity(moved))

\* A directory that is not empty is only removed with -R.
MayRemove(t, p, recursive) ==
  /\ p \in DOMAIN t \ {<< >>}
  /\ IsDir(t[p]) /\ ChildrenOf(t, p) # {} => recursive

HasExplicitContext(t) == \E p \in DOMAIN t : t[p].ctxExplicit

HasCompressed(t) == \E p \in DOMAIN t : t[p].layout = "packed"

\* What the tree says the output should hold: bytes in memory, or else those
\* of the inode a node came from, read from the source image d.
Promised(t, d) ==
  [p \in DOMAIN t |->
     [kind |-> t[p].kind, perm |-> t[p].perm, ctx |-> t[p].ctx,
      bytes |-> IF IsDir(t[p]) \/ t[p].size = 0 THEN NoBytes
                ELSE IF t[p].mem # NoBytes THEN t[p].mem ELSE Bytes(d, t[p].orig)]]
=============================================================================
