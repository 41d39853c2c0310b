----------------------------- MODULE ImagePaths -----------------------------
(***************************************************************************)
(* File trees as functions from paths to nodes.  A path is the sequence of *)
(* its names; the root is << >>.  Names within a directory are unique, so  *)
(* the code's child vectors lose nothing but their order, and every writer *)
(* sorts them first: PathOrder lists the paths in the order of a preorder  *)
(* walk over sorted directories.                                           *)
(***************************************************************************)
EXTENDS Naturals, Sequences, SequencesExt

CONSTANT PathOrder   \* every path a tree of this instance may hold

ASSUME PathAssumption ==
  /\ PathOrder # << >> /\ PathOrder[1] = << >>
  /\ \A k \in 2..Len(PathOrder) :
       \E j \in 1..k - 1 : PathOrder[j] = Front(PathOrder[k])

Paths == ToSet(PathOrder)

Preorder(t) == SelectSeq(PathOrder, LAMBDA p : p \in DOMAIN t)

\* p itself and everything below it.
Within(t, p) == {q \in DOMAIN t : IsPrefix(p, q)}

ChildrenOf(t, p) == {q \in Within(t, p) : Len(q) = Len(p) + 1}

Relative(p, q) == SubSeq(q, Len(p) + 1, Len(q))

\* The subtree at p, addressed from its own root << >>.
Subtree(t, p) == [r \in {Relative(p, q) : q \in Within(t, p)} |-> t[p \o r]]

\* A mutant of Prune: what is below p stays.
PruneAlone(t, p) == Restrict(t, DOMAIN t \ {p})

\* t without p and everything below it.
Prune(t, p) == Restrict(t, DOMAIN t \ Within(t, p))

\* t with whatever was at p replaced by the subtree s.
Graft(t, p, s) ==
  [q \in DOMAIN Prune(t, p) \cup {p \o r : r \in DOMAIN s} |->
     IF IsPrefix(p, q) THEN s[Relative(p, q)] ELSE t[q]]

\* A tree has a root, and the parent of everything else in it is a directory.
WellFormed(t) ==
  /\ << >> \in DOMAIN t
  /\ \A p \in DOMAIN t \ {<< >>} :
       Front(p) \in DOMAIN t /\ t[Front(p)].kind = "dir"

\* The place dst names exists: its parent is a directory of the tree.
ParentIsDir(t, dst) == Front(dst) \in DOMAIN t /\ t[Front(dst)].kind = "dir"
=============================================================================
