---------------------------- MODULE MCErofsLayout ----------------------------
(***************************************************************************)
(* Instances of ErofsLayout: every preorder list of at most MaxNodes       *)
(* nodes drawn from a few shapes.                                          *)
(***************************************************************************)
EXTENDS ErofsLayout

CONSTANT MaxNodes

Shape(d, c, n, b) == [dir |-> d, ctx |-> c, clusters |-> n, blocks |-> b]

\* A directory, a large directory, an empty file, a plain file, and a
\* compressed file whose index does (9 clusters) or does not (1) need a
\* slot of its own; with and without a context.
Shapes ==
  {Shape(TRUE, FALSE, 0, 1), Shape(TRUE, TRUE, 0, 2), Shape(FALSE, FALSE, 0, 0),
   Shape(FALSE, FALSE, 0, 2), Shape(FALSE, TRUE, 0, 1), Shape(FALSE, FALSE, 1, 1),
   Shape(FALSE, TRUE, 1, 1), Shape(FALSE, TRUE, 9, 5)}

\* The root is a directory; whatever follows it in preorder is free.
SmallTrees ==
  {<<r>> \o t : r \in {s \in Shapes : s.dir}, t \in UNION {[1..n -> Shapes] : n \in 0..MaxNodes - 1}}
=============================================================================
