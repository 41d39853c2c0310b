-------------------------- MODULE MCSparseContainer --------------------------
(* Instances of SparseContainer for TLC.  Blocks of one class are alike.   *)
EXTENDS SparseContainer, TLC

Alike == Permutations(Patterns) \cup Permutations(Textures)

=============================================================================
