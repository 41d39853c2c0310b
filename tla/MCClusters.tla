------------------------------ MODULE MCClusters ------------------------------
(***************************************************************************)
(* An instance for TLC: two files of up to seven clusters, the last of     *)
(* them short or full, in batches of two pairs.                            *)
(***************************************************************************)
EXTENDS ClusterPromises

CONSTANTS
    Sizes,          \* bound: sizes of the first file
    Companions      \* bound: sizes of the second

SmallJobs ==
    {<<[size |-> s, ctx |-> x], [size |-> t, ctx |-> y]>> :
        s \in Sizes, t \in Companions, x \in BOOLEAN, y \in BOOLEAN}
=============================================================================
