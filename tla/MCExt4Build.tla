----------------------------- MODULE MCExt4Build -----------------------------
(***************************************************************************)
(* Instances of Ext4Build for TLC: groups of nine blocks, five of them     *)
(* metadata, so that files cross groups, and trees of a root directory,    *)
(* one file of every content up to Longest blocks and a few companions.    *)
(***************************************************************************)
EXTENDS Ext4Build

CONSTANTS
    Letters,        \* contents that are not zeros
    Longest,        \* bound: blocks of the file whose content is arbitrary
    InputSizes,     \* bound: sizes of the image that is rebuilt
    Reserves        \* bound: values of --reserve-mb, in blocks

Root == [kind |-> "dir", data |-> <<Dirents>>]
File(data) == [kind |-> "file", data |-> data]
Link == [kind |-> "inline", data |-> <<>>]

Files == {File(data) : data \in UNION {[1..n -> Letters \cup {Zero}] : n \in 0..Longest}}

Companions == {<<>>, <<Link>>, <<Root>>} \cup {<<File(<<l>>)>> : l \in Letters}

(* A file of fifteen different blocks, for which a hash that cannot tell   *)
(* them apart plans one.                                                   *)
Many == [i \in 1..15 |-> i]

SmallJobs ==
    [nodes : {<<Root, f>> \o more : f \in Files, more \in Companions},
     shared : BOOLEAN, compact : BOOLEAN, reserve : Reserves, inputBlocks : InputSizes]

CollidingJobs ==
    [nodes : {<<Root, File(Many)>>}, shared : BOOLEAN, compact : BOOLEAN,
     reserve : Reserves, inputBlocks : InputSizes]

(* Files with so many gaps or repeats that they run out of extents.  *)
RaggedJobs ==
    [nodes : {<<Root, File(data)>> : data \in [1..6 -> {Zero, CHOOSE l \in Letters : TRUE}]},
     shared : {TRUE}, compact : BOOLEAN, reserve : {0}, inputBlocks : InputSizes]

(* Two files that fill a plan to the last block that may be taken, and an  *)
(* input that is larger by a group just long enough for its metadata.      *)
CrowdedJobs ==
    [nodes : {<<Root, File([i \in 1..6 |-> i]), File([i \in 1..n |-> 6 + i])>> : n \in 0..6},
     shared : BOOLEAN, compact : {FALSE}, reserve : Reserves, inputBlocks : InputSizes]

AllJobs == SmallJobs \cup CollidingJobs \cup RaggedJobs \cup CrowdedJobs

(* The plans of all these jobs have their margin.                          *)
ASSUME PlansHaveMargins == \A j \in AllJobs : HasMargin(j)

(* Every content hashes alike: the worst case of a collision.  *)
OneHash == [c \in Letters \cup {Dirents} \cup 1..15 |-> 0]

=============================================================================
