---------------------------- MODULE BlockService ----------------------------
(***************************************************************************)
(* What the trait BlockSource (write/ext4.rs) promises the writers: asked  *)
(* for a range of a file, it answers with the bytes of that range, and     *)
(* with zeros beyond the end, whatever was asked before.                   *)
(***************************************************************************)
EXTENDS Integers, Sequences

CONSTANTS
    Zero,       \* the byte 0
    Nothing     \* no request, no answer

VARIABLES
    contents,   \* for each node, its bytes
    request,    \* [node, from, len], or Nothing
    answer      \* bytes, or Nothing

vars == <<contents, request, answer>>

BytesOf(r) == [k \in 1..r.len |-> IF r.from + k <= Len(contents[r.node])
                                  THEN contents[r.node][r.from + k] ELSE Zero]

Init == request = Nothing /\ answer = Nothing

Ask ==
    /\ request = Nothing
    /\ request' # Nothing /\ request'.node \in DOMAIN contents
    /\ UNCHANGED <<contents, answer>>

Answer ==
    /\ request # Nothing /\ answer = Nothing
    /\ answer' = BytesOf(request)
    /\ UNCHANGED <<contents, request>>

Take ==
    /\ answer # Nothing
    /\ request' = Nothing /\ answer' = Nothing
    /\ UNCHANGED contents

Next == Ask \/ Answer \/ Take

Spec == Init /\ [][Next]_vars
=============================================================================
