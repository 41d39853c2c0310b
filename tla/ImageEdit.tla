----------------------------- MODULE ImageEdit ------------------------------
(***************************************************************************)
(* What `write` promises: an image holds a tree of entries; a run opens    *)
(* it, applies the queued actions to a working copy, and either replaces   *)
(* the image by that copy or leaves it as it was.  No inode, no block, no  *)
(* layout and no writer appears here.                                      *)
(***************************************************************************)
EXTENDS ImagePaths

CONSTANTS
  Hosts,   \* what --add can bring in: small trees of entries from the host
  Metas,   \* the --mode/--owner/--context overrides of one action
  Keep     \* an override that is not given

VARIABLES
  fs,      \* the tree the image holds
  work,    \* the tree being edited
  editing  \* a run is between opening the image and writing its output

vars == <<fs, work, editing>>

\* Metadata an entry takes on when it is put at dst: an override first, then
\* what the entry it replaces had, then its own.
Override(e, m) ==
  [e EXCEPT !.perm = IF m.perm = Keep THEN @ ELSE m.perm,
            !.ctx = IF m.ctx = Keep THEN @ ELSE m.ctx]

Replacing(e, old) == [e EXCEPT !.perm = old.perm, !.ctx = old.ctx]

\* The entry tree s may be put at dst.
MayPut(w, dst, s) ==
  /\ dst # << >>
  /\ ParentIsDir(w, dst)
  /\ dst \in DOMAIN w => (w[dst].kind = "dir") = (s[<< >>].kind = "dir")

Put(w, dst, s, m) ==
  LET e == s[<< >>]
      kept == IF dst \in DOMAIN w THEN Replacing(e, w[dst]) ELSE e
  IN  Graft(w, dst, [s EXCEPT ![<< >>] = Override(kept, m)])

Edited(w) == editing /\ work' = w /\ UNCHANGED <<fs, editing>>

Open == ~editing /\ editing' = TRUE /\ work' = fs /\ UNCHANGED fs

\* Hosts are regular files and directories whatever way their bytes come in.
Entry(e) == [e EXCEPT !.kind = IF @ = "dir" THEN "dir" ELSE "file"]

Add == \E h \in Hosts, dst \in Paths, m \in Metas :
  LET s == [r \in DOMAIN h |-> Entry(h[r])]
  IN  MayPut(work, dst, s) /\ Edited(Put(work, dst, s, m))

Copy == \E src \in DOMAIN work, dst \in Paths, m \in Metas :
  LET s == Subtree(work, src)
  IN  MayPut(work, dst, s) /\ Edited(Put(work, dst, s, m))

Move == \E src \in DOMAIN work \ {<< >>}, dst \in Paths, m \in Metas :
  LET s == Subtree(work, src)
      rest == Prune(work, src)
  IN  MayPut(rest, dst, s) /\ Edited(Put(rest, dst, s, m))

SetMeta == \E p \in DOMAIN work, m \in Metas :
  Edited([work EXCEPT ![p] = Override(@, m)])

RemovePath == \E p \in DOMAIN work \ {<< >>} : Edited(Prune(work, p))

Commit == editing /\ fs' = work /\ editing' = FALSE /\ UNCHANGED work

Abort == editing /\ work' = fs /\ editing' = FALSE /\ UNCHANGED fs

Init == WellFormed(fs) /\ work = fs /\ editing = FALSE

Next == Open \/ Add \/ Copy \/ Move \/ SetMeta \/ RemovePath \/ Commit \/ Abort

Spec == Init /\ [][Next]_vars
=============================================================================
