----------------------------- MODULE MCErofsEdit -----------------------------
(***************************************************************************)
(* Instances of ErofsEdit: small images and host trees over the names      *)
(* a and d.                                                                *)
(***************************************************************************)
EXTENDS ErofsPromises

Root == << >>
A == <<"a">>
D == <<"d">>
DA == <<"d", "a">>

FourPaths == <<Root, A, D, DA>>

\* What mkfs is given for one file or directory.
Made(kind, bytes, ctx, layout, slack) ==
  [kind |-> kind, bytes |-> bytes, size |-> IF kind = "dir" \/ bytes # NoBytes THEN 1 ELSE 0,
   perm |-> "p0", ctx |-> ctx, layout |-> layout, slack |-> slack]

\* A plain image without contexts, whose root has room for one more name.
PlainImage ==
  (Root :> Made("dir", NoBytes, NoCtx, "plain", 1)) @@
  (A :> Made("file", "x", NoCtx, "plain", 0)) @@
  (D :> Made("dir", NoBytes, NoCtx, "plain", 0))

\* The usual system image: inline directories, a packed file, contexts.
MixedImage ==
  (Root :> Made("dir", NoBytes, "c0", "inline", 0)) @@
  (A :> Made("file", "x", "c0", "packed", 0)) @@
  (D :> Made("dir", NoBytes, NoCtx, "inline", 0)) @@
  (DA :> Made("file", "y", "c1", "inline", 0))

Host(kind, bytes) == [kind |-> kind, bytes |-> bytes, perm |-> "h"]

HostFile == Root :> Host("file", "z")
HostEmpty == Root :> Host("file", NoBytes)
HostStdin == Root :> Host("untyped", "z")
HostDir == (Root :> Host("dir", NoBytes)) @@ (A :> Host("file", "z"))

AllImages == {PlainImage, MixedImage}
RegularHosts == {HostFile, HostDir}
AllHosts == {HostFile, HostDir, HostEmpty, HostStdin}

LongRuns == <<2, 1>>
=============================================================================
