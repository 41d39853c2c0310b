-------------------------- MODULE ConversionProofs --------------------------
(***************************************************************************)
(* Proofs about conversions, for every well-formed source image and every  *)
(* size of a block, a chunk and an extent: the cached block source is a    *)
(* BlockService, and every file arrives with its bytes.  And about --cat,  *)
(* which reads the same images without them.                               *)
(***************************************************************************)
EXTENDS CommandsProofs

(* What the theorems suppose of the source images.  *)
SourcesAreWellFormed == \A source \in Images : WellFormed(source)

(* All bytes that files of the image consist of.  *)
Bytes == {Zero} \cup UNION {Range(TreeContent(n)) : n \in Range(image.nodes)}

(* Where the extents of the new file begin in it, and where the last ends.  *)
Boundary(node, x) ==
    IF x = Len(NewExtents(node)) THEN node.size ELSE NewExtents(node)[x + 1][1] * BlockBytes

Loaded == convert \in {"copy", "done"} /\ target # image.fs
Arrived == tree[file].size - remaining

TreeIsLoaded == tree = IF target = "erofs" THEN PruneSpecials(image.nodes) ELSE image.nodes

(* The files before the one being copied have arrived, and of that one all *)
(* bytes before the place of the copy.                                     *)
FilesArrive ==
    /\ file \in 0..Len(tree) /\ out \in Seq(Seq(Bytes)) /\ Len(out) = file
    /\ \A i \in 1..(file - 1) : out[i] = TreeContent(tree[i])
    /\ file > 0 => /\ Len(out[file]) = Arrived
                   /\ \A k \in 1..Arrived : out[file][k] = TreeContent(tree[file])[k]

(* The place of the copy, in the file and in its extents.  *)
PlaceInFile ==
    /\ extent_bytes \in Nat /\ src_pos \in Nat
    /\ file = 0 => extent_bytes = 0
    /\ file > 0 => /\ extent \in 0..Len(NewExtents(tree[file]))
                   /\ remaining \in 0..tree[file].size
                   /\ Arrived + extent_bytes = Boundary(tree[file], extent)
                   /\ extent_bytes > 0 => src_pos = Arrived

(* What is asked for lies within the file, and the part of the answer that *)
(* is there is what the file has.                                          *)
AnswerIsRight ==
    /\ request = Nothing => buf = <<>>
    /\ request # Nothing =>
           /\ file > 0 /\ request.len \in 1..extent_bytes
           /\ request = [node |-> tree[file], from |-> src_pos, len |-> request.len]
           /\ buf \in Seq(Bytes) /\ Len(buf) <= request.len
           /\ \A k \in 1..Len(buf) : buf[k] = TreeContent(tree[file])[src_pos + k]

(* The index loaded is that of the compressed file read last, the files    *)
(* behind it had none; and where one segment is the file, the place in the *)
(* index never leaves it.                                                  *)
ReadLast(i) ==
    /\ Indexed(tree[i]) /\ file_nid = tree[i].nid /\ segments = tree[i].segments
    /\ \A k \in (i + 1)..(file - 1) : ~Indexed(tree[k])
    /\ OneSegment(tree[i]) => seg_idx = 1
Serves == image.fs = "erofs" /\ file > 0 /\ Indexed(tree[file]) /\ file_nid = tree[file].nid
CacheIsRight ==
    /\ seg_idx \in Nat \ {0}
    /\ image.fs = "erofs" /\ file_nid # 0 => \E i \in 1..file : ReadLast(i)
    /\ Serves => \A s \in 1..(seg_idx - 1) : s \in DOMAIN segments => segments[s].end <= Arrived + Len(buf)
    /\ image.fs = "erofs" /\ file > 0 /\ Indexed(tree[file]) /\ Arrived + Len(buf) > 0 => Serves

ConversionInvariant ==
    /\ image \in Images /\ DecodedIsCurrent
    /\ convert \in {"idle", "copy", "container", "done"}
    /\ convert = "copy" => target # image.fs
    /\ convert = "container" => target = image.fs
    /\ ~Loaded => request = Nothing /\ buf = <<>>
    /\ convert = "idle" => file_nid = 0 /\ seg_idx = 1
    /\ convert = "done" => request = Nothing /\ buf = <<>>
    /\ Loaded => TreeIsLoaded /\ FilesArrive /\ PlaceInFile /\ AnswerIsRight /\ CacheIsRight
    /\ Loaded /\ convert = "done" => FileDone /\ file = Len(tree)

-----------------------------------------------------------------------------
(* Division, and the extents of the new file.                              *)

(* A quotient rounded up is the least that covers.                         *)
LEMMA RoundedUp ==
    ASSUME NEW a \in Nat, NEW b \in Nat \ {0}, NEW c, c = (a + b - 1) \div b
    PROVE  c \in Nat /\ a <= c * b /\ (c - 1) * b < a /\ (a = 0 <=> c = 0)
<1> DEFINE d == a + b - 1
<1>1. d \in Nat
    OBVIOUS
<1>2. d = b * (d \div b) + (d % b) /\ d % b \in 0..(b - 1) /\ d \div b \in Nat
    BY <1>1
<1>3. c \in Nat /\ a <= c * b /\ (c - 1) * b < a
    BY <1>2
<1>4. a = 0 => c * b < b
    BY <1>3
<1>5. c # 0 => b <= c * b
    <2>1. ASSUME c # 0 PROVE c - 1 >= 0 /\ c * b = (c - 1) * b + b /\ (c - 1) * b >= 0
        BY <1>3, <2>1
    <2> QED BY <2>1
<1>6. c = 0 => c * b = 0
    BY <1>3
<1> QED BY <1>3, <1>4, <1>5, <1>6

(* Each extent begins where the one before ended, and the last ends with   *)
(* the file.                                                               *)
LEMMA ExtentsCoverTheFile ==
    ASSUME NEW node, node.size \in Nat
    PROVE  /\ Len(NewExtents(node)) \in Nat
           /\ Boundary(node, 0) = 0
           /\ \A x \in 0..Len(NewExtents(node)) : Boundary(node, x) \in 0..node.size
           /\ \A x \in 0..(Len(NewExtents(node)) - 1) :
                  LET e == NewExtents(node)[x + 1]
                  IN  /\ e[1] * BlockBytes = Boundary(node, x)
                      /\ Boundary(node, x)
                            + Smaller(e[2] * BlockBytes, node.size - Boundary(node, x))
                         = Boundary(node, x + 1)
                      /\ e[2] \in Int /\ Boundary(node, x) <= Boundary(node, x + 1)
<1> DEFINE size == node.size
           B == BlockBytes
           blocks == (size + B - 1) \div B
           run == IF target = "ext4" /\ ~options.shared THEN MaxExtent ELSE blocks
           n == (blocks + run - 1) \div run
           ext == NewExtents(node)
<1>1. B \in Nat \ {0} /\ MaxExtent \in Nat \ {0}
    BY ChunkAssumption
<1>2. blocks \in Nat /\ size <= blocks * B /\ (blocks - 1) * B < size /\ (size = 0 <=> blocks = 0)
    BY <1>1, RoundedUp
<1>3. ext = IF blocks = 0 THEN <<>>
            ELSE [x \in 1..n |-> <<(x - 1) * run, Smaller(run, blocks - (x - 1) * run)>>]
    BY DEF NewExtents
<1>4. CASE blocks = 0
    <2>1. ext = <<>> /\ size = 0
        BY <1>2, <1>3, <1>4
    <2>2. Len(ext) = 0
        BY <2>1
    <2>3. \A x \in 0..0 : Boundary(node, x) = 0
        BY <2>1, <2>2 DEF Boundary
    <2> QED BY <2>1, <2>2, <2>3
<1>5. CASE blocks # 0
    <2>1. run \in Nat \ {0}
        BY <1>1, <1>2, <1>5
    <2>2. n \in Nat \ {0} /\ blocks <= n * run /\ (n - 1) * run < blocks
        <3> HIDE DEF blocks, run
        <3> QED BY <1>2, <1>5, <2>1, RoundedUp
    <2> HIDE DEF blocks, run, n
    <2>3. ext = [x \in 1..n |-> <<(x - 1) * run, Smaller(run, blocks - (x - 1) * run)>>]
        BY <1>3, <1>5
    <2>4. /\ Len(ext) = n
          /\ \A x \in 0..(n - 1) : ext[x + 1] = <<x * run, Smaller(run, blocks - x * run)>>
        <3>1. Len(ext) = n
            BY <2>2, <2>3
        <3>2. ASSUME NEW x \in 0..(n - 1)
              PROVE  ext[x + 1] = <<x * run, Smaller(run, blocks - x * run)>>
            <4>1. \A z \in 1..n : ext[z] = <<(z - 1) * run, Smaller(run, blocks - (z - 1) * run)>>
                BY <2>3
            <4>2. x + 1 \in 1..n /\ (x + 1) - 1 = x
                BY <2>2
            <4> HIDE DEF ext
            <4> QED BY <4>1, <4>2
        <3> QED BY <3>1, <3>2
    <2>5. \A x \in 0..(n - 1) : Boundary(node, x) = (x * run) * B
        BY <2>2, <2>4 DEF Boundary
    <2>6. Boundary(node, n) = size
        BY <2>4 DEF Boundary
    <2>7. ASSUME NEW x \in 0..(n - 1)
          PROVE  /\ (x * run) * B \in Nat /\ (x * run) * B < size
                 /\ (x * run) * B + Smaller(Smaller(run, blocks - x * run) * B, size - (x * run) * B)
                    = IF x + 1 = n THEN size ELSE ((x + 1) * run) * B
                 /\ (x * run) * B <= IF x + 1 = n THEN size ELSE ((x + 1) * run) * B
                 /\ Smaller(run, blocks - x * run) \in Int
        <3> DEFINE y == x * run
        <3>0. /\ size \in Nat /\ B \in Nat \ {0} /\ blocks \in Nat /\ run \in Nat \ {0}
              /\ n \in Nat \ {0} /\ x \in 0..(n - 1) /\ y = x * run
              /\ size <= blocks * B /\ (blocks - 1) * B < size
              /\ blocks <= n * run /\ (n - 1) * run < blocks
            BY <1>1, <1>2, <2>1, <2>2
        <3> HIDE DEF B, size, y
        <3>1. y \in Nat /\ y <= (n - 1) * run /\ (n - 1) * run \in Nat
            BY <3>0, ProductsGrow
        <3>2. y <= blocks - 1 /\ blocks - 1 \in Nat
            BY <3>0, <3>1
        <3>3. y * B \in Nat /\ y * B <= (blocks - 1) * B
            BY <3>0, <3>1, <3>2, ProductsGrow
        <3>4. y * B < size
            BY <3>0, <3>1, <3>2, <3>3
        <3>5. (blocks - y) * B = blocks * B - y * B /\ (blocks - y) \in Nat /\ blocks * B \in Nat
            BY <3>0, <3>1, <3>2
        <3>6. (x + 1) * run = y + run /\ (y + run) * B = y * B + run * B /\ run * B \in Nat
            BY <3>0, <3>1
        <3>7. CASE x + 1 = n
            <4>1. blocks - y <= run
                BY <3>0, <3>1, <3>6, <3>7
            <4>2. Smaller(run, blocks - y) = blocks - y
                BY <3>0, <3>1, <3>2, <4>1 DEF Smaller
            <4>3. (blocks - y) * B >= size - y * B
                BY <3>0, <3>3, <3>5
            <4>4. Smaller((blocks - y) * B, size - y * B) = size - y * B
                BY <3>0, <3>3, <3>5, <4>3 DEF Smaller
            <4> QED BY <3>0, <3>1, <3>3, <3>4, <3>7, <4>2, <4>4
        <3>8. CASE x + 1 # n
            <4>1. (x + 1) * run <= (n - 1) * run
                BY <3>0, <3>8, ProductsGrow
            <4>2. y + run <= blocks - 1
                BY <3>0, <3>1, <3>2, <3>6, <4>1
            <4>3. Smaller(run, blocks - y) = run
                BY <3>0, <3>1, <4>2 DEF Smaller
            <4>4. (y + run) * B <= (blocks - 1) * B
                BY <3>0, <3>1, <3>2, <4>2, ProductsGrow
            <4>5. run * B < size - y * B
                BY <3>0, <3>3, <3>5, <3>6, <4>4
            <4>6. Smaller(run * B, size - y * B) = run * B
                BY <3>0, <3>3, <3>6, <4>5 DEF Smaller
            <4> QED BY <3>0, <3>1, <3>3, <3>4, <3>6, <3>8, <4>3, <4>6
        <3> QED BY <3>0, <3>7, <3>8
    <2>8. ASSUME NEW x \in 0..(n - 1)
          PROVE  (IF x + 1 = n THEN size ELSE ((x + 1) * run) * B) = Boundary(node, x + 1)
        <3>1. x + 1 = n \/ x + 1 \in 0..(n - 1)
            BY <2>2
        <3> QED BY <2>5, <2>6, <3>1
    <2>9. ASSUME NEW x \in 0..(n - 1)
          PROVE  /\ ext[x + 1][1] * B = Boundary(node, x)
                 /\ Boundary(node, x) + Smaller(ext[x + 1][2] * B, size - Boundary(node, x))
                    = Boundary(node, x + 1)
                 /\ ext[x + 1][2] \in Int /\ Boundary(node, x) <= Boundary(node, x + 1)
        <3>1. ext[x + 1][1] = x * run /\ ext[x + 1][2] = Smaller(run, blocks - x * run)
            BY <2>4
        <3> QED BY <2>5, <2>7, <2>8, <3>1
    <2>10. Boundary(node, 0) = 0
        <3>1. 0 \in 0..(n - 1) /\ (0 * run) * B = 0
            BY <1>1, <2>1, <2>2
        <3> QED BY <2>5, <3>1
    <2>11. \A x \in 0..n : Boundary(node, x) \in 0..size
        <3> TAKE x \in 0..n
        <3>1. x = n \/ x \in 0..(n - 1)
            BY <2>2
        <3> DEFINE v == (x * run) * B
        <3>2. x \in 0..(n - 1) => v \in Nat /\ v < size /\ Boundary(node, x) = v
            BY <2>5, <2>7
        <3> HIDE DEF v
        <3> QED BY <2>6, <3>1, <3>2
    <2>12. /\ Len(ext) \in Nat
           /\ \A x \in 0..Len(ext) : Boundary(node, x) \in 0..size
        BY <2>2, <2>4, <2>11
    <2>13. \A x \in 0..(Len(ext) - 1) :
              /\ ext[x + 1][1] * B = Boundary(node, x)
              /\ Boundary(node, x) + Smaller(ext[x + 1][2] * B, size - Boundary(node, x))
                 = Boundary(node, x + 1)
              /\ ext[x + 1][2] \in Int /\ Boundary(node, x) <= Boundary(node, x + 1)
        BY <2>4, <2>9
    <2> QED BY <2>10, <2>12, <2>13
<1> QED BY <1>4, <1>5

-----------------------------------------------------------------------------
(* The tree a conversion loads, and the content of its nodes.              *)

(* prune_specials keeps the nodes that have an encoding, and no others.    *)
LEMMA PrunedNodes ==
    ASSUME NEW S, NEW nodes \in Seq(S)
    PROVE  /\ PruneSpecials(nodes) \in Seq(S)
           /\ Range(PruneSpecials(nodes)) = {n \in Range(nodes) : HasEncoding(n)}
<1> DEFINE N == Len(nodes)
           Add(k, seq) == IF HasEncoding(nodes[k]) THEN Append(seq, nodes[k]) ELSE seq
           step == [k \in 1..N |-> [seq \in Seq(S) |-> Add(k, seq)]]
           Rounds(g) == g = [k \in 0..N |-> IF k = 0 THEN <<>> ELSE Add(k, g[k - 1])]
           h == CHOOSE g : Rounds(g)
           First(k) == {n \in S : HasEncoding(n) /\ \E j \in 1..k : n = nodes[j]}
<1>1. PruneSpecials(nodes) = h[N]
    BY DEF PruneSpecials
<1>2. N \in Nat /\ \A k \in 1..N : nodes[k] \in S
    OBVIOUS
<1>3. \A k \in 1..N, seq \in Seq(S) : Add(k, seq) \in Seq(S)
    BY <1>2
<1> HIDE DEF N, Add
<1>4. step \in [1..N -> [Seq(S) -> Seq(S)]]
    BY <1>3
<1>5. \A k \in 1..N, seq \in Seq(S) : step[k][seq] = Add(k, seq)
    OBVIOUS
<1> HIDE DEF step
<1>6. PICK f \in [0..N -> Seq(S)] : IsLoop(f, N, <<>>, step)
    <2>1. <<>> \in Seq(S)
        OBVIOUS
    <2> QED BY <1>2, <1>4, <2>1, LoopHasValues
<1>7. Rounds(f)
    <2>1. \A k \in 0..N : f[k] = IF k = 0 THEN <<>> ELSE Add(k, f[k - 1])
        <3> TAKE k \in 0..N
        <3>1. CASE k = 0
            BY <1>6, <3>1 DEF IsLoop
        <3>2. CASE k # 0
            <4>1. k \in 1..N /\ k - 1 \in 0..N
                BY <1>2, <3>2
            <4>2. f[k - 1] \in Seq(S)
                BY <1>6, <4>1
            <4> QED BY <1>5, <1>6, <3>2, <4>1, <4>2 DEF IsLoop
        <3> QED BY <3>1, <3>2
    <2>2. f = [k \in 0..N |-> f[k]]
        OBVIOUS
    <2> QED BY <2>1, <2>2
<1>8. Rounds(h)
    BY <1>7
<1> HIDE DEF h
<1>9. h[0] = <<>> /\ \A k \in 1..N : h[k] = Add(k, h[k - 1])
    BY <1>2, <1>8
<1>10. \A k \in 0..N : h[k] \in Seq(S) /\ Range(h[k]) = First(k)
    <2> DEFINE Odd == {k \in 0..N : ~(h[k] \in Seq(S) /\ Range(h[k]) = First(k))}
    <2> SUFFICES ASSUME Odd # {} PROVE FALSE
        OBVIOUS
    <2>1. Odd \subseteq Nat
        OBVIOUS
    <2> HIDE DEF Odd
    <2>2. PICK k \in Odd : \A m \in Odd : k <= m
        BY <2>1, LeastElement
    <2> USE DEF Odd
    <2>3. k \in 0..N
        BY <2>2
    <2>4. CASE k = 0
        <3>1. h[k] \in Seq(S) /\ Range(h[k]) = {}
            <4>1. h[k] = <<>> /\ DOMAIN h[k] = {}
                BY <1>9, <2>4
            <4>2. Range(h[k]) = {}
                BY <4>1 DEF Range
            <4> QED BY <4>1, <4>2
        <3>2. First(k) = {}
            BY <2>4
        <3> QED BY <2>2, <3>1, <3>2
    <2>5. CASE k # 0
        <3>1. k \in 1..N /\ k - 1 \in 0..N
            BY <1>2, <2>3, <2>5
        <3>2. h[k - 1] \in Seq(S) /\ Range(h[k - 1]) = First(k - 1)
            <4> HIDE DEF Odd
            <4>1. k - 1 \notin Odd
                BY <2>2, <3>1
            <4> HIDE DEF First
            <4> QED BY <3>1, <4>1 DEF Odd
        <3>3. h[k] = Add(k, h[k - 1]) /\ nodes[k] \in S
            BY <1>2, <1>9, <3>1
        <3>4. h[k] \in Seq(S)
            BY <1>3, <3>1, <3>2, <3>3
        <3>5. \A n : n \in First(k) <=> n \in First(k - 1) \/ (n = nodes[k] /\ HasEncoding(n))
            <4>1. \A j : j \in 1..k <=> j \in 1..(k - 1) \/ j = k
                BY <3>1
            <4> QED BY <3>3, <4>1
        <3> HIDE DEF First
        <3>6. CASE HasEncoding(nodes[k])
            <4>1. h[k] = Append(h[k - 1], nodes[k])
                BY <3>3, <3>6 DEF Add
            <4>2. \A n : n \in Range(h[k]) <=> n \in Range(h[k - 1]) \/ n = nodes[k]
                <5>1. DOMAIN h[k - 1] = 1..Len(h[k - 1]) /\ Len(h[k - 1]) \in Nat
                    BY <3>2
                <5>2. DOMAIN h[k] = DOMAIN h[k - 1] \cup {Len(h[k - 1]) + 1}
                    BY <3>2, <3>3, <4>1, <5>1
                <5>3. /\ \A j \in DOMAIN h[k - 1] : h[k][j] = h[k - 1][j]
                      /\ h[k][Len(h[k - 1]) + 1] = nodes[k]
                    BY <3>2, <3>3, <4>1, <5>1
                <5> QED BY <5>2, <5>3 DEF Range
            <4>3. \A n : n \in Range(h[k]) <=> n \in First(k)
                BY <3>2, <3>5, <3>6, <4>2
            <4>4. Range(h[k]) = First(k)
                BY <4>3
            <4> QED BY <2>2, <3>4, <4>4
        <3>7. CASE ~HasEncoding(nodes[k])
            <4>1. h[k] = h[k - 1]
                BY <3>3, <3>7 DEF Add
            <4>2. First(k) = First(k - 1)
                BY <3>5, <3>7
            <4> QED BY <2>2, <3>2, <3>4, <4>1, <4>2
        <3> QED BY <3>6, <3>7
    <2> QED BY <2>4, <2>5
<1>11. Range(nodes) = {n \in S : \E j \in 1..N : n = nodes[j]}
    <2>1. DOMAIN nodes = 1..N
        BY DEF N
    <2> QED BY <1>2, <2>1 DEF Range
<1>12. N \in 0..N
    BY <1>2
<1> QED BY <1>1, <1>10, <1>11, <1>12

(* What holds of every node of the tree that is loaded: it is a node of    *)
(* the image, and a well-formed one.                                       *)
LEMMA LoadedTree ==
    ASSUME WellFormed(image), TreeIsLoaded
    PROVE  /\ tree \in Seq(SourceNode)
           /\ Range(tree) \subseteq Range(image.nodes)
           /\ \A i \in DOMAIN tree :
                  /\ tree[i] \in Range(image.nodes) /\ tree[i] \in SourceNode
                  /\ OnDisk(tree[i]) /\ ExtentsApart(tree[i]) /\ SegmentsInOrder(tree[i])
<1>1. image.nodes \in Seq(SourceNode)
    BY DEF WellFormed
<1>2. tree \in Seq(SourceNode) /\ Range(tree) \subseteq Range(image.nodes)
    BY <1>1, PrunedNodes DEF TreeIsLoaded
<1>3. \A i \in DOMAIN tree : tree[i] \in Range(tree) /\ tree[i] \in SourceNode
    BY <1>2 DEF Range
<1> QED BY <1>2, <1>3 DEF WellFormed

(* The content of a node has as many bytes as its size says.               *)
LEMMA ContentHasTheSize ==
    ASSUME NEW n \in SourceNode
    PROVE  /\ Content(n) = [k \in 1..n.size |-> Content(n)[k]]
           /\ TreeContent(n) = [k \in 1..n.size |-> TreeContent(n)[k]]
           /\ FileContent(image.fs, n) = [k \in 1..n.size |-> FileContent(image.fs, n)[k]]
           /\ Len(Content(n)) = n.size /\ Len(TreeContent(n)) = n.size
<1>1. n.size \in Nat
    BY DEF SourceNode
<1>2. \A m, s : s \in Nat => ReadPrefix(m, s) = [k \in 1..Smaller(m.size, s) |-> ReadPrefix(m, s)[k]]
    BY DEF ReadPrefix
<1>3. Smaller(n.size, n.size) = n.size
    BY DEF Smaller
<1>4. [n EXCEPT !.extents = TreeExtents(n)].size = n.size
    BY DEF SourceNode
<1>5. Content(n) = [k \in 1..n.size |-> Content(n)[k]]
    BY DEF Content
<1>6. TreeContent(n) = [k \in 1..n.size |-> TreeContent(n)[k]]
    <2> DEFINE m == [n EXCEPT !.extents = TreeExtents(n)]
    <2>1. ReadPrefix(m, n.size) = [k \in 1..n.size |-> ReadPrefix(m, n.size)[k]]
        <3>1. Smaller(m.size, n.size) = n.size
            BY <1>3, <1>4
        <3> HIDE DEF m
        <3> QED BY ONLY <1>1, <1>2, <3>1
    <2>2. TreeContent(n) = ReadPrefix(m, n.size) \/ TreeContent(n) = Content(n)
        BY DEF TreeContent
    <2> HIDE DEF m
    <2> QED BY <1>5, <2>1, <2>2
<1>7. FileContent(image.fs, n) = [k \in 1..n.size |-> FileContent(image.fs, n)[k]]
    <2>1. ReadPrefix(n, n.size) = [k \in 1..n.size |-> ReadPrefix(n, n.size)[k]]
        BY <1>1, <1>2, <1>3
    <2>2. FileContent(image.fs, n) \in {ReadPrefix(n, n.size), Content(n)}
        BY DEF FileContent
    <2> QED BY <1>5, <2>1, <2>2
<1>8. Len(Content(n)) = n.size /\ Len(TreeContent(n)) = n.size
    BY <1>1, <1>5, <1>6
<1> QED BY <1>5, <1>6, <1>7, <1>8

(* Every byte of a node's content is one of the image's bytes.             *)
LEMMA ContentIsBytes ==
    ASSUME WellFormed(image), NEW n \in Range(image.nodes)
    PROVE  /\ n \in SourceNode /\ n.size \in Nat
           /\ TreeContent(n) \in Seq(Bytes) /\ Len(TreeContent(n)) = n.size
           /\ \A k \in 1..n.size : TreeContent(n)[k] \in Bytes
<1>1. n \in SourceNode /\ n.size \in Nat
    <2>1. image.nodes \in Seq(SourceNode)
        BY DEF WellFormed
    <2>2. PICK x \in DOMAIN image.nodes : n = image.nodes[x]
        BY DEF Range
    <2>3. n \in SourceNode
        BY <2>1, <2>2
    <2> QED BY <2>3 DEF SourceNode
<1>2. TreeContent(n) = [k \in 1..n.size |-> TreeContent(n)[k]] /\ Len(TreeContent(n)) = n.size
    BY <1>1, ContentHasTheSize, Zenon
<1>3. \A k \in 1..n.size : TreeContent(n)[k] \in Bytes
    <2>1. DOMAIN TreeContent(n) = 1..n.size
        BY <1>2
    <2>2. \A k \in 1..n.size : TreeContent(n)[k] \in Range(TreeContent(n))
        BY <2>1 DEF Range
    <2>3. Range(TreeContent(n)) \subseteq Bytes
        BY DEF Bytes
    <2> QED BY <2>2, <2>3
<1>4. TreeContent(n) \in [1..n.size -> Bytes]
    BY <1>2, <1>3
<1> QED BY <1>1, <1>2, <1>3, <1>4

(* Where extents do not overlap, the first that holds a block is the last: *)
(* the ext4 source answers with what a read of the whole file finds.       *)
LEMMA ExtentBytesAreContent ==
    ASSUME NEW n \in SourceNode, n.kind = "file", ExtentsApart(n), image.fs = "ext4",
           NEW k \in 1..n.size
    PROVE  ExtentByte(n, k - 1) = TreeContent(n)[k]
<1> DEFINE ext == TreeExtents(n)
           m == [n EXCEPT !.extents = TreeExtents(n)]
           block == (k - 1) \div BlockBytes
           H == {x \in DOMAIN ext : InExtent(ext[x], block)}
           Byte(e) == Raw((e.physical + block - e.logical) * BlockBytes + ((k - 1) % BlockBytes))
<1>1. block \in Nat /\ n.size \in Nat /\ k - 1 \in Nat
    BY ChunkAssumption DEF SourceNode
<1>2. n.extents \in Seq(SourceExtent)
    BY DEF SourceNode
<1>3. DOMAIN ext = DOMAIN n.extents
    BY DEF TreeExtents
<1>4. \A x \in DOMAIN n.extents :
          /\ ext[x].logical = n.extents[x].logical /\ ext[x].length = n.extents[x].length
          /\ ext[x].unwritten = FALSE
          /\ n.extents[x].logical \in Nat /\ n.extents[x].length \in Nat
    <2> TAKE x \in DOMAIN n.extents
    <2>1. n.extents[x] \in SourceExtent
        BY <1>2
    <2> QED BY <2>1 DEF TreeExtents, SourceExtent
<1>5. m.extents = ext /\ m.size = n.size
    BY DEF SourceNode
<1>6. ExtentByte(n, k - 1) = IF H = {} THEN Zero ELSE Byte(ext[Min(H)])
    BY DEF ExtentByte
<1>7. TreeContent(n)[k] = ReadPrefix(m, n.size)[k]
    BY DEF TreeContent
<1>8. {x \in DOMAIN m.extents : ~m.extents[x].unwritten /\ InExtent(m.extents[x], block)} = H
    BY <1>3, <1>4, <1>5
<1> HIDE DEF m, ext
<1>9. Smaller(m.size, n.size) = n.size
    BY <1>1, <1>5 DEF Smaller
<1>10. ReadPrefix(m, n.size)[k]
         = LET here == {x \in DOMAIN m.extents : ~m.extents[x].unwritten /\ InExtent(m.extents[x], block)}
           IN  IF here = {} THEN Zero ELSE Byte(m.extents[Max(here)])
    BY <1>9 DEF ReadPrefix
<1>11. ReadPrefix(m, n.size)[k] = IF H = {} THEN Zero ELSE Byte(ext[Max(H)])
    BY <1>5, <1>8, <1>10
<1>12. \A x, y \in H : x = y
    <2> HIDE DEF block
    <2> TAKE x, y \in H
    <2>1. x \in DOMAIN n.extents /\ y \in DOMAIN n.extents
        BY <1>3
    <2>2. /\ n.extents[x].logical <= block /\ block < n.extents[x].logical + n.extents[x].length
          /\ n.extents[y].logical <= block /\ block < n.extents[y].logical + n.extents[y].length
        BY <1>4, <2>1 DEF InExtent
    <2> QED BY <1>1, <1>4, <2>1, <2>2 DEF ExtentsApart
<1>13. H \subseteq Nat
    BY <1>2, <1>3
<1> HIDE DEF H, Byte
<1>14. H # {} => Max(H) = Min(H)
    <2> SUFFICES ASSUME H # {} PROVE Max(H) = Min(H)
        OBVIOUS
    <2>1. PICK x \in H : TRUE
        OBVIOUS
    <2>2. \A y \in H : x >= y /\ x <= y
        BY <1>12, <1>13, <2>1
    <2>3. Max(H) \in H
        BY <2>1, <2>2 DEF Max
    <2>4. Min(H) \in H
        BY <2>1, <2>2 DEF Min
    <2> QED BY <1>12, <2>3, <2>4
<1> QED BY <1>6, <1>7, <1>11, <1>14

(* The bytes of a compressed file: those of the segment that holds the     *)
(* place, and zeros where none does.                                       *)
LEMMA SegmentBytesAreContent ==
    ASSUME NEW n \in SourceNode, n.layout = "compressed", SegmentsInOrder(n), NEW k \in 1..n.size
    PROVE  /\ \A x \in DOMAIN n.segments :
                  n.segments[x].start < k /\ k <= n.segments[x].end
                      => Content(n)[k] = SegmentBytes(n.segments[x])[k - n.segments[x].start]
           /\ (\A x \in DOMAIN n.segments : ~(n.segments[x].start < k /\ k <= n.segments[x].end))
                  => Content(n)[k] = Zero
<1> DEFINE here == {s \in Range(n.segments) : s.start < k /\ k <= s.end}
           chosen == CHOOSE s \in here : TRUE
<1>1. n.segments \in Seq(SourceSegment) /\ n.size \in Nat
    BY DEF SourceNode
<1>2. \A x \in DOMAIN n.segments :
          x \in Nat /\ n.segments[x].start \in Nat /\ n.segments[x].end \in Nat
    <2> TAKE x \in DOMAIN n.segments
    <2>1. n.segments[x] \in SourceSegment /\ x \in Nat
        BY <1>1
    <2> QED BY <2>1 DEF SourceSegment
<1>3. Content(n)[k] = IF here = {} THEN Zero ELSE SegmentBytes(chosen)[k - chosen.start]
    BY DEF Content
<1>4. ASSUME NEW x \in DOMAIN n.segments, n.segments[x].start < k, k <= n.segments[x].end
      PROVE  here = {n.segments[x]}
    <2>1. n.segments[x] \in here
        BY <1>4 DEF Range
    <2>2. ASSUME NEW s \in here PROVE s = n.segments[x]
        <3>1. PICK y \in DOMAIN n.segments : s = n.segments[y]
            BY DEF Range
        <3>2. n.segments[y].start < k /\ k <= n.segments[y].end
            BY <3>1
        <3>3. ~(x < y) /\ ~(y < x)
            BY <1>2, <1>4, <3>2 DEF SegmentsInOrder
        <3> QED BY <1>2, <3>1, <3>3
    <2> HIDE DEF here
    <2> QED BY <2>1, <2>2
<1>5. ASSUME NEW x \in DOMAIN n.segments, n.segments[x].start < k, k <= n.segments[x].end
      PROVE  chosen = n.segments[x] /\ here # {}
    <2>1. here = {n.segments[x]}
        BY <1>4, <1>5
    <2> HIDE DEF here
    <2> QED BY <2>1
<1>6. (\A x \in DOMAIN n.segments : ~(n.segments[x].start < k /\ k <= n.segments[x].end)) => here = {}
    BY DEF Range
<1> HIDE DEF here, chosen
<1> QED BY <1>3, <1>5, <1>6

-----------------------------------------------------------------------------
(* One turn of read_node_block.                                            *)

(* What is known of the request that is being answered.                    *)
AskedInFile ==
    /\ WellFormed(image) /\ Loaded /\ convert = "copy" /\ TreeIsLoaded
    /\ file \in DOMAIN tree /\ Asked = tree[file] /\ request.from = src_pos
    /\ request.len \in Nat \ {0} /\ src_pos \in Nat /\ src_pos = Arrived
    /\ src_pos + request.len <= tree[file].size
    /\ tree[file] \in Range(image.nodes) /\ tree[file] \in SourceNode
    /\ OnDisk(tree[file]) /\ ExtentsApart(tree[file]) /\ SegmentsInOrder(tree[file])
    /\ TreeContent(tree[file]) \in Seq(Bytes) /\ Len(TreeContent(tree[file])) = tree[file].size
    /\ \A k \in 1..tree[file].size : TreeContent(tree[file])[k] \in Bytes
    /\ tree[file].size \in Nat
    /\ buf \in Seq(Bytes) /\ Len(buf) \in Nat /\ Len(buf) <= request.len
    /\ \A k \in 1..Len(buf) : buf[k] = TreeContent(tree[file])[src_pos + k]

(* A request is for a range of the file being copied, and what has been    *)
(* answered so far are its bytes.                                          *)
LEMMA RequestsStayInFile ==
    ASSUME SourcesAreWellFormed, ConversionInvariant, request # Nothing
    PROVE  AskedInFile
<1>1. WellFormed(image)
    BY DEF SourcesAreWellFormed, ConversionInvariant
<1>2. Loaded /\ convert = "copy" /\ TreeIsLoaded /\ FilesArrive /\ PlaceInFile /\ AnswerIsRight
    BY DEF ConversionInvariant, Loaded
<1>3. /\ file > 0 /\ request.len \in 1..extent_bytes /\ request.from = src_pos
      /\ Asked = tree[file] /\ extent_bytes \in Nat
      /\ buf \in Seq(Bytes) /\ Len(buf) \in Nat /\ Len(buf) <= request.len
      /\ \A k \in 1..Len(buf) : buf[k] = TreeContent(tree[file])[src_pos + k]
    <2>1. request = [node |-> tree[file], from |-> src_pos, len |-> request.len]
        BY <1>2 DEF AnswerIsRight
    <2>2. Asked = tree[file] /\ request.from = src_pos
        BY <2>1 DEF Asked
    <2> QED BY <1>2, <2>2 DEF AnswerIsRight, PlaceInFile
<1>4. tree \in Seq(SourceNode)
    BY <1>1, <1>2, LoadedTree
<1>5. file \in DOMAIN tree
    BY <1>2, <1>3, <1>4 DEF FilesArrive
<1>6. /\ tree[file] \in Range(image.nodes) /\ tree[file] \in SourceNode
      /\ OnDisk(tree[file]) /\ ExtentsApart(tree[file]) /\ SegmentsInOrder(tree[file])
    BY <1>1, <1>2, <1>5, LoadedTree
<1>7. /\ TreeContent(tree[file]) \in Seq(Bytes) /\ Len(TreeContent(tree[file])) = tree[file].size
      /\ tree[file].size \in Nat
      /\ \A k \in 1..tree[file].size : TreeContent(tree[file])[k] \in Bytes
    BY <1>1, <1>6, ContentIsBytes
<1>8. /\ src_pos = Arrived /\ src_pos \in Nat
      /\ Arrived + extent_bytes = Boundary(tree[file], extent)
      /\ extent \in 0..Len(NewExtents(tree[file]))
    BY <1>2, <1>3 DEF PlaceInFile
<1>9. Boundary(tree[file], extent) <= tree[file].size
    <2>1. tree[file].size \in Nat
        BY <1>7
    <2>2. \A x \in 0..Len(NewExtents(tree[file])) : Boundary(tree[file], x) \in 0..tree[file].size
        BY <2>1, ExtentsCoverTheFile
    <2>3. Boundary(tree[file], extent) \in 0..tree[file].size
        BY <1>8, <2>2
    <2> QED BY <2>1, <2>3
<1>10. src_pos + request.len <= tree[file].size
    BY <1>3, <1>7, <1>8, <1>9
<1> QED BY <1>1, <1>2, <1>3, <1>5, <1>6, <1>7, <1>8, <1>10 DEF AskedInFile

(* The answer goes on with the bytes of the file.  *)
AnswerGoesOn ==
    /\ UNCHANGED <<image, tree, request>> /\ UNCHANGED converterVars
    /\ buf' \in Seq(Bytes) /\ Len(buf') \in Len(buf)..request.len
    /\ \A k \in 1..Len(buf') : buf'[k] = TreeContent(tree[file])[src_pos + k]

(* Bytes that follow those of the answer in the file.                      *)
LEMMA AppendedBytes ==
    ASSUME AskedInFile, UNCHANGED <<image, tree, request>>, UNCHANGED converterVars,
           NEW m \in Nat, NEW data, m <= Left,
           data = [j \in 1..m |-> data[j]], buf' = buf \o data,
           \A j \in 1..m : data[j] = TreeContent(tree[file])[Pos + j]
    PROVE  AnswerGoesOn
<1>1. /\ Pos = src_pos + Len(buf) /\ Left = request.len - Len(buf)
      /\ Len(buf) \in Nat /\ src_pos \in Nat /\ request.len \in Nat /\ tree[file].size \in Nat
      /\ src_pos + request.len <= tree[file].size /\ buf \in Seq(Bytes)
    BY DEF AskedInFile, Pos, Left
<1>2. \A j \in 1..m : data[j] \in Bytes
    <2> TAKE j \in 1..m
    <2>1. Pos + j \in 1..tree[file].size
        BY <1>1
    <2> QED BY <2>1 DEF AskedInFile
<1>3. data \in Seq(Bytes) /\ Len(data) = m
    BY <1>2
<1>4. buf' \in Seq(Bytes) /\ Len(buf') = Len(buf) + m
    BY <1>1, <1>3
<1>5. /\ \A k \in 1..Len(buf) : buf'[k] = buf[k]
      /\ \A k \in (Len(buf) + 1)..(Len(buf) + m) : buf'[k] = data[k - Len(buf)]
    BY <1>1, <1>3
<1>6. \A k \in 1..Len(buf') : buf'[k] = TreeContent(tree[file])[src_pos + k]
    <2> TAKE k \in 1..Len(buf')
    <2>1. CASE k \in 1..Len(buf)
        BY <1>5, <2>1 DEF AskedInFile
    <2>2. CASE k \notin 1..Len(buf)
        <3>1. k \in (Len(buf) + 1)..(Len(buf) + m)
            BY <1>1, <1>4, <2>2
        <3>2. k - Len(buf) \in 1..m /\ Pos + (k - Len(buf)) = src_pos + k
            BY <1>1, <3>1
        <3>3. data[k - Len(buf)] = TreeContent(tree[file])[Pos + (k - Len(buf))]
            BY <3>2
        <3> QED BY <1>5, <3>1, <3>2, <3>3
    <2> QED BY <2>1, <2>2
<1>7. Len(buf') \in Len(buf)..request.len
    BY <1>1, <1>4
<1> QED BY <1>4, <1>6, <1>7 DEF AnswerGoesOn

(* An answer that is given at once.                                        *)
LEMMA WholeAnswer ==
    ASSUME AskedInFile, UNCHANGED <<image, tree, request>>, UNCHANGED converterVars,
           buf' = [k \in 1..request.len |-> buf'[k]],
           \A k \in 1..request.len : buf'[k] = TreeContent(tree[file])[src_pos + k]
    PROVE  AnswerGoesOn
<1>1. /\ Len(buf) \in Nat /\ src_pos \in Nat /\ request.len \in Nat /\ tree[file].size \in Nat
      /\ src_pos + request.len <= tree[file].size /\ Len(buf) <= request.len
    BY DEF AskedInFile
<1>2. \A k \in 1..request.len : buf'[k] \in Bytes
    <2> TAKE k \in 1..request.len
    <2>1. src_pos + k \in 1..tree[file].size
        BY <1>1
    <2> QED BY <2>1 DEF AskedInFile
<1>3. buf' \in Seq(Bytes) /\ Len(buf') = request.len
    BY <1>1, <1>2
<1> QED BY <1>1, <1>3 DEF AnswerGoesOn

(* The sources that keep nothing between calls.                            *)
LEMMA DirectAnswers ==
    ASSUME AskedInFile, UNCHANGED converterVars,
           ServeMemory \/ ServeExtents \/ ServePlain \/ ServeInline
    PROVE  /\ AnswerGoesOn /\ UNCHANGED <<file_nid, segments, seg_idx, decoded_idx, decoded>>
           /\ image.fs = "erofs" => ~Indexed(tree[file])
<1> DEFINE n == tree[file]
<1>1. /\ Asked = n /\ n \in SourceNode /\ request.from = src_pos /\ src_pos \in Nat
      /\ request.len \in Nat /\ n.size \in Nat /\ src_pos + request.len <= n.size
      /\ ExtentsApart(n)
    BY DEF AskedInFile
<1>2. UNCHANGED <<image, tree, request, file_nid, segments, seg_idx, decoded_idx, decoded>>
    BY DEF ServeMemory, ServeExtents, ServePlain, ServeInline, KeepIndex
<1>3. image.fs = "erofs" => ~Indexed(n)
    BY <1>1 DEF ServeMemory, ServeExtents, ServePlain, ServeInline, Indexed
<1>4. \A k \in 1..request.len : src_pos + k \in 1..n.size
    BY <1>1
<1>5. ASSUME buf' = SliceServe(Content(n), src_pos, request.len), TreeContent(n) = Content(n)
      PROVE  /\ buf' = [k \in 1..request.len |-> buf'[k]]
             /\ \A k \in 1..request.len : buf'[k] = TreeContent(n)[src_pos + k]
    <2>1. Len(Content(n)) = n.size
        BY <1>1, ContentHasTheSize
    <2>2. buf' = [k \in 1..request.len |-> IF src_pos + k <= Len(Content(n))
                                           THEN Content(n)[src_pos + k] ELSE Zero]
        BY <1>5 DEF SliceServe
    <2>3. buf' = [k \in 1..request.len |-> buf'[k]]
        BY <2>2
    <2>4. \A k \in 1..request.len : buf'[k] = Content(n)[src_pos + k]
        BY <1>4, <2>1, <2>2
    <2> QED BY <1>5, <2>3, <2>4
<1>6. CASE ServeMemory
    <2>1. buf' = SliceServe(Content(n), src_pos, request.len) /\ n.kind = "memory"
        BY <1>1, <1>6 DEF ServeMemory
    <2>2. TreeContent(n) = Content(n)
        BY <2>1 DEF TreeContent
    <2> QED BY <1>2, <1>3, <1>5, <2>1, <2>2, WholeAnswer
<1>7. CASE ServeInline
    <2>1. buf' = SliceServe(Content(n), src_pos, request.len) /\ image.fs = "erofs"
        BY <1>1, <1>7 DEF ServeInline
    <2>2. TreeContent(n) = Content(n)
        BY <2>1 DEF TreeContent
    <2> QED BY <1>2, <1>3, <1>5, <2>1, <2>2, WholeAnswer
<1>8. CASE ServePlain
    <2>1. /\ buf' = [k \in 1..request.len |-> Raw(n.raw_block * BlockBytes + src_pos + k - 1)]
          /\ image.fs = "erofs" /\ n.layout = "plain"
        BY <1>1, <1>8 DEF ServePlain
    <2>2. TreeContent(n) = Content(n)
        BY <2>1 DEF TreeContent
    <2>3. \A k \in 1..n.size : Content(n)[k] = Raw(n.raw_block * BlockBytes + k - 1)
        BY <2>1 DEF Content
    <2>4. n.raw_block * BlockBytes \in Nat
        BY <1>1, ChunkAssumption DEF SourceNode
    <2>5. \A k \in 1..request.len : buf'[k] = Content(n)[src_pos + k]
        <3> TAKE k \in 1..request.len
        <3>1. Content(n)[src_pos + k] = Raw(n.raw_block * BlockBytes + (src_pos + k) - 1)
            BY <1>4, <2>3
        <3> QED BY <1>1, <2>1, <2>4, <3>1
    <2>6. buf' = [k \in 1..request.len |-> buf'[k]]
        BY <2>1
    <2> QED BY <1>2, <1>3, <2>2, <2>5, <2>6, WholeAnswer
<1>9. CASE ServeExtents
    <2>1. /\ buf' = [k \in 1..request.len |-> ExtentByte(n, src_pos + k - 1)]
          /\ image.fs = "ext4" /\ n.kind = "file"
        BY <1>1, <1>9 DEF ServeExtents
    <2>2. \A k \in 1..request.len : buf'[k] = TreeContent(n)[src_pos + k]
        <3> TAKE k \in 1..request.len
        <3> DEFINE p == src_pos + k
        <3>1. p \in 1..n.size /\ p - 1 = src_pos + k - 1
            BY <1>1, <1>4
        <3> HIDE DEF p
        <3>2. ExtentByte(n, p - 1) = TreeContent(n)[p]
            BY <1>1, <2>1, <3>1, ExtentBytesAreContent
        <3>3. buf'[k] = ExtentByte(n, p - 1)
            BY <2>1, <3>1
        <3> QED BY <3>2, <3>3 DEF p
    <2>3. buf' = [k \in 1..request.len |-> buf'[k]]
        BY <2>1
    <2> QED BY <1>2, <1>3, <2>2, <2>3, WholeAnswer
<1> QED BY <1>6, <1>7, <1>8, <1>9

-----------------------------------------------------------------------------
(* The cached index of ErofsBlockSource.                                   *)

(* What is known of the index when a request is served from it.            *)
ServedFromIndex ==
    /\ AskedInFile /\ Indexed(tree[file]) /\ image.fs = "erofs" /\ tree = image.nodes
    /\ segments = tree[file].segments /\ segments \in Seq(SourceSegment)
    /\ seg_idx \in Nat \ {0} /\ Pos \in Nat /\ Pos = Arrived + Len(buf) /\ Pos < tree[file].size
    /\ Left \in Nat \ {0} /\ Pos = src_pos + Len(buf)
    /\ \A s \in DOMAIN segments : s < seg_idx => segments[s].end <= Pos
    /\ OneSegment(tree[file]) => seg_idx = 1
    /\ TreeContent(tree[file]) = Content(tree[file])

(* An EROFS image is converted as it is.                                   *)
LEMMA ErofsTree ==
    ASSUME Loaded, TreeIsLoaded, image.fs = "erofs"
    PROVE  tree = image.nodes
  BY DEF Loaded, TreeIsLoaded

(* When a segment is looked up, the index loaded is that of the file       *)
(* asked for, even where another link to it loaded it.                     *)
LEMMA IndexServes ==
    ASSUME SourcesAreWellFormed, ConversionInvariant, Serving
    PROVE  ServedFromIndex /\ Serves
<1>1. AskedInFile
    BY RequestsStayInFile DEF Serving, Compressed, Pending
<1>2. CacheIsRight
    BY <1>1 DEF ConversionInvariant, AskedInFile
<1>3. image.fs = "erofs" /\ tree = image.nodes /\ file_nid = tree[file].nid
    BY <1>1, ErofsTree DEF AskedInFile, Serving, Compressed
<1>4. /\ Pos = src_pos + Len(buf) /\ Left = request.len - Len(buf) /\ Len(buf) < request.len
      /\ Len(buf) \in Nat /\ request.len \in Nat /\ src_pos \in Nat /\ src_pos = Arrived
      /\ src_pos + request.len <= tree[file].size /\ tree[file].size \in Nat
    BY <1>1 DEF AskedInFile, Pos, Left, Serving, Compressed, Pending
<1>5. Indexed(tree[file]) /\ file_nid # 0
    <2>1. Asked = tree[file] /\ tree[file] \in SourceNode
        BY <1>1 DEF AskedInFile
    <2>2. tree[file].nid # 0
        BY <2>1 DEF SourceNode
    <2>3. Asked.kind = "file" /\ Asked.layout = "compressed"
        BY DEF Serving, Compressed
    <2>4. tree[file].size > 0
        BY <1>4
    <2> QED BY <1>3, <2>1, <2>2, <2>3, <2>4 DEF Indexed
<1>6. PICK i \in 1..file : ReadLast(i)
    BY <1>2, <1>3, <1>5 DEF CacheIsRight
<1>7. /\ tree \in Seq(SourceNode) /\ file \in DOMAIN tree /\ i \in DOMAIN tree
    <2>1. tree \in Seq(SourceNode) /\ file \in DOMAIN tree
        BY <1>1, LoadedTree DEF AskedInFile
    <2> QED BY <1>6, <2>1
<1>8. tree[i].segments = tree[file].segments /\ tree[i].size = tree[file].size
    <2>1. LinksAgree(tree)
        BY <1>1, <1>3 DEF AskedInFile, WellFormed
    <2>2. Indexed(tree[i]) /\ tree[i].nid = tree[file].nid
        BY <1>3, <1>6 DEF ReadLast
    <2> QED BY <1>5, <1>7, <2>1, <2>2, Zenon DEF LinksAgree
<1>9. segments = tree[file].segments /\ (OneSegment(tree[file]) => seg_idx = 1)
    BY <1>6, <1>8 DEF ReadLast, OneSegment
<1>10. segments \in Seq(SourceSegment)
    BY <1>1, <1>9 DEF AskedInFile, SourceNode
<1>11. Serves
    BY <1>3, <1>5, <1>7 DEF Serves
<1>12. \A s \in DOMAIN segments : s < seg_idx => segments[s].end <= Pos
    BY <1>2, <1>4, <1>10, <1>11 DEF CacheIsRight
<1>13. TreeContent(tree[file]) = Content(tree[file])
    BY <1>3 DEF TreeContent
<1>14. seg_idx \in Nat \ {0}
    BY <1>2 DEF CacheIsRight
<1> QED BY <1>1, <1>3, <1>4, <1>5, <1>9, <1>10, <1>11, <1>12, <1>13, <1>14 DEF ServedFromIndex

(* The index moves on to the first segment that ends behind the place.     *)
LEMMA IndexMovesOn ==
    ASSUME ServedFromIndex
    PROVE  /\ Here \in Nat \ {0}
           /\ \A s \in DOMAIN segments : s < Here => segments[s].end <= Pos
           /\ Found => Here \in DOMAIN segments /\ Pos < segments[Here].end
           /\ ~Found => Here = Len(segments) + 1
           /\ OneSegment(tree[file]) => Here = 1
<1> DEFINE ahead == {s \in seg_idx..Len(segments) : segments[s].end > Pos}
<1>1. /\ seg_idx \in Nat \ {0} /\ Pos \in Nat /\ Len(segments) \in Nat
      /\ DOMAIN segments = 1..Len(segments)
      /\ \A s \in DOMAIN segments : s < seg_idx => segments[s].end <= Pos
      /\ \A s \in DOMAIN segments : segments[s].end \in Nat
    <2>1. segments \in Seq(SourceSegment)
        BY DEF ServedFromIndex
    <2>2. \A s \in DOMAIN segments : segments[s] \in SourceSegment
        BY <2>1
    <2> QED BY <2>1, <2>2 DEF ServedFromIndex, SourceSegment
<1>2. Here = IF ahead = {} THEN Len(segments) + 1 ELSE Min(ahead)
    BY DEF Here, SegmentAt
<1>3. CASE ahead = {}
    <2>1. Here = Len(segments) + 1 /\ ~Found
        BY <1>1, <1>2, <1>3 DEF Found
    <2>2. ASSUME NEW s \in DOMAIN segments PROVE segments[s].end <= Pos
        <3>1. CASE s < seg_idx
            BY <1>1, <3>1
        <3>2. CASE ~(s < seg_idx)
            <4>1. s \in seg_idx..Len(segments)
                BY <1>1, <3>2
            <4>2. ~(segments[s].end > Pos)
                BY <1>3, <4>1
            <4> QED BY <1>1, <4>2
        <3> QED BY <3>1, <3>2
    <2>3. ~OneSegment(tree[file])
        <3>1. segments = tree[file].segments /\ Pos < tree[file].size /\ tree[file].size \in Nat
            BY DEF ServedFromIndex, AskedInFile
        <3> QED BY <1>1, <2>2, <3>1 DEF OneSegment
    <2> QED BY <1>1, <2>1, <2>2, <2>3
<1>4. CASE ahead # {}
    <2>1. ahead \subseteq Nat
        BY <1>1
    <2>2. PICK m \in ahead : \A y \in ahead : m <= y
        <3> HIDE DEF ahead
        <3> QED BY <1>4, <2>1, LeastElement
    <2>3. Here \in ahead /\ \A y \in ahead : Here <= y
        <3> HIDE DEF ahead
        <3> QED BY <1>2, <1>4, <2>2 DEF Min
    <2>4. Here \in seg_idx..Len(segments) /\ segments[Here].end > Pos
        BY <2>3
    <2>5. Here \in DOMAIN segments /\ Found /\ Here \in Nat \ {0}
        BY <1>1, <2>4 DEF Found
    <2>6. ASSUME NEW s \in DOMAIN segments, s < Here PROVE segments[s].end <= Pos
        <3>1. CASE s < seg_idx
            BY <1>1, <3>1
        <3>2. CASE ~(s < seg_idx)
            <4>1. s \in seg_idx..Len(segments)
                BY <1>1, <3>2
            <4>2. s \notin ahead
                BY <1>1, <2>3, <2>5, <2>6
            <4>3. ~(segments[s].end > Pos)
                BY <4>1, <4>2
            <4> QED BY <1>1, <4>3
        <3> QED BY <3>1, <3>2
    <2>7. OneSegment(tree[file]) => Here = 1
        <3>1. segments = tree[file].segments
            BY DEF ServedFromIndex
        <3> QED BY <1>1, <2>4, <3>1 DEF OneSegment
    <2> QED BY <1>1, <2>4, <2>5, <2>6, <2>7
<1> QED BY <1>3, <1>4

(* Whichever way a place of a compressed file is served, the answer goes on*)
(* with the bytes of the file.                                             *)
LEMMA SegmentsAnswer ==
    ASSUME SourcesAreWellFormed, ConversionInvariant, UNCHANGED converterVars,
           PastSegments \/ FillGap \/ CopyStored \/ CopyDecoded
    PROVE  AnswerGoesOn
<1> DEFINE n == tree[file]
<1>1. Serving /\ UNCHANGED <<image, tree, request>>
    BY DEF PastSegments, FillGap, CopyStored, CopyDecoded, InGap
<1>2. ServedFromIndex
    BY <1>1, IndexServes
<1>3. /\ Here \in Nat \ {0}
      /\ \A s \in DOMAIN segments : s < Here => segments[s].end <= Pos
      /\ Found => Here \in DOMAIN segments /\ Pos < segments[Here].end
      /\ ~Found => Here = Len(segments) + 1
    BY <1>2, IndexMovesOn
<1>4. /\ AskedInFile /\ n \in SourceNode /\ n.layout = "compressed" /\ SegmentsInOrder(n)
      /\ segments = n.segments /\ TreeContent(n) = Content(n) /\ n.size \in Nat
      /\ Pos \in Nat /\ Left \in Nat /\ Pos + Left <= n.size /\ segments \in Seq(SourceSegment)
    <2>1. Pos = src_pos + Len(buf) /\ Left = request.len - Len(buf) /\ Left \in Nat /\ Pos \in Nat
        BY <1>2 DEF ServedFromIndex, Left
    <2> QED BY <1>2, <2>1 DEF ServedFromIndex, AskedInFile, Indexed
<1>5. \A s \in DOMAIN segments :
          s \in Nat /\ segments[s].start \in Nat /\ segments[s].end \in Nat
    <2> TAKE s \in DOMAIN segments
    <2>1. segments[s] \in SourceSegment /\ s \in Nat
        BY <1>4
    <2> QED BY <2>1 DEF SourceSegment
<1>6. ASSUME NEW m \in Nat, m <= Left, buf' = buf \o Zeros(m),
             \A s \in DOMAIN segments : Here <= s => Pos + m <= segments[s].start
      PROVE  AnswerGoesOn
    <2>1. Zeros(m) = [j \in 1..m |-> Zeros(m)[j]] /\ \A j \in 1..m : Zeros(m)[j] = Zero
        BY DEF Zeros
    <2>2. ASSUME NEW j \in 1..m PROVE Zeros(m)[j] = TreeContent(n)[Pos + j]
        <3> DEFINE k == Pos + j
        <3>1. k \in 1..n.size /\ Pos < k /\ k <= Pos + m
            BY <1>4, <1>6
        <3> HIDE DEF k
        <3>2. \A s \in DOMAIN segments : ~(segments[s].start < k /\ k <= segments[s].end)
            <4> TAKE s \in DOMAIN segments
            <4>1. s < Here => segments[s].end < k
                <5>1. segments[s].end \in Nat /\ (s < Here => segments[s].end <= Pos)
                    BY <1>3, <1>5
                <5>2. Pos \in Nat /\ k \in Nat /\ Pos < k
                    BY <1>4, <3>1
                <5> QED BY ONLY <5>1, <5>2
            <4>2. ~(s < Here) => k <= segments[s].start
                <5>1. ~(s < Here) => Pos + m <= segments[s].start
                    BY <1>3, <1>5, <1>6
                <5>2. segments[s].start \in Nat /\ Pos + m \in Nat /\ k \in Nat /\ k <= Pos + m
                    BY <1>4, <1>5, <1>6, <3>1
                <5> HIDE DEF n
                <5> QED BY <5>1, <5>2
            <4> QED BY <1>4, <1>5, <3>1, <4>1, <4>2
        <3>3. Content(n)[k] = Zero
            BY <1>4, <3>1, <3>2, SegmentBytesAreContent
        <3> QED BY <1>4, <2>1, <3>3 DEF k
    <2> QED BY <1>1, <1>4, <1>6, <2>1, <2>2, AppendedBytes
<1>7. ASSUME Found, ~InGap, buf' = buf \o FromSegment(SegmentBytes(segments[Here]))
      PROVE  AnswerGoesOn
    <2> DEFINE seg == segments[Here]
               at == Pos - seg.start
               data == FromSegment(SegmentBytes(seg))
    <2>1. /\ Here \in DOMAIN segments /\ Pos < seg.end /\ seg.start <= Pos
          /\ seg.start \in Nat /\ seg.end \in Nat
        BY <1>1, <1>3, <1>4, <1>5, <1>7 DEF InGap
    <2>2. Span \in Nat \ {0} /\ Span <= Left /\ Span <= seg.end - Pos
        <3>1. Left \in Nat \ {0}
            BY <1>2 DEF ServedFromIndex
        <3>2. Span = Smaller(seg.end - Pos, Left)
            BY DEF Span
        <3> HIDE DEF seg
        <3> QED BY ONLY <1>4, <2>1, <3>1, <3>2 DEF Smaller
    <2>3. data = [j \in 1..Span |-> SegmentBytes(seg)[at + j]]
        <3> DEFINE bytes == SegmentBytes(seg)
                   L == seg.end - seg.start
                   S == {bytes[k] : k \in 1..L}
        <3>1. bytes = [k \in 1..L |-> bytes[k]]
            BY DEF SegmentBytes
        <3>2. data = SubSeq(bytes, at + 1, at + Span)
            BY DEF FromSegment
        <3>3. L \in Nat /\ at + 1 \in 1..L /\ at + Span \in (at + 1)..L
            <4> HIDE DEF seg
            <4>1. Pos \in Nat /\ seg.start \in Nat /\ seg.end \in Nat
                BY <1>4, <2>1
            <4>2. Pos < seg.end /\ seg.start <= Pos /\ Span \in Nat \ {0} /\ Span <= seg.end - Pos
                BY <2>1, <2>2
            <4> QED BY <4>1, <4>2
        <3> HIDE DEF bytes, L
        <3>4. bytes \in Seq(S) /\ Len(bytes) = L
            BY <3>1, <3>3
        <3> HIDE DEF S, at, data
        <3>5. /\ data \in Seq(S) /\ Len(data) = (at + Span) - (at + 1) + 1
              /\ \A j \in 1..((at + Span) - (at + 1) + 1) : data[j] = bytes[(at + 1) + j - 1]
            BY <3>2, <3>3, <3>4
        <3>6. at \in Nat
            BY <1>4, <2>1 DEF at
        <3>7. (at + Span) - (at + 1) + 1 = Span /\ \A j \in 1..Span : (at + 1) + j - 1 = at + j
            BY <2>2, <3>6
        <3>8. data = [j \in 1..Span |-> data[j]] /\ \A j \in 1..Span : data[j] = bytes[at + j]
            BY <2>2, <3>5, <3>7
        <3>9. data = [j \in 1..Span |-> bytes[at + j]]
            BY <3>8
        <3> QED BY <3>9 DEF bytes
    <2>4. ASSUME NEW j \in 1..Span PROVE data[j] = TreeContent(n)[Pos + j]
        <3> DEFINE k == Pos + j
        <3>1. k \in 1..n.size /\ seg.start < k /\ k <= seg.end /\ at + j = k - seg.start
            <4> HIDE DEF seg
            <4> QED BY <1>4, <2>1, <2>2
        <3>2. data[j] = SegmentBytes(seg)[k - seg.start]
            BY <2>3, <3>1
        <3> HIDE DEF k, data
        <3>3. Content(n)[k] = SegmentBytes(seg)[k - seg.start]
            BY <1>4, <2>1, <3>1, SegmentBytesAreContent
        <3> QED BY <1>4, <3>2, <3>3 DEF k
    <2>5. data = [j \in 1..Span |-> data[j]]
        BY <2>3
    <2> HIDE DEF data
    <2>6. buf' = buf \o data
        BY <1>7 DEF data
    <2> QED BY <1>1, <1>4, <2>2, <2>4, <2>5, <2>6, AppendedBytes
<1>8. CASE PastSegments
    <2>1. buf' = buf \o Zeros(Left) /\ ~Found
        BY <1>8 DEF PastSegments
    <2>2. \A s \in DOMAIN segments : s < Here
        BY <1>3, <1>4, <2>1
    <2>3. \A s \in DOMAIN segments : Here <= s => Pos + Left <= segments[s].start
        <3> TAKE s \in DOMAIN segments
        <3>1. s < Here /\ s \in Nat /\ Here \in Nat
            BY <1>3, <1>5, <2>2
        <3> QED BY ONLY <3>1
    <2>4. Left \in Nat /\ Left <= Left
        BY <1>4
    <2> QED BY ONLY <1>6, <2>1, <2>3, <2>4
<1>9. CASE FillGap
    <2> DEFINE m == Smaller(segments[Here].start - Pos, Left)
    <2>1. buf' = buf \o Zeros(m) /\ Found /\ segments[Here].start > Pos
        BY <1>9 DEF FillGap, InGap
    <2>2. Here \in DOMAIN segments /\ segments[Here].start \in Nat
        BY <1>3, <1>5, <2>1
    <2>3. m \in Nat /\ m <= Left /\ Pos + m <= segments[Here].start
        <3>1. Pos \in Nat /\ Left \in Nat /\ segments[Here].start > Pos
            BY <1>4, <2>1
        <3> QED BY ONLY <2>2, <3>1 DEF Smaller
    <2>4. \A s \in DOMAIN segments : Here <= s => Pos + m <= segments[s].start
        <3> TAKE s \in DOMAIN segments
        <3> HAVE Here <= s
        <3>1. s = Here \/ segments[Here].start <= segments[s].start
            <4>1. CASE s = Here
                BY <4>1
            <4>2. CASE s # Here
                <5>1. Here < s /\ segments[Here].start \in Nat /\ segments[Here].end \in Nat /\ segments[s].start \in Nat
                    BY <1>3, <1>5, <2>2, <4>2
                <5>2. segments[Here].start <= segments[Here].end /\ segments[Here].end <= segments[s].start
                    BY <1>4, <2>2, <5>1 DEF SegmentsInOrder
                <5> QED BY ONLY <5>1, <5>2
            <4> QED BY <4>1, <4>2
        <3> HIDE DEF m
        <3> QED BY <1>4, <1>5, <2>2, <2>3, <3>1
    <2> HIDE DEF m
    <2> QED BY <1>6, <2>1, <2>3, <2>4
<1>10. CASE CopyStored
    BY <1>7, <1>10 DEF CopyStored
<1>11. CASE CopyDecoded
    <2>1. Found /\ ~InGap /\ buf' = buf \o FromSegment(decoded')
        BY <1>11 DEF CopyDecoded
    <2>2. decoded' = SegmentBytes(segments[Here])
        <3>1. DecodedIsCurrent /\ Here # 0
            BY <1>3 DEF ConversionInvariant
        <3> QED BY <1>11, <3>1 DEF CopyDecoded, DecodedIsCurrent, NoSegment
    <2> QED BY <1>7, <2>1, <2>2
<1> QED BY <1>8, <1>9, <1>10, <1>11

-----------------------------------------------------------------------------
(* Every step keeps the invariant.                                         *)

(* What does not change while a tree is converted.                         *)
LEMMA SameSource ==
    ASSUME image' = image, target' = target, options' = options
    PROVE  /\ Bytes' = Bytes
           /\ \A n : /\ TreeContent(n)' = TreeContent(n)
                     /\ NewExtents(n)' = NewExtents(n)
                     /\ \A x : Boundary(n, x)' = Boundary(n, x)
<1>1. \A n : TreeContent(n)' = TreeContent(n)
    BY DEF TreeContent
<1>2. \A n : NewExtents(n)' = NewExtents(n)
    BY DEF NewExtents
<1>3. \A n, x : Boundary(n, x)' = Boundary(n, x)
    BY <1>2 DEF Boundary
<1>4. Bytes' = Bytes
    BY <1>1 DEF Bytes
<1> QED BY <1>1, <1>2, <1>3, <1>4

(* What is known while a tree is copied.                                   *)
LEMMA WhileCopying ==
    ASSUME SourcesAreWellFormed, ConversionInvariant, convert \in {"copy", "done"}, Loaded
    PROVE  /\ WellFormed(image) /\ TreeIsLoaded /\ FilesArrive /\ PlaceInFile
           /\ AnswerIsRight /\ CacheIsRight
           /\ tree \in Seq(SourceNode) /\ Len(tree) \in Nat /\ DOMAIN tree = 1..Len(tree)
           /\ file \in 0..Len(tree)
           /\ \A i \in DOMAIN tree :
                  /\ tree[i] \in SourceNode /\ tree[i].size \in Nat /\ tree[i].nid # 0
                  /\ OnDisk(tree[i])
                  /\ TreeContent(tree[i]) \in Seq(Bytes) /\ Len(TreeContent(tree[i])) = tree[i].size
                  /\ \A k \in 1..tree[i].size : TreeContent(tree[i])[k] \in Bytes
<1>1. /\ WellFormed(image) /\ TreeIsLoaded /\ FilesArrive /\ PlaceInFile
      /\ AnswerIsRight /\ CacheIsRight
    BY DEF SourcesAreWellFormed, ConversionInvariant
<1>2. /\ tree \in Seq(SourceNode)
      /\ \A i \in DOMAIN tree :
            tree[i] \in Range(image.nodes) /\ tree[i] \in SourceNode /\ OnDisk(tree[i])
    BY <1>1, LoadedTree
<1>3. \A i \in DOMAIN tree : tree[i].nid # 0
    BY <1>2 DEF SourceNode
<1>4. file \in 0..Len(tree)
    BY <1>1 DEF FilesArrive
<1>5. \A i \in DOMAIN tree :
          /\ tree[i].size \in Nat
          /\ TreeContent(tree[i]) \in Seq(Bytes) /\ Len(TreeContent(tree[i])) = tree[i].size
          /\ \A k \in 1..tree[i].size : TreeContent(tree[i])[k] \in Bytes
    BY <1>1, <1>2, ContentIsBytes
<1> QED BY <1>1, <1>2, <1>3, <1>4, <1>5

(* The copy goes on where the extent before ended.                         *)
LEMMA NextExtentKeeps ==
    ASSUME SourcesAreWellFormed, ConversionInvariant, NextExtent, DecodedIsCurrent'
    PROVE  ConversionInvariant'
<1>1. /\ convert = "copy" /\ request = Nothing /\ file > 0 /\ extent_bytes = 0
      /\ extent < Len(NewExtents(tree[file])) /\ extent' = extent + 1
      /\ src_pos' = NewExtents(tree[file])[extent + 1][1] * BlockBytes
      /\ extent_bytes' = Smaller(NewExtents(tree[file])[extent + 1][2] * BlockBytes, remaining)
      /\ UNCHANGED <<image, tree, target, options, convert, file, remaining, out>>
      /\ UNCHANGED <<request, buf, file_nid, segments, seg_idx, decoded_idx, decoded>>
    BY DEF NextExtent, Copying, sourceVars
<1>2. WellFormed(image) /\ Loaded /\ TreeIsLoaded /\ FilesArrive /\ PlaceInFile /\ AnswerIsRight /\ CacheIsRight
    BY <1>1 DEF SourcesAreWellFormed, ConversionInvariant, Loaded
<1>3. TreeIsLoaded' /\ Loaded'
    BY <1>1, <1>2 DEF TreeIsLoaded, Loaded
<1>4. FilesArrive'
    BY <1>1, <1>2, SameSource DEF FilesArrive, Arrived
<1>5. CacheIsRight'
    BY <1>1, <1>2 DEF CacheIsRight, Serves, ReadLast, Arrived
<1>6. AnswerIsRight'
    BY <1>1, <1>2 DEF AnswerIsRight
<1>7. PlaceInFile'
    <2> DEFINE n == tree[file]
               here == Boundary(n, extent)
               next == Boundary(n, extent + 1)
               bytes == Smaller(NewExtents(n)[extent + 1][2] * BlockBytes, remaining)
    <2>1. n.size \in Nat
        <3>1. tree \in Seq(SourceNode)
            BY <1>2, LoadedTree
        <3>2. file \in DOMAIN tree
            BY <1>1, <1>2, <3>1 DEF FilesArrive
        <3>3. tree[file] \in SourceNode
            BY <3>1, <3>2
        <3> QED BY <3>3 DEF SourceNode
    <2>2. /\ remaining \in 0..n.size /\ here = n.size - remaining
          /\ extent \in 0..(Len(NewExtents(n)) - 1) /\ Len(NewExtents(n)) \in Nat
        <3>1. Len(NewExtents(n)) \in Nat /\ here \in 0..n.size
            BY <1>1, <1>2, <2>1, ExtentsCoverTheFile DEF PlaceInFile
        <3>2. /\ remaining \in 0..n.size /\ n.size - remaining + extent_bytes = here
              /\ extent \in 0..Len(NewExtents(n))
            BY <1>1, <1>2 DEF PlaceInFile, Arrived
        <3>3. extent_bytes = 0 /\ extent < Len(NewExtents(n))
            BY <1>1
        <3> HIDE DEF here
        <3> QED BY ONLY <2>1, <3>1, <3>2, <3>3
    <2>3. /\ NewExtents(n)[extent + 1][1] * BlockBytes = here
          /\ here + Smaller(NewExtents(n)[extent + 1][2] * BlockBytes, n.size - here) = next
          /\ here <= next /\ here \in 0..n.size /\ next \in 0..n.size
          /\ NewExtents(n)[extent + 1][2] \in Int
        <3>1. \A x \in 0..Len(NewExtents(n)) : Boundary(n, x) \in 0..n.size
            BY <2>1, ExtentsCoverTheFile
        <3>2. \A x \in 0..(Len(NewExtents(n)) - 1) :
                  LET e == NewExtents(n)[x + 1]
                  IN  /\ e[1] * BlockBytes = Boundary(n, x)
                      /\ Boundary(n, x) + Smaller(e[2] * BlockBytes, n.size - Boundary(n, x)) = Boundary(n, x + 1)
                      /\ e[2] \in Int /\ Boundary(n, x) <= Boundary(n, x + 1)
            BY <2>1, ExtentsCoverTheFile
        <3>3. extent \in 0..Len(NewExtents(n)) /\ extent + 1 \in 0..Len(NewExtents(n))
            BY ONLY <2>2
        <3> QED BY ONLY <2>2, <3>1, <3>2, <3>3
    <2>4. remaining = n.size - here
        BY ONLY <2>1, <2>2
    <2>5. src_pos' = here /\ extent_bytes' = bytes /\ here + bytes = next
        BY <1>1, <2>3, <2>4
    <2> HIDE DEF bytes, here, next
    <2>6. bytes \in Int
        BY <2>1, <2>2, <2>3, ChunkAssumption DEF Smaller, bytes
    <2>7. src_pos' = here /\ extent_bytes' \in Nat /\ here + extent_bytes' = next
        BY <2>3, <2>5, <2>6
    <2>8. NewExtents(n)' = NewExtents(n)
        BY <1>1 DEF NewExtents
    <2>9. Boundary(n, extent)' = next
        BY <1>1, <2>8 DEF Boundary, next
    <2>10. /\ extent' \in 0..Len(NewExtents(n)) /\ src_pos' \in Nat /\ n.size - remaining = here
        BY ONLY <1>1, <2>1, <2>2, <2>3, <2>7
    <2>11. file' = file /\ tree'[file'] = n /\ remaining' = remaining /\ file # 0
        BY <1>1, <1>2 DEF FilesArrive
    <2> QED BY <1>1, <2>2, <2>7, <2>8, <2>9, <2>10, <2>11 DEF PlaceInFile, Arrived
<1> QED BY <1>1, <1>2, <1>3, <1>4, <1>5, <1>6, <1>7 DEF ConversionInvariant

(* A chunk ends no later than its extent.                                  *)
LEMMA AskChunkKeeps ==
    ASSUME SourcesAreWellFormed, ConversionInvariant, AskChunk, DecodedIsCurrent'
    PROVE  ConversionInvariant'
<1>1. /\ convert = "copy" /\ request = Nothing /\ file > 0 /\ extent_bytes > 0
      /\ request' = [node |-> tree[file], from |-> src_pos, len |-> Smaller(extent_bytes, Grain)]
      /\ UNCHANGED <<image, tree, target, options, convert, file, extent, src_pos, extent_bytes, remaining, out>>
      /\ UNCHANGED <<buf, file_nid, segments, seg_idx, decoded_idx, decoded>>
    BY DEF AskChunk, Copying, converterVars
<1>2. Loaded
    BY <1>1 DEF ConversionInvariant, Loaded
<1>3. /\ TreeIsLoaded /\ FilesArrive /\ PlaceInFile /\ AnswerIsRight /\ CacheIsRight
      /\ image \in Images /\ convert = "copy" /\ target # image.fs
    BY <1>1, <1>2 DEF ConversionInvariant
<1>4. TreeIsLoaded' /\ Loaded'
    BY <1>1, <1>2, <1>3 DEF TreeIsLoaded, Loaded
<1>5. FilesArrive'
    BY <1>1, <1>3, SameSource DEF FilesArrive, Arrived
<1>6. PlaceInFile'
    <2>1. NewExtents(tree[file])' = NewExtents(tree[file])
        BY <1>1 DEF NewExtents
    <2>2. Boundary(tree[file], extent)' = Boundary(tree[file], extent)
        BY <1>1, <2>1 DEF Boundary
    <2> QED BY <1>1, <1>3, <2>1, <2>2 DEF PlaceInFile, Arrived
<1>7. CacheIsRight'
    BY <1>1, <1>3 DEF CacheIsRight, Serves, ReadLast, Arrived
<1>8. AnswerIsRight'
    <2>1. buf = <<>> /\ extent_bytes \in Nat
        BY <1>1, <1>3 DEF AnswerIsRight, PlaceInFile
    <2>2. Grain \in Nat \ {0}
        BY ChunkAssumption DEF Grain
    <2>3. request'.len \in 1..extent_bytes
        BY <1>1, <2>1, <2>2 DEF Smaller
    <2>4. buf' \in Seq(Bytes') /\ Len(buf') = 0 /\ buf' = <<>>
        BY <1>1, <2>1
    <2>5. request' = [node |-> tree'[file'], from |-> src_pos', len |-> request'.len]
        BY <1>1
    <2> QED BY <1>1, <2>3, <2>4, <2>5 DEF AnswerIsRight
<1> QED BY <1>1, <1>3, <1>4, <1>5, <1>6, <1>7, <1>8 DEF ConversionInvariant

(* What is written is put behind what has been written.                    *)
LEMMA WriteChunkKeeps ==
    ASSUME SourcesAreWellFormed, ConversionInvariant, WriteChunk, DecodedIsCurrent'
    PROVE  ConversionInvariant'
<1> DEFINE len == request.len
<1>1. /\ convert = "copy" /\ request # Nothing /\ Len(buf) = len
      /\ out' = [out EXCEPT ![file] = Written(out[file], src_pos, buf)]
      /\ src_pos' = src_pos + len /\ extent_bytes' = extent_bytes - len /\ remaining' = remaining - len
      /\ request' = Nothing /\ buf' = <<>>
      /\ UNCHANGED <<image, tree, file_nid, segments, seg_idx, decoded_idx, decoded>>
      /\ UNCHANGED <<target, options, convert, file, extent>>
    BY DEF WriteChunk, Answered
<1>2. Loaded
    BY <1>1 DEF ConversionInvariant, Loaded
<1>3. /\ TreeIsLoaded /\ FilesArrive /\ PlaceInFile /\ AnswerIsRight /\ CacheIsRight
      /\ image \in Images /\ target # image.fs
    BY <1>1, <1>2 DEF ConversionInvariant
<1>4. TreeIsLoaded' /\ Loaded'
    BY <1>1, <1>2, <1>3 DEF TreeIsLoaded, Loaded
<1>5. AskedInFile
    BY <1>1, RequestsStayInFile
<1>6. /\ len \in 1..extent_bytes /\ extent_bytes \in Nat /\ file > 0 /\ file \in Nat
      /\ src_pos = Arrived /\ src_pos \in Nat /\ src_pos + len <= tree[file].size
      /\ tree[file].size \in Nat /\ remaining \in 0..tree[file].size
      /\ extent \in 0..Len(NewExtents(tree[file]))
      /\ Arrived + extent_bytes = Boundary(tree[file], extent)
    BY <1>1, <1>3, <1>5 DEF AnswerIsRight, PlaceInFile, AskedInFile, FilesArrive
<1>7. Arrived = tree[file].size - remaining /\ Arrived' = tree[file].size - (remaining - len)
    BY <1>1 DEF Arrived
<1>8. Arrived' = src_pos + len /\ remaining - len \in 0..tree[file].size
    <2> DEFINE size == tree[file].size
    <2>1. /\ size \in Nat /\ len \in Nat /\ remaining \in Nat /\ src_pos \in Nat
          /\ src_pos = size - remaining /\ src_pos + len <= size
          /\ Arrived' = size - (remaining - len)
        BY <1>6, <1>7
    <2> HIDE DEF size, len
    <2>2. Arrived' = src_pos + len /\ remaining - len \in 0..size
        BY <2>1
    <2> QED BY <2>2 DEF size
<1>9. FilesArrive'
    <2> DEFINE new == Written(out[file], src_pos, buf)
    <2>1. /\ out \in Seq(Seq(Bytes)) /\ Len(out) = file /\ Len(out[file]) = src_pos
          /\ file \in DOMAIN out /\ out[file] \in Seq(Bytes)
          /\ \A i \in 1..(file - 1) : out[i] = TreeContent(tree[i])
          /\ \A k \in 1..src_pos : out[file][k] = TreeContent(tree[file])[k]
        BY <1>3, <1>6 DEF FilesArrive
    <2>2. /\ buf \in Seq(Bytes) /\ len \in Nat
          /\ \A k \in 1..len : buf[k] = TreeContent(tree[file])[src_pos + k] /\ buf[k] \in Bytes
        <3>1. /\ buf \in Seq(Bytes) /\ len \in Nat
              /\ \A k \in 1..Len(buf) : buf[k] = TreeContent(tree[file])[src_pos + k]
            BY <1>5, <1>6 DEF AskedInFile
        <3>2. \A k \in 1..Len(buf) : buf[k] \in Bytes
            BY <3>1
        <3> QED BY <1>1, <3>1, <3>2
    <2>3. new = [k \in 1..(src_pos + len) |-> IF src_pos < k THEN buf[k - src_pos] ELSE out[file][k]]
        <3>1. src_pos + len > src_pos
            BY <1>6
        <3> QED BY <1>1, <1>6, <2>1, <3>1 DEF Written
    <2>4. \A k \in 1..(src_pos + len) : new[k] \in Bytes /\ new[k] = TreeContent(tree[file])[k]
        <3> TAKE k \in 1..(src_pos + len)
        <3>1. CASE src_pos < k
            <4>1. k - src_pos \in 1..len /\ src_pos + (k - src_pos) = k
                BY <1>6, <2>2, <3>1
            <4> HIDE DEF new
            <4> QED BY <2>2, <2>3, <3>1, <4>1
        <3>2. CASE ~(src_pos < k)
            <4>1. k \in 1..src_pos
                BY <1>6, <2>2, <3>2
            <4>2. out[file][k] \in Bytes
                BY <2>1, <4>1
            <4> HIDE DEF new
            <4> QED BY <2>1, <2>3, <3>2, <4>1, <4>2
        <3> QED BY <3>1, <3>2
    <2> HIDE DEF new
    <2>5. new \in Seq(Bytes) /\ Len(new) = src_pos + len
        <3>1. src_pos + len \in Nat
            BY <1>6, <2>2
        <3> HIDE DEF len
        <3>2. new = [k \in 1..(src_pos + len) |-> new[k]]
            BY <2>3
        <3> QED BY <2>4, <3>1, <3>2
    <2>6. out' \in Seq(Seq(Bytes)) /\ Len(out') = file /\ out'[file] = new
        BY <1>1, <2>1, <2>5 DEF new
    <2>7. \A i \in 1..(file - 1) : out'[i] = TreeContent(tree[i])
        <3>1. file \in Nat
            BY <1>6, <2>1
        <3>2. \A i \in 1..(file - 1) : i \in DOMAIN out /\ i # file
            BY <2>1, <3>1
        <3> QED BY <1>1, <2>1, <3>2
    <2>8. file \in 0..Len(tree)
        BY <1>3 DEF FilesArrive
    <2>9. file' = file /\ tree' = tree /\ Bytes' = Bytes /\ \A n : TreeContent(n)' = TreeContent(n)
        BY <1>1, SameSource
    <2> QED BY <1>8, <2>4, <2>5, <2>6, <2>7, <2>8, <2>9 DEF FilesArrive
<1>10. PlaceInFile'
    <2>1. NewExtents(tree[file])' = NewExtents(tree[file])
        BY <1>1 DEF NewExtents
    <2>2. Boundary(tree[file], extent)' = Boundary(tree[file], extent)
        BY <1>1, <2>1 DEF Boundary
    <2>3. extent_bytes' \in Nat /\ src_pos' \in Nat /\ Arrived' + extent_bytes' = Arrived + extent_bytes
        <3>1. /\ len \in Nat /\ len <= extent_bytes /\ extent_bytes \in Nat /\ src_pos \in Nat
              /\ Arrived = src_pos /\ Arrived' = src_pos + len
              /\ src_pos' = src_pos + len /\ extent_bytes' = extent_bytes - len
            BY <1>1, <1>6, <1>8
        <3> HIDE DEF len
        <3> QED BY <3>1
    <2> QED BY <1>1, <1>6, <1>8, <2>1, <2>2, <2>3 DEF PlaceInFile
<1>11. CacheIsRight'
    <2>1. Arrived' + Len(buf') = Arrived + Len(buf)
        BY <1>1, <1>6, <1>8
    <2>2. Serves' = Serves /\ \A i : ReadLast(i)' = ReadLast(i)
        BY <1>1 DEF Serves, ReadLast
    <2> QED BY <1>1, <1>3, <2>1, <2>2 DEF CacheIsRight
<1>12. AnswerIsRight'
    BY <1>1 DEF AnswerIsRight
<1> QED BY <1>1, <1>3, <1>4, <1>9, <1>10, <1>11, <1>12 DEF ConversionInvariant

(* The copy ends when the last file is done.                               *)
LEMMA FinishConversionKeeps ==
    ASSUME SourcesAreWellFormed, ConversionInvariant, FinishConversion, DecodedIsCurrent'
    PROVE  ConversionInvariant'
<1>1. /\ convert' = "done" /\ UNCHANGED <<image, tree, target, options, file, extent, src_pos, extent_bytes, remaining, out>>
      /\ UNCHANGED <<request, buf, file_nid, segments, seg_idx, decoded_idx, decoded>>
    BY DEF FinishConversion, sourceVars
<1>2. CASE convert = "container"
    <2>1. target = image.fs /\ request = Nothing /\ buf = <<>> /\ image \in Images
        BY <1>2 DEF ConversionInvariant, Loaded
    <2>2. ~Loaded'
        BY <1>1, <2>1 DEF Loaded
    <2> QED BY <1>1, <2>1, <2>2 DEF ConversionInvariant
<1>3. CASE convert # "container"
    <2>1. convert = "copy" /\ request = Nothing /\ FileDone /\ file = Len(tree)
        BY <1>3 DEF FinishConversion, Copying
    <2>2. Loaded
        BY <2>1 DEF ConversionInvariant, Loaded
    <2>3. /\ TreeIsLoaded /\ FilesArrive /\ PlaceInFile /\ AnswerIsRight /\ CacheIsRight
          /\ image \in Images /\ target # image.fs
        BY <2>1, <2>2 DEF ConversionInvariant
    <2>4. TreeIsLoaded' /\ Loaded' /\ CacheIsRight' /\ AnswerIsRight'
        BY <1>1, <2>1, <2>2, <2>3
            DEF TreeIsLoaded, Loaded, CacheIsRight, Serves, ReadLast, Arrived, AnswerIsRight
    <2>5. FilesArrive'
        BY <1>1, <2>3, SameSource DEF FilesArrive, Arrived
    <2>6. NewExtents(tree[file])' = NewExtents(tree[file])
        BY <1>1 DEF NewExtents
    <2>7. Boundary(tree[file], extent)' = Boundary(tree[file], extent)
        BY <1>1, <2>6 DEF Boundary
    <2>8. PlaceInFile' /\ FileDone'
        BY <1>1, <2>1, <2>3, <2>6, <2>7 DEF PlaceInFile, Arrived, FileDone
    <2>9. buf = <<>>
        BY <2>1, <2>3 DEF AnswerIsRight
    <2> QED BY <1>1, <2>1, <2>3, <2>4, <2>5, <2>8, <2>9 DEF ConversionInvariant
<1> QED BY <1>2, <1>3

(* A file that is done has arrived whole.                                  *)
LEMMA DoneFilesHaveArrived ==
    ASSUME SourcesAreWellFormed, ConversionInvariant, convert \in {"copy", "done"}, Loaded,
           FileDone, file > 0
    PROVE  Arrived = tree[file].size /\ out[file] = TreeContent(tree[file])
<1>1. /\ FilesArrive /\ PlaceInFile /\ tree \in Seq(SourceNode) /\ file \in DOMAIN tree
      /\ tree[file].size \in Nat /\ TreeContent(tree[file]) \in Seq(Bytes)
      /\ Len(TreeContent(tree[file])) = tree[file].size
    BY WhileCopying
<1>2. extent_bytes = 0 /\ extent = Len(NewExtents(tree[file]))
    BY DEF FileDone
<1>3. Arrived + 0 = tree[file].size
    BY <1>1, <1>2 DEF PlaceInFile, Boundary
<1>4. Arrived = tree[file].size
    BY <1>1, <1>3 DEF PlaceInFile, Arrived
<1>5. /\ out[file] \in Seq(Bytes) /\ Len(out[file]) = tree[file].size
      /\ \A k \in 1..tree[file].size : out[file][k] = TreeContent(tree[file])[k]
    BY <1>1, <1>4 DEF FilesArrive
<1> QED BY <1>1, <1>4, <1>5

(* The next file begins when the one before has arrived; links to it use   *)
(* its index only if it is one segment.                                    *)
LEMMA NextFileKeeps ==
    ASSUME SourcesAreWellFormed, ConversionInvariant, NextFile, DecodedIsCurrent'
    PROVE  ConversionInvariant'
<1> DEFINE n == tree[file + 1]
<1>1. /\ convert = "copy" /\ request = Nothing /\ FileDone /\ file < Len(tree) /\ file' = file + 1
      /\ src_pos' = 0 /\ extent_bytes' = 0
      /\ UNCHANGED <<image, tree, target, options, convert>>
      /\ UNCHANGED <<request, buf, file_nid, segments, seg_idx, decoded_idx, decoded>>
    BY DEF NextFile, Copying, sourceVars
<1>2. Loaded
    BY <1>1 DEF ConversionInvariant, Loaded
<1>3. /\ WellFormed(image) /\ TreeIsLoaded /\ FilesArrive /\ PlaceInFile
      /\ AnswerIsRight /\ CacheIsRight
      /\ tree \in Seq(SourceNode) /\ Len(tree) \in Nat /\ DOMAIN tree = 1..Len(tree)
      /\ image \in Images /\ target # image.fs /\ buf = <<>> /\ file \in Nat
    <2>1. image \in Images /\ target # image.fs
        BY <1>1 DEF ConversionInvariant
    <2>2. /\ WellFormed(image) /\ TreeIsLoaded /\ FilesArrive /\ PlaceInFile
          /\ AnswerIsRight /\ CacheIsRight
          /\ tree \in Seq(SourceNode) /\ Len(tree) \in Nat /\ DOMAIN tree = 1..Len(tree)
        BY <1>1, <1>2, WhileCopying
    <2>3. buf = <<>> /\ file \in Nat
        BY <1>1, <2>2 DEF AnswerIsRight, FilesArrive
    <2> QED BY <2>1, <2>2, <2>3
<1>4. /\ file + 1 \in DOMAIN tree /\ n \in SourceNode /\ n.size \in Nat /\ n.nid # 0 /\ OnDisk(n)
      /\ TreeContent(n) \in Seq(Bytes) /\ Len(TreeContent(n)) = n.size
    <2>1. file + 1 \in DOMAIN tree
        BY <1>1, <1>3
    <2> QED BY <1>1, <1>2, <2>1, WhileCopying
<1>5. TreeIsLoaded' /\ Loaded'
    BY <1>1, <1>2, <1>3 DEF TreeIsLoaded, Loaded
<1>6. file > 0 => Arrived = tree[file].size /\ out[file] = TreeContent(tree[file])
    BY <1>1, <1>2, DoneFilesHaveArrived
<1>7. Indexed(n) => Fetched(n)
    BY <1>4 DEF Indexed, OnDisk, Fetched
<1>8. ASSUME ~Fetched(n) PROVE Content(n) = TreeContent(n)
    <2>1. n.kind # "file"
        BY <1>4, <1>8 DEF OnDisk, Fetched
    <2> QED BY <2>1 DEF TreeContent
<1>9. \/ Fetched(n) /\ out' = Append(out, <<>>) /\ extent' = 0 /\ remaining' = n.size /\ Arrived' = 0
      \/ /\ ~Fetched(n) /\ out' = Append(out, TreeContent(n)) /\ extent' = Len(NewExtents(n))
         /\ remaining' = 0 /\ Arrived' = n.size
    <2>1. Arrived' = n.size - remaining'
        BY <1>1 DEF Arrived
    <2>2. Fetched(n) => out' = Append(out, <<>>) /\ extent' = 0 /\ remaining' = n.size
        BY DEF NextFile
    <2>3. ~Fetched(n) => /\ out' = Append(out, Content(n)) /\ extent' = Len(NewExtents(n))
                         /\ remaining' = 0
        BY DEF NextFile
    <2> QED BY <1>4, <1>8, <2>1, <2>2, <2>3
<1>10. Arrived' \in 0..n.size
    BY <1>4, <1>9
<1>11. FilesArrive'
    <2>1. /\ out \in Seq(Seq(Bytes)) /\ Len(out) = file
          /\ \A i \in 1..file : out[i] = TreeContent(tree[i])
        <3>1. /\ out \in Seq(Seq(Bytes)) /\ Len(out) = file
              /\ \A i \in 1..(file - 1) : out[i] = TreeContent(tree[i])
            BY <1>3 DEF FilesArrive
        <3>2. \A i \in 1..file : i \in 1..(file - 1) \/ (i = file /\ file > 0)
            BY <1>3
        <3> QED BY <1>6, <3>1, <3>2
    <2>2. PICK new \in Seq(Bytes) :
              /\ out' = Append(out, new) /\ Len(new) = Arrived'
              /\ \A k \in 1..Arrived' : new[k] = TreeContent(n)[k]
        <3>1. CASE Fetched(n)
            <4>1. out' = Append(out, <<>>) /\ Arrived' = 0
                BY <1>9, <3>1
            <4>2. <<>> \in Seq(Bytes) /\ Len(<<>>) = 0 /\ 1..0 = {}
                OBVIOUS
            <4>3. \A k \in 1..Arrived' : FALSE
                BY <4>1, <4>2
            <4> QED BY <4>1, <4>2, <4>3
        <3>2. CASE ~Fetched(n)
            <4>1. out' = Append(out, TreeContent(n)) /\ Arrived' = n.size
                BY <1>9, <3>2
            <4> QED BY <1>4, <4>1
        <3> QED BY <3>1, <3>2
    <2>3. /\ out' \in Seq(Seq(Bytes)) /\ Len(out') = file + 1 /\ out'[file + 1] = new
          /\ \A i \in 1..file : out'[i] = out[i]
        BY <1>3, <2>1, <2>2
    <2>4. /\ file' = file + 1 /\ file + 1 \in 0..Len(tree) /\ (file + 1) - 1 = file
          /\ tree' = tree /\ Bytes' = Bytes /\ \A m : TreeContent(m)' = TreeContent(m)
        BY <1>1, <1>3, SameSource
    <2> HIDE DEF n
    <2>5. \A i \in 1..(file' - 1) : out'[i] = TreeContent(tree[i])
        BY <2>1, <2>3, <2>4
    <2>6. Len(out'[file']) = Arrived' /\ \A k \in 1..Arrived' : out'[file'][k] = TreeContent(tree'[file'])[k]
        BY <2>2, <2>3, <2>4 DEF n
    <2> QED BY <2>3, <2>4, <2>5, <2>6 DEF FilesArrive
<1>12. PlaceInFile'
    <2>1. NewExtents(tree[file])' = NewExtents(n)
        BY <1>1 DEF NewExtents
    <2>2. /\ Len(NewExtents(n)) \in Nat /\ Boundary(n, 0) = 0
          /\ Boundary(n, Len(NewExtents(n))) = n.size
        BY <1>4, ExtentsCoverTheFile DEF Boundary
    <2>3. Boundary(tree[file], extent)' = Boundary(n, extent')
        BY <1>1, <2>1 DEF Boundary
    <2>4. extent' \in 0..Len(NewExtents(n)) /\ Boundary(n, extent') = Arrived' /\ remaining' \in 0..n.size
        BY <1>4, <1>9, <2>2
    <2>5. tree'[file'] = n /\ file' > 0
        BY <1>1, <1>3
    <2>6. Arrived' + 0 = Arrived'
        BY <1>4, <1>10
    <2> HIDE DEF n
    <2> QED BY <1>1, <2>1, <2>3, <2>4, <2>5, <2>6 DEF PlaceInFile
<1>13. AnswerIsRight'
    BY <1>1, <1>3 DEF AnswerIsRight
<1>14. CacheIsRight'
    <2>1. seg_idx \in Nat \ {0}
        BY <1>3 DEF CacheIsRight
    <2>2. ASSUME image.fs = "erofs", file_nid # 0 PROVE \E i \in 1..file : ReadLast(i)'
        <3>1. PICK i \in 1..file : ReadLast(i)
            BY <1>3, <2>2 DEF CacheIsRight
        <3>2. ASSUME i = file \/ ~Indexed(tree[file]) PROVE ReadLast(i)'
            <4>1. \A k \in (i + 1)..file : k = file \/ k \in (i + 1)..(file - 1)
                BY <1>3, <3>1
            <4>2. \A k \in (i + 1)..file : ~Indexed(tree[k])
                BY <1>3, <3>1, <3>2, <4>1 DEF ReadLast
            <4>3. file' - 1 = file
                BY <1>1, <1>3
            <4> QED BY <1>1, <3>1, <4>2, <4>3 DEF ReadLast
        <3>3. ASSUME i # file, Indexed(tree[file]) PROVE \E j \in 1..file : ReadLast(j)'
            <4>1. file \in DOMAIN tree /\ file > 0 /\ i \in DOMAIN tree
                BY <1>1, <1>3, <3>1
            <4>2. Arrived + Len(buf) > 0
                <5>1. Arrived = tree[file].size /\ tree[file].size \in Nat
                    BY <1>1, <1>2, <1>6, <4>1, WhileCopying
                <5> QED BY <1>3, <3>3, <5>1 DEF Indexed
            <4>3. Serves
                BY <1>3, <2>2, <3>3, <4>1, <4>2 DEF CacheIsRight
            <4>4. tree[i].nid = tree[file].nid /\ Indexed(tree[i])
                BY <3>1, <4>3 DEF Serves, ReadLast
            <4>5. tree[i].segments = tree[file].segments /\ tree[i].size = tree[file].size
                <5>1. LinksAgree(tree)
                    BY <1>2, <1>3, <2>2, ErofsTree DEF WellFormed
                <5> QED BY <3>3, <4>1, <4>4, <5>1, Zenon DEF LinksAgree
            <4>6. /\ file_nid = tree[file].nid /\ segments = tree[file].segments
                  /\ OneSegment(tree[file]) => seg_idx = 1
                BY <3>1, <4>3, <4>5 DEF Serves, ReadLast, OneSegment
            <4>7. (file + 1)..(file' - 1) = {}
                BY <1>1, <1>3
            <4>8. PICK j \in 1..file : j = file
                BY <1>3, <4>1
            <4>9. ReadLast(j)'
                BY <1>1, <3>3, <4>6, <4>7, <4>8 DEF ReadLast
            <4> QED BY <4>9
        <3> QED BY <3>1, <3>2, <3>3
    <2>3. ASSUME image.fs = "erofs", Indexed(n), file_nid = n.nid PROVE seg_idx = 1
        <3>1. file_nid # 0
            BY <1>4, <2>3
        <3>2. PICK i \in 1..file : ReadLast(i)'
            BY <2>2, <2>3, <3>1
        <3>3. /\ Indexed(tree[i]) /\ tree[i].nid = n.nid
              /\ \A k \in (i + 1)..file : ~Indexed(tree[k])
              /\ OneSegment(tree[i]) => seg_idx = 1
            <4>1. file' - 1 = file
                BY <1>1, <1>3
            <4> QED BY <1>1, <2>3, <3>2, <4>1 DEF ReadLast
        <3>4. i \in DOMAIN tree /\ i < file + 1 /\ (file + 1) - 1 = file
            BY <1>1, <1>3
        <3>5. LinksAgree(tree) /\ LinksApart(tree)
            BY <1>2, <1>3, <2>3, ErofsTree DEF WellFormed
        <3>6. tree[i].segments = n.segments /\ tree[i].size = n.size
            BY <1>4, <2>3, <3>3, <3>4, <3>5, Zenon DEF LinksAgree
        <3>7. OneSegment(n)
            BY <1>4, <2>3, <3>3, <3>4, <3>5 DEF LinksApart
        <3> QED BY <3>3, <3>6, <3>7 DEF OneSegment
    <2>4. ASSUME image.fs = "erofs", Indexed(n) PROVE Arrived' + Len(buf') = 0
        BY <1>1, <1>3, <1>7, <1>9, <2>4
    <2>5. tree'[file'] = n /\ file' = file + 1
        BY <1>1
    <2>6. (\E i \in 1..file : ReadLast(i)') => \E i \in 1..file' : ReadLast(i)'
        BY <1>3, <2>5
    <2>7. Serves' => \A s \in 1..(seg_idx' - 1) : FALSE
        BY <1>1, <2>1, <2>3, <2>5 DEF Serves
    <2>8. image.fs = "erofs" /\ Indexed(n) => ~(Arrived' + Len(buf') > 0)
        BY <2>4
    <2> HIDE DEF n
    <2> QED BY <1>1, <2>1, <2>2, <2>5, <2>6, <2>7, <2>8 DEF CacheIsRight
<1> QED BY <1>1, <1>3, <1>5, <1>11, <1>12, <1>13, <1>14 DEF ConversionInvariant

(* A conversion begins with nothing copied and nothing cached.             *)
LEMMA StartConversionKeeps ==
    ASSUME SourcesAreWellFormed, ConversionInvariant, NEW to, NEW with, StartConversion(to, with), DecodedIsCurrent'
    PROVE  ConversionInvariant'
<1>1. /\ convert = "idle" /\ target' = to /\ file' = 0 /\ extent_bytes' = 0 /\ src_pos' = 0 /\ out' = <<>>
      /\ UNCHANGED <<image, request, buf, file_nid, segments, seg_idx, decoded_idx, decoded>>
    BY DEF StartConversion, sourceVars
<1>2. image \in Images /\ request = Nothing /\ buf = <<>> /\ file_nid = 0 /\ seg_idx = 1
    BY <1>1 DEF ConversionInvariant, Loaded
<1>3. CASE to = image.fs
    <2>1. convert' = "container" /\ target' = image'.fs
        BY <1>1, <1>3 DEF StartConversion
    <2>2. ~Loaded'
        BY <2>1 DEF Loaded
    <2> QED BY <1>1, <1>2, <2>1, <2>2 DEF ConversionInvariant
<1>4. CASE to # image.fs
    <2>1. /\ convert' = "copy" /\ target' # image'.fs
          /\ tree' = IF to = "erofs" THEN PruneSpecials(image.nodes) ELSE image.nodes
        BY <1>1, <1>4 DEF StartConversion
    <2>2. TreeIsLoaded'
        <3>1. PruneSpecials(image.nodes)' = PruneSpecials(image.nodes)
            BY <1>1 DEF PruneSpecials, HasEncoding
        <3> QED BY <1>1, <2>1, <3>1 DEF TreeIsLoaded
    <2>3. FilesArrive'
        <3>1. tree' \in Seq(SourceNode)
            <4>1. image.nodes \in Seq(SourceNode)
                BY <1>2 DEF SourcesAreWellFormed, WellFormed
            <4> QED BY <2>1, <4>1, PrunedNodes
        <3> QED BY <1>1, <3>1 DEF FilesArrive
    <2>4. PlaceInFile' /\ AnswerIsRight' /\ CacheIsRight'
        BY <1>1, <1>2 DEF PlaceInFile, AnswerIsRight, CacheIsRight, Serves
    <2> QED BY <1>1, <1>2, <2>1, <2>2, <2>3, <2>4 DEF ConversionInvariant
<1> QED BY <1>3, <1>4

(* What a turn of read_node_block leaves as it is.                         *)
LEMMA AnswersKeep ==
    ASSUME SourcesAreWellFormed, ConversionInvariant, request # Nothing, AnswerGoesOn,
           CacheIsRight', DecodedIsCurrent'
    PROVE  ConversionInvariant'
<1>1. /\ UNCHANGED <<image, tree, request>>
      /\ UNCHANGED <<target, options, convert, file, extent, src_pos, extent_bytes, remaining, out>>
      /\ buf' \in Seq(Bytes) /\ Len(buf') \in Len(buf)..request.len
      /\ \A k \in 1..Len(buf') : buf'[k] = TreeContent(tree[file])[src_pos + k]
    BY DEF AnswerGoesOn, converterVars
<1>2. AskedInFile
    BY RequestsStayInFile
<1>3. /\ TreeIsLoaded /\ FilesArrive /\ PlaceInFile /\ AnswerIsRight /\ Loaded
      /\ image \in Images /\ target # image.fs /\ convert = "copy"
    BY <1>2 DEF AskedInFile, ConversionInvariant
<1>4. TreeIsLoaded' /\ Loaded'
    BY <1>1, <1>3 DEF TreeIsLoaded, Loaded
<1>5. FilesArrive'
    BY <1>1, <1>3, SameSource DEF FilesArrive, Arrived
<1>6. PlaceInFile'
    <2>1. NewExtents(tree[file])' = NewExtents(tree[file])
        BY <1>1 DEF NewExtents
    <2>2. Boundary(tree[file], extent)' = Boundary(tree[file], extent)
        BY <1>1, <2>1 DEF Boundary
    <2> QED BY <1>1, <1>3, <2>1, <2>2 DEF PlaceInFile, Arrived
<1>7. AnswerIsRight'
    <2>1. /\ file > 0 /\ request.len \in 1..extent_bytes
          /\ request = [node |-> tree[file], from |-> src_pos, len |-> request.len]
        BY <1>3 DEF AnswerIsRight
    <2>2. Bytes' = Bytes /\ TreeContent(tree[file])' = TreeContent(tree[file])
        BY <1>1, SameSource DEF TreeContent
    <2>3. Len(buf') <= request.len
        BY <1>1, <1>2 DEF AskedInFile
    <2> QED BY <1>1, <2>1, <2>2, <2>3 DEF AnswerIsRight
<1> QED BY <1>1, <1>3, <1>4, <1>5, <1>6, <1>7 DEF ConversionInvariant

(* A turn of read_node_block, whatever it serves.                          *)
LEMMA ReadsKeep ==
    ASSUME SourcesAreWellFormed, ConversionInvariant, ReadNodeBlock, UNCHANGED converterVars,
           DecodedIsCurrent'
    PROVE  ConversionInvariant'
<1>1. Pending /\ request # Nothing
    BY DEF ReadNodeBlock, ServeMemory, ServeExtents, ServePlain, ServeInline, LoadIndex, PastSegments,
           FillGap, CopyStored, CopyDecoded, InGap, Serving, Compressed, Pending
<1>2. AskedInFile
    BY <1>1, RequestsStayInFile
<1>3. /\ CacheIsRight /\ tree \in Seq(SourceNode) /\ file \in Nat /\ file > 0 /\ file \in DOMAIN tree
      /\ Len(buf) \in Nat /\ Arrived \in Nat /\ seg_idx \in Nat \ {0}
    <2>1. CacheIsRight
        BY <1>2 DEF ConversionInvariant, AskedInFile
    <2>2. tree \in Seq(SourceNode)
        BY <1>2, LoadedTree DEF AskedInFile
    <2> QED BY <1>2, <2>1, <2>2 DEF AskedInFile, CacheIsRight
<1>4. UNCHANGED <<target, options, convert, file, extent, src_pos, extent_bytes, remaining, out>>
    BY DEF converterVars
<1>5. CASE ServeMemory \/ ServeExtents \/ ServePlain \/ ServeInline
    <2>1. /\ AnswerGoesOn /\ UNCHANGED <<file_nid, segments, seg_idx, decoded_idx, decoded>>
          /\ image.fs = "erofs" => ~Indexed(tree[file])
        BY <1>2, <1>5, DirectAnswers
    <2>2. UNCHANGED <<image, tree>>
        BY <2>1 DEF AnswerGoesOn
    <2>3. CacheIsRight'
        BY <1>3, <1>4, <2>1, <2>2 DEF CacheIsRight, Serves, ReadLast
    <2> QED BY <1>1, <2>1, <2>3, AnswersKeep
<1>6. CASE LoadIndex
    <2>1. /\ Compressed /\ file_nid' = Asked.nid /\ segments' = Asked.segments /\ seg_idx' = 1
          /\ UNCHANGED <<image, tree, request, buf>>
        BY <1>6 DEF LoadIndex
    <2>2. AnswerGoesOn
        <3>1. Len(buf) \in Len(buf)..request.len
            BY <1>2 DEF AskedInFile
        <3> QED BY <1>2, <2>1, <3>1 DEF AnswerGoesOn, AskedInFile
    <2>3. Indexed(tree[file]) /\ Asked = tree[file]
        BY <1>2, <2>1 DEF Compressed, AskedInFile, Indexed
    <2>4. CacheIsRight'
        <3>1. PICK j \in 1..file : j = file
            BY <1>3
        <3>2. (file + 1)..(file - 1) = {} /\ 1..(1 - 1) = {}
            BY <1>3
        <3>3. ReadLast(j)'
            BY <1>4, <2>1, <2>3, <3>1, <3>2 DEF ReadLast
        <3>4. Serves'
            BY <1>3, <1>4, <2>1, <2>3 DEF Serves, Compressed
        <3>5. \A s \in 1..(seg_idx' - 1) : FALSE
            BY <2>1, <3>2
        <3> QED BY <1>4, <2>1, <3>3, <3>4, <3>5 DEF CacheIsRight
    <2> QED BY <1>1, <2>2, <2>4, AnswersKeep
<1>7. CASE PastSegments \/ FillGap \/ CopyStored \/ CopyDecoded
    <2>1. AnswerGoesOn
        BY <1>7, SegmentsAnswer
    <2>2. Serving /\ seg_idx' = Here /\ UNCHANGED <<image, tree, file_nid, segments>>
        BY <1>7 DEF PastSegments, FillGap, CopyStored, CopyDecoded, InGap
    <2>3. ServedFromIndex /\ Serves
        BY <2>2, IndexServes
    <2>4. /\ Here \in Nat \ {0} /\ (OneSegment(tree[file]) => Here = 1)
          /\ \A s \in DOMAIN segments : s < Here => segments[s].end <= Pos
        BY <2>3, IndexMovesOn
    <2>5. CacheIsRight'
        <3>1. PICK i \in 1..file : ReadLast(i)
            <4>1. image.fs = "erofs" /\ file_nid # 0
                BY <1>2, <2>3 DEF Serves, AskedInFile, SourceNode
            <4> QED BY <1>3, <4>1 DEF CacheIsRight
        <3>2. tree[i].segments = tree[file].segments /\ tree[i].size = tree[file].size
            <4>1. LinksAgree(tree)
                BY <1>2, <2>3, ErofsTree DEF Serves, AskedInFile, WellFormed
            <4>2. i \in DOMAIN tree
                BY <1>3
            <4>3. Indexed(tree[i]) /\ Indexed(tree[file]) /\ tree[i].nid = tree[file].nid
                BY <2>3, <3>1 DEF ReadLast, Serves
            <4> QED BY <1>3, <4>1, <4>2, <4>3, Zenon DEF LinksAgree
        <3>3. ReadLast(i)'
            BY <1>4, <2>2, <2>4, <3>1, <3>2 DEF ReadLast, OneSegment
        <3>4. Serves'
            BY <1>4, <2>2, <2>3 DEF Serves
        <3>5. ASSUME NEW s \in 1..(Here - 1), s \in DOMAIN segments
              PROVE  segments[s].end <= Arrived + Len(buf')
            <4>1. segments[s].end <= Pos
                BY <2>4, <3>5
            <4>2. /\ segments[s].end \in Nat /\ Pos = Arrived + Len(buf) /\ Pos \in Nat
                <5>1. segments[s] \in SourceSegment
                    BY <2>3, <3>5 DEF ServedFromIndex
                <5> QED BY <2>3, <5>1 DEF ServedFromIndex, SourceSegment
            <4>3. Len(buf') \in Nat /\ Len(buf) <= Len(buf')
                BY <1>2, <2>1 DEF AnswerGoesOn, AskedInFile
            <4> QED BY <1>3, <4>1, <4>2, <4>3
        <3>6. Arrived' = Arrived
            BY <1>4, <2>2 DEF Arrived
        <3> QED BY <1>4, <2>2, <2>4, <3>3, <3>4, <3>5, <3>6 DEF CacheIsRight
    <2> QED BY <1>1, <2>1, <2>5, AnswersKeep
<1> QED BY <1>5, <1>6, <1>7 DEF ReadNodeBlock

(* Every step of the program keeps the invariant.                          *)
LEMMA ConversionStep ==
    ASSUME SourcesAreWellFormed, ConversionInvariant, [Next]_vars
    PROVE  ConversionInvariant'
<1>1. DecodedIsCurrent'
    BY DecodedStep DEF ConversionInvariant
<1>2. UNCHANGED <<image, tree>> /\ UNCHANGED <<sourceVars, converterVars>> => ConversionInvariant'
    <2> SUFFICES ASSUME UNCHANGED <<image, tree>>, UNCHANGED <<sourceVars, converterVars>>
                 PROVE  ConversionInvariant'
        OBVIOUS
    <2>1. /\ UNCHANGED <<image, tree, request, buf, file_nid, segments, seg_idx, decoded_idx, decoded>>
          /\ UNCHANGED <<target, options, convert, file, extent, src_pos, extent_bytes, remaining, out>>
        BY DEF sourceVars, converterVars
    <2>2. /\ Bytes' = Bytes /\ \A n : TreeContent(n)' = TreeContent(n)
        BY <2>1, SameSource
    <2>3. Loaded' = Loaded /\ TreeIsLoaded' = TreeIsLoaded /\ CacheIsRight' = CacheIsRight
        BY <2>1 DEF Loaded, TreeIsLoaded, CacheIsRight, Serves, ReadLast, Arrived
    <2>4. FilesArrive' = FilesArrive
        BY <2>1, <2>2 DEF FilesArrive, Arrived
    <2>5. NewExtents(tree[file])' = NewExtents(tree[file])
        BY <2>1 DEF NewExtents
    <2>6. Boundary(tree[file], extent)' = Boundary(tree[file], extent)
        BY <2>1, <2>5 DEF Boundary
    <2>7. PlaceInFile' = PlaceInFile /\ FileDone' = FileDone
        BY <2>1, <2>5, <2>6 DEF PlaceInFile, Arrived, FileDone
    <2>8. TreeContent(tree[file])' = TreeContent(tree[file])
        BY <2>1 DEF TreeContent
    <2>9. AnswerIsRight' = AnswerIsRight
        BY <2>1, <2>2, <2>8 DEF AnswerIsRight
    <2> QED BY <1>1, <2>1, <2>3, <2>4, <2>7, <2>9 DEF ConversionInvariant
<1>3. CASE DispatchRead \/ DispatchWrite \/ DispatchBare \/ Reading \/ Finished \/ Fails \/ UNCHANGED vars
    <2>1. UNCHANGED <<image, tree>> /\ UNCHANGED <<sourceVars, converterVars>>
        BY <1>3 DEF DispatchRead, DispatchWrite, DispatchBare, Reading, Finished, Fails, vars
    <2> QED BY <1>2, <2>1
<1>4. CASE Convert
    <2>1. StartConversion(config.convert,
                          [shared |-> ToExt4 /\ config.shared = "yes",
                           compress |-> ConversionAlgo # "none"])
        BY <1>4 DEF Convert
    <2> QED BY <1>1, <2>1, StartConversionKeeps
<1>5. CASE ConverterStep
    <2>1. CASE ReadNodeBlock /\ UNCHANGED converterVars
        BY <1>1, <2>1, ReadsKeep
    <2> QED BY <1>1, <1>5, <2>1, NextFileKeeps, NextExtentKeeps, AskChunkKeeps, WriteChunkKeeps,
               FinishConversionKeeps DEF ConverterStep
<1>6. CASE Writing
    BY <1>2, <1>4, <1>5, <1>6 DEF Writing, WriteStep
<1> QED BY <1>3, <1>6 DEF Next, Proceed

(* A conversion of a well-formed image never loses its place: whatever it  *)
(* has written so far is the beginning of what it should write, and every  *)
(* range it asks for lies within the file (write_file_data, convert.rs, and*)
(* read_node_block).                                                       *)
THEOREM ConversionsKeepTheirPlace ==
    ASSUME SourcesAreWellFormed
    PROVE  Spec => []ConversionInvariant
<1>1. Init => ConversionInvariant
    BY DEF Init, SourceInit, ConverterInit, ConversionInvariant, DecodedIsCurrent, Loaded
<1>2. ConversionInvariant /\ [Next]_vars => ConversionInvariant'
    BY ConversionStep
<1> QED BY <1>1, <1>2, PTL DEF Spec

(* Every regular file and symlink arrives, and with the bytes that the     *)
(* source has for it; unwritten extents of ext4 sources excepted           *)
(* (tree_depth, ext4.rs).                                                  *)
LEMMA ArrivedFilesReadBack ==
    ASSUME SourcesAreWellFormed, ConversionInvariant
    PROVE  ConvertedFilesReadBack
<1> SUFFICES ASSUME convert = "done", target # image.fs
             PROVE  /\ {n \in Range(tree) : n.mode # "special"} = {n \in Range(image.nodes) : n.mode # "special"}
                    /\ Len(out) = Len(tree)
                    /\ \A i \in DOMAIN tree :
                          \/ out[i] = FileContent(image.fs, tree[i])
                          \/ image.fs = "ext4" /\ HasUnwritten(tree[i])
    BY DEF ConvertedFilesReadBack
<1>1. Loaded
    BY DEF Loaded
<1>2. /\ WellFormed(image) /\ TreeIsLoaded /\ FilesArrive /\ FileDone /\ file = Len(tree)
      /\ tree \in Seq(SourceNode) /\ DOMAIN tree = 1..Len(tree)
      /\ \A i \in DOMAIN tree : tree[i] \in SourceNode
    <2>1. FileDone /\ file = Len(tree)
        BY <1>1 DEF ConversionInvariant
    <2> QED BY <1>1, <2>1, WhileCopying
<1>3. {n \in Range(tree) : n.mode # "special"} = {n \in Range(image.nodes) : n.mode # "special"}
    <2>1. image.nodes \in Seq(SourceNode)
        BY <1>2 DEF WellFormed
    <2>2. CASE target = "erofs"
        <3>1. Range(tree) = {n \in Range(image.nodes) : HasEncoding(n)}
            BY <1>2, <2>1, <2>2, PrunedNodes DEF TreeIsLoaded
        <3>2. \A n \in Range(image.nodes) : n.mode # "special" <=> HasEncoding(n)
            <4>1. \A n \in Range(image.nodes) : n \in SourceNode
                BY <2>1 DEF Range
            <4> QED BY <4>1 DEF SourceNode, HasEncoding
        <3> QED BY <3>1, <3>2
    <2>3. CASE target # "erofs"
        BY <1>2, <2>3 DEF TreeIsLoaded
    <2> QED BY <2>2, <2>3
<1>4. \A i \in DOMAIN tree : out[i] = TreeContent(tree[i])
    <2> TAKE i \in DOMAIN tree
    <2>1. CASE i = file
        <3>1. file > 0
            BY <1>2, <2>1
        <3> QED BY <1>1, <1>2, <2>1, <3>1, DoneFilesHaveArrived
    <2>2. CASE i # file
        <3>1. i \in 1..(file - 1)
            BY <1>2, <2>2
        <3> QED BY <1>2, <3>1 DEF FilesArrive
    <2> QED BY <2>1, <2>2
<1>5. ASSUME NEW n \in SourceNode, ~(image.fs = "ext4" /\ HasUnwritten(n))
      PROVE  TreeContent(n) = FileContent(image.fs, n)
    <2>1. n.kind \in {"file", "memory"}
        BY DEF SourceNode
    <2>2. CASE image.fs = "ext4" /\ n.kind = "file"
        <3> DEFINE m == [n EXCEPT !.extents = TreeExtents(n)]
        <3>1. \A x \in DOMAIN n.extents : n.extents[x].unwritten = FALSE
            <4>1. n.extents \in Seq(SourceExtent)
                BY DEF SourceNode
            <4>2. \A x \in DOMAIN n.extents : n.extents[x] \in SourceExtent
                BY <4>1
            <4> QED BY <1>5, <2>2, <4>2 DEF HasUnwritten, SourceExtent
        <3>2. TreeExtents(n) = n.extents
            <4>1. n.extents \in Seq(SourceExtent)
                BY DEF SourceNode
            <4>2. \A x \in DOMAIN n.extents : [n.extents[x] EXCEPT !.unwritten = FALSE] = n.extents[x]
                <5> TAKE x \in DOMAIN n.extents
                <5>1. n.extents[x] \in SourceExtent
                    BY <4>1
                <5> QED BY <3>1, <5>1 DEF SourceExtent
            <4>3. n.extents = [x \in DOMAIN n.extents |-> n.extents[x]]
                BY <4>1
            <4> QED BY <4>2, <4>3 DEF TreeExtents
        <3>3. m = n
            BY <3>2 DEF SourceNode
        <3>4. TreeContent(n) = ReadPrefix(m, n.size)
            BY <2>2 DEF TreeContent
        <3> HIDE DEF m
        <3> QED BY <2>2, <3>3, <3>4 DEF FileContent
    <2>3. CASE ~(image.fs = "ext4" /\ n.kind = "file")
        BY <2>1, <2>3 DEF TreeContent, FileContent
    <2> QED BY <2>2, <2>3
<1>6. Len(out) = Len(tree)
    BY <1>2 DEF FilesArrive
<1> QED BY <1>2, <1>3, <1>4, <1>5, <1>6

(* A finished conversion between the filesystems has brought every regular *)
(* file and symlink over with its bytes, for every well-formed image and   *)
(* every size of its blocks, of the chunks copied and of the new extents.  *)
THEOREM ConversionsKeepTheFiles ==
    ASSUME SourcesAreWellFormed
    PROVE  Spec => []ConvertedFilesReadBack
<1>1. ConversionInvariant => ConvertedFilesReadBack
    BY ArrivedFilesReadBack
<1> QED BY <1>1, ConversionsKeepTheirPlace, PTL

-----------------------------------------------------------------------------
(* The adapters over the source images, step by step, as a BlockService.   *)

(* What the service has for each node.  *)
Contents == [n \in Range(image.nodes) |-> TreeContent(n)]

(* A chunk is asked for, of a file that the service knows.                 *)
LEMMA AskingIsAsk ==
    ASSUME SourcesAreWellFormed, ConversionInvariant, AskChunk
    PROVE  Service!Ask
<1>1. /\ convert = "copy" /\ request = Nothing /\ file > 0 /\ extent_bytes > 0
      /\ request' = [node |-> tree[file], from |-> src_pos, len |-> Smaller(extent_bytes, Grain)]
      /\ UNCHANGED <<image, tree, buf>>
    BY DEF AskChunk, Copying
<1>2. Loaded
    BY <1>1 DEF ConversionInvariant, Loaded
<1>3. /\ WellFormed(image) /\ TreeIsLoaded /\ AnswerIsRight /\ PlaceInFile /\ file \in DOMAIN tree
    <2>1. /\ WellFormed(image) /\ TreeIsLoaded /\ AnswerIsRight /\ PlaceInFile
          /\ file \in 0..Len(tree) /\ DOMAIN tree = 1..Len(tree) /\ Len(tree) \in Nat
        BY <1>1, <1>2, WhileCopying
    <2> QED BY <1>1, <2>1
<1>4. request'.node \in Range(image.nodes)
    BY <1>1, <1>3, LoadedTree
<1>5. request'.len \in Nat \ {0}
    <2>1. Grain \in Nat \ {0}
        BY ChunkAssumption DEF Grain
    <2> QED BY <1>1, <1>3, <2>1 DEF PlaceInFile, Smaller
<1>6. request' # Nothing
    <2>1. DOMAIN request' = {"node", "from", "len"} /\ DOMAIN Nothing = {}
        BY <1>1 DEF Nothing
    <2> QED BY <2>1
<1>7. ~Answered /\ ~Answered'
    <2>1. buf = <<>>
        BY <1>1, <1>3 DEF AnswerIsRight
    <2> QED BY <1>1, <1>5, <2>1 DEF Answered
<1>8. UNCHANGED Contents
    BY <1>1 DEF Contents, TreeContent
<1> QED BY <1>1, <1>4, <1>6, <1>7, <1>8 DEF Service!Ask, Contents, Nothing

(* Writing a chunk takes the whole answer.                                 *)
LEMMA WritingIsTake ==
    ASSUME SourcesAreWellFormed, ConversionInvariant, WriteChunk
    PROVE  Service!Take
<1>1. Answered /\ request # Nothing /\ request' = Nothing /\ UNCHANGED image
    BY DEF WriteChunk, Answered
<1>2. AskedInFile
    BY <1>1, RequestsStayInFile
<1>3. buf # Nothing
    BY <1>1, <1>2 DEF Answered, AskedInFile, Nothing
<1>4. ~Answered'
    BY <1>1 DEF Answered
<1>5. UNCHANGED Contents
    BY <1>1 DEF Contents, TreeContent
<1> QED BY <1>1, <1>3, <1>4, <1>5 DEF Service!Take, Contents, Nothing

(* The turn that completes the answer gives it, the others are not seen.   *)
LEMMA ReadingIsAnswer ==
    ASSUME SourcesAreWellFormed, ConversionInvariant, ReadNodeBlock, UNCHANGED converterVars
    PROVE  Service!Answer \/ UNCHANGED Service!vars
<1>1. Pending /\ request # Nothing /\ UNCHANGED <<image, tree, request>>
    BY DEF ReadNodeBlock, ServeMemory, ServeExtents, ServePlain, ServeInline, LoadIndex, PastSegments,
           FillGap, CopyStored, CopyDecoded, InGap, Serving, Compressed, Pending, KeepIndex
<1>2. AskedInFile
    BY <1>1, RequestsStayInFile
<1>3. ~Answered
    BY <1>1, <1>2 DEF Pending, Answered, AskedInFile
<1>4. UNCHANGED Contents
    BY <1>1 DEF Contents, TreeContent
<1>5. AnswerGoesOn
    <2>1. CASE LoadIndex
        <3>1. buf' = buf
            BY <2>1 DEF LoadIndex
        <3>2. Len(buf) \in Len(buf)..request.len
            BY <1>2 DEF AskedInFile
        <3> QED BY <1>1, <1>2, <3>1, <3>2 DEF AnswerGoesOn, AskedInFile
    <2>2. CASE ServeMemory \/ ServeExtents \/ ServePlain \/ ServeInline
        BY <1>2, <2>2, DirectAnswers
    <2>3. CASE PastSegments \/ FillGap \/ CopyStored \/ CopyDecoded
        BY <2>3, SegmentsAnswer
    <2> QED BY <2>1, <2>2, <2>3 DEF ReadNodeBlock
<1>6. CASE ~Answered'
    BY <1>1, <1>3, <1>4, <1>6 DEF Service!vars, Contents
<1>7. CASE Answered'
    <2>1. /\ buf' \in Seq(Bytes) /\ Len(buf') = request.len
          /\ \A k \in 1..request.len : buf'[k] = TreeContent(tree[file])[src_pos + k]
        BY <1>1, <1>5, <1>7 DEF AnswerGoesOn, Answered
    <2>2. /\ request.node = tree[file] /\ request.from = src_pos /\ tree[file] \in Range(image.nodes)
          /\ Len(TreeContent(tree[file])) = tree[file].size /\ tree[file].size \in Nat
          /\ src_pos \in Nat /\ request.len \in Nat /\ src_pos + request.len <= tree[file].size
        BY <1>2 DEF AskedInFile, Asked
    <2>3. Contents[request.node] = TreeContent(tree[file])
        BY <2>2 DEF Contents
    <2>4. \A k \in 1..request.len : request.from + k <= Len(Contents[request.node])
        BY <2>2, <2>3
    <2>5. Service!BytesOf(request) = [k \in 1..request.len |-> Contents[request.node][request.from + k]]
        BY <2>4 DEF Service!BytesOf, Contents
    <2>6. buf' = [k \in 1..request.len |-> buf'[k]]
        BY <2>1
    <2>7. buf' = Service!BytesOf(request)
        BY <2>1, <2>2, <2>3, <2>5, <2>6
    <2> QED BY <1>1, <1>3, <1>4, <1>7, <2>7 DEF Service!Answer, Contents, Nothing
<1> QED BY <1>6, <1>7

(* No other step is seen by the service.                                   *)
LEMMA StepIsService ==
    ASSUME SourcesAreWellFormed, ConversionInvariant, [Next]_vars
    PROVE  [Service!Next]_(Service!vars)
<1>1. UNCHANGED <<image, request, buf>> => UNCHANGED Service!vars
    BY DEF Service!vars, Answered, TreeContent
<1>2. CASE DispatchRead \/ DispatchWrite \/ DispatchBare \/ Reading \/ Finished \/ Fails \/ UNCHANGED vars
    <2>1. UNCHANGED image /\ UNCHANGED sourceVars
        BY <1>2 DEF DispatchRead, DispatchWrite, DispatchBare, Reading, Finished, Fails, vars
    <2> QED BY <1>1, <2>1 DEF sourceVars
<1>3. CASE Convert \/ NextFile \/ NextExtent \/ FinishConversion
    <2>1. UNCHANGED image /\ UNCHANGED sourceVars
        BY <1>3 DEF Convert, StartConversion, NextFile, NextExtent, FinishConversion
    <2> QED BY <1>1, <2>1 DEF sourceVars
<1>4. CASE ReadNodeBlock /\ UNCHANGED converterVars
    BY <1>4, ReadingIsAnswer DEF Service!Next
<1>5. CASE AskChunk \/ WriteChunk
    BY <1>5, AskingIsAsk, WritingIsTake DEF Service!Next
<1>6. CASE Writing
    <2>1. UNCHANGED <<image, tree>> /\ UNCHANGED <<sourceVars, converterVars>> => UNCHANGED Service!vars
        BY <1>1 DEF sourceVars
    <2> QED BY <1>3, <1>4, <1>5, <1>6, <2>1 DEF Writing, WriteStep, ConverterStep
<1> QED BY <1>2, <1>6 DEF Next, Proceed

(* Both block sources, the cache of ErofsBlockSource included, do what the *)
(* trait BlockSource promises: every range of every file comes back as the *)
(* file has it (convert.rs, ext4.rs).                                      *)
THEOREM SourcesAreABlockService ==
    ASSUME SourcesAreWellFormed
    PROVE  Spec => ImplementsBlockService
<1>1. Init => Service!Init
    BY DEF Init, SourceInit, Service!Init, Answered
<1>2. ConversionInvariant /\ [Next]_vars => [Service!Next]_(Service!vars)
    BY StepIsService
<1> QED BY <1>1, <1>2, ConversionsKeepTheirPlace, PTL DEF Spec, ImplementsBlockService, Service!Spec

-----------------------------------------------------------------------------
(* A block begins at or before a byte just when it is at most the byte's.  *)
LEMMA BlocksOfBytes ==
    ASSUME NEW d \in Nat, NEW a \in Nat, NEW B \in Nat \ {0}
    PROVE  /\ d \div B \in Nat /\ d = (d \div B) * B + (d % B) /\ a * B \in Nat
           /\ a <= d \div B <=> a * B <= d
<1> DEFINE q == d \div B
           r == d % B
<1>1. q \in Nat /\ r \in 0..(B - 1) /\ d = q * B + r
    OBVIOUS
<1> HIDE DEF q, r
<1>2. CASE a <= q
    <2>1. a * B \in Nat /\ a * B <= q * B
        BY <1>1, <1>2, ProductsGrow
    <2> QED BY ONLY <1>1, <1>2, <2>1, a \in Nat, d \in Nat, B \in Nat \ {0} DEF q, r
<1>3. CASE ~(a <= q)
    <2>1. q + 1 \in Nat /\ q + 1 <= a
        BY <1>1, <1>3
    <2>2. a * B \in Nat /\ (q + 1) * B <= a * B
        BY <2>1, ProductsGrow
    <2>3. (q + 1) * B = q * B + B
        BY <1>1
    <2>4. q * B \in Nat
        BY <1>1
    <2>5. d < a * B
        BY ONLY <1>1, <2>2, <2>3, <2>4, B \in Nat \ {0}
    <2> QED BY ONLY <1>1, <1>3, <2>2, <2>5, d \in Nat DEF q, r
<1> QED BY <1>2, <1>3

(* The extents of a node --cat is promised for, and which of them has the  *)
(* byte k of the file.                                                     *)
Extents(n) ==
    /\ n \in SourceNode /\ ExtentsApart(n)
    /\ \A x \in DOMAIN n.extents : n.extents[x].length > 0
HasByte(e, k) == e.logical * BlockBytes < k /\ k <= (e.logical + e.length) * BlockBytes
ByteOf(e, k) == IF e.unwritten THEN Zero ELSE Raw(e.physical * BlockBytes + k - 1 - e.logical * BlockBytes)

LEMMA ExtentFacts ==
    ASSUME NEW n, Extents(n), NEW e \in Range(n.extents)
    PROVE  /\ e.logical \in Nat /\ e.length \in Nat \ {0} /\ e.physical \in Nat /\ e.unwritten \in BOOLEAN
           /\ e.logical * BlockBytes \in Nat /\ (e.logical + e.length) * BlockBytes \in Nat
           /\ e.logical * BlockBytes < (e.logical + e.length) * BlockBytes
           /\ \A f \in Range(n.extents) :
                 \/ e = f
                 \/ e.logical + e.length <= f.logical
                 \/ f.logical + f.length <= e.logical
<1>1. PICK x \in DOMAIN n.extents : e = n.extents[x]
    BY DEF Range
<1>2. n.extents \in Seq(SourceExtent)
    BY DEF Extents, SourceNode
<1>3. e \in SourceExtent
    BY <1>1, <1>2, AnElement
<1>4. e.logical \in Nat /\ e.length \in Nat \ {0} /\ e.physical \in Nat /\ e.unwritten \in BOOLEAN
    <2>1. e.logical \in Nat /\ e.length \in Nat /\ e.physical \in Nat /\ e.unwritten \in BOOLEAN
        BY <1>3 DEF SourceExtent
    <2>2. e.length > 0
        BY <1>1 DEF Extents
    <2> QED BY <2>1, <2>2
<1>5. BlockBytes \in Nat \ {0}
    BY ChunkAssumption
<1>6. /\ e.logical * BlockBytes \in Nat /\ (e.logical + e.length) * BlockBytes \in Nat
      /\ e.logical * BlockBytes < (e.logical + e.length) * BlockBytes
    <2>1. e.logical * BlockBytes \in Nat /\ (e.logical + 1) * BlockBytes <= (e.logical + e.length) * BlockBytes
          /\ (e.logical + e.length) * BlockBytes \in Nat
        BY <1>4, <1>5, ProductsGrow
    <2>2. (e.logical + 1) * BlockBytes = e.logical * BlockBytes + BlockBytes
        BY <1>4, <1>5
    <2> QED BY ONLY <1>5, <2>1, <2>2
<1>7. ASSUME NEW f \in Range(n.extents)
      PROVE  \/ e = f
             \/ e.logical + e.length <= f.logical
             \/ f.logical + f.length <= e.logical
    <2>1. PICK y \in DOMAIN n.extents : f = n.extents[y]
        BY DEF Range
    <2> QED BY <1>1, <2>1 DEF Extents, ExtentsApart
<1> QED BY <1>4, <1>6, <1>7

(* A byte of the file is that of the extent that has it, and zero if none  *)
(* does.                                                                   *)
LEMMA BytesOfExtents ==
    ASSUME NEW n, Extents(n), NEW k \in 1..n.size
    PROVE  /\ \A e \in Range(n.extents) : HasByte(e, k) => ReadPrefix(n, n.size)[k] = ByteOf(e, k)
           /\ (\A e \in Range(n.extents) : ~HasByte(e, k)) => ReadPrefix(n, n.size)[k] = Zero
<1> DEFINE d == k - 1
           block == d \div BlockBytes
           here == {x \in DOMAIN n.extents : ~n.extents[x].unwritten /\ InExtent(n.extents[x], block)}
           Byte(e) == Raw((e.physical + block - e.logical) * BlockBytes + (d % BlockBytes))
<1>1. n.size \in Nat /\ n.extents \in Seq(SourceExtent) /\ d \in Nat /\ k = d + 1 /\ BlockBytes \in Nat \ {0}
    BY ChunkAssumption DEF Extents, SourceNode
<1>2. ReadPrefix(n, n.size)[k] = IF here = {} THEN Zero ELSE Byte(n.extents[Max(here)])
    <2>1. Smaller(n.size, n.size) = n.size
        BY <1>1 DEF Smaller
    <2> QED BY <2>1 DEF ReadPrefix
<1>3. /\ block \in Nat /\ d = block * BlockBytes + (d % BlockBytes) /\ d % BlockBytes \in Nat
      /\ \A a \in Nat : a * BlockBytes \in Nat /\ (a <= block <=> a * BlockBytes <= d)
    <2>1. d % BlockBytes \in Nat
        BY <1>1
    <2> QED BY <1>1, <2>1, BlocksOfBytes
<1> HIDE DEF block, d
<1>4. ASSUME NEW e \in Range(n.extents) PROVE InExtent(e, block) <=> HasByte(e, k)
    <2>1. e.logical \in Nat /\ e.length \in Nat /\ e.logical + e.length \in Nat
        BY ExtentFacts
    <2>2. /\ e.logical <= block <=> e.logical * BlockBytes <= d
          /\ e.logical + e.length <= block <=> (e.logical + e.length) * BlockBytes <= d
          /\ e.logical * BlockBytes \in Nat /\ (e.logical + e.length) * BlockBytes \in Nat
        BY <1>3, <2>1
    <2> QED BY ONLY <1>1, <1>3, <2>1, <2>2 DEF InExtent, HasByte
<1>5. ASSUME NEW e \in Range(n.extents), ~e.unwritten, HasByte(e, k) PROVE Byte(e) = ByteOf(e, k)
    <2>1. e.logical \in Nat /\ e.physical \in Nat
        BY ExtentFacts
    <2>2. (e.physical + block - e.logical) * BlockBytes
              = e.physical * BlockBytes + block * BlockBytes - e.logical * BlockBytes
        BY ONLY <1>1, <1>3, <2>1
    <2> DEFINE p == e.physical * BlockBytes
               c == block * BlockBytes
               l == e.logical * BlockBytes
               r == d % BlockBytes
    <2>3. p \in Int /\ c \in Int /\ l \in Int /\ r \in Int
        BY <1>1, <1>3, <2>1
    <2>4. (e.physical + block - e.logical) * BlockBytes + r = p + k - 1 - l
        <3>1. (e.physical + block - e.logical) * BlockBytes = p + c - l /\ d = c + r /\ k = d + 1
            BY <1>1, <1>3, <2>2
        <3> HIDE DEF p, c, l, r
        <3> QED BY ONLY <1>1, <2>3, <3>1
    <2> QED BY ONLY <1>5, <2>4 DEF ByteOf
<1>6. \A x \in here : n.extents[x] \in Range(n.extents) /\ ~n.extents[x].unwritten /\ HasByte(n.extents[x], k)
                      /\ x \in Nat
    <2> TAKE x \in here
    <2>1. x \in DOMAIN n.extents /\ x \in Nat
        BY <1>1
    <2>2. n.extents[x] \in Range(n.extents)
        BY <2>1 DEF Range
    <2> QED BY <1>4, <2>1, <2>2
<1>7. ASSUME NEW e \in Range(n.extents), HasByte(e, k), NEW f \in Range(n.extents), HasByte(f, k)
      PROVE  e = f
    <2>1. e.logical \in Nat /\ e.length \in Nat /\ f.logical \in Nat /\ f.length \in Nat
        BY ExtentFacts
    <2>2. e.logical <= block /\ block < e.logical + e.length /\ f.logical <= block /\ block < f.logical + f.length
        BY <1>4, <1>7 DEF InExtent
    <2>3. \/ e = f
          \/ e.logical + e.length <= f.logical
          \/ f.logical + f.length <= e.logical
        BY ExtentFacts
    <2> QED BY ONLY <1>3, <2>1, <2>2, <2>3
<1>8. ASSUME here # {} PROVE Max(here) \in here
    <2>1. PICK x \in here : TRUE
        BY <1>8
    <2>2. \A y \in here : n.extents[y] = n.extents[x]
        BY <1>6, <1>7
    <2>3. \A y \in here : y = x
        <3> TAKE y \in here
        <3>1. x \in DOMAIN n.extents /\ y \in DOMAIN n.extents /\ n.extents[y] = n.extents[x]
            BY <2>2
        <3>2. n.extents[x].logical \in Nat /\ n.extents[x].length \in Nat \ {0}
            BY <1>6, ExtentFacts
        <3> HIDE DEF here
        <3> QED BY <3>1, <3>2 DEF Extents, ExtentsApart
    <2>4. \A y \in here : x >= y
        BY <1>6, <2>3
    <2> HIDE DEF here
    <2>5. \E y \in here : \A z \in here : y >= z
        BY <2>4
    <2> QED BY <2>5 DEF Max
<1> DEFINE chosen == n.extents[Max(here)]
<1>9. ASSUME here # {}
      PROVE  chosen \in Range(n.extents) /\ ~chosen.unwritten /\ HasByte(chosen, k)
    BY <1>6, <1>8, <1>9
<1>10. ASSUME NEW e \in Range(n.extents), HasByte(e, k) PROVE ReadPrefix(n, n.size)[k] = ByteOf(e, k)
    <2>1. CASE here = {}
        <3>1. PICK x \in DOMAIN n.extents : e = n.extents[x]
            BY DEF Range
        <3>2. e.unwritten
            BY <1>4, <1>10, <2>1, <3>1
        <3> QED BY <1>2, <2>1, <3>2 DEF ByteOf
    <2>2. CASE here # {}
        <3>1. chosen = e
            BY <1>7, <1>9, <1>10, <2>2
        <3>2. ReadPrefix(n, n.size)[k] = Byte(chosen)
            BY <1>2, <2>2
        <3> HIDE DEF here
        <3> QED BY <1>5, <1>9, <1>10, <2>2, <3>1, <3>2
    <2> QED BY <2>1, <2>2
<1>11. ASSUME \A e \in Range(n.extents) : ~HasByte(e, k) PROVE ReadPrefix(n, n.size)[k] = Zero
    <2>1. here = {}
        BY <1>6, <1>11
    <2> QED BY <1>2, <2>1
<1> QED BY <1>10, <1>11

(* More bytes of the file behind its first ones.                           *)
LEMMA PrefixGrows ==
    ASSUME NEW P, NEW a \in Nat, NEW m \in Nat, NEW s, s = [k \in 1..a |-> P[k]],
           NEW t, t = [j \in 1..m |-> P[a + j]]
    PROVE  s \o t = [k \in 1..(a + m) |-> P[k]]
<1> DEFINE S == {P[k] : k \in 1..(a + m)}
<1>1. \A k \in 1..a : P[k] \in S
    OBVIOUS
<1>2. \A j \in 1..m : P[a + j] \in S
    OBVIOUS
<1> HIDE DEF S
<1>3. s \in Seq(S) /\ Len(s) = a
    BY <1>1
<1>4. t \in Seq(S) /\ Len(t) = m
    BY <1>2
<1>5. s \o t \in Seq(S) /\ Len(s \o t) = a + m
    BY <1>3, <1>4
<1>6. ASSUME NEW k \in 1..(a + m) PROVE (s \o t)[k] = P[k]
    <2>1. CASE k <= a
        <3>1. k \in 1..a
            BY <2>1
        <3>2. (s \o t)[k] = s[k]
            BY <1>3, <1>4, <3>1
        <3> QED BY <3>1, <3>2
    <2>2. CASE ~(k <= a)
        <3>1. k - a \in 1..m /\ a + (k - a) = k
            BY <2>2
        <3>2. (s \o t)[k] = t[k - a]
            BY <1>3, <1>4, <2>2
        <3> QED BY <3>1, <3>2
    <2> QED BY <2>1, <2>2
<1>7. s \o t = [k \in 1..(a + m) |-> (s \o t)[k]]
    BY <1>5
<1> QED BY <1>6, <1>7

(* What --cat has passed of an ext4 file: it wrote the bytes up to the     *)
(* cursor; the extents left lie behind it, all others end before it.       *)
CatsTheFile == [k \in 1..cursor |-> ReadPrefix(CatNode, CatNode.size)[k]]
Catting ==
    /\ image.fs = "ext4" /\ Extents(CatNode) /\ CatNode.kind = "file"
    /\ cursor \in 0..CatNode.size /\ unread \subseteq Range(CatNode.extents)
    /\ unread # {} => cursor < CatNode.size
    /\ \A e \in unread : cursor <= e.logical * BlockBytes
    /\ \A e \in Range(CatNode.extents) : e \in unread \/ EndOfExtent(e) <= cursor
    /\ ~Doubles(CatNode) => emitted = CatsTheFile

(* The extent taken next is the first of those left.                       *)
NextUnread(e) == e \in unread /\ \A f \in unread : e.logical <= f.logical

LEMMA ExtentEnds ==
    ASSUME Catting, NEW e, NextUnread(e)
    PROVE  /\ EndOfExtent(e) \in 0..CatNode.size /\ cursor <= EndOfExtent(e)
           /\ CursorAfter(e) = EndOfExtent(e)
           /\ EndOfExtent(e) = Smaller((e.logical + e.length) * BlockBytes, CatNode.size)
           /\ \A f \in unread : f = e \/ (e.logical + e.length) * BlockBytes <= f.logical * BlockBytes
<1> DEFINE n == CatNode
           start == e.logical * BlockBytes
           full == (e.logical + e.length) * BlockBytes
<1>1. /\ Extents(n) /\ e \in Range(n.extents) /\ n.size \in Nat /\ cursor \in Nat /\ cursor <= n.size
      /\ cursor <= start /\ unread \subseteq Range(n.extents)
    BY DEF Catting, NextUnread, Extents, SourceNode
<1>2. /\ e.logical \in Nat /\ e.length \in Nat \ {0} /\ start \in Nat /\ full \in Nat /\ start < full
      /\ \A f \in Range(n.extents) :
            \/ e = f
            \/ e.logical + e.length <= f.logical
            \/ f.logical + f.length <= e.logical
    BY <1>1, ExtentFacts
<1>3. EndOfExtent(e) = Smaller(full, n.size)
    BY DEF EndOfExtent
<1> HIDE DEF start, full, n
<1>4. EndOfExtent(e) \in 0..n.size /\ cursor <= EndOfExtent(e)
    BY ONLY <1>1, <1>2, <1>3 DEF Smaller
<1>5. CursorAfter(e) = EndOfExtent(e)
    BY <1>1, <1>4 DEF CursorAfter, Larger
<1>6. ASSUME NEW f \in unread, f # e PROVE full <= f.logical * BlockBytes
    <2>1. f.logical \in Nat /\ f.length \in Nat \ {0} /\ BlockBytes \in Nat
        BY <1>1, ExtentFacts, ChunkAssumption
    <2>2. e.logical <= f.logical
        BY DEF NextUnread
    <2>3. e.logical + e.length <= f.logical
        BY <1>1, <1>2, <1>6, <2>1, <2>2
    <2> QED BY <1>2, <2>1, <2>3, ProductsGrow DEF full
<1> QED BY <1>3, <1>4, <1>5, <1>6 DEF n, full

(* A hole before the extent has no bytes, and an extent that is written as *)
(* zeros has none before it.                                               *)
LEMMA ExtentIsTheFile ==
    ASSUME Catting, NEW e, NextUnread(e), ~Doubles(CatNode)
    PROVE  emitted \o Gap(e) \o ExtentBytes(e)
               = [k \in 1..EndOfExtent(e) |-> ReadPrefix(CatNode, CatNode.size)[k]]
<1> DEFINE n == CatNode
           start == e.logical * BlockBytes
           full == (e.logical + e.length) * BlockBytes
           end == EndOfExtent(e)
           P == ReadPrefix(n, n.size)
<1>1. /\ Extents(n) /\ e \in Range(n.extents) /\ n.size \in Nat /\ cursor \in Nat /\ cursor < n.size
      /\ cursor <= start /\ unread \subseteq Range(n.extents)
      /\ emitted = [k \in 1..cursor |-> P[k]]
    BY DEF Catting, NextUnread, Extents, SourceNode, CatsTheFile
<1>2. /\ e.logical \in Nat /\ e.length \in Nat \ {0} /\ start \in Nat /\ full \in Nat /\ start < full
      /\ e.unwritten \in BOOLEAN
    BY <1>1, ExtentFacts
<1>3. end = Smaller(full, n.size) /\ end \in Nat /\ cursor <= end /\ end <= n.size
    BY <1>1, ExtentEnds
<1>4. ASSUME NEW k \in 1..n.size, HasByte(e, k) PROVE P[k] = ByteOf(e, k)
    BY <1>1, <1>4, BytesOfExtents
<1>5. ASSUME NEW k \in (start + 1)..end PROVE k \in 1..n.size /\ HasByte(e, k)
    <2> HIDE DEF start, full, end, n
    <2>1. k \in 1..n.size /\ start < k /\ k <= full
        BY <1>1, <1>2, <1>3 DEF Smaller
    <2> QED BY <2>1 DEF HasByte, start, full
<1>6. ASSUME e.unwritten \/ start >= n.size PROVE cursor = start /\ e.unwritten
    <2>1. PICK x \in DOMAIN n.extents : e = n.extents[x]
        BY <1>1 DEF Range
    <2>2. ~HoleBefore(n, x)
        BY <1>6, <2>1 DEF Doubles
    <2>3. CASE e.logical = 0
        <3>1. start = 0
            BY <2>3, ChunkAssumption
        <3> QED BY <1>1, <1>6, <3>1
    <2>4. CASE e.logical # 0
        <3>1. PICK y \in DOMAIN n.extents : n.extents[y].logical + n.extents[y].length = e.logical
            BY <1>2, <2>1, <2>2, <2>4 DEF HoleBefore
        <3> DEFINE f == n.extents[y]
        <3>2. f \in Range(n.extents)
            BY DEF Range
        <3>3. f.logical \in Nat /\ f.length \in Nat \ {0}
            BY <1>1, <3>2, ExtentFacts
        <3>4. f \notin unread
            BY <1>2, <3>1, <3>3 DEF NextUnread
        <3>5. EndOfExtent(f) <= cursor
            BY <3>2, <3>4 DEF Catting
        <3>6. EndOfExtent(f) = Smaller(start, n.size)
            BY <3>1 DEF EndOfExtent
        <3> HIDE DEF start, n
        <3>7. Smaller(start, n.size) <= cursor
            BY <3>5, <3>6
        <3>8. cursor = start
            BY ONLY <1>1, <1>2, <3>7 DEF Smaller
        <3> QED BY <1>1, <1>6, <3>8
    <2> QED BY <2>3, <2>4
<1>7. emitted \o Gap(e) = [k \in 1..start |-> P[k]]
    <2>1. start - cursor \in Nat /\ cursor + (start - cursor) = start
        BY <1>1, <1>2
    <2>2. Gap(e) = [j \in 1..(start - cursor) |-> Zero]
        <3>1. Gap(e) = Zeros(IF start > cursor THEN start - cursor ELSE 0)
            BY DEF Gap
        <3>2. (IF start > cursor THEN start - cursor ELSE 0) = start - cursor
            BY <1>1, <1>2
        <3> HIDE DEF start
        <3> QED BY <3>1, <3>2 DEF Zeros
    <2>3. ASSUME NEW j \in 1..(start - cursor) PROVE P[cursor + j] = Zero
        <3>1. cursor < start /\ ~e.unwritten /\ start < n.size
            <4>1. cursor < start
                BY <1>1, <1>2
            <4>2. ~(e.unwritten \/ start >= n.size)
                BY <1>6, <4>1, <1>2, <1>1
            <4> QED BY <1>1, <1>2, <4>1, <4>2
        <3> DEFINE k == cursor + j
        <3>2. k \in 1..n.size /\ cursor < k /\ k <= start /\ k \in Nat
            BY <1>1, <1>2, <3>1
        <3> HIDE DEF k
        <3>3. ASSUME NEW f \in Range(n.extents) PROVE ~HasByte(f, k)
            <4>1. f.logical \in Nat /\ f.logical * BlockBytes \in Nat /\ (f.logical + f.length) * BlockBytes \in Nat
                BY <1>1, ExtentFacts
            <4>2. CASE f \in unread
                <5>1. e.logical <= f.logical
                    BY <4>2 DEF NextUnread
                <5>2. start <= f.logical * BlockBytes
                    BY <1>2, <4>1, <5>1, ProductsGrow, ChunkAssumption
                <5> HIDE DEF start
                <5> QED BY <1>2, <3>2, <4>1, <5>2 DEF HasByte
            <4>3. CASE f \notin unread
                <5>1. Smaller((f.logical + f.length) * BlockBytes, n.size) <= cursor
                    BY <4>3 DEF Catting, EndOfExtent
                <5> HIDE DEF start, n
                <5> QED BY <1>1, <3>2, <4>1, <5>1 DEF HasByte, Smaller
            <4> QED BY <4>2, <4>3
        <3>4. P[k] = Zero
            BY <1>1, <3>2, <3>3, BytesOfExtents
        <3> QED BY <3>4 DEF k
    <2>4. Gap(e) = [j \in 1..(start - cursor) |-> P[cursor + j]]
        BY <2>2, <2>3
    <2> HIDE DEF start, P
    <2> QED BY <1>1, <2>1, <2>4, PrefixGrows
<1>8. /\ ExtentBytes(e) = [j \in 1..(end - start) |-> P[start + j]]
      /\ end - start \in Nat /\ start + (end - start) = end
    <2>0. start < n.size
        BY <1>1, <1>2, <1>6
    <2>1. start < end /\ end - start \in Nat /\ start + (end - start) = end
        <3> HIDE DEF start, full, end, n
        <3> QED BY <1>1, <1>2, <1>3, <2>0 DEF Smaller
    <2>2. \A j \in 1..(end - start) : P[start + j] = ByteOf(e, start + j)
        <3> TAKE j \in 1..(end - start)
        <3>1. start + j \in (start + 1)..end
            BY <1>2, <1>3, <2>1
        <3> QED BY <1>4, <1>5, <3>1
    <2>3. CASE ~e.unwritten
        <3>1. ExtentBytes(e) = [j \in 1..(end - start) |-> Raw(e.physical * BlockBytes + j - 1)]
            BY <2>0, <2>1, <2>3 DEF ExtentBytes
        <3>2. \A j \in 1..(end - start) : ByteOf(e, start + j) = Raw(e.physical * BlockBytes + j - 1)
            <4> TAKE j \in 1..(end - start)
            <4>1. e.physical * BlockBytes \in Int
                BY <1>1, ExtentFacts, ChunkAssumption
            <4>2. e.physical * BlockBytes + (start + j) - 1 - start = e.physical * BlockBytes + j - 1
                <5> DEFINE p == e.physical * BlockBytes
                <5> HIDE DEF p, start, end
                <5> QED BY <1>2, <4>1 DEF p
            <4> QED BY <2>3, <4>2 DEF ByteOf
        <3> HIDE DEF start, end, P
        <3> QED BY <2>1, <2>2, <3>1, <3>2
    <2>4. CASE e.unwritten
        <3>1. ExtentBytes(e) = Zeros(IF end > cursor THEN end - cursor ELSE 0)
            BY <2>4 DEF ExtentBytes
        <3>2. cursor = start
            BY <1>6, <2>4
        <3>3. (IF end > cursor THEN end - cursor ELSE 0) = end - start
            BY <2>1, <3>2
        <3>4. ExtentBytes(e) = [j \in 1..(end - start) |-> Zero]
            BY <3>1, <3>3 DEF Zeros
        <3>5. \A j : ByteOf(e, start + j) = Zero
            BY <2>4 DEF ByteOf
        <3> HIDE DEF start, end, P
        <3> QED BY <2>1, <2>2, <3>4, <3>5
    <2> QED BY <2>1, <2>3, <2>4
<1> HIDE DEF start, end, P
<1>9. PICK m \in Nat : m = end - start
    BY <1>8
<1>10. ExtentBytes(e) = [j \in 1..m |-> P[start + j]] /\ start + m = end /\ start \in Nat
    BY <1>2, <1>8, <1>9
<1> DEFINE before == emitted \o Gap(e)
           bytes == ExtentBytes(e)
<1>11. before \o bytes = [k \in 1..(start + m) |-> P[k]]
    <2>1. before = [k \in 1..start |-> P[k]] /\ bytes = [j \in 1..m |-> P[start + j]] /\ start \in Nat
        BY <1>7, <1>10
    <2> HIDE DEF before, bytes
    <2> QED BY ONLY <2>1, m \in Nat, PrefixGrows
<1> QED BY <1>10, <1>11 DEF P, end

(* The image and the path stay, and so does what the path leads to.        *)
LEMMA SameNode ==
    ASSUME UNCHANGED <<image, cli>>
    PROVE  Target' = Target /\ CatNode' = CatNode
<1>1. image' = image /\ cli' = cli
    OBVIOUS
<1>2. Target' = Target
    BY ONLY <1>1, SMT DEF Target, Resolve, Entries
<1> QED BY ONLY <1>1, <1>2 DEF CatNode

LEMMA CatExtentKeeps ==
    ASSUME Catting, CatExtent, UNCHANGED image
    PROVE  Catting'
<1> DEFINE n == CatNode
<1>1. PICK e \in unread :
          /\ \A f \in unread : e.logical <= f.logical
          /\ emitted' = emitted \o Gap(e) \o ExtentBytes(e)
          /\ cursor' = CursorAfter(e)
          /\ unread' = IF cursor' >= CatNode.size THEN {} ELSE unread \ {e}
    BY DEF CatExtent
<1>2. NextUnread(e)
    BY <1>1 DEF NextUnread
<1>3. /\ Extents(n) /\ image.fs = "ext4" /\ n.kind = "file" /\ n.size \in Nat /\ cursor \in Nat
      /\ unread \subseteq Range(n.extents)
      /\ \A f \in Range(n.extents) : f \in unread \/ EndOfExtent(f) <= cursor
    BY DEF Catting, Extents, SourceNode
<1>4. /\ EndOfExtent(e) \in 0..n.size /\ cursor <= EndOfExtent(e) /\ cursor' = EndOfExtent(e)
      /\ EndOfExtent(e) = Smaller((e.logical + e.length) * BlockBytes, n.size)
      /\ \A f \in unread : f = e \/ (e.logical + e.length) * BlockBytes <= f.logical * BlockBytes
    BY <1>1, <1>2, ExtentEnds
<1>5. CatNode' = n /\ image' = image
    BY SameNode DEF CatExtent
<1>6. (\A f : EndOfExtent(f)' = EndOfExtent(f)) /\ Doubles(CatNode)' = Doubles(CatNode)
    BY <1>5 DEF EndOfExtent, Doubles, HoleBefore
<1> HIDE DEF n
<1>7. unread' \subseteq Range(n.extents) /\ (unread' # {} => cursor' < n.size)
    BY <1>1, <1>3, <1>4 DEF n
<1>8. \A f \in unread' : cursor' <= f.logical * BlockBytes
    <2> TAKE f \in unread'
    <2>1. f \in unread /\ f # e
        BY <1>1
    <2>2. /\ f.logical * BlockBytes \in Nat /\ (e.logical + e.length) * BlockBytes \in Nat
          /\ (e.logical + e.length) * BlockBytes <= f.logical * BlockBytes
        BY <1>3, <1>4, <2>1, ExtentFacts
    <2> QED BY ONLY <1>3, <1>4, <2>2 DEF Smaller
<1>9. \A f \in Range(n.extents) : f \in unread' \/ EndOfExtent(f) <= cursor'
    <2> TAKE f \in Range(n.extents)
    <2>1. EndOfExtent(f) \in Nat /\ EndOfExtent(f) <= n.size
        <3>1. (f.logical + f.length) * BlockBytes \in Nat
            BY <1>3, ExtentFacts
        <3> QED BY <1>3, <3>1 DEF EndOfExtent, Smaller, n
    <2>2. CASE f \notin unread
        BY <1>3, <1>4, <2>1, <2>2
    <2>3. CASE f = e
        BY <1>4, <2>3
    <2>4. CASE f \in unread /\ f # e
        <3>1. unread' = {} => n.size <= cursor'
            BY <1>1, <1>3, <1>4, <2>4 DEF n
        <3>2. unread' # {} => f \in unread'
            BY <1>1, <2>4
        <3> QED BY <1>3, <1>4, <2>1, <3>1, <3>2
    <2> QED BY <2>2, <2>3, <2>4
<1>10. ~Doubles(CatNode) => emitted' = [k \in 1..cursor' |-> ReadPrefix(n, n.size)[k]]
    <2> SUFFICES ASSUME ~Doubles(CatNode)
                 PROVE  emitted' = [k \in 1..cursor' |-> ReadPrefix(n, n.size)[k]]
        OBVIOUS
    <2>1. emitted \o Gap(e) \o ExtentBytes(e) = [k \in 1..EndOfExtent(e) |-> ReadPrefix(CatNode, CatNode.size)[k]]
        BY <1>2, ExtentIsTheFile
    <2> QED BY <1>1, <1>4, <2>1 DEF n
<1>11. CatsTheFile' = [k \in 1..cursor' |-> ReadPrefix(n, n.size)[k]] /\ Extents(CatNode)' = Extents(n)
    BY <1>5 DEF CatsTheFile, ReadPrefix, Extents, ExtentsApart, n
<1>12. ~Doubles(CatNode)' => emitted' = CatsTheFile'
    BY <1>6, <1>10, <1>11
<1>13. /\ CatNode' = n /\ image'.fs = "ext4"
       /\ (CatNode.kind = "file")' /\ cursor' \in 0..n.size
    BY <1>3, <1>4, <1>5 DEF n
<1> QED BY <1>3, <1>6, <1>7, <1>8, <1>9, <1>11, <1>12, <1>13 DEF Catting

LEMMA CatEnds ==
    ASSUME Catting, unread = {}, ~Doubles(CatNode)
    PROVE  emitted \o Zeros(IF cursor < CatNode.size THEN CatNode.size - cursor ELSE 0)
               = FileContent(image.fs, CatNode)
<1> DEFINE n == CatNode
           P == ReadPrefix(n, n.size)
           left == n.size - cursor
<1>1. /\ Extents(n) /\ n.size \in Nat /\ cursor \in Nat /\ cursor <= n.size /\ n.kind = "file"
      /\ \A f \in Range(n.extents) : EndOfExtent(f) <= cursor
      /\ emitted = [k \in 1..cursor |-> P[k]] /\ image.fs = "ext4" /\ n \in SourceNode
    BY DEF Catting, Extents, SourceNode, CatsTheFile
<1>2. FileContent(image.fs, n) = P
    BY <1>1 DEF FileContent
<1>3. P = [k \in 1..n.size |-> P[k]]
    <2>1. FileContent(image.fs, n) = [k \in 1..n.size |-> FileContent(image.fs, n)[k]]
        BY <1>1, ContentHasTheSize
    <2> HIDE DEF n, P
    <2> QED BY <1>2, <2>1
<1>4. left \in Nat /\ (IF cursor < n.size THEN n.size - cursor ELSE 0) = left /\ cursor + left = n.size
    BY <1>1
<1>5. ASSUME NEW j \in 1..left PROVE P[cursor + j] = Zero
    <2> DEFINE k == cursor + j
    <2>1. k \in 1..n.size /\ cursor < k
        BY <1>1
    <2> HIDE DEF k
    <2>2. ASSUME NEW f \in Range(n.extents) PROVE ~HasByte(f, k)
        <3>1. (f.logical + f.length) * BlockBytes \in Nat
            BY <1>1, ExtentFacts
        <3>2. Smaller((f.logical + f.length) * BlockBytes, n.size) <= cursor
            BY <1>1 DEF EndOfExtent
        <3> HIDE DEF n
        <3> QED BY <1>1, <2>1, <3>1, <3>2 DEF HasByte, Smaller
    <2>3. P[k] = Zero
        BY <1>1, <2>1, <2>2, BytesOfExtents
    <2> QED BY <2>3 DEF k
<1>6. Zeros(IF cursor < n.size THEN n.size - cursor ELSE 0) = [j \in 1..left |-> P[cursor + j]]
    <2>1. Zeros(IF cursor < n.size THEN n.size - cursor ELSE 0) = Zeros(left)
        BY <1>4
    <2> HIDE DEF left, P
    <2> QED BY <1>5, <2>1 DEF Zeros
<1>7. PICK m \in Nat : m = left
    BY <1>4
<1> DEFINE tail == Zeros(IF cursor < n.size THEN n.size - cursor ELSE 0)
<1>8. emitted \o tail = [k \in 1..(cursor + m) |-> P[k]]
    <2>1. tail = [j \in 1..m |-> P[cursor + j]]
        BY <1>6, <1>7
    <2> HIDE DEF tail, P, n
    <2> QED BY <1>1, <2>1, PrefixGrows
<1>9. cursor + m = n.size
    BY <1>4, <1>7
<1> HIDE DEF P, tail
<1>10. emitted \o tail = P
    BY <1>3, <1>8, <1>9
<1> QED BY <1>2, <1>10 DEF tail, n

(* The segments of a well-formed index, one after another, are the file.   *)
LEMMA TilesAreTheFile ==
    ASSUME NEW n \in SourceNode, SegmentsInOrder(n), Tiled(n)
    PROVE  ReadDataStreaming(n) = Content(n)
<1> DEFINE segs == n.segments
           C == Content(n)
           N == Len(segs)
           S == {C[k] : k \in 1..n.size}
           part(x) == SegmentBytes(segs[x])
           parts(m) == [x \in 1..m |-> part(x)]
           End(m) == IF m = 0 THEN 0 ELSE segs[m].end
<1>1. CASE n.layout # "compressed"
    BY <1>1 DEF ReadDataStreaming
<1>2. CASE n.layout = "compressed"
    <2>1. /\ segs \in Seq(SourceSegment) /\ n.size \in Nat /\ N \in Nat \ {0} /\ DOMAIN segs = 1..N
          /\ segs[1].start = 0 /\ segs[N].end = n.size
          /\ \A x \in 2..N : segs[x].start = segs[x - 1].end
          /\ \A x \in 1..N : segs[x].start <= segs[x].end
          /\ \A x, y \in 1..N : x < y => segs[x].end <= segs[y].start
        BY <1>2 DEF Tiled, SegmentsInOrder, SourceNode
    <2>2. \A x \in 1..N : segs[x].start \in Nat /\ segs[x].end \in Nat
        <3> TAKE x \in 1..N
        <3>1. segs[x] \in SourceSegment
            BY <2>1
        <3> QED BY <3>1 DEF SourceSegment
    <2>3. ReadDataStreaming(n) = FlattenSeq(parts(N))
        BY <1>2, <2>1 DEF ReadDataStreaming
    <2>4. C = [k \in 1..n.size |-> C[k]]
        BY ContentHasTheSize
    <2>5. ASSUME NEW x \in 1..N, NEW k \in 1..n.size, segs[x].start < k, k <= segs[x].end
          PROVE  C[k] = SegmentBytes(segs[x])[k - segs[x].start]
        BY <1>2, <2>1, <2>5, SegmentBytesAreContent
    <2> HIDE DEF segs, C, N
    <2>6. \A x \in 1..N : segs[x].end <= n.size
        <3> TAKE x \in 1..N
        <3>1. CASE x = N
            BY <2>1, <2>2, <3>1
        <3>2. CASE x # N
            <4>1. segs[x].end <= segs[N].start /\ segs[N].start <= segs[N].end /\ N \in 1..N
                BY <2>1, <3>2
            <4> QED BY <2>1, <2>2, <4>1
        <3> QED BY <3>1, <3>2
    <2>7. ASSUME NEW m \in 0..(N - 1)
          PROVE  /\ End(m) \in Nat /\ End(m + 1) \in Nat /\ End(m) <= End(m + 1) /\ End(m + 1) <= n.size
                 /\ part(m + 1) = [j \in 1..(End(m + 1) - End(m)) |-> C[End(m) + j]]
                 /\ part(m + 1) \in Seq(S)
        <3>1. m \in Nat /\ m + 1 \in 1..N /\ m + 1 # 0 /\ m \in 0..N
            BY <2>1
        <3>2. End(m) = segs[m + 1].start
            <4>1. CASE m = 0
                BY <2>1, <4>1
            <4>2. CASE m # 0
                <5>1. m + 1 \in 2..N /\ (m + 1) - 1 = m
                    BY <3>1, <4>2
                <5> QED BY <2>1, <4>2, <5>1
            <4> QED BY <4>1, <4>2
        <3>3. End(m + 1) = segs[m + 1].end
            BY <3>1
        <3> DEFINE s == segs[m + 1]
        <3>4. s.start \in Nat /\ s.end \in Nat /\ s.start <= s.end /\ s.end <= n.size
            BY <2>1, <2>2, <2>6, <3>1
        <3>5. SegmentBytes(s) = [j \in 1..(s.end - s.start) |-> SegmentBytes(s)[j]]
            BY DEF SegmentBytes
        <3>6. ASSUME NEW j \in 1..(s.end - s.start) PROVE SegmentBytes(s)[j] = C[s.start + j] /\ C[s.start + j] \in S
            <4>1. s.start + j \in 1..n.size /\ s.start < s.start + j /\ s.start + j <= s.end
                  /\ (s.start + j) - s.start = j
                <5> HIDE DEF s
                <5> QED BY <2>1, <3>4
            <4>2. C[s.start + j] = SegmentBytes(s)[(s.start + j) - s.start]
                BY <2>5, <3>1, <4>1
            <4> QED BY <4>1, <4>2
        <3> HIDE DEF s, S
        <3>7. SegmentBytes(s) = [j \in 1..(s.end - s.start) |-> C[s.start + j]]
            BY <3>5, <3>6
        <3>8. s.end - s.start \in Nat
            BY <3>4
        <3>9. SegmentBytes(s) \in Seq(S)
            BY <3>6, <3>7, <3>8
        <3> QED BY <3>2, <3>3, <3>4, <3>7, <3>9 DEF s
    <2> HIDE DEF part, parts, End, S
    <2> DEFINE Prefix(m) == /\ parts(m) \in Seq(Seq(S))
                            /\ FlattenSeq(parts(m)) = [k \in 1..End(m) |-> C[k]]
               Odd == {m \in 0..N : ~Prefix(m)}
    <2>8. Prefix(0)
        <3>1. parts(0) = <<>>
            BY DEF parts
        <3>2. FlattenSeq(<<>>) = <<>>
            BY DEF FlattenSeq
        <3>3. [k \in 1..0 |-> C[k]] = <<>>
            OBVIOUS
        <3>4. <<>> \in Seq(Seq(S))
            OBVIOUS
        <3>5. End(0) = 0
            BY DEF End
        <3> QED BY <3>1, <3>2, <3>3, <3>4, <3>5
    <2>9. ASSUME NEW m \in 0..(N - 1), Prefix(m) PROVE Prefix(m + 1)
        <3>1. m \in Nat
            BY <2>1
        <3>2. parts(m + 1) = Append(parts(m), part(m + 1))
            BY <3>1 DEF parts
        <3> DEFINE first == FlattenSeq(parts(m))
                   part_ == part(m + 1)
                   parts_ == parts(m)
        <3>3. part_ \in Seq(S) /\ parts_ \in Seq(Seq(S)) /\ first = [k \in 1..End(m) |-> C[k]]
            BY <2>7, <2>9
        <3>4. End(m) \in Nat /\ End(m + 1) \in Nat /\ End(m) <= End(m + 1)
            BY <2>7
        <3>5. part_ = [j \in 1..(End(m + 1) - End(m)) |-> C[End(m) + j]]
            BY <2>7
        <3>6. PICK a \in Nat, d \in Nat : a = End(m) /\ d = End(m + 1) - End(m) /\ End(m + 1) = a + d
            BY ONLY <3>4
        <3>7. FlattenSeq(parts(m + 1)) = first \o part_
            BY <3>2, <3>3, FlattenAppend
        <3>8. parts(m + 1) = Append(parts_, part_)
            BY <3>2
        <3> HIDE DEF first, part_, parts_
        <3>9. first \o part_ = [k \in 1..(a + d) |-> C[k]]
            <4>1. first = [k \in 1..a |-> C[k]] /\ part_ = [j \in 1..d |-> C[a + j]]
                BY ONLY <3>3, <3>5, <3>6
            <4> QED BY ONLY <4>1, a \in Nat, d \in Nat, PrefixGrows
        <3>10. parts(m + 1) \in Seq(Seq(S))
            BY ONLY <3>3, <3>8, OneMore
        <3> QED BY ONLY <3>6, <3>7, <3>9, <3>10
    <2> HIDE DEF Prefix
    <2>10. Odd = {}
        <3> SUFFICES ASSUME Odd # {} PROVE FALSE
            OBVIOUS
        <3>1. Odd \subseteq Nat
            BY <2>1
        <3> HIDE DEF Odd
        <3>2. PICK m \in Odd : \A j \in Odd : m <= j
            BY <3>1, LeastElement
        <3>3. m \in 0..N /\ ~Prefix(m)
            BY <3>2 DEF Odd
        <3>4. m # 0
            BY <2>8, <3>3
        <3>5. m - 1 \in 0..(N - 1) /\ m - 1 \in 0..N /\ ~(m <= m - 1) /\ (m - 1) + 1 = m
            BY <2>1, <3>3, <3>4
        <3>6. Prefix(m - 1)
            BY <3>2, <3>5 DEF Odd
        <3> QED BY <2>9, <3>3, <3>5, <3>6
    <2>11. Prefix(N)
        BY <2>1, <2>10
    <2>12. FlattenSeq(parts(N)) = [k \in 1..n.size |-> C[k]]
        <3>1. End(N) = n.size
            BY <2>1 DEF End
        <3> QED BY <2>11, <3>1 DEF Prefix
    <2> QED BY <2>3, <2>4, <2>12 DEF C
<1> QED BY <1>1, <1>2

(* What is written at once is the file, too.                               *)
LEMMA AtOnceIsTheFile ==
    ASSUME NEW n \in SourceNode, SegmentsInOrder(n), Tiled(n), NEW fs,
           ~(fs = "ext4" /\ n.kind = "file" /\ n.size > 0)
    PROVE  ReadDataStreaming(n) = FileContent(fs, n)
<1>1. ReadDataStreaming(n) = Content(n)
    BY TilesAreTheFile
<1>2. n.size \in Nat /\ n.kind \in {"file", "memory"}
    BY DEF SourceNode
<1>3. CASE fs = "ext4" /\ n.kind = "file"
    <2>1. n.size = 0
        BY <1>2, <1>3
    <2>2. Content(n) = [k \in 1..0 |-> Content(n)[k]]
        BY <2>1, ContentHasTheSize
    <2>3. ReadPrefix(n, n.size) = [k \in 1..0 |-> ReadPrefix(n, n.size)[k]]
        BY <2>1 DEF ReadPrefix, Smaller
    <2>4. \A f, g : f = [k \in 1..0 |-> f[k]] /\ g = [k \in 1..0 |-> g[k]] => f = g
        OBVIOUS
    <2>5. ReadPrefix(n, n.size) = Content(n)
        BY <2>2, <2>3, <2>4
    <2> QED BY <1>1, <1>3, <2>5 DEF FileContent
<1>4. CASE ~(fs = "ext4" /\ n.kind = "file")
    BY <1>1, <1>2, <1>4 DEF FileContent
<1> QED BY <1>3, <1>4

LEMMA SamePromise ==
    ASSUME UNCHANGED <<image, cli>>
    PROVE  /\ Doubles(CatNode)' <=> Doubles(CatNode)
           /\ Tiled(CatNode)' <=> Tiled(CatNode)
           /\ FileContent(image.fs, CatNode)' = FileContent(image.fs, CatNode)
<1>1. CatNode' = CatNode /\ image' = image
    BY SameNode
<1>2. Doubles(CatNode)' <=> Doubles(CatNode)
    BY <1>1 DEF Doubles, HoleBefore
<1>3. Tiled(CatNode)' <=> Tiled(CatNode)
    BY <1>1 DEF Tiled
<1>4. FileContent(image.fs, CatNode)' = FileContent(image.fs, CatNode)
    BY <1>1 DEF FileContent, ReadPrefix, Content
<1> QED BY <1>2, <1>3, <1>4

(* Where a read command is: parse_cli left a path, a search is for --find, *)
(* and --cat has written nothing or the start of the file, of a    *)
(* node the image has.                                                     *)
CatInvariant ==
    /\ image \in Images
    /\ read \in {"idle", "parsed"} => emitted = <<>>
    /\ read \in {"parsed", "find", "cat", "done"} => cli.path \in Seq(Seq(STRING))
    /\ read = "find" => cli.operation = "find"
    /\ read = "cat" => Catting
    /\ CatAgrees

(* parse_cli takes the path from the arguments.                            *)
LEMMA ParsingKeeps ==
    ASSUME CatInvariant, ParseCli, UNCHANGED image
    PROVE  CatInvariant'
<1>1. PICK c \in ReadCalls :
          /\ cli' = [operation |-> Operation(c), also |-> c.also,
                     image |-> Positionals(c)[1], pattern |-> Positionals(c)[3],
                     path |-> IF Positionals(c)[2] = None THEN <<>> ELSE Positionals(c)[2].path]
          /\ read' \in {"error", "parsed"}
    BY DEF ParseCli
<1> DEFINE p == c.positional
           path == Positionals(c)[2]
<1>2. p \in Seq(ReadArg)
    BY ReadCallsAssumption
<1>3. ASSUME NEW k \in Nat \ {0} PROVE At(p, k) \in {None} \cup ReadArg
    BY <1>2 DEF At
<1>4. path \in {None} \cup ReadArg
    <2>1. path = At(p, 1) \/ path = At(p, 2) \/ path = At(p, 3) \/ (Len(p) >= 2 /\ path = p[1])
        BY DEF Positionals
    <2>2. At(p, 1) \in {None} \cup ReadArg /\ At(p, 2) \in {None} \cup ReadArg /\ At(p, 3) \in {None} \cup ReadArg
        BY <1>3
    <2>3. Len(p) >= 2 => p[1] \in ReadArg
        BY <1>2
    <2> HIDE DEF p, path
    <2> QED BY <2>1, <2>2, <2>3
<1>5. cli'.path \in Seq(Seq(STRING))
    <2>1. cli'.path = IF path = None THEN <<>> ELSE path.path
        BY <1>1
    <2>2. path # None => path.path \in Seq(Seq(STRING))
        BY <1>4 DEF ReadArg
    <2>3. <<>> \in Seq(Seq(STRING))
        OBVIOUS
    <2> HIDE DEF path
    <2>4. CASE path = None
        BY <2>1, <2>3, <2>4
    <2>5. CASE path # None
        BY <2>1, <2>2, <2>5
    <2> QED BY <2>4, <2>5
<1>6. read = "idle" /\ emitted' = emitted
    BY DEF ParseCli
<1> QED BY <1>1, <1>5, <1>6 DEF CatInvariant, CatAgrees

(* --cat begins with a file of the image, or writes it at once.            *)
LEMMA CatStarts ==
    ASSUME \A source \in Images : Readable(source), CatInvariant, StartCat, UNCHANGED image
    PROVE  CatInvariant'
<1>1. /\ read = "parsed" /\ emitted = <<>> /\ call' = call /\ cli' = cli /\ cli.path \in Seq(Seq(STRING))
      /\ image \in Images /\ Readable(image)
    BY DEF StartCat, Asks, CatInvariant
<1>2. Target.to # 0 /\ ~Target.dir
    BY DEF StartCat
<1> DEFINE n == CatNode
<1>3. Target \in Destinations
    BY <1>1, PathsLead DEF Target, Readable
<1>4. Target.to \in DOMAIN image.nodes
    BY <1>2, <1>3 DEF Destinations
<1>5. image.nodes \in Seq(SourceNode)
    BY <1>1 DEF Readable
<1>6. n \in SourceNode /\ n \in Range(image.nodes)
    BY <1>4, <1>5, AnElement DEF CatNode, Range
<1>7. Extents(n) /\ SegmentsInOrder(n)
    BY <1>1, <1>6 DEF Readable, Extents
<1>8. CatNode' = CatNode
    BY <1>1, SameNode
<1>9. CASE image.fs = "ext4" /\ n.kind = "file" /\ n.size > 0
    <2>1. unread' = Range(n.extents) /\ cursor' = 0 /\ read' = "cat" /\ emitted' = <<>>
        BY <1>1, <1>2, <1>9 DEF StartCat
    <2>2. Extents(CatNode)' /\ n.size \in Nat
        BY <1>6, <1>7, <1>8 DEF Extents, ExtentsApart, SourceNode
    <2>3. CatsTheFile' = <<>>
        BY <2>1 DEF CatsTheFile
    <2>4. \A e \in Range(n.extents) : 0 <= e.logical * BlockBytes
        <3> TAKE e \in Range(n.extents)
        <3>1. e.logical * BlockBytes \in Nat
            BY <1>7, ExtentFacts
        <3> QED BY <3>1
    <2> HIDE DEF n
    <2>5. Catting'
        BY <1>1, <1>8, <1>9, <2>1, <2>2, <2>3, <2>4 DEF Catting, n
    <2> QED BY <1>1, <2>1, <2>5 DEF CatInvariant, CatAgrees
<1>10. CASE ~(image.fs = "ext4" /\ n.kind = "file" /\ n.size > 0)
    <2>1. emitted' = ReadDataStreaming(CatNode) /\ read' = "done"
        BY <1>2, <1>10 DEF StartCat
    <2>2. Tiled(CatNode) => ReadDataStreaming(CatNode) = FileContent(image.fs, CatNode)
        BY <1>6, <1>7, <1>10, AtOnceIsTheFile
    <2>3. Tiled(CatNode)' => emitted' = FileContent(image.fs, CatNode)'
        BY <1>1, <2>1, <2>2, SamePromise
    <2>4. CatAgrees'
        BY <2>3 DEF CatAgrees
    <2> QED BY <1>1, <2>1, <2>4 DEF CatInvariant
<1> QED BY <1>9, <1>10

LEMMA CatTailKeeps ==
    ASSUME CatInvariant, CatTail, UNCHANGED image
    PROVE  CatInvariant'
<1>1. /\ Catting /\ unread = {} /\ read = "cat" /\ read' = "done" /\ cli' = cli /\ image' = image
      /\ cli.path \in Seq(Seq(STRING)) /\ image \in Images
      /\ emitted' = emitted \o Zeros(IF cursor < CatNode.size THEN CatNode.size - cursor ELSE 0)
    BY DEF CatTail, CatInvariant
<1>2. ~Doubles(CatNode) => emitted' = FileContent(image.fs, CatNode)
    BY <1>1, CatEnds
<1>3. ~Doubles(CatNode)' => emitted' = FileContent(image.fs, CatNode)'
    BY <1>1, <1>2, SamePromise
<1>4. CatAgrees'
    BY <1>3 DEF CatAgrees
<1> QED BY <1>1, <1>4 DEF CatInvariant

LEMMA CatInvariantStays ==
    ASSUME CatInvariant, UNCHANGED <<image, readVars>>
    PROVE  CatInvariant'
<1>1. /\ image' = image /\ call' = call /\ read' = read /\ cli' = cli /\ unread' = unread
      /\ cursor' = cursor /\ emitted' = emitted
    BY DEF readVars
<1>2. CatNode' = CatNode
    BY <1>1, SameNode
<1>3. Catting' <=> Catting
    BY <1>1, <1>2 DEF Catting, CatsTheFile, Extents, ExtentsApart, EndOfExtent, Doubles, HoleBefore, ReadPrefix
<1>4. CatAgrees' <=> CatAgrees
    BY <1>1, SamePromise DEF CatAgrees
<1> QED BY <1>1, <1>3, <1>4 DEF CatInvariant

LEMMA CatInvariantKept ==
    ASSUME \A source \in Images : Readable(source), CatInvariant, [Next]_vars
    PROVE  CatInvariant'
<1>1. UNCHANGED image
    BY ImageStays
<1>2. CASE DispatchRead
    BY <1>1, <1>2, ParsingKeeps DEF DispatchRead
<1>3. CASE DispatchBare
    <2>1. read' = "error" /\ UNCHANGED <<emitted, cli, call>>
        BY <1>3 DEF DispatchBare, Stop
    <2> QED BY <1>1, <2>1 DEF CatInvariant, CatAgrees
<1>4. CASE Reading
    <2>1. CASE Info \/ RefuseTarget \/ ListNothing \/ List
        <3>1. /\ cli.operation # "cat" /\ UNCHANGED <<cli, emitted>>
              /\ read = "parsed" /\ read' \in {"done", "error"}
            BY <2>1 DEF Info, RefuseTarget, ListNothing, List, Asks, Stop
        <3> QED BY <1>1, <3>1 DEF CatInvariant, CatAgrees
    <2>5. CASE StartFind \/ VisitDirectory \/ FindEntry \/ EndFind
        <3>1. /\ cli.operation = "find" /\ UNCHANGED <<cli, emitted>>
              /\ read \in {"parsed", "find"} /\ read' \in {"find", "done"}
            BY <2>5 DEF StartFind, VisitDirectory, FindEntry, EndFind, Asks, Stop, CatInvariant
        <3> QED BY <1>1, <3>1 DEF CatInvariant, CatAgrees
    <2>6. CASE RefuseCat
        <3>1. read = "parsed" /\ read' = "error" /\ UNCHANGED <<cli, emitted>>
            BY <2>6 DEF RefuseCat, Asks, Stop
        <3> QED BY <1>1, <3>1 DEF CatInvariant, CatAgrees
    <2>2. CASE StartCat
        BY <1>1, <2>2, CatStarts
    <2>3. CASE CatExtent
        <3>1. read = "cat" /\ read' = "cat" /\ cli' = cli
            BY <2>3 DEF CatExtent
        <3>2. Catting'
            BY <1>1, <2>3, <3>1, CatExtentKeeps DEF CatInvariant
        <3> QED BY <1>1, <3>1, <3>2 DEF CatInvariant, CatAgrees
    <2>4. CASE CatTail
        BY <1>1, <2>4, CatTailKeeps
    <2> QED BY <1>4, <2>1, <2>2, <2>3, <2>4, <2>5, <2>6 DEF Reading, ReadStep
<1>5. CASE DispatchWrite \/ Writing \/ Finished \/ Fails \/ UNCHANGED vars
    <2>1. UNCHANGED readVars
        BY <1>5 DEF DispatchWrite, Writing, Finished, Fails, vars
    <2> QED BY <1>1, <2>1, CatInvariantStays
<1> QED BY <1>2, <1>3, <1>4, <1>5 DEF Next, Proceed

(* --cat writes the bytes that the reader of whole files returns, for      *)
(* every readable image, however a file of it is cut into extents, holes,  *)
(* unwritten runs or segments, in whatever order the inode lists its       *)
(* extents (write_data, fs/ext4/inode.rs; read_data_streaming).            *)
THEOREM CatWritesTheFile ==
    ASSUME \A source \in Images : Readable(source)
    PROVE  Spec => []CatAgrees
<1>1. Init => CatInvariant
    BY DEF Init, SourceInit, ReadInit, CatInvariant, CatAgrees
<1>2. CatInvariant /\ [Next]_vars => CatInvariant'
    BY CatInvariantKept
<1>3. CatInvariant => CatAgrees
    BY DEF CatInvariant
<1> QED BY <1>1, <1>2, <1>3, PTL DEF Spec

=============================================================================
