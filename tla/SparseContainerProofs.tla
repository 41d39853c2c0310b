------------------------ MODULE SparseContainerProofs ------------------------
(***************************************************************************)
(* Proofs about SparseScan and SparseContainer: that the runs of the       *)
(* strict scan stand for the image, and what a reader makes of every file  *)
(* that any writer can leave, for images of any length and content and     *)
(* however often a run is cut short and repeated.                          *)
(***************************************************************************)
EXTENDS SparseContainer, OrderFacts

-----------------------------------------------------------------------------
(* The scans.                                                              *)

(* The inductive invariant of a scan: the runs tile what was scanned, no   *)
(* one is empty, and so the place of the next block of the last run is     *)
(* known: a run that the strict test lets take it still restores it.       *)
ScanIInv ==
    /\ ScanTypeOK
    /\ Len(runs) <= index
    /\ RunsTile
    /\ RunsRestore
    /\ RawRunsStayShort

(* A block's kind tells DONT_CARE blocks and FILL blocks apart.  *)
LEMMA KindTells ==
    ASSUME NEW b \in Blocks
    PROVE  /\ Kind(b) \in {"dont_care", "fill", "raw"}
           /\ Kind(b) = "dont_care" <=> b = Zero
           /\ Kind(b) = "fill" <=> b \in Patterns
  BY BlocksAssumption DEF Kind, Blocks

(* The descriptor a block opens is well formed and restores that block.  *)
LEMMA NewRunRestores ==
    ASSUME ScanTypeOK, Scanning
    PROVE  /\ NewRun(index, Block) \in Run
           /\ NewRun(index, Block).start = index
           /\ NewRun(index, Block).count = 1
           /\ Restored(raw, NewRun(index, Block), 0) = raw[index + 1]
  <1>1. Block \in Blocks
    BY DEF ScanTypeOK, Scanning, Block
  <1>2. index \in Nat /\ Zero \in Blocks
    BY DEF ScanTypeOK, Blocks
  <1>3. NewRun(index, Block) \in Run
    BY <1>1, <1>2, KindTells DEF NewRun, Run
  <1>4. Restored(raw, NewRun(index, Block), 0) = raw[index + 1]
    BY <1>1, <1>2, KindTells DEF NewRun, Restored, Block
  <1> QED
    BY <1>3, <1>4 DEF NewRun

(* Opening a run keeps the invariant.  *)
LEMMA OpenRunKeeps ==
    ASSUME ScanIInv, OpenRun
    PROVE  ScanIInv'
  <1> DEFINE new == NewRun(index, Block)
             n == Len(runs)
  <1>1. /\ new \in Run /\ new.start = index /\ new.count = 1
        /\ Restored(raw, new, 0) = raw[index + 1]
    BY NewRunRestores DEF ScanIInv, OpenRun
  <1>2. /\ runs \in Seq(Run) /\ n \in Nat /\ index \in Nat
        /\ raw' = raw /\ rule' = rule /\ index' = index + 1
        /\ index < Len(raw) /\ Len(raw) \in Nat
    BY DEF ScanIInv, ScanTypeOK, OpenRun, Scanning
  <1> HIDE DEF new
  <1>3. runs' = Append(runs, new)
    BY DEF OpenRun, new
  <1>4. /\ runs' \in Seq(Run) /\ Len(runs') = n + 1 /\ runs'[n + 1] = new
        /\ \A j \in 1..n : runs'[j] = runs[j]
    BY <1>1, <1>2, <1>3
  <1>5. ScanTypeOK'
    BY <1>2, <1>4 DEF ScanIInv, ScanTypeOK
  <1>6. RunsTile'
    <2>1. runs' # <<>> /\ runs'[Len(runs')].start + runs'[Len(runs')].count = index'
      BY <1>1, <1>2, <1>4
    <2>2. runs'[1].start = 0
      <3>1. CASE n = 0
        <4>1. runs = <<>>
          BY <1>2, <3>1
        <4> QED
          BY <1>1, <1>4, <3>1, <4>1 DEF ScanIInv, RunsTile
      <3>2. CASE n # 0
        BY <1>2, <1>4, <3>2 DEF ScanIInv, RunsTile
      <3> QED
        BY <3>1, <3>2
    <2>3. ASSUME NEW j \in 1..(Len(runs') - 1)
          PROVE  runs'[j].start + runs'[j].count = runs'[j + 1].start
      <3>1. CASE j = n
        <4>1. runs # <<>> /\ runs'[j] = runs[n] /\ runs'[j + 1] = new
          BY <1>2, <1>4, <2>3, <3>1
        <4> QED
          BY <1>1, <3>1, <4>1 DEF ScanIInv, RunsTile
      <3>2. CASE j # n
        BY <1>2, <1>4, <2>3, <3>2 DEF ScanIInv, RunsTile
      <3> QED
        BY <3>1, <3>2
    <2> QED
      BY <2>1, <2>2, <2>3 DEF RunsTile
  <1>7. RunsRestore'
    <2> SUFFICES ASSUME rule = "strict",
                        NEW j \in 1..(n + 1), NEW k \in 0..(runs'[j].count - 1)
                 PROVE  Restored(raw', runs'[j], k) = raw'[runs'[j].start + k + 1]
      BY <1>2, <1>4 DEF RunsRestore
    <2>1. Restored(raw', runs'[j], k) = Restored(raw, runs'[j], k)
      BY <1>2 DEF Restored
    <2>2. CASE j = n + 1
      <3>1. k = 0
        BY <1>1, <1>4, <2>2
      <3> QED
        BY <1>1, <1>2, <1>4, <2>1, <2>2, <3>1
    <2>3. CASE j # n + 1
      BY <1>2, <1>4, <2>1, <2>3 DEF ScanIInv, RunsRestore
    <2> QED
      BY <2>2, <2>3
  <1>8. RawRunsStayShort'
    <2> SUFFICES ASSUME rule = "strict", NEW j \in 1..(n + 1), runs'[j].kind = "raw"
                 PROVE  runs'[j].count <= MaxRawRun
      BY <1>2, <1>4 DEF RawRunsStayShort
    <2>1. CASE j = n + 1
      BY <1>1, <1>4, <2>1, MaxRawRunAssumption
    <2>2. CASE j # n + 1
      BY <1>2, <1>4, <2>2 DEF ScanIInv, RawRunsStayShort
    <2> QED
      BY <2>1, <2>2
  <1> QED
    BY <1>2, <1>4, <1>5, <1>6, <1>7, <1>8 DEF ScanIInv

(* Extending the last run keeps the invariant: the run ends where the scan *)
(* stands, and the strict test lets in only a block it restores.           *)
LEMMA ExtendRunKeeps ==
    ASSUME ScanIInv, ExtendRun
    PROVE  ScanIInv'
  <1> DEFINE n == Len(runs)
             last == runs[n]
  <1>1. /\ runs \in Seq(Run) /\ n \in Nat \ {0} /\ index \in Nat
        /\ raw' = raw /\ rule' = rule /\ index' = index + 1
        /\ index < Len(raw) /\ Len(raw) \in Nat /\ raw \in Seq(Blocks)
        /\ rule = "strict" => StrictlyExtends(last, Block)
    BY DEF ScanIInv, ScanTypeOK, ExtendRun, Scanning, CanExtend, Extends
  <1>2. last \in Run
    BY <1>1
  <1>3. /\ runs' \in Seq(Run) /\ Len(runs') = n
        /\ runs'[n] = [last EXCEPT !.count = @ + 1]
        /\ \A j \in 1..n : j # n => runs'[j] = runs[j]
    <2>1. [last EXCEPT !.count = @ + 1] \in Run
      BY <1>2 DEF Run
    <2>2. runs' = [runs EXCEPT ![n] = [last EXCEPT !.count = @ + 1]]
      BY DEF ExtendRun
    <2> QED
      BY <1>1, <2>1, <2>2
  <1>4. /\ runs'[n].kind = last.kind /\ runs'[n].start = last.start
        /\ runs'[n].fill = last.fill /\ runs'[n].count = last.count + 1
        /\ last.count \in Nat \ {0} /\ last.start \in Nat
    BY <1>2, <1>3 DEF Run
  <1>5. last.start + last.count = index
    BY <1>1 DEF ScanIInv, RunsTile
  <1>6. ScanTypeOK'
    BY <1>1, <1>3 DEF ScanIInv, ScanTypeOK
  <1>7. RunsTile'
    <2>1. runs' # <<>> /\ runs'[Len(runs')].start + runs'[Len(runs')].count = index'
      BY <1>1, <1>3, <1>4, <1>5
    <2>2. \A j \in 1..n : runs'[j].start = runs[j].start
      BY <1>3, <1>4
    <2>3. runs'[1].start = 0
      BY <1>1, <2>2 DEF ScanIInv, RunsTile
    <2>4. ASSUME NEW j \in 1..(Len(runs') - 1)
          PROVE  runs'[j].start + runs'[j].count = runs'[j + 1].start
      <3>1. j # n /\ j \in 1..n /\ j + 1 \in 1..n
        BY <1>1, <1>3
      <3> QED
        BY <1>1, <1>3, <2>2, <3>1 DEF ScanIInv, RunsTile
    <2> QED
      BY <2>1, <2>3, <2>4 DEF RunsTile
  <1>8. RunsRestore'
    <2> SUFFICES ASSUME rule = "strict", NEW j \in 1..n, NEW k \in 0..(runs'[j].count - 1)
                 PROVE  Restored(raw', runs'[j], k) = raw'[runs'[j].start + k + 1]
      BY <1>1, <1>3 DEF RunsRestore
    <2>1. Restored(raw', runs'[j], k) = Restored(raw, runs'[j], k)
      BY <1>1 DEF Restored
    <2>2. CASE j # n
      BY <1>1, <1>3, <2>1, <2>2 DEF ScanIInv, RunsRestore
    <2>3. CASE j = n /\ k < last.count
      <3>1. k \in 0..(last.count - 1)
        BY <1>4, <2>3
      <3>2. Restored(raw, last, k) = raw[last.start + k + 1]
        BY <1>1, <3>1 DEF ScanIInv, RunsRestore
      <3>3. Restored(raw, runs'[j], k) = Restored(raw, last, k)
        BY <1>4, <2>3 DEF Restored
      <3> QED
        BY <1>1, <1>4, <2>1, <2>3, <3>2, <3>3
    <2>4. CASE j = n /\ k >= last.count
      <3>1. k = last.count
        BY <1>4, <2>4
      <3>2. runs'[j].start + k + 1 = index + 1
        BY <1>4, <1>5, <2>4, <3>1
      <3>3. Block \in Blocks
        BY <1>1 DEF Block
      <3>4. Restored(raw, runs'[j], k) = Block
        <4>1. /\ Kind(Block) = last.kind
              /\ last.kind = "fill" => Block = last.fill
          BY <1>1 DEF StrictlyExtends
        <4> QED
          BY <1>4, <2>4, <3>2, <3>3, <4>1, KindTells DEF Restored, Block
      <3> QED
        BY <1>1, <2>1, <3>2, <3>4 DEF Block
    <2> QED
      BY <1>4, <2>2, <2>3, <2>4
  <1>9. RawRunsStayShort'
    <2> SUFFICES ASSUME rule = "strict", NEW j \in 1..n, runs'[j].kind = "raw"
                 PROVE  runs'[j].count <= MaxRawRun
      BY <1>1, <1>3 DEF RawRunsStayShort
    <2>1. CASE j = n
      <3>1. last.count < MaxRawRun
        BY <1>1, <1>4, <2>1 DEF StrictlyExtends
      <3> QED
        BY <1>4, <2>1, <3>1, MaxRawRunAssumption
    <2>2. CASE j # n
      BY <1>1, <1>3, <2>2 DEF ScanIInv, RawRunsStayShort
    <2> QED
      BY <2>1, <2>2
  <1> QED
    BY <1>1, <1>3, <1>6, <1>7, <1>8, <1>9 DEF ScanIInv

(* A scan keeps its invariant, whatever the image.  *)
THEOREM ScanInvariant == ScanSpec => []ScanIInv
  <1>1. ScanInit => ScanIInv
    <2> SUFFICES ASSUME ScanInit PROVE ScanIInv
      OBVIOUS
    <2>1. runs \in Seq(Run) /\ Len(runs) = 0 /\ Len(raw) \in Nat
      BY DEF ScanInit
    <2> QED
      BY <2>1 DEF ScanInit, ScanIInv, ScanTypeOK, RunsTile, RunsRestore, RawRunsStayShort
  <1>2. ScanIInv /\ [ScanBlock]_scanVars => ScanIInv'
    <2> SUFFICES ASSUME ScanIInv, [ScanBlock]_scanVars PROVE ScanIInv'
      OBVIOUS
    <2>1. CASE OpenRun
      BY <2>1, OpenRunKeeps
    <2>2. CASE ExtendRun
      BY <2>2, ExtendRunKeeps
    <2>3. CASE UNCHANGED scanVars
      BY <2>3 DEF scanVars, ScanIInv, ScanTypeOK, RunsTile, RunsRestore,
                  RawRunsStayShort, Restored
    <2> QED
      BY <2>1, <2>2, <2>3 DEF ScanBlock
  <1> QED
    BY <1>1, <1>2, PTL DEF ScanSpec

(* scan_sparse_runs loses nothing: for every image and every place in it,  *)
(* the run that holds the place restores its block.                        *)
THEOREM ScanRestores == ScanSpec => []RunsRestore
  BY ScanInvariant, PTL DEF ScanIInv

(* The chunks of scan_sparse_runs tile the image, as the parser demands.   *)
THEOREM ScanTiles == ScanSpec => []RunsTile
  BY ScanInvariant, PTL DEF ScanIInv

(* No RAW chunk is longer than SPARSE_MAX_RAW_RUN.  *)
THEOREM ScanKeepsRawRunsShort == ScanSpec => []RawRunsStayShort
  BY ScanInvariant, PTL DEF ScanIInv

-----------------------------------------------------------------------------
(* The sums of the parser.                                                 *)

(* The sums are those of any function that satisfies their recursion.      *)
LEMMA EndsAreUnique ==
    ASSUME NEW chunks, Len(chunks) \in Nat,
           \A j \in 1..Len(chunks) : chunks[j].count \in Nat,
           NEW f \in [0..Len(chunks) -> Nat], f[0] = 0,
           \A j \in 1..Len(chunks) : f[j] = f[j - 1] + chunks[j].count
    PROVE  ChunkEnds(chunks) = f
<1> DEFINE Recursion(g) ==
        g = [j \in 0..Len(chunks) |-> IF j = 0 THEN 0 ELSE g[j - 1] + chunks[j].count]
           h == CHOOSE g : Recursion(g)
<1>1. ChunkEnds(chunks) = h
    BY DEF ChunkEnds
<1>2. Recursion(h)
    <2>1. Recursion(f)
        <3>1. \A j \in 0..Len(chunks) : f[j] = IF j = 0 THEN 0 ELSE f[j - 1] + chunks[j].count
            OBVIOUS
        <3> QED BY <3>1
    <2> QED BY <2>1
<1> HIDE DEF h
<1>3. /\ DOMAIN h = 0..Len(chunks)
      /\ h[0] = 0
      /\ \A j \in 1..Len(chunks) : h[j] = h[j - 1] + chunks[j].count
    <2>1. \A j \in 0..Len(chunks) : h[j] = IF j = 0 THEN 0 ELSE h[j - 1] + chunks[j].count
        BY <1>2
    <2>2. DOMAIN h = 0..Len(chunks)
        BY <1>2
    <2> QED BY <2>1, <2>2
<1>4. ASSUME NEW j \in 0..Len(chunks), h[j] # f[j] PROVE FALSE
    <2> DEFINE Different == {i \in 0..Len(chunks) : h[i] # f[i]}
    <2>0. Different \subseteq Nat /\ Different # {}
        BY <1>4
    <2> HIDE DEF Different
    <2>1. PICK x \in Different : \A y \in Different : x <= y
        BY <2>0, LeastElement
    <2> USE DEF Different
    <2>2. x \in 1..Len(chunks) /\ x - 1 \in 0..Len(chunks)
        BY <1>3, <2>1
    <2>3. x - 1 \notin Different
        BY <2>1, <2>2
    <2>4. h[x - 1] = f[x - 1]
        BY <2>2, <2>3
    <2>5. h[x] = f[x]
        BY <1>3, <2>2, <2>4
    <2> QED BY <2>1, <2>5
<1>5. h = f
    BY <1>2, <1>3, <1>4
<1> QED BY <1>1, <1>5
-----------------------------------------------------------------------------
(* Files.                                                                  *)

Chunk == [kind : {"dont_care", "fill", "raw"}, count : Nat \ {0}, data : Seq(Blocks)]

(* The chunks a writer has emitted: each is that of a run, all but the     *)
(* last whole, their payloads the blocks from where the run starts.        *)
Emitted(chunks) ==
    /\ chunks \in Seq(Chunk)
    /\ Len(chunks) <= Len(runs)
    /\ \A j \in 1..Len(chunks) :
           /\ chunks[j].kind = runs[j].kind /\ chunks[j].count = runs[j].count
           /\ Len(chunks[j].data) <= Payload(chunks[j])
           /\ \A k \in 1..Len(chunks[j].data) : chunks[j].data[k] = raw[runs[j].start + k]
    /\ \A j \in 1..(Len(chunks) - 1) : Len(chunks[j].data) = Payload(chunks[j])

WholeChunks(chunks) ==
    \A j \in 1..Len(chunks) : Len(chunks[j].data) = Payload(chunks[j])

Container(chunks) == SparseFile(Len(raw), Len(runs), chunks)

(* What the scan's types say of a run.                                     *)
LEMMA RunFields ==
    ASSUME ScanIInv, NEW j \in 1..Len(runs)
    PROVE  /\ runs[j].kind \in {"dont_care", "fill", "raw"}
           /\ runs[j].start \in Nat /\ runs[j].count \in Nat \ {0}
<1>1. runs[j] \in Run
    BY DEF ScanIInv, ScanTypeOK
<1> QED BY <1>1 DEF Run

(* No run reaches beyond what was scanned.                                 *)
LEMMA RunsEndInImage ==
    ASSUME ScanIInv, NEW j \in 1..Len(runs)
    PROVE  runs[j].start + runs[j].count <= index
<1> DEFINE end(m) == runs[m].start + runs[m].count
           Beyond == {d \in 0..(Len(runs) - 1) : end(Len(runs) - d) > index}
<1>1. Len(runs) \in Nat /\ index \in Nat /\ runs # <<>>
    BY DEF ScanIInv, ScanTypeOK
<1>2. end(Len(runs)) = index
    BY <1>1 DEF ScanIInv, RunsTile
<1>3. ASSUME Beyond # {} PROVE FALSE
    <2>0. Beyond \subseteq Nat
        OBVIOUS
    <2> HIDE DEF Beyond
    <2>1. PICK d \in Beyond : \A y \in Beyond : d <= y
        BY <1>3, <2>0, LeastElement
    <2> DEFINE m == Len(runs) - d
    <2>2. d \in 1..(Len(runs) - 1) /\ end(m) > index
        BY <1>1, <1>2, <2>1 DEF Beyond
    <2>3. d - 1 \in 0..(Len(runs) - 1) /\ Len(runs) - (d - 1) = m + 1 /\ d - 1 < d
        BY <1>1, <2>2
    <2>9. ~(end(m + 1) > index)
        <3>1. d - 1 \notin Beyond
            BY <2>1, <2>2, <2>3
        <3> HIDE DEF m
        <3>2. ~(end(Len(runs) - (d - 1)) > index)
            BY <2>3, <3>1 DEF Beyond
        <3> QED BY <2>3, <3>2
    <2>4. /\ m \in 1..(Len(runs) - 1) /\ m + 1 \in 1..Len(runs)
        BY <1>1, <2>2
    <2> HIDE DEF m
    <2>5. /\ runs[m].start \in Nat /\ runs[m].count \in Nat \ {0}
          /\ runs[m + 1].start \in Nat /\ runs[m + 1].count \in Nat \ {0}
        BY <2>4, RunFields
    <2>6. end(m) = runs[m + 1].start
        BY <2>4 DEF ScanIInv, RunsTile
    <2> QED BY <1>1, <2>2, <2>9, <2>5, <2>6
<1>4. Len(runs) - j \in 0..(Len(runs) - 1) /\ Len(runs) - (Len(runs) - j) = j
    BY <1>1
<1>5. runs[j].start \in Nat /\ runs[j].count \in Nat
    BY RunFields
<1>6. ~(end(Len(runs) - (Len(runs) - j)) > index)
    BY <1>3, <1>4
<1>7. ~(end(j) > index)
    BY <1>4, <1>6
<1> QED BY <1>1, <1>5, <1>7

(* The parser's sums are the places where the runs end.                    *)
LEMMA EndsFollowRuns ==
    ASSUME ScanIInv, NEW chunks, Emitted(chunks)
    PROVE  /\ ChunkEnds(chunks)[0] = 0
           /\ \A j \in 1..Len(chunks) :
                  /\ ChunkEnds(chunks)[j - 1] = runs[j].start
                  /\ ChunkEnds(chunks)[j] = runs[j].start + runs[j].count
<1> DEFINE end(j) == runs[j].start + runs[j].count
           f == [j \in 0..Len(chunks) |-> IF j = 0 THEN 0 ELSE end(j)]
<1>1. /\ runs \in Seq(Run) /\ Len(runs) \in Nat /\ Len(chunks) \in 0..Len(runs)
      /\ chunks \in Seq(Chunk)
    BY DEF ScanIInv, ScanTypeOK, Emitted
<1>2. \A j \in 1..Len(chunks) :
          /\ runs[j].start \in Nat /\ runs[j].count \in Nat
          /\ chunks[j].count = runs[j].count
    BY <1>1, RunFields DEF Emitted
<1>3. \A j \in 1..Len(chunks) : runs[j].start = IF j = 1 THEN 0 ELSE end(j - 1)
    <2> SUFFICES ASSUME NEW j \in 1..Len(chunks)
                 PROVE  runs[j].start = IF j = 1 THEN 0 ELSE end(j - 1)
        OBVIOUS
    <2>1. CASE j = 1
        BY <1>1, <2>1 DEF ScanIInv, RunsTile
    <2>2. CASE j # 1
        <3>1. j - 1 \in 1..(Len(runs) - 1) /\ (j - 1) + 1 = j
            BY <1>1, <2>2
        <3> QED BY <2>2, <3>1 DEF ScanIInv, RunsTile
    <2> QED BY <2>1, <2>2
<1>4. f[0] = 0 /\ \A j \in 1..Len(chunks) : f[j - 1] = runs[j].start /\ f[j] = end(j)
    BY <1>1, <1>2, <1>3
<1>5. /\ f \in [0..Len(chunks) -> Nat]
      /\ \A j \in 1..Len(chunks) : chunks[j].count \in Nat /\ f[j] = f[j - 1] + chunks[j].count
    <2>1. \A j \in 0..Len(chunks) : (IF j = 0 THEN 0 ELSE end(j)) \in Nat
        BY <1>1, <1>2
    <2>2. f \in [0..Len(chunks) -> Nat]
        BY <2>1
    <2> HIDE DEF f
    <2> QED BY <1>2, <1>4, <2>2
<1>6. ChunkEnds(chunks) = f
    <2> HIDE DEF f
    <2> QED BY <1>1, <1>4, <1>5, EndsAreUnique
<1> QED BY <1>4, <1>6

(* The search of read_at comes to the chunk of the run that has the block. *)
LEMMA SearchFindsRun ==
    ASSUME ScanIInv, index = Len(raw), NEW i \in 0..(Len(raw) - 1),
           NEW chunks, Emitted(chunks), Len(chunks) = Len(runs)
    PROVE  LET j == ChunkOf(Container(chunks), i)
           IN  /\ j \in 1..Len(runs)
               /\ ChunkStart(Container(chunks), j) = runs[j].start
               /\ runs[j].start <= i /\ i < runs[j].start + runs[j].count
<1> DEFINE file == Container(chunks)
           Holds(j) == ChunkStart(file, j) <= i /\ i < ChunkStart(file, j + 1)
           Behind == {j \in 1..Len(runs) : i < runs[j].start + runs[j].count}
<1>1. /\ runs \in Seq(Run) /\ Len(runs) \in Nat /\ Len(raw) \in Nat
      /\ file.chunks = chunks /\ file.count = Len(runs)
    BY DEF ScanIInv, ScanTypeOK, Container, SparseFile
<1>2. \A j \in 1..Len(runs) : runs[j].start \in Nat /\ runs[j].count \in Nat
    BY RunFields
<1>3. \A j \in 1..Len(runs) : /\ ChunkStart(file, j) = runs[j].start
                              /\ ChunkStart(file, j + 1) = runs[j].start + runs[j].count
    BY <1>1, EndsFollowRuns DEF ChunkStart
<1>4. runs # <<>> /\ Len(runs) \in Behind
    BY <1>1 DEF ScanIInv, RunsTile
<1>5. \E j \in 1..Len(runs) : Holds(j)
    <2>0. Behind \subseteq Nat /\ Behind # {}
        BY <1>4
    <2> HIDE DEF Behind
    <2>1. PICK j \in Behind : \A y \in Behind : j <= y
        BY <2>0, LeastElement
    <2> USE DEF Behind
    <2>2. runs[j].start <= i
        <3>1. CASE j = 1
            BY <1>4, <3>1 DEF ScanIInv, RunsTile
        <3>2. CASE j # 1
            <4>1. j - 1 \in 1..(Len(runs) - 1) /\ (j - 1) + 1 = j /\ j - 1 \notin Behind
                BY <1>1, <2>1, <3>2
            <4>2. runs[j - 1].start + runs[j - 1].count <= i
                BY <1>1, <1>2, <4>1
            <4> QED BY <4>1, <4>2 DEF ScanIInv, RunsTile
        <3> QED BY <3>1, <3>2
    <2> QED BY <1>3, <2>1, <2>2
<1>6. ChunkOf(file, i) \in 1..Len(runs) /\ Holds(ChunkOf(file, i))
    <2> HIDE DEF file
    <2>1. ChunkOf(file, i) = CHOOSE j \in 1..Len(runs) : Holds(j)
        BY <1>1 DEF ChunkOf
    <2> HIDE DEF Holds
    <2> QED BY <1>5, <2>1
<1> QED BY <1>3, <1>6

(* A block that read_at serves from the chunks of a strict scan is the one *)
(* of the raw image; where all payloads are whole it is always served.     *)
LEMMA ChunksServeTheImage ==
    ASSUME ScanIInv, index = Len(raw), NEW i \in 0..(Len(raw) - 1),
           NEW chunks, Emitted(chunks), Len(chunks) = Len(runs)
    PROVE  /\ rule = "strict" => ReadAt(Container(chunks), i) \in {Failed, raw[i + 1]}
           /\ WholeChunks(chunks) => ReadAt(Container(chunks), i) # Failed
<1> DEFINE file == Container(chunks)
           j == ChunkOf(file, i)
           run == runs[j]
           chunk == chunks[j]
           place == IF chunk.kind = "raw" THEN i - run.start ELSE 0
<1>1. /\ file.container = "sparse" /\ file.chunks = chunks
    BY DEF Container, SparseFile
<1>2. /\ j \in 1..Len(runs) /\ ChunkStart(file, j) = run.start
      /\ run.start <= i /\ i < run.start + run.count
    BY SearchFindsRun
<1>3. /\ run.kind \in {"dont_care", "fill", "raw"}
      /\ run.start \in Nat /\ run.count \in Nat \ {0}
    BY <1>2, RunFields
<1>4. /\ chunk.kind = run.kind /\ chunk.count = run.count /\ chunk.data \in Seq(Blocks)
      /\ Len(chunk.data) \in 0..Payload(chunk)
      /\ \A k \in 1..Len(chunk.data) : chunk.data[k] = raw[run.start + k]
    <2>1. j \in 1..Len(chunks) /\ chunk \in Chunk
        BY <1>2 DEF Emitted
    <2> QED BY <2>1 DEF Emitted, Chunk
<1>5. /\ chunk.kind = "dont_care" => ReadAt(file, i) = Zero
      /\ chunk.kind # "dont_care" =>
             ReadAt(file, i) = IF place < Len(chunk.data) THEN chunk.data[place + 1] ELSE Failed
    <2>1. ReadAt(file, i) = CASE chunk.kind = "dont_care" -> Zero
                              [] place < Len(chunk.data) -> chunk.data[place + 1]
                              [] OTHER -> Failed
        <3> HIDE DEF file
        <3> QED BY <1>1, <1>2 DEF ReadAt
    <2>2. ~(chunk.kind = "dont_care" /\ place < Len(chunk.data))
        <3>1. chunk.kind = "dont_care" => Payload(chunk) = 0 /\ place = 0
            BY <1>3, <1>4 DEF Payload
        <3>2. Len(chunk.data) \in 0..Payload(chunk)
            BY <1>4
        <3> HIDE DEF chunk, place, j, run
        <3> QED BY ONLY <3>1, <3>2
    <2> HIDE DEF file, chunk, place, j
    <2> QED BY <2>1, <2>2
<1> HIDE DEF file, j
<1>6. place \in 0..(run.count - 1) /\ run.start + place \in Nat
    <2>1. place = i - run.start \/ place = 0
        OBVIOUS
    <2> HIDE DEF place, run
    <2> QED BY ONLY <1>2, <1>3, <2>1, i \in 0..(Len(raw) - 1)
<1>7. place < Len(chunk.data) => chunk.data[place + 1] = raw[run.start + place + 1]
    <2> SUFFICES ASSUME place < Len(chunk.data)
                 PROVE  chunk.data[place + 1] = raw[run.start + place + 1]
        OBVIOUS
    <2>1. Len(chunk.data) \in Nat /\ place \in Nat /\ run.start \in Nat
        BY <1>3, <1>4, <1>6
    <2> HIDE DEF place
    <2>2. place + 1 \in 1..Len(chunk.data) /\ run.start + (place + 1) = run.start + place + 1
        BY <2>1
    <2> QED BY <1>4, <2>2
<1>8. rule = "strict" => ReadAt(file, i) \in {Failed, raw[i + 1]}
    <2> SUFFICES ASSUME rule = "strict" PROVE ReadAt(file, i) \in {Failed, raw[i + 1]}
        OBVIOUS
    <2> DEFINE k == i - run.start
    <2>1. k \in 0..(run.count - 1) /\ run.start + k + 1 = i + 1
        BY <1>2, <1>3
    <2>2. \A m \in 0..(run.count - 1) : \A p \in Nat :
              p = run.start + m + 1 => Restored(raw, run, m) = raw[p]
        <3> HIDE DEF run
        <3>1. \A n \in 1..Len(runs) : \A m \in 0..(runs[n].count - 1) :
                  Restored(raw, runs[n], m) = raw[runs[n].start + m + 1]
            BY DEF ScanIInv, RunsRestore
        <3> QED BY <1>2, <3>1 DEF run
    <2>3. Restored(raw, run, k) = raw[i + 1] /\ Restored(raw, run, 0) = raw[run.start + 1]
        <3>1. i + 1 \in Nat /\ run.start + 1 \in Nat /\ 0 \in 0..(run.count - 1)
              /\ run.start + 0 + 1 = run.start + 1
            BY <1>3
        <3> HIDE DEF k, run
        <3> QED BY <2>1, <2>2, <3>1
    <2>4. CASE run.kind = "dont_care"
        <3>1. Restored(raw, run, k) = Zero
            BY <2>4 DEF Restored
        <3> QED BY <1>5, <1>4, <2>3, <2>4, <3>1
    <2>5. CASE run.kind = "fill"
        <3>1. raw[i + 1] = raw[run.start + 1]
            BY <1>3, <2>3, <2>5 DEF Restored
        <3> QED BY <1>5, <1>3, <1>4, <1>7, <2>5, <3>1
    <2>6. CASE run.kind = "raw"
        BY <1>5, <1>3, <1>4, <1>7, <2>1, <2>6
    <2> QED BY <1>3, <2>4, <2>5, <2>6
<1>9. WholeChunks(chunks) => ReadAt(file, i) # Failed
    <2> SUFFICES ASSUME WholeChunks(chunks) PROVE ReadAt(file, i) # Failed
        OBVIOUS
    <2>1. Len(chunk.data) = Payload(chunk)
        BY <1>2 DEF WholeChunks
    <2>2. CASE run.kind = "dont_care"
        <3>1. ReadAt(file, i) = Zero
            BY <1>5, <1>4, <2>2
        <3> QED BY <3>1, FailedAssumption DEF Blocks
    <2>3. CASE run.kind # "dont_care"
        <3>1. place < Len(chunk.data)
            BY <1>3, <1>4, <1>6, <2>1, <2>3 DEF Payload
        <3>2. ReadAt(file, i) = chunk.data[place + 1]
            BY <1>5, <1>4, <2>3, <3>1
        <3>3. chunk.data[place + 1] \in Blocks
            BY <1>4, <1>6, <3>1
        <3> QED BY <3>2, <3>3, FailedAssumption
    <2> QED BY <2>2, <2>3
<1> QED BY <1>8, <1>9 DEF file

(* Whatever part of a container was written when the run stopped, a reader *)
(* is refused, or reads an image as long as the raw one; from a strict     *)
(* writer that image is the raw one.                                       *)
LEMMA CutContainer ==
    ASSUME ScanIInv, index = Len(raw), NEW chunks, Emitted(chunks)
    PROVE  LET image == Contents(Container(chunks))
           IN  \/ image = Failed
               \/ Len(image) = Len(raw) /\ (rule = "strict" => image = raw)
<1> DEFINE file == Container(chunks)
           image == Contents(file)
<1>1. /\ file.container = "sparse" /\ file.chunks = chunks
      /\ file.count = Len(runs) /\ file.total = Len(raw)
    BY DEF Container, SparseFile
<1>2. LogicalBlocks(file) = Len(raw) /\ Len(raw) \in Nat /\ raw \in Seq(Blocks)
    BY <1>1 DEF LogicalBlocks, ScanIInv, ScanTypeOK
<1>3. Opens(file) => Len(chunks) = Len(runs)
    BY <1>1 DEF Opens, Emitted, ScanIInv, ScanTypeOK
<1> HIDE DEF file
<1> SUFFICES ASSUME image # Failed
             PROVE  Len(image) = Len(raw) /\ (rule = "strict" => image = raw)
    BY DEF file
<1>4. /\ Opens(file)
      /\ \A i \in 0..(Len(raw) - 1) : ReadAt(file, i) # Failed
      /\ image = [i \in 1..Len(raw) |-> ReadAt(file, i - 1)]
    BY <1>2 DEF Contents
<1>5. ASSUME rule = "strict" PROVE image = raw
    <2>1. \A i \in 0..(Len(raw) - 1) : ReadAt(file, i) = raw[i + 1]
        BY <1>3, <1>4, <1>5, ChunksServeTheImage DEF file
    <2>2. \A i \in 1..Len(raw) : ReadAt(file, i - 1) = raw[i]
        BY <1>2, <2>1
    <2> QED BY <1>2, <1>4, <2>2
<1> QED BY <1>2, <1>4, <1>5

(* The container of a strict writer that wrote everything.                 *)
LEMMA CompleteContainer ==
    ASSUME ScanIInv, index = Len(raw), rule = "strict",
           NEW chunks, Emitted(chunks), WholeChunks(chunks), Len(chunks) = Len(runs)
    PROVE  Contents(Container(chunks)) = raw
<1> DEFINE file == Container(chunks)
<1>1. /\ file.container = "sparse" /\ file.chunks = chunks
      /\ file.count = Len(runs) /\ file.total = Len(raw)
    BY DEF Container, SparseFile
<1>2. LogicalBlocks(file) = Len(raw) /\ Len(raw) \in Nat
    BY <1>1 DEF LogicalBlocks, ScanIInv, ScanTypeOK
<1>3. \A i \in 0..(Len(raw) - 1) : ReadAt(file, i) # Failed
    BY ChunksServeTheImage
<1>4. Opens(file)
    <2>1. \A j \in 1..Len(chunks) :
              /\ chunks[j].count > 0
              /\ chunks[j].kind = "fill" => chunks[j].data # <<>>
        <3> SUFFICES ASSUME NEW j \in 1..Len(chunks)
                     PROVE  /\ chunks[j].count > 0
                            /\ chunks[j].kind = "fill" => chunks[j].data # <<>>
            OBVIOUS
        <3>1. chunks[j] \in Chunk /\ Len(chunks[j].data) = Payload(chunks[j])
            BY DEF Emitted, WholeChunks
        <3> QED BY <3>1 DEF Chunk, Payload
    <2>2. ChunkStart(file, file.count + 1) = Len(raw)
        <3>1. /\ Len(runs) \in Nat
              /\ runs # <<>> => runs[Len(runs)].start + runs[Len(runs)].count = Len(raw)
              /\ runs = <<>> => Len(raw) = 0
            BY DEF ScanIInv, ScanTypeOK, RunsTile
        <3>2. ChunkStart(file, file.count + 1) = ChunkEnds(chunks)[Len(runs)]
            BY <1>1, <3>1 DEF ChunkStart
        <3>3. CASE runs = <<>>
            BY <3>1, <3>2, <3>3, EndsFollowRuns
        <3>4. CASE runs # <<>>
            <4>1. Len(runs) \in 1..Len(chunks)
                BY <3>1, <3>4 DEF ScanIInv, ScanTypeOK
            <4> QED BY <3>1, <3>2, <3>4, <4>1, EndsFollowRuns
        <3> QED BY <3>3, <3>4
    <2> HIDE DEF file
    <2> QED BY <1>1, <2>1, <2>2 DEF Opens
<1>5. Contents(file) = [i \in 1..Len(raw) |-> ReadAt(file, i - 1)]
    <2> HIDE DEF file
    <2> QED BY <1>2, <1>3, <1>4 DEF Contents
<1>6. \A i \in 1..Len(raw) : ReadAt(file, i - 1) = raw[i]
    <2> SUFFICES ASSUME NEW i \in 1..Len(raw) PROVE ReadAt(file, i - 1) = raw[i]
        OBVIOUS
    <2>1. i - 1 \in 0..(Len(raw) - 1) /\ (i - 1) + 1 = i
        BY <1>2
    <2> HIDE DEF file
    <2>2. ReadAt(file, i - 1) \in {Failed, raw[i]}
        BY <2>1, ChunksServeTheImage DEF file
    <2> QED BY <1>3, <2>1, <2>2
<1>7. raw = [i \in 1..Len(raw) |-> raw[i]]
    BY DEF ScanIInv, ScanTypeOK
<1> HIDE DEF file
<1> QED BY <1>5, <1>6, <1>7 DEF file

-----------------------------------------------------------------------------
(* The inductive invariant.                                                *)

Passed(step) == \E k \in 1..(pc - 1) : Steps(route)[k] = step

(* What a writer has done so far: which part of its output is there.       *)
Progress ==
    /\ raw # <<>> /\ ScanIInv
    /\ route \in AllRoutes /\ rule = RuleOf(route)
    /\ pc \in 1..(Len(Steps(route)) + 1) /\ stopped \in BOOLEAN
    /\ Passed("scan") => index = Len(raw)

(* The file that the writer created: its header's counts are in place once *)
(* the writer is past that step, and its chunks are those of the runs.     *)
TargetHasChunks ==
    Passed("create") /\ ~Passed("publish") =>
        /\ Target = IF Passed("header") THEN Container(Written)
                    ELSE IF route = "in_place" THEN SparseFile(0, 0, Written)
                    ELSE RawFile(<<>>)
        /\ Emitted(Written)
        /\ ~Passed("scan") => Written = <<>>
        /\ Passed("emit") => WholeChunks(Written) /\ Len(Written) = Len(runs)

(* The typing of a file, and what a reader may make of it: neither depends *)
(* on the runs, so what a run left behind keeps it when the next starts.   *)
FileOK(file) ==
    \/ file = Nothing
    \/ file.container = "raw" /\ file.blocks \in {<<>>, raw}
    \/ /\ file.container = "sparse"
       /\ file.total \in {0, Len(raw)} /\ file.count \in 0..Len(raw)
       /\ \A j \in DOMAIN file.chunks :
              Len(file.chunks[j].data) \in 0..Payload(file.chunks[j])

NeverMistaken(file) ==
    \/ Contents(file) \in {Failed, <<>>, raw}
    \/ rule = "loose" /\ Len(Contents(file)) = Len(raw)

(* What is at the two paths otherwise: until this run creates its file, it *)
(* is what an earlier one left; an in-place writer does not touch the raw  *)
(* image before the rename, which puts a whole container in its place.     *)
OtherFiles ==
    /\ ~Passed("create") => FileOK(Target) /\ (~InPlace(route) => NeverMistaken(path))
    /\ ~InPlace(route) \/ Passed("publish") => tmp = Nothing
    /\ InPlace(route) /\ ~Done => path = RawFile(raw)
    /\ InPlace(route) /\ Done => \E chunks : /\ path = Container(chunks) /\ Emitted(chunks)
                                           /\ WholeChunks(chunks) /\ Len(chunks) = Len(runs)

IInv == Progress /\ TargetHasChunks /\ OtherFiles

-----------------------------------------------------------------------------
(* The order of the steps.                                                 *)

(* What has been done before a step, on every route.                       *)
LEMMA StepsInOrder ==
    ASSUME route \in AllRoutes, pc \in 1..(Len(Steps(route)) + 1)
    PROVE  /\ At("create") => ~Done /\ ~Passed("create") /\ ~Passed("header")
                               /\ ~Passed("emit") /\ ~Passed("publish")
           /\ At("scan") => ~Done /\ ~Passed("scan") /\ ~Passed("header")
                             /\ ~Passed("emit") /\ ~Passed("publish")
           /\ At("header") => ~Done /\ Passed("create") /\ Passed("scan")
                               /\ ~Passed("header") /\ ~Passed("publish")
                               /\ (Passed("emit") <=> route = "in_place")
           /\ At("emit") => ~Done /\ Passed("create") /\ Passed("scan")
                             /\ ~Passed("emit") /\ ~Passed("publish")
                             /\ (Passed("header") <=> route # "in_place")
           /\ At("publish") => ~Done /\ Passed("create") /\ Passed("scan") /\ Passed("header")
                                /\ Passed("emit") /\ ~Passed("publish") /\ InPlace(route)
                                /\ pc + 1 > Len(Steps(route))
           /\ Done => /\ Passed("create") /\ Passed("scan") /\ Passed("header") /\ Passed("emit")
                      /\ (Passed("publish") <=> InPlace(route))
           /\ Passed("publish") => Done
           /\ ~Done /\ InPlace(route) /\ Steps(route)[pc] # "publish" => pc + 1 <= Len(Steps(route))
           /\ ~Done => pc + 1 \in 1..(Len(Steps(route)) + 1)
<1> USE DEF Passed, At, Done, Steps, InPlace
<1>1. CASE route = "in_place"
    BY <1>1
<1>2. CASE route = "rebuilt"
    BY <1>2
<1>3. CASE route = "stream"
    BY <1>3
<1>4. CASE route = "patched"
    BY <1>4
<1> QED BY <1>1, <1>2, <1>3, <1>4 DEF AllRoutes

(* A step that moves the writer on is done, and no other becomes so.       *)
LEMMA OneStepPassed ==
    ASSUME route \in AllRoutes, pc \in 1..(Len(Steps(route)) + 1), NEW step, At(step),
           pc' = pc + 1, route' = route
    PROVE  /\ \A other : Passed(other)' <=> Passed(other) \/ other = step
           /\ (InPlace(route) => (Done' <=> step = "publish"))
           /\ pc' \in 1..(Len(Steps(route')) + 1)
<1>1. Steps(route)[pc] = step /\ ~Done
    BY DEF At
<1>2. pc \in Nat \ {0} /\ Steps(route') = Steps(route)
    BY DEF Steps
<1>3. ASSUME NEW other PROVE Passed(other)' <=> Passed(other) \/ other = step
    <2>1. Passed(other)' <=> \E k \in 1..pc : Steps(route)[k] = other
        BY <1>2 DEF Passed
    <2>2. 1..pc = 1..(pc - 1) \cup {pc}
        BY <1>2
    <2> QED BY <1>1, <2>1, <2>2 DEF Passed
<1>4. InPlace(route) => (Done' <=> step = "publish")
    BY <1>1, <1>2, StepsInOrder DEF At, Done
<1> QED BY <1>1, <1>3, <1>4, StepsInOrder

-----------------------------------------------------------------------------
(* What the invariant says of the files.                                   *)

(* Raw files and files that are not there.                                 *)
LEMMA PlainFiles ==
    ASSUME raw \in Seq(Blocks), raw # <<>>
    PROVE  /\ FileOK(Nothing) /\ NeverMistaken(Nothing)
           /\ FileOK(RawFile(<<>>)) /\ NeverMistaken(RawFile(<<>>))
           /\ FileOK(RawFile(raw)) /\ Contents(RawFile(raw)) = raw
<1>1. Contents(Nothing) = Failed
    BY DEF Contents, Opens, Nothing
<1>2. ASSUME NEW blocks \in Seq(Blocks) PROVE Contents(RawFile(blocks)) = blocks
    <2> DEFINE file == RawFile(blocks)
    <2>1. /\ file.container = "raw" /\ file.blocks = blocks /\ Len(blocks) \in Nat
        BY DEF RawFile
    <2> HIDE DEF file
    <2>2. /\ Opens(file) /\ LogicalBlocks(file) = Len(blocks)
          /\ \A i \in 0..(Len(blocks) - 1) : ReadAt(file, i) = blocks[i + 1]
        BY <2>1 DEF Opens, LogicalBlocks, ReadAt
    <2>3. \A i \in 0..(Len(blocks) - 1) : ReadAt(file, i) # Failed
        BY <2>1, <2>2, FailedAssumption
    <2>4. Contents(file) = [i \in 1..Len(blocks) |-> ReadAt(file, i - 1)]
        BY <2>2, <2>3 DEF Contents
    <2>5. \A i \in 1..Len(blocks) : ReadAt(file, i - 1) = blocks[i]
        BY <2>1, <2>2
    <2>6. blocks = [i \in 1..Len(blocks) |-> blocks[i]]
        OBVIOUS
    <2>7. Contents(file) = blocks
        BY <2>4, <2>5, <2>6
    <2> QED BY <2>7 DEF file
<1>3. /\ RawFile(<<>>).container = "raw" /\ RawFile(<<>>).blocks = <<>>
      /\ RawFile(raw).container = "raw" /\ RawFile(raw).blocks = raw
    BY DEF RawFile
<1>4. FileOK(Nothing) /\ FileOK(RawFile(<<>>)) /\ FileOK(RawFile(raw))
    BY <1>3 DEF FileOK
<1>5. Contents(RawFile(<<>>)) = <<>> /\ Contents(RawFile(raw)) = raw
    <2>1. <<>> \in Seq(Blocks)
        OBVIOUS
    <2> QED BY <1>2, <2>1
<1>6. NeverMistaken(Nothing) /\ NeverMistaken(RawFile(<<>>))
    BY <1>1, <1>5 DEF NeverMistaken
<1> QED BY <1>4, <1>5, <1>6

(* A container with the chunks emitted so far, its header's counts zero or *)
(* those of the image and the runs.                                        *)
LEMMA ContainersAreTyped ==
    ASSUME ScanIInv, NEW chunks, Emitted(chunks)
    PROVE  FileOK(Container(chunks)) /\ FileOK(SparseFile(0, 0, chunks))
<1>1. Len(runs) \in 0..Len(raw) /\ Len(raw) \in Nat /\ chunks \in Seq(Chunk)
    BY DEF ScanIInv, ScanTypeOK, Emitted
<1>2. \A j \in DOMAIN chunks : Len(chunks[j].data) \in 0..Payload(chunks[j])
    <2> SUFFICES ASSUME NEW j \in 1..Len(chunks)
                 PROVE  Len(chunks[j].data) \in 0..Payload(chunks[j])
        BY <1>1
    <2>1. chunks[j] \in Chunk /\ Len(chunks[j].data) <= Payload(chunks[j])
        BY <1>1 DEF Emitted
    <2> QED BY <2>1 DEF Chunk, Payload
<1>3. ASSUME NEW total \in {0, Len(raw)}, NEW count \in 0..Len(raw)
      PROVE  FileOK(SparseFile(total, count, chunks))
    <2> DEFINE file == SparseFile(total, count, chunks)
    <2>1. /\ file.container = "sparse" /\ file.chunks = chunks
          /\ file.total = total /\ file.count = count
        BY DEF SparseFile
    <2> HIDE DEF file
    <2>2. FileOK(file)
        BY <1>2, <1>3, <2>1 DEF FileOK
    <2> QED BY <2>2 DEF file
<1> QED BY <1>1, <1>3 DEF Container

(* At every moment both files are typed, and no reader of the path is      *)
(* misled.                                                                 *)
LEMMA FilesAreSafe ==
    ASSUME IInv
    PROVE  FileOK(path) /\ FileOK(tmp) /\ NeverMistaken(path)
<1>1. /\ raw \in Seq(Blocks) /\ raw # <<>> /\ ScanIInv
    BY DEF IInv, Progress, ScanIInv, ScanTypeOK
<1>2. Passed("create") /\ ~Passed("publish") =>
          FileOK(Target) /\ (~InPlace(route) => NeverMistaken(Target))
    <2> SUFFICES ASSUME Passed("create"), ~Passed("publish")
                 PROVE  FileOK(Target) /\ (~InPlace(route) => NeverMistaken(Target))
        OBVIOUS
    <2>1. Emitted(Written)
        BY DEF IInv, TargetHasChunks
    <2>2. CASE Passed("header")
        <3>1. Target = Container(Written)
            BY <2>2 DEF IInv, TargetHasChunks
        <3>2. index = Len(raw)
            <4>1. Passed("scan")
                BY <2>2 DEF IInv, Progress, Passed, Steps, AllRoutes
            <4> QED BY <4>1 DEF IInv, Progress
        <3>3. NeverMistaken(Container(Written))
            BY <1>1, <2>1, <3>2, CutContainer DEF NeverMistaken, IInv, Progress, RuleOf, AllRoutes
        <3> QED BY <1>1, <2>1, <3>1, <3>3, ContainersAreTyped
    <2>3. CASE ~Passed("header") /\ route = "in_place"
        BY <1>1, <2>1, <2>3, ContainersAreTyped DEF IInv, TargetHasChunks, InPlace
    <2>4. CASE ~Passed("header") /\ route # "in_place"
        BY <1>1, <2>4, PlainFiles DEF IInv, TargetHasChunks
    <2> QED BY <2>2, <2>3, <2>4
<1>3. CASE ~InPlace(route)
    <2>1. tmp = Nothing /\ Target = path /\ ~Passed("publish")
        BY <1>3 DEF IInv, OtherFiles, Target, Passed, InPlace, Progress, Steps, AllRoutes
    <2> QED BY <1>1, <1>2, <1>3, <2>1, PlainFiles DEF IInv, OtherFiles
<1>4. CASE InPlace(route) /\ ~Done
    <2>1. path = RawFile(raw) /\ Target = tmp /\ ~Passed("publish")
        BY <1>4, StepsInOrder DEF IInv, OtherFiles, Target, Progress
    <2>2. FileOK(path) /\ NeverMistaken(path)
        BY <1>1, <2>1, PlainFiles DEF NeverMistaken
    <2> QED BY <1>2, <2>1, <2>2 DEF IInv, OtherFiles
<1>5. CASE InPlace(route) /\ Done
    <2>1. Passed("publish") /\ Passed("scan")
        BY <1>5, StepsInOrder DEF IInv, Progress
    <2>2. PICK chunks : path = Container(chunks) /\ Emitted(chunks)
        BY <1>5 DEF IInv, OtherFiles
    <2>3. index = Len(raw) /\ tmp = Nothing
        BY <2>1 DEF IInv, Progress, OtherFiles
    <2>4. NeverMistaken(path)
        BY <1>1, <2>2, <2>3, CutContainer DEF NeverMistaken, IInv, Progress, RuleOf, AllRoutes
    <2> QED BY <1>1, <2>2, <2>3, <2>4, ContainersAreTyped, PlainFiles
<1> QED BY <1>3, <1>4, <1>5
-----------------------------------------------------------------------------
(* Every action keeps the invariant.                                       *)

(* The part of the invariant about the scan, when a step is taken that     *)
(* leaves the scan alone.                                                  *)
LEMMA ScanKept ==
    ASSUME ScanIInv, UNCHANGED scanVars
    PROVE  ScanIInv' /\ \A chunks : /\ Emitted(chunks)' <=> Emitted(chunks)
                                   /\ Container(chunks)' = Container(chunks)
  BY DEF scanVars, ScanIInv, ScanTypeOK, RunsTile, RunsRestore, RawRunsStayShort, Restored,
         Emitted, Container

(* The output starts as a placeholder header, or empty, with no chunk.      *)
LEMMA CreateKeeps ==
    ASSUME IInv, Create
    PROVE  IInv'
<1>1. /\ At("create") /\ pc' = pc + 1 /\ route' = route /\ stopped' = stopped
      /\ UNCHANGED scanVars /\ raw' = raw /\ rule' = rule /\ index' = index
    BY DEF Create, scanVars
<1>2. /\ route \in AllRoutes /\ pc \in 1..(Len(Steps(route)) + 1)
    BY DEF IInv, Progress
<1>3. /\ ~Done /\ ~Passed("create") /\ ~Passed("header") /\ ~Passed("emit") /\ ~Passed("publish")
    BY <1>1, <1>2, StepsInOrder
<1>4. /\ \A other : Passed(other)' <=> Passed(other) \/ other = "create"
      /\ pc' \in 1..(Len(Steps(route')) + 1)
      /\ InPlace(route) => ~Done'
    BY <1>1, <1>2, OneStepPassed
<1>5. Progress'
    BY <1>1, <1>2, <1>4, ScanKept DEF IInv, Progress
<1>6. Target' = IF route = "in_place" THEN SparseFile(0, 0, <<>>) ELSE RawFile(<<>>)
    BY <1>1 DEF Create, SetTarget, Target, InPlace
<1>7. Written' = <<>>
    BY <1>6 DEF Written, SparseFile, RawFile
<1>8. TargetHasChunks'
    BY <1>1, <1>3, <1>4, <1>6, <1>7 DEF TargetHasChunks, Emitted, IInv, Progress, ScanIInv, ScanTypeOK
<1>9. OtherFiles'
    BY <1>1, <1>3, <1>4 DEF OtherFiles, IInv, Create, SetTarget, InPlace
<1> QED BY <1>5, <1>8, <1>9 DEF IInv

(* The scan keeps what its own proof says, and touches no file.             *)
LEMMA ScanKeeps ==
    ASSUME IInv, Scan
    PROVE  IInv'
<1>1. /\ At("scan") /\ UNCHANGED <<route, stopped, path, tmp>> /\ raw' = raw /\ rule' = rule
    BY DEF Scan, scanVars, ScanBlock, OpenRun, ExtendRun
<1>2. /\ route \in AllRoutes /\ pc \in 1..(Len(Steps(route)) + 1) /\ ScanIInv
    BY DEF IInv, Progress
<1>3. /\ ~Done /\ ~Passed("scan") /\ ~Passed("header") /\ ~Passed("emit") /\ ~Passed("publish")
    BY <1>1, <1>2, StepsInOrder
<1>4. Target' = Target /\ Written' = Written
    BY <1>1 DEF Target, Written
<1>5. CASE ScanBlock /\ pc' = pc
    <2>1. /\ \A step : Passed(step)' <=> Passed(step)
          /\ Done' <=> Done
        BY <1>1, <1>5 DEF Passed, Done
    <2>2. ScanIInv'
        BY <1>2, <1>5, OpenRunKeeps, ExtendRunKeeps DEF ScanBlock
    <2>3. Progress'
        BY <1>1, <1>2, <1>3, <1>5, <2>1, <2>2 DEF IInv, Progress
    <2>4. TargetHasChunks'
        <3>1. Emitted(<<>>)'
            BY <2>2 DEF Emitted, ScanIInv, ScanTypeOK
        <3> QED BY <1>1, <1>3, <1>4, <2>1, <3>1 DEF IInv, TargetHasChunks
    <2>5. OtherFiles'
        BY <1>1, <1>3, <1>4, <2>1 DEF IInv, OtherFiles, FileOK, NeverMistaken
    <2> QED BY <2>3, <2>4, <2>5 DEF IInv
<1>6. CASE ~Scanning /\ pc' = pc + 1 /\ UNCHANGED scanVars
    <2>1. /\ \A other : Passed(other)' <=> Passed(other) \/ other = "scan"
          /\ pc' \in 1..(Len(Steps(route')) + 1)
          /\ InPlace(route) => ~Done'
        BY <1>1, <1>2, <1>6, OneStepPassed
    <2>2. index' = Len(raw')
        BY <1>1, <1>2, <1>6 DEF Scanning, scanVars, ScanIInv, ScanTypeOK
    <2>3. Progress'
        BY <1>1, <1>2, <1>6, <2>1, <2>2, ScanKept DEF IInv, Progress
    <2>4. TargetHasChunks'
        BY <1>1, <1>2, <1>3, <1>4, <1>6, <2>1, ScanKept DEF IInv, TargetHasChunks
    <2>5. OtherFiles'
        BY <1>1, <1>3, <1>4, <2>1 DEF IInv, OtherFiles, FileOK, NeverMistaken
    <2> QED BY <2>3, <2>4, <2>5 DEF IInv
<1> QED BY <1>5, <1>6 DEF Scan

(* The header is written when the runs are known, before any chunk.         *)
LEMMA WriteHeaderKeeps ==
    ASSUME IInv, WriteHeader
    PROVE  IInv'
<1>1. /\ At("header") /\ pc' = pc + 1 /\ route' = route /\ stopped' = stopped
      /\ UNCHANGED scanVars /\ raw' = raw /\ rule' = rule /\ index' = index
    BY DEF WriteHeader, scanVars
<1>2. /\ route \in AllRoutes /\ pc \in 1..(Len(Steps(route)) + 1) /\ ScanIInv
    BY DEF IInv, Progress
<1>3. /\ ~Done /\ Passed("create") /\ Passed("scan") /\ ~Passed("header") /\ ~Passed("publish")
    BY <1>1, <1>2, StepsInOrder
<1>4. /\ \A other : Passed(other)' <=> Passed(other) \/ other = "header"
      /\ pc' \in 1..(Len(Steps(route')) + 1)
      /\ InPlace(route) => ~Done'
    BY <1>1, <1>2, OneStepPassed
<1>5. Progress'
    BY <1>1, <1>2, <1>3, <1>4, ScanKept DEF IInv, Progress
<1>6. Target' = Container(Written)
    BY <1>1 DEF WriteHeader, SetTarget, Target, InPlace, Container
<1>7. Written' = Written
    BY <1>6 DEF Written, Container, SparseFile
<1>8. TargetHasChunks'
    BY <1>1, <1>2, <1>3, <1>4, <1>6, <1>7, ScanKept DEF TargetHasChunks, WholeChunks, IInv, scanVars
<1>9. OtherFiles'
    BY <1>1, <1>3, <1>4 DEF OtherFiles, IInv, WriteHeader, SetTarget, InPlace
<1> QED BY <1>5, <1>8, <1>9 DEF IInv
(* While chunks are written the file is a container, its header's counts   *)
(* there or still zero.                                                    *)
LEMMA Emitting ==
    ASSUME IInv, At("emit")
    PROVE  /\ ScanIInv /\ Emitted(Written) /\ ~Done /\ Target.chunks = Written
           /\ Passed("create") /\ Passed("scan") /\ ~Passed("publish") /\ ~Passed("emit")
           /\ \E total, count :
                  /\ Target = SparseFile(total, count, Written)
                  /\ Passed("header") => total = Len(raw) /\ count = Len(runs)
                  /\ ~Passed("header") => route = "in_place" /\ total = 0 /\ count = 0
<1>1. /\ route \in AllRoutes /\ pc \in 1..(Len(Steps(route)) + 1) /\ ScanIInv
    BY DEF IInv, Progress
<1>2. /\ ~Done /\ Passed("create") /\ Passed("scan") /\ ~Passed("publish") /\ ~Passed("emit")
      /\ Passed("header") <=> route # "in_place"
    BY <1>1, StepsInOrder
<1>3. /\ Emitted(Written)
      /\ Target = IF Passed("header") THEN Container(Written) ELSE SparseFile(0, 0, Written)
    BY <1>2 DEF IInv, TargetHasChunks
<1>4. Target.chunks = Written
    BY <1>3 DEF Container, SparseFile
<1> QED BY <1>1, <1>2, <1>3, <1>4 DEF Container

(* A step that only changes the chunks of the container, and leaves them   *)
(* those of the runs.                                                      *)
LEMMA ChunksKeep ==
    ASSUME IInv, At("emit"), NEW chunks, Emitted(chunks),
           SetTarget([Target EXCEPT !.chunks = chunks]),
           UNCHANGED <<scanVars, route, pc, stopped>>
    PROVE  IInv'
<1>1. /\ raw' = raw /\ rule' = rule /\ index' = index /\ runs' = runs /\ route' = route
      /\ stopped' = stopped /\ pc' = pc
    BY DEF scanVars
<1>2. /\ ScanIInv /\ Passed("create") /\ Passed("scan") /\ ~Done
      /\ ~Passed("publish") /\ ~Passed("emit")
    BY Emitting
<1>3. PICK total, count :
          /\ Target = SparseFile(total, count, Written)
          /\ Passed("header") => total = Len(raw) /\ count = Len(runs)
          /\ ~Passed("header") => route = "in_place" /\ total = 0 /\ count = 0
    BY Emitting
<1>4. Target' = SparseFile(total, count, chunks)
    <2>1. [Target EXCEPT !.chunks = chunks] = SparseFile(total, count, chunks)
        BY <1>3 DEF SparseFile
    <2> QED BY <1>1, <2>1 DEF SetTarget, Target, InPlace
<1>5. Written' = chunks
    BY <1>4 DEF Written, SparseFile
<1>6. /\ \A step : Passed(step)' <=> Passed(step)
      /\ Done' <=> Done
    BY <1>1 DEF Passed, Done
<1>7. Progress'
    BY <1>1, <1>2, <1>6, ScanKept DEF IInv, Progress
<1>8. TargetHasChunks'
    <2>1. Emitted(chunks)'
        BY <1>1 DEF Emitted
    <2> QED BY <1>1, <1>2, <1>3, <1>4, <1>5, <1>6, <2>1 DEF TargetHasChunks, Container
<1>9. OtherFiles'
    BY <1>1, <1>2, <1>6 DEF OtherFiles, IInv, SetTarget, InPlace
<1> QED BY <1>7, <1>8, <1>9 DEF IInv

(* The next chunk header continues the written prefix of the container.     *)
LEMMA EmitChunkKeeps ==
    ASSUME IInv, EmitChunk
    PROVE  IInv'
<1> DEFINE n == Len(Written)
           run == runs[n + 1]
           new == [kind |-> run.kind, count |-> run.count, data |-> <<>>]
           chunks == Append(Written, new)
<1>1. /\ At("emit") /\ Whole /\ n < Len(runs)
      /\ SetTarget([Target EXCEPT !.chunks = Append(@, new)])
      /\ UNCHANGED <<scanVars, route, pc, stopped>>
    BY DEF EmitChunk
<1>2. ScanIInv /\ Emitted(Written) /\ Target.chunks = Written
    BY <1>1, Emitting
<1>3. /\ Written \in Seq(Chunk) /\ n \in Nat /\ Len(runs) \in Nat /\ n + 1 \in 1..Len(runs)
    BY <1>1, <1>2 DEF Emitted, ScanIInv, ScanTypeOK
<1>4. new \in Chunk /\ Len(new.data) = 0
    <2>1. run.kind \in {"dont_care", "fill", "raw"} /\ run.count \in Nat \ {0}
        BY <1>2, <1>3, RunFields
    <2> HIDE DEF run
    <2> QED BY <2>1 DEF Chunk
<1>5. /\ new.kind = run.kind /\ new.count = run.count
      /\ Len(new.data) <= Payload(new)
    <2>1. Payload(new) \in Nat
        BY <1>4 DEF Payload, Chunk
    <2> QED BY <1>4, <2>1
<1> HIDE DEF new
<1>6. /\ chunks \in Seq(Chunk) /\ Len(chunks) = n + 1 /\ chunks[n + 1] = new
      /\ \A j \in 1..n : chunks[j] = Written[j]
    BY <1>3, <1>4
<1> HIDE DEF chunks
<1>7. \A j \in 1..n : Len(Written[j].data) = Payload(Written[j])
    BY <1>1, <1>2, <1>3 DEF Whole, Emitted
<1>8. Emitted(chunks)
    <2>1. ASSUME NEW j \in 1..(n + 1)
          PROVE  /\ chunks[j].kind = runs[j].kind /\ chunks[j].count = runs[j].count
                 /\ Len(chunks[j].data) <= Payload(chunks[j])
                 /\ \A k \in 1..Len(chunks[j].data) : chunks[j].data[k] = raw[runs[j].start + k]
        <3>1. CASE j = n + 1
            BY <1>4, <1>5, <1>6, <3>1
        <3>2. CASE j # n + 1
            <4>1. j \in 1..n
                BY <1>3, <3>2
            <4> QED BY <1>2, <1>6, <4>1 DEF Emitted
        <3> QED BY <3>1, <3>2
    <2> QED BY <1>3, <1>6, <1>7, <2>1 DEF Emitted
<1>9. SetTarget([Target EXCEPT !.chunks = chunks])
    BY <1>1, <1>2 DEF chunks
<1> QED BY <1>1, <1>8, <1>9, ChunksKeep

(* A payload block continues the last chunk written.                        *)
LEMMA EmitPayloadKeeps ==
    ASSUME IInv, EmitPayload
    PROVE  IInv'
<1> DEFINE n == Len(Written)
           run == runs[n]
           last == Written[n]
           block == raw[run.start + Len(last.data) + 1]
           longer == [last EXCEPT !.data = Append(@, block)]
           chunks == [Written EXCEPT ![n] = longer]
<1>1. /\ At("emit") /\ ~Whole
      /\ SetTarget([Target EXCEPT !.chunks[n].data = Append(@, raw[run.start + Len(@) + 1])])
      /\ UNCHANGED <<scanVars, route, pc, stopped>>
    BY DEF EmitPayload
<1>2. ScanIInv /\ Emitted(Written) /\ Target.chunks = Written
      /\ Passed("scan") /\ index = Len(raw)
    BY <1>1, Emitting DEF IInv, Progress
<1>3. /\ Written \in Seq(Chunk) /\ n \in 1..Len(Written) /\ Len(runs) \in Nat /\ n \in 1..Len(runs)
      /\ Len(last.data) # Payload(last) /\ raw \in Seq(Blocks)
    BY <1>1, <1>2 DEF Emitted, ScanIInv, ScanTypeOK, Whole
<1>4. /\ run.start \in Nat /\ run.count \in Nat \ {0}
      /\ last \in Chunk /\ last.kind = run.kind /\ last.count = run.count
      /\ Len(last.data) < Payload(last) /\ Len(last.data) < run.count
    <2>1. run.start \in Nat /\ run.count \in Nat \ {0}
        BY <1>2, <1>3, RunFields
    <2>2. last \in Chunk /\ last.kind = run.kind /\ last.count = run.count
          /\ Len(last.data) <= Payload(last)
        BY <1>2, <1>3 DEF Emitted
    <2>3. Len(last.data) \in Nat /\ Payload(last) \in 0..run.count
        BY <2>1, <2>2 DEF Chunk, Payload
    <2> QED BY <1>3, <2>1, <2>2, <2>3
<1>5. run.start + run.count <= Len(raw)
    BY <1>2, <1>3, RunsEndInImage
<1>6. block \in Blocks
    <2>1. run.start + Len(last.data) + 1 \in 1..Len(raw)
        BY <1>3, <1>4, <1>5 DEF Chunk
    <2> QED BY <1>3, <2>1
<1> HIDE DEF block
<1>7. /\ longer \in Chunk /\ longer.kind = run.kind /\ longer.count = run.count
      /\ Len(longer.data) = Len(last.data) + 1 /\ Payload(longer) = Payload(last)
      /\ longer.data[Len(longer.data)] = block
      /\ \A k \in 1..Len(last.data) : longer.data[k] = last.data[k]
    <2>1. /\ longer.kind = last.kind /\ longer.count = last.count
          /\ longer.data = Append(last.data, block) /\ last.data \in Seq(Blocks)
        BY <1>4 DEF Chunk
    <2>2. longer \in Chunk
        <3>1. Append(last.data, block) \in Seq(Blocks)
            BY <1>6, <2>1
        <3>2. last \in Chunk
            BY <1>4
        <3> HIDE DEF last
        <3> QED BY <3>1, <3>2 DEF Chunk
    <2> HIDE DEF longer
    <2>3. Payload(longer) = Payload(last)
        BY <2>1 DEF Payload
    <2> HIDE DEF last
    <2> QED BY <1>4, <1>6, <2>1, <2>2, <2>3
<1> HIDE DEF longer
<1>8. /\ chunks \in Seq(Chunk) /\ Len(chunks) = n /\ chunks[n] = longer
      /\ \A j \in 1..n : j # n => chunks[j] = Written[j]
    BY <1>3, <1>7
<1>9. SetTarget([Target EXCEPT !.chunks = chunks])
    BY <1>1, <1>2 DEF longer, block
<1> HIDE DEF chunks
<1>10. Emitted(chunks)
    <2>1. ASSUME NEW j \in 1..n
          PROVE  /\ chunks[j].kind = runs[j].kind /\ chunks[j].count = runs[j].count
                 /\ Len(chunks[j].data) <= Payload(chunks[j])
                 /\ \A k \in 1..Len(chunks[j].data) : chunks[j].data[k] = raw[runs[j].start + k]
        <3>1. CASE j # n
            BY <1>2, <1>3, <1>8, <3>1 DEF Emitted
        <3>2. CASE j = n
            <4>1. Len(longer.data) <= Payload(longer)
                BY <1>4, <1>7 DEF Chunk, Payload
            <4>2. ASSUME NEW k \in 1..Len(longer.data)
                  PROVE  longer.data[k] = raw[run.start + k]
                <5>1. CASE k = Len(last.data) + 1
                    <6>1. run.start + k = run.start + Len(last.data) + 1
                        BY <1>4, <5>1 DEF Chunk
                    <6> QED BY <1>7, <5>1, <6>1 DEF block
                <5>2. CASE k # Len(last.data) + 1
                    <6>1. k \in 1..Len(last.data)
                        BY <1>4, <1>7, <5>2 DEF Chunk
                    <6>2. last.data[k] = raw[run.start + k]
                        BY <1>2, <1>3, <6>1 DEF Emitted
                    <6> QED BY <1>7, <6>1, <6>2
                <5> QED BY <5>1, <5>2
            <4> QED BY <1>7, <1>8, <3>2, <4>1, <4>2
        <3> QED BY <3>1, <3>2
    <2>2. \A j \in 1..(n - 1) : Len(chunks[j].data) = Payload(chunks[j])
        BY <1>2, <1>3, <1>8 DEF Emitted
    <2> QED BY <1>3, <1>8, <2>1, <2>2 DEF Emitted
<1> QED BY <1>1, <1>9, <1>10, ChunksKeep
(* Emitting ends when every run is written: the container is complete.      *)
LEMMA EmitDoneKeeps ==
    ASSUME IInv, EmitDone
    PROVE  IInv'
<1>1. /\ At("emit") /\ Whole /\ Len(Written) = Len(runs) /\ pc' = pc + 1
      /\ UNCHANGED <<scanVars, route, stopped, path, tmp>>
      /\ raw' = raw /\ rule' = rule /\ index' = index /\ runs' = runs
    BY DEF EmitDone, scanVars
<1>2. /\ route \in AllRoutes /\ pc \in 1..(Len(Steps(route)) + 1) /\ ScanIInv /\ Emitted(Written)
      /\ ~Done /\ Passed("create") /\ Passed("scan") /\ ~Passed("publish")
    BY <1>1, Emitting DEF IInv, Progress
<1>3. /\ \A other : Passed(other)' <=> Passed(other) \/ other = "emit"
      /\ pc' \in 1..(Len(Steps(route')) + 1)
      /\ InPlace(route) => ~Done'
    BY <1>1, <1>2, OneStepPassed
<1>4. Target' = Target /\ Written' = Written
    BY <1>1 DEF Target, Written
<1>5. WholeChunks(Written)
    BY <1>1, <1>2 DEF Whole, WholeChunks, Emitted
<1>6. Progress'
    BY <1>1, <1>2, <1>3, ScanKept DEF IInv, Progress
<1>7. TargetHasChunks'
    BY <1>1, <1>2, <1>3, <1>4, <1>5, ScanKept DEF IInv, TargetHasChunks, WholeChunks
<1>8. OtherFiles'
    BY <1>1, <1>2, <1>3 DEF OtherFiles, IInv
<1> QED BY <1>6, <1>7, <1>8 DEF IInv

(* The rename puts a complete container where the raw image was.            *)
LEMMA PublishKeeps ==
    ASSUME IInv, Publish
    PROVE  IInv'
<1>1. /\ At("publish") /\ pc' = pc + 1 /\ path' = tmp /\ tmp' = Nothing
      /\ UNCHANGED <<scanVars, route, stopped>>
      /\ raw' = raw /\ rule' = rule /\ index' = index /\ runs' = runs
    BY DEF Publish, scanVars
<1>2. /\ route \in AllRoutes /\ pc \in 1..(Len(Steps(route)) + 1) /\ ScanIInv
    BY DEF IInv, Progress
<1>3. /\ ~Done /\ Passed("create") /\ Passed("scan") /\ Passed("header") /\ Passed("emit")
      /\ ~Passed("publish") /\ InPlace(route)
    BY <1>1, <1>2, StepsInOrder
<1>4. /\ \A other : Passed(other)' <=> Passed(other) \/ other = "publish"
      /\ pc' \in 1..(Len(Steps(route')) + 1)
      /\ Done'
    BY <1>1, <1>2, <1>3, OneStepPassed
<1>5. /\ Emitted(Written) /\ WholeChunks(Written) /\ Len(Written) = Len(runs)
      /\ tmp = Container(Written)
    BY <1>3 DEF IInv, TargetHasChunks, Target
<1>6. Progress'
    BY <1>1, <1>2, <1>3, <1>4, ScanKept DEF IInv, Progress
<1>7. TargetHasChunks'
    BY <1>4 DEF TargetHasChunks
<1>8. OtherFiles'
    <2>1. PICK chunks : chunks = Written
        OBVIOUS
    <2>2. Emitted(chunks)' /\ Container(chunks)' = Container(chunks)
        BY <1>1, <1>2, <1>5, <2>1, ScanKept
    <2>3. \E c : path' = Container(c)' /\ Emitted(c)' /\ WholeChunks(c) /\ Len(c) = Len(runs')
        BY <1>1, <1>5, <2>1, <2>2
    <2> QED BY <1>1, <1>3, <1>4, <2>3 DEF OtherFiles, WholeChunks
<1> QED BY <1>6, <1>7, <1>8 DEF IInv

(* A process that stops leaves the files as they are.                       *)
LEMMA StopKeeps ==
    ASSUME IInv, Stop
    PROVE  IInv'
<1>1. /\ UNCHANGED <<scanVars, route, pc, path, tmp>> /\ stopped' \in BOOLEAN
      /\ raw' = raw /\ rule' = rule /\ index' = index /\ runs' = runs
    BY DEF Stop, scanVars
<1>2. /\ \A step : Passed(step)' <=> Passed(step)
      /\ Done' <=> Done
      /\ Target' = Target /\ Written' = Written
    BY <1>1 DEF Passed, Done, Target, Written
<1> QED BY <1>1, <1>2, ScanKept
        DEF IInv, Progress, TargetHasChunks, OtherFiles, WholeChunks, FileOK, NeverMistaken

(* A run on what is left starts from a raw image again.                     *)
LEMMA RerunKeeps ==
    ASSUME IInv, Rerun
    PROVE  IInv'
<1>1. /\ path' = IF InPlace(route) THEN RawFile(raw) ELSE path
      /\ index' = 0 /\ runs' = <<>> /\ pc' = 1 /\ stopped' = FALSE
      /\ UNCHANGED <<raw, rule, route, tmp>>
    BY DEF Rerun
<1>2. /\ raw \in Seq(Blocks) /\ raw # <<>> /\ ScanIInv /\ route \in AllRoutes /\ rule = RuleOf(route)
    BY DEF IInv, Progress, ScanIInv, ScanTypeOK
<1>3. /\ \A step : ~Passed(step)'
      /\ ~Done' /\ pc' \in 1..(Len(Steps(route')) + 1)
    BY <1>1, <1>2 DEF Passed, Done, Steps, AllRoutes
<1>4. ScanIInv'
    <2>1. runs' \in Seq(Run) /\ Len(runs') = 0 /\ Len(raw) \in Nat
        BY <1>1, <1>2
    <2> QED BY <1>1, <1>2, <2>1 DEF ScanIInv, ScanTypeOK, RunsTile, RunsRestore, RawRunsStayShort
<1>5. Progress'
    BY <1>1, <1>2, <1>3, <1>4 DEF Progress
<1>6. TargetHasChunks'
    BY <1>3 DEF TargetHasChunks
<1>7. OtherFiles'
    <2>1. FileOK(tmp) /\ FileOK(path) /\ NeverMistaken(path)
        BY FilesAreSafe
    <2>2. InPlace(route) => Target' = tmp
        BY <1>1 DEF Target
    <2>3. ~InPlace(route) => Target' = path /\ path' = path /\ tmp = Nothing
        BY <1>1 DEF Target, IInv, OtherFiles
    <2> QED BY <1>1, <1>3, <2>1, <2>2, <2>3 DEF OtherFiles, FileOK, NeverMistaken
<1> QED BY <1>5, <1>6, <1>7 DEF IInv

-----------------------------------------------------------------------------
(* The theorems.                                                           *)

(* Whatever runs are cut short and repeated, the invariant holds.          *)
THEOREM ContainerInvariant == Spec => []IInv
<1>1. Init => IInv
    <2> SUFFICES ASSUME Init PROVE IInv
        OBVIOUS
    <2>1. raw \in Seq(Blocks) /\ raw # <<>> /\ Len(raw) \in Nat
        <3>1. PICK n \in 1..MaxBlocks : raw \in [1..n -> Blocks]
            BY DEF Init
        <3>2. n \in Nat \ {0}
            BY BoundAssumption
        <3>3. raw \in Seq(Blocks) /\ Len(raw) = n
            BY <3>1, <3>2
        <3> QED BY <3>2, <3>3
    <2>2. runs \in Seq(Run) /\ Len(runs) = 0 /\ index = 0 /\ pc = 1 /\ runs = <<>>
        BY DEF Init
    <2>3. route \in AllRoutes /\ rule = RuleOf(route) /\ rule \in {"strict", "loose"}
        BY RoutesAssumption DEF Init, RuleOf
    <2>4. /\ \A step : ~Passed(step)
          /\ ~Done /\ pc \in 1..(Len(Steps(route)) + 1)
        BY <2>2, <2>3 DEF Passed, Done, Steps, AllRoutes
    <2>5. ScanIInv
        BY <2>1, <2>2, <2>3
           DEF ScanIInv, ScanTypeOK, RunsTile, RunsRestore, RawRunsStayShort
    <2>6. Progress
        BY <2>1, <2>3, <2>4, <2>5 DEF Init, Progress
    <2>7. OtherFiles
        BY <2>1, <2>4, PlainFiles DEF Init, OtherFiles, Target
    <2> QED BY <2>4, <2>6, <2>7 DEF IInv, TargetHasChunks
<1>2. IInv /\ [Next]_vars => IInv'
    <2> SUFFICES ASSUME IInv, [Next]_vars PROVE IInv'
        OBVIOUS
    <2>1. CASE Create
        BY <2>1, CreateKeeps
    <2>2. CASE Scan
        BY <2>2, ScanKeeps
    <2>3. CASE WriteHeader
        BY <2>3, WriteHeaderKeeps
    <2>4. CASE EmitChunk
        BY <2>4, EmitChunkKeeps
    <2>5. CASE EmitPayload
        BY <2>5, EmitPayloadKeeps
    <2>6. CASE EmitDone
        BY <2>6, EmitDoneKeeps
    <2>7. CASE Publish
        BY <2>7, PublishKeeps
    <2>8. CASE Stop
        BY <2>8, StopKeeps
    <2>9. CASE Rerun
        BY <2>9, RerunKeeps
    <2>10. CASE UNCHANGED vars
        <3>1. UNCHANGED scanVars /\ UNCHANGED <<raw, rule, index, runs, route, pc, stopped, path, tmp>>
            BY <2>10 DEF vars, scanVars
        <3>2. /\ \A step : Passed(step)' <=> Passed(step)
              /\ Done' <=> Done
              /\ Target' = Target /\ Written' = Written
            BY <3>1 DEF Passed, Done, Target, Written
        <3> QED BY <3>1, <3>2, ScanKept
                DEF IInv, Progress, TargetHasChunks, OtherFiles, WholeChunks, FileOK, NeverMistaken
    <2> QED BY <2>1, <2>2, <2>3, <2>4, <2>5, <2>6, <2>7, <2>8, <2>9, <2>10 DEF Next, Write
<1> QED BY <1>1, <1>2, PTL DEF Spec

(* Every file a writer can leave is of the shapes the model knows.         *)
THEOREM ContainerTypes == Spec => []TypeOK
<1>1. IInv => TypeOK
    <2> SUFFICES ASSUME IInv PROVE TypeOK
        OBVIOUS
    <2>1. pc \in 1..6
        BY DEF IInv, Progress, Steps, AllRoutes
    <2>2. FileOK(path) /\ FileOK(tmp)
        BY FilesAreSafe
    <2> QED BY <2>1, <2>2 DEF IInv, Progress, ScanIInv, TypeOK, FileOK
<1> QED BY <1>1, ContainerInvariant, PTL

(* A container that a strict writer finished gives the raw image back: for *)
(* every image, and whatever earlier runs left at the paths.               *)
THEOREM StrictWritersRestore == Spec => []StrictRoutesRestore
<1>1. IInv => StrictRoutesRestore
    <2> SUFFICES ASSUME IInv, Done, rule = "strict" PROVE Contents(path) = raw
        BY DEF StrictRoutesRestore
    <2>1. /\ ScanIInv /\ Passed("create") /\ Passed("scan") /\ Passed("header") /\ Passed("emit")
          /\ Passed("publish") <=> InPlace(route)
        BY StepsInOrder DEF IInv, Progress
    <2>2. index = Len(raw)
        BY <2>1 DEF IInv, Progress
    <2>3. PICK chunks : /\ path = Container(chunks) /\ Emitted(chunks)
                        /\ WholeChunks(chunks) /\ Len(chunks) = Len(runs)
        <3>1. CASE InPlace(route)
            BY <3>1 DEF IInv, OtherFiles
        <3>2. CASE ~InPlace(route)
            BY <2>1, <3>2 DEF IInv, TargetHasChunks, Target
        <3> QED BY <3>1, <3>2
    <2> QED BY <2>1, <2>2, <2>3, CompleteContainer
<1> QED BY <1>1, ContainerInvariant, PTL

(* At whatever step an in-place conversion is cut short before its rename, *)
(* the raw image is at the path.                                           *)
THEOREM InPlaceKeepsTheImage == Spec => []RawImageIsThereUntilTheRename
<1>1. IInv => RawImageIsThereUntilTheRename
    <2> SUFFICES ASSUME IInv, InPlace(route), ~Done PROVE Contents(path) = raw
        BY DEF RawImageIsThereUntilTheRename
    <2>1. path = RawFile(raw) /\ raw \in Seq(Blocks) /\ raw # <<>>
        BY DEF IInv, OtherFiles, Progress, ScanIInv, ScanTypeOK
    <2> QED BY <2>1, PlainFiles
<1> QED BY <1>1, ContainerInvariant, PTL

(* No container that was cut short, on any route, is taken for another     *)
(* image.                                                                  *)
THEOREM CutContainersNeverMislead == Spec => []CutContainersAreRefused
<1>1. IInv => CutContainersAreRefused
    BY FilesAreSafe DEF CutContainersAreRefused, NeverMistaken
<1> QED BY <1>1, ContainerInvariant, PTL

=============================================================================
