--------------------------- MODULE SparseContainer ---------------------------
(***************************************************************************)
(* Android sparse containers: how the program writes one, step by step,    *)
(* and what Image::open and read_at make of whatever is on disk when it    *)
(* stops.  Four routes of the code write a container.  Two rewrite a raw   *)
(* image in place through a sibling file and a rename, two write the       *)
(* output file directly; each scans with one of the rules of SparseScan.   *)
(* Any step may be the last one (an I/O error or a kill), and the command  *)
(* may be run again.                                                       *)
(***************************************************************************)
EXTENDS SparseScan

CONSTANTS
    MaxBlocks,  \* bound: blocks in an image
    Failed,     \* what a reader has instead of content: an error
    Routes      \* the routes in play, a subset of AllRoutes

AllRoutes == {"in_place", "rebuilt", "stream", "patched"}

ASSUME BoundAssumption == MaxBlocks \in Nat
ASSUME RoutesAssumption == Routes \subseteq AllRoutes
ASSUME FailedAssumption == Failed \notin Blocks

VARIABLES
    route,      \* the writer that runs
    pc,         \* which of its steps is next
    stopped,    \* an error or a kill ended the run
    path,       \* the file at the output path
    tmp         \* the sibling `.sparse_tmp` file

vars == <<scanVars, route, pc, stopped, path, tmp>>

-----------------------------------------------------------------------------
(* Files.  A container is its header (the counts of blocks and of chunks)  *)
(* and the chunks that reached the disk, the last perhaps without all of   *)
(* its payload.  A RAW chunk's payload is its blocks, a FILL chunk's one   *)
(* word, a DONT_CARE chunk has none.                                       *)
Nothing == [container |-> "none"]
RawFile(blocks) == [container |-> "raw", blocks |-> blocks]
SparseFile(total, count, chunks) ==
    [container |-> "sparse", total |-> total, count |-> count, chunks |-> chunks]

Payload(chunk) == CASE chunk.kind = "raw" -> chunk.count
                    [] chunk.kind = "fill" -> 1
                    [] OTHER -> 0

(* SparseImage::parse sums the chunks' lengths as it meets them.  *)
ChunkEnds(chunks) ==
    LET end[j \in 0..Len(chunks)] == IF j = 0 THEN 0 ELSE end[j - 1] + chunks[j].count
    IN  end
ChunkStart(file, j) == ChunkEnds(file.chunks)[j - 1]

(* SparseImage::parse: the chunk headers the header promises are there, no *)
(* chunk is empty, a FILL chunk's word is read, a RAW chunk's payload is   *)
(* only skipped over (a seek past the end of the file succeeds), and the   *)
(* lengths add up.  Chunks past the promised count are never looked at.    *)
Opens(file) ==
    \/ file.container = "raw"
    \/ /\ file.container = "sparse"
       /\ file.count <= Len(file.chunks)
       /\ \A j \in 1..file.count :
              /\ file.chunks[j].count > 0
              /\ file.chunks[j].kind = "fill" => file.chunks[j].data # <<>>
       /\ ChunkStart(file, file.count + 1) = file.total

LogicalBlocks(file) == IF file.container = "raw" THEN Len(file.blocks) ELSE file.total

(* read_at searches for the last chunk that starts at or before the block. *)
ChunkOf(file, i) == CHOOSE j \in 1..file.count : /\ ChunkStart(file, j) <= i
                                                 /\ i < ChunkStart(file, j + 1)

(* A mutant: a short read leaves the zeros of the buffer.  *)
ShortReadAt(file, i) ==
    IF file.container = "raw" THEN file.blocks[i + 1]
    ELSE LET chunk == file.chunks[ChunkOf(file, i)]
             place == IF chunk.kind = "raw" THEN i - ChunkStart(file, ChunkOf(file, i)) ELSE 0
         IN IF place < Len(chunk.data) THEN chunk.data[place + 1] ELSE Zero

(* A mutant: a RAW chunk serves its first block for all of them.  *)
FirstOfChunkAt(file, i) ==
    IF file.container = "raw" THEN file.blocks[i + 1]
    ELSE LET chunk == file.chunks[ChunkOf(file, i)]
         IN CASE chunk.kind = "dont_care" -> Zero
              [] chunk.data = <<>> -> Failed
              [] OTHER -> chunk.data[1]

(* A RAW payload that is not there fails read_exact.  *)
ReadAt(file, i) ==
    IF file.container = "raw" THEN file.blocks[i + 1]
    ELSE LET chunk == file.chunks[ChunkOf(file, i)]
             place == IF chunk.kind = "raw" THEN i - ChunkStart(file, ChunkOf(file, i)) ELSE 0
         IN CASE chunk.kind = "dont_care" -> Zero
              [] place < Len(chunk.data) -> chunk.data[place + 1]
              [] OTHER -> Failed

(* stream_logical: the image a reader gets, or that it gets an error.  *)
Contents(file) ==
    IF ~Opens(file) \/ \E i \in 0..(LogicalBlocks(file) - 1) : ReadAt(file, i) = Failed
    THEN Failed
    ELSE [i \in 1..LogicalBlocks(file) |-> ReadAt(file, i - 1)]

-----------------------------------------------------------------------------
(* The writers, as the order of their steps: sparsify_file_in_place,       *)
(* convert_raw_to_sparse, convert_container (sparsify_file_to_stdout and   *)
(* the converters of write/convert.rs do the same), write_patched_image.   *)

(* A mutant: the sibling is renamed before its header is patched.  *)
StepsHeaderLast(r) ==
    CASE r = "in_place" -> <<"create", "scan", "emit", "publish", "header">>
      [] r = "rebuilt"  -> <<"scan", "create", "header", "emit", "publish">>
      [] r = "stream"   -> <<"scan", "create", "header", "emit">>
      [] r = "patched"  -> <<"create", "scan", "header", "emit">>

Steps(r) ==
    CASE r = "in_place" -> <<"create", "scan", "emit", "header", "publish">>
      [] r = "rebuilt"  -> <<"scan", "create", "header", "emit", "publish">>
      [] r = "stream"   -> <<"scan", "create", "header", "emit">>
      [] r = "patched"  -> <<"create", "scan", "header", "emit">>

InPlace(r) == r \in {"in_place", "rebuilt"}
RuleOf(r) == IF r \in {"in_place", "stream"} THEN "strict" ELSE "loose"

Done == pc > Len(Steps(route))
At(step) == ~stopped /\ ~Done /\ Steps(route)[pc] = step

(* The file being written.  *)
Target == IF InPlace(route) THEN tmp ELSE path
SetTarget(file) == IF InPlace(route) THEN tmp' = file /\ UNCHANGED path
                                     ELSE path' = file /\ UNCHANGED tmp

Written == IF Target.container = "sparse" THEN Target.chunks ELSE <<>>

(* The writer is between chunks.  *)
Whole ==
    Written # <<>> => LET last == Written[Len(Written)] IN Len(last.data) = Payload(last)

(* File::create truncates whatever is there.  sparsify_file_to_seekable    *)
(* goes on to write a header with counts of zero to patch later.           *)
Create ==
    /\ At("create")
    /\ SetTarget(IF route = "in_place" THEN SparseFile(0, 0, <<>>) ELSE RawFile(<<>>))
    /\ pc' = pc + 1
    /\ UNCHANGED <<scanVars, route, stopped>>

Scan ==
    /\ At("scan")
    /\ \/ ScanBlock /\ UNCHANGED pc
       \/ ~Scanning /\ pc' = pc + 1 /\ UNCHANGED scanVars
    /\ UNCHANGED <<route, stopped, path, tmp>>

(* write_sparse_header, at the start of the file, once the runs are known. *)
WriteHeader ==
    /\ At("header")
    /\ SetTarget(SparseFile(Len(raw), Len(runs), Written))
    /\ pc' = pc + 1
    /\ UNCHANGED <<scanVars, route, stopped>>

(* emit_sparse_runs: a chunk's header, ...  *)
EmitChunk ==
    /\ At("emit")
    /\ Whole /\ Len(Written) < Len(runs)
    /\ LET run == runs[Len(Written) + 1] IN
       SetTarget([Target EXCEPT
           !.chunks = Append(@, [kind |-> run.kind, count |-> run.count, data |-> <<>>])])
    /\ UNCHANGED <<scanVars, route, pc, stopped>>

(* ... then its payload, block by block from the raw image, or the word    *)
(* that the run's first block repeats.                                     *)
EmitPayload ==
    /\ At("emit")
    /\ ~Whole
    /\ LET n == Len(Written)
           run == runs[n]
       IN SetTarget([Target EXCEPT
              !.chunks[n].data = Append(@, raw[run.start + Len(@) + 1])])
    /\ UNCHANGED <<scanVars, route, pc, stopped>>

EmitDone ==
    /\ At("emit")
    /\ Whole /\ Len(Written) = Len(runs)
    /\ pc' = pc + 1
    /\ UNCHANGED <<scanVars, route, stopped, path, tmp>>

(* fs::rename of the sibling over the raw image.  *)
Publish ==
    /\ At("publish")
    /\ path' = tmp
    /\ tmp' = Nothing
    /\ pc' = pc + 1
    /\ UNCHANGED <<scanVars, route, stopped>>

(* An I/O error leaves through `?`, a kill at any point: neither cleans up.*)
Stop ==
    /\ ~stopped /\ ~Done
    /\ stopped' = TRUE
    /\ UNCHANGED <<scanVars, route, pc, path, tmp>>

(* The same command again.  An in-place route starts once the raw image is *)
(* at the path again; a direct one finds what the last run left there.     *)
Rerun ==
    /\ stopped \/ Done
    /\ path' = IF InPlace(route) THEN RawFile(raw) ELSE path
    /\ index' = 0 /\ runs' = <<>> /\ pc' = 1 /\ stopped' = FALSE
    /\ UNCHANGED <<raw, rule, route, tmp>>

Init ==
    /\ raw \in UNION {[1..n -> Blocks] : n \in 1..MaxBlocks}
    /\ route \in Routes
    /\ rule = RuleOf(route)
    /\ index = 0 /\ runs = <<>> /\ pc = 1 /\ stopped = FALSE
    /\ path = IF InPlace(route) THEN RawFile(raw) ELSE Nothing
    /\ tmp = Nothing

Write == Create \/ Scan \/ WriteHeader \/ EmitChunk \/ EmitPayload \/ EmitDone \/ Publish

Next == Write \/ Stop \/ Rerun

Spec == Init /\ [][Next]_vars

-----------------------------------------------------------------------------
TypeOK ==
    /\ ScanTypeOK
    /\ route \in AllRoutes /\ rule = RuleOf(route)
    /\ pc \in 1..6 /\ stopped \in BOOLEAN
    /\ \A file \in {path, tmp} :
           \/ file = Nothing
           \/ file.container = "raw" /\ file.blocks \in {<<>>, raw}
           \/ /\ file.container = "sparse"
              /\ file.total \in {0, Len(raw)} /\ file.count \in 0..Len(raw)
              /\ \A j \in DOMAIN file.chunks :
                     Len(file.chunks[j].data) \in 0..Payload(file.chunks[j])

(* A container that a strict writer finished, whatever the runs before it  *)
(* left behind, gives a reader the raw image back: the scan's merging, the *)
(* header's counts, the payloads and the reader's search agree.            *)
StrictRoutesRestore == Done /\ rule = "strict" => Contents(path) = raw

(* sparsify_file_in_place and convert_raw_to_sparse never leave less at    *)
(* the path than the raw image: until the rename, at any point a run can   *)
(* stop, a reader of the path still gets it.                               *)
RawImageIsThereUntilTheRename == InPlace(route) /\ ~Done => Contents(path) = raw

(* A container that was cut short is never taken for a shorter or another  *)
(* image: whatever a run left at the path, a reader gets an error, nothing *)
(* at all, or an image as long as the raw one; the strict writers' readers *)
(* get the raw one itself.                                                 *)
CutContainersAreRefused ==
    LET image == Contents(path) IN
    \/ image \in {Failed, <<>>, raw}
    \/ rule = "loose" /\ Len(image) = Len(raw)

(* --sparse-output only selects the container (README.md:180 and the help, *)
(* write/mod.rs:2410-2411), so the loose writers restore the image as well.*)
SparseOutputRestores == Done => Contents(path) = raw

=============================================================================
