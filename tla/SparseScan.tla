----------------------------- MODULE SparseScan -----------------------------
(***************************************************************************)
(* How an image becomes the chunk list of an Android sparse container:     *)
(* one pass over its blocks, each of which opens a chunk or extends the    *)
(* last one.  Three loops of the program do this.  scan_sparse_runs        *)
(* (core/image.rs) is the strict one; write_patched_sparse and             *)
(* convert_raw_to_sparse (write/mod.rs) share a looser test for extending  *)
(* a FILL chunk.  A block is Zero, one of Patterns (one 32-bit word        *)
(* repeated, so the block stands for its word) or one of Textures          *)
(* (anything else).                                                        *)
(***************************************************************************)
EXTENDS Integers, Sequences

CONSTANTS
    Zero,       \* the block of zeros
    Patterns,   \* the blocks that repeat one non-zero word
    Textures,   \* blocks of any other content
    MaxRawRun   \* SPARSE_MAX_RAW_RUN: blocks in one RAW chunk of the strict scan

Blocks == {Zero} \cup Patterns \cup Textures

ASSUME BlocksAssumption == /\ Zero \notin Patterns \cup Textures
                           /\ Patterns \cap Textures = {}
ASSUME MaxRawRunAssumption == MaxRawRun \in Nat \ {0}

VARIABLES
    raw,    \* the image, one entry a block; block i is raw[i + 1]
    rule,   \* "strict" or "loose": which loop runs
    index,  \* the next block to look at
    runs    \* the chunk descriptors so far

scanVars == <<raw, rule, index, runs>>

(* classify_block, and the three-way test of the loose loops.  *)
Kind(b) == CASE b = Zero -> "dont_care"
             [] b \in Patterns -> "fill"
             [] OTHER -> "raw"

(* A mutant: the strict loop without the test of the FILL word.  *)
ExtendsByKind(run, b) ==
    /\ Kind(b) = run.kind
    /\ run.kind = "raw" => run.count < MaxRawRun

(* A mutant: the limit on RAW runs is off by one.  *)
ExtendsPastLimit(run, b) ==
    /\ Kind(b) = run.kind
    /\ run.kind = "fill" => b = run.fill
    /\ run.kind = "raw" => run.count <= MaxRawRun

(* The strict loop lets a block into a run of its own kind: a FILL block   *)
(* only with the same word, a RAW block only while the run is short.       *)
StrictlyExtends(run, b) ==
    /\ Kind(b) = run.kind
    /\ run.kind = "fill" => b = run.fill
    /\ run.kind = "raw" => run.count < MaxRawRun

(* The loose loops ask of a FILL run's next block only that its words are  *)
(* equal to one another, which a block of zeros satisfies too, and never   *)
(* extend a RAW run.                                                       *)
LooselyExtends(run, b) ==
    \/ run.kind = "dont_care" /\ b = Zero
    \/ run.kind = "fill" /\ b \notin Textures

Extends(run, b) == IF rule = "strict" THEN StrictlyExtends(run, b)
                                      ELSE LooselyExtends(run, b)

Run == [kind : {"dont_care", "fill", "raw"}, start : Nat, count : Nat \ {0},
        fill : Blocks]

(* A mutant: the run is described before its first block is counted.  *)
UncountedRun(i, b) == [kind |-> Kind(b), start |-> i, count |-> 0,
                       fill |-> IF Kind(b) = "fill" THEN b ELSE Zero]

(* A mutant: the start is taken after the index has moved on.  *)
LateRun(i, b) == [kind |-> Kind(b), start |-> i + 1, count |-> 1,
                  fill |-> IF Kind(b) = "fill" THEN b ELSE Zero]

(* `fill` is meant only for FILL chunks; others carry Zero.  *)
NewRun(i, b) == [kind |-> Kind(b), start |-> i, count |-> 1,
                 fill |-> IF Kind(b) = "fill" THEN b ELSE Zero]

Scanning == index < Len(raw)

(* The block under the scan's head.  *)
Block == raw[index + 1]

CanExtend == runs # <<>> /\ Extends(runs[Len(runs)], Block)

(* The outer loop: a block that does not continue the last run opens one.  *)
OpenRun ==
    /\ Scanning
    /\ ~CanExtend
    /\ runs' = Append(runs, NewRun(index, Block))
    /\ index' = index + 1
    /\ UNCHANGED <<raw, rule>>

(* The inner loop: the block joins the last run.  *)
ExtendRun ==
    /\ Scanning
    /\ CanExtend
    /\ runs' = [runs EXCEPT ![Len(runs)].count = @ + 1]
    /\ index' = index + 1
    /\ UNCHANGED <<raw, rule>>

ScanBlock == OpenRun \/ ExtendRun

ScanInit ==
    /\ raw \in Seq(Blocks)
    /\ rule = "strict"
    /\ index = 0
    /\ runs = <<>>

(* The scan of scan_sparse_runs alone, over an image of any length.  *)
ScanSpec == ScanInit /\ [][ScanBlock]_scanVars

ScanTypeOK ==
    /\ raw \in Seq(Blocks)
    /\ rule \in {"strict", "loose"}
    /\ index \in 0..Len(raw)
    /\ runs \in Seq(Run)

(* The block that a reader gets back at place k of a run: a RAW chunk      *)
(* carries the blocks themselves, the others only their kind and word.     *)
Restored(image, run, k) == CASE run.kind = "raw" -> image[run.start + k + 1]
                             [] run.kind = "fill" -> run.fill
                             [] OTHER -> Zero

(* The runs stand side by side from the first block to the scan's head.    *)
(* Readers find a chunk by binary search on its start, and the container   *)
(* is refused when its chunks do not add up to its header's block count.   *)
RunsTile ==
    /\ runs = <<>> => index = 0
    /\ runs # <<>> => /\ runs[1].start = 0
                      /\ runs[Len(runs)].start + runs[Len(runs)].count = index
    /\ \A j \in 1..(Len(runs) - 1) :
           runs[j].start + runs[j].count = runs[j + 1].start

(* Every scanned block comes back from the run it was put in: merging      *)
(* blocks into a chunk never loses what tells them apart.                  *)
RunsRestore ==
    rule = "strict" =>
        \A j \in 1..Len(runs) : \A k \in 0..(runs[j].count - 1) :
            Restored(raw, runs[j], k) = raw[runs[j].start + k + 1]

(* No RAW chunk's payload outgrows the 32-bit size field it is written in. *)
RawRunsStayShort ==
    rule = "strict" =>
        \A j \in 1..Len(runs) : runs[j].kind = "raw" => runs[j].count <= MaxRawRun

=============================================================================
