--------------------------- MODULE ClusterPromises ---------------------------
(***************************************************************************)
(* What a compressed image promises: readers get every file back, every    *)
(* anchor leads to its block, and no index leaves the space reserved for   *)
(* it.                                                                     *)
(***************************************************************************)
EXTENDS ClusterStream

(* The pieces are bytes from..to-1 of file i, in the order of their        *)
(* numbers and without a gap.                                              *)
Yields(pieces, i, from, to) ==
    LET all == DOMAIN pieces
    IN  /\ \A p \in all : pieces[p].file = i
        /\ \E p \in all : (\A q \in all : p <= q) /\ pieces[p].from = from
        /\ \E p \in all : (\A q \in all : q <= p) /\ pieces[p].to = to
        /\ \A p, q \in all :
              p < q /\ (\A r \in all : ~(p < r /\ r < q)) => pieces[p].to = pieces[q].from

Compressed == {i \in DOMAIN files : files[i].size > 0}

Offsets(i) == {o \in {0, 1, BlockSize - 1, BlockSize, 3 * BlockSize, files[i].size - 1} : o < files[i].size}
Lengths == {1, BlockSize, BlockSize + 1, 7 * BlockSize}

(* The index a file was streamed with leads every reader to every byte of  *)
(* it, whatever was packed jointly, alone or not at all, over any number   *)
(* of batches: cat, ranges at and across block boundaries, and the whole   *)
(* file at once ("results keep input order", compress.rs:563-565).         *)
FilesReadBack ==
    pc = "done" => \A i \in Compressed :
        /\ ~SegmentsOf(i).bad
        /\ Yields(ReadStreaming(i), i, 0, files[i].size)
        /\ \A o \in Offsets(i), n \in Lengths :
               Yields(ReadRange(i, o, n), i, o, IF o + n < files[i].size THEN o + n ELSE files[i].size)
        /\ \A read \in ReadWhole(i) : read.piece.file = i /\ read.piece.from = read.at

(* Anchors lead to the block of every entry without following the chain of *)
(* segments before it.  The readers here take only the first one of a file *)
(* from its anchor and cannot notice a wrong one; the kernel resolves each *)
(* from its own (inode.rs:225-226).                                        *)
AnchorsLead ==
    pc = "done" => \A i \in Compressed : \A c \in DOMAIN EntriesIn(i) :
        LET entry == EntriesIn(i)[c]
        IN  entry.kind # NONHEAD =>
                /\ entry.pblk \in DOMAIN disk
                /\ disk[entry.pblk].file = i
                /\ disk[entry.pblk].from = Start(entry)
                /\ disk[entry.pblk].head = (entry.kind # PLAIN)

(* Packs stay in the space that was reserved for them before anything was  *)
(* packed: no inode, and no map header, of another file is overwritten,    *)
(* and the check at the end, which would come too late, never fails.       *)
ReservationsHold ==
    /\ pc # "overrun"
    /\ \A i \in DOMAIN files : \A u \in BodyUnits(i) : meta[u].what = "inode"
    /\ \A i \in Compressed : i < file => meta[DataOff(i)].what = "header"
=============================================================================
