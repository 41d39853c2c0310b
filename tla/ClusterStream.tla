---------------------------- MODULE ClusterStream ----------------------------
(***************************************************************************)
(* The payload phase of a compressed image (rebuild_compressed, and        *)
(* ext4_to_erofs_compressed, which is the same but for the check at the    *)
(* end, which there compares where indexes start): every file streams      *)
(* through stream_compressed_file in batches of cluster pairs, its blocks  *)
(* to the end of the image and its index packs into the space that         *)
(* inode_slots reserved behind its inode; and the readers of the result.   *)
(***************************************************************************)
EXTENDS ErofsGeometry, ClusterIndex

CONSTANTS
    BatchBytes,     \* 512 KiB: pairs of a batch, times the block size
    BatchLimit,     \* 64: and their number at most
    Jobs            \* what to write: sequences of files [size, ctx]

ASSUME StreamAssumption ==
    /\ BatchBytes \in Nat /\ BatchLimit \in Nat \ {0}
    /\ BlockSize = SlotsPerBlock * SlotBytes
    /\ Jobs \subseteq Seq([size : Nat, ctx : BOOLEAN]) \ {<<>>}

VARIABLES
    files,
    nids,       \* the NID of each file
    pc,         \* "file", "stream", "check", "done" or "overrun"
    file,       \* the file being written
    lcn,        \* its next unread cluster, or that of the carry
    carry,      \* a cluster is carried over to the next batch
    cursor,     \* the next payload block
    index,      \* where the next pack goes, in units of 8 bytes
    ends,       \* for each file, where its index ended
    meta,       \* the inode area by units of 8 bytes
    disk        \* the payload blocks: the span of a file each holds

vars == <<files, nids, pc, file, lcn, carry, cursor, index, ends, meta, disk>>

-----------------------------------------------------------------------------
(* The layout that precedes the payloads (ErofsLayout): the root directory *)
(* has the first NID, every file the first one after it that its slots     *)
(* leave clear of the superblock.                                          *)
ClustersOf(f) == Clusters(f.size)

NidsOf(fs) ==
    LET nid[i \in 0..Len(fs)] ==
            IF i = 0 THEN SkipSuperblock(1, 1)
            ELSE LET before == IF i = 1 THEN 1
                               ELSE InodeSlots(fs[i - 1].ctx, ClustersOf(fs[i - 1]))
                 IN  SkipSuperblock(nid[i - 1] + before, InodeSlots(fs[i].ctx, ClustersOf(fs[i])))
    IN  [i \in DOMAIN fs |-> nid[i]]

Body(i) == SlotOf(nids[i]) * SlotBytes
BodyUnits(i) == (Body(i) \div 8)..((Body(i) + SlotBytes + AreaLen(files[i].ctx)) \div 8 - 1)

(* data_off, as the writer and inode::read compute it: the 8-byte map      *)
(* header; the index follows.                                              *)
DataOff(i) == CeilDiv(Body(i) + SlotBytes + AreaLen(files[i].ctx), 8)

(* The inode region, then one block for the root directory.  *)
FirstPayload ==
    LET last == files[Len(files)]
        next == nids[Len(files)] + InodeSlots(last.ctx, ClustersOf(last))
    IN  MetaBlock + CeilDiv(next, SlotsPerBlock) + 1

(* Written over what is there, from `at` on.  *)
Put(map, at, cells) ==
    LET written == at..(at + Len(cells) - 1)
    IN  [x \in DOMAIN map \cup written |-> IF x \in written THEN cells[x - at + 1] ELSE map[x]]

Init ==
    /\ files \in Jobs /\ nids = NidsOf(files)
    /\ pc = "file" /\ file = 1 /\ lcn = 0 /\ carry = FALSE
    /\ cursor = FirstPayload
    /\ index = 0 /\ ends = <<>>
    /\ meta = [u \in UNION {BodyUnits(i) : i \in DOMAIN files} |-> [what |-> "inode"]]
    /\ disk = <<>>

(* The map header; an empty file has no clusters and is left alone.  *)
StartFile ==
    /\ pc = "file" /\ file <= Len(files)
    /\ IF files[file].size = 0
       THEN /\ file' = file + 1 /\ ends' = Append(ends, 0)
            /\ UNCHANGED <<pc, lcn, carry, index, meta>>
       ELSE /\ meta' = Put(meta, DataOff(file), <<[what |-> "header"]>>)
            /\ index' = DataOff(file) + 1
            /\ lcn' = 0 /\ carry' = FALSE /\ pc' = "stream"
            /\ UNCHANGED <<file, ends>>
    /\ UNCHANGED <<files, nids, cursor, disk>>

(* batch_clusters: whole pairs, so that packs never straddle batches.  *)
BatchClusters ==
    LET fit == BatchBytes \div BlockSize
    IN  PairSize * (IF fit < 1 THEN 1 ELSE IF fit > BatchLimit THEN BatchLimit ELSE fit)

Total == ClustersOf(files[file])

(* The clusters of this batch, before an odd one is carried over.  *)
Taken ==
    LET carried == IF carry THEN 1 ELSE 0
        rest == Total - (lcn + carried)
        want == BatchClusters - carried
    IN  carried + IF rest < want THEN rest ELSE want

CarriesOver == Taken % 2 = 1 /\ lcn + Taken < Total
Batch == IF CarriesOver THEN Taken - 1 ELSE Taken

(* The bytes of the file a pcluster holds.  *)
SpanOf(pcluster) ==
    LET end == (pcluster.lcn + pcluster.n) * BlockSize
    IN  [file |-> file, head |-> pcluster.head, from |-> pcluster.lcn * BlockSize,
         to |-> IF end < files[file].size THEN end ELSE files[file].size]

(* One batch (unless it is empty, which ends the loop): read, pack,       *)
(* write the index packs, append the blocks.                               *)
WriteBatch ==
    /\ pc = "stream" /\ (carry \/ lcn < Total) /\ Batch > 0
    /\ \E pclusters \in Packings(lcn, Batch) :
         LET packs == EncodePclusters(pclusters, cursor)
         IN  /\ meta' = Put(meta, index, [p \in DOMAIN packs |-> [what |-> "pack", pack |-> packs[p]]])
             /\ index' = index + Len(packs)
             /\ disk' = Put(disk, cursor, [i \in DOMAIN pclusters |-> SpanOf(pclusters[i])])
             /\ cursor' = cursor + Len(pclusters)
    /\ lcn' = lcn + Batch
    /\ carry' = CarriesOver
    /\ UNCHANGED <<files, nids, pc, file, ends>>

EndFile ==
    /\ pc = "stream" /\ ((~carry /\ lcn >= Total) \/ Batch = 0)
    /\ ends' = Append(ends, index)
    /\ file' = file + 1 /\ pc' = "file"
    /\ UNCHANGED <<files, nids, lcn, carry, cursor, index, meta, disk>>

StreamsEnd ==
    /\ pc = "file" /\ file > Len(files)
    /\ pc' = "check"
    /\ UNCHANGED <<files, nids, file, lcn, carry, cursor, index, ends, meta, disk>>

(* The reservation, in units: the header and index_len.  *)
Reserved(i) == DataOff(i) + 1 + IndexLen(ClustersOf(files[i])) \div 8

(* Only after all is written are the indexes held against their space.  *)
CheckReservations ==
    /\ pc = "check"
    /\ pc' = IF \E i \in DOMAIN files : files[i].size > 0 /\ ends[i] > Reserved(i)
             THEN "overrun" ELSE "done"
    /\ UNCHANGED <<files, nids, file, lcn, carry, cursor, index, ends, meta, disk>>

Finished == pc \in {"done", "overrun"} /\ UNCHANGED vars

Next == StartFile \/ WriteBatch \/ EndFile \/ StreamsEnd \/ CheckReservations \/ Finished

Spec == Init /\ [][Next]_vars

-----------------------------------------------------------------------------
(* The readers, over the image as it was written.  A unit of the index     *)
(* that holds no pack stands for one of zeros.                             *)
PacksOf(i) ==
    [p \in 1..Pairs(ClustersOf(files[i])) |->
        LET unit == DataOff(i) + p
        IN  IF unit \in DOMAIN meta /\ meta[unit].what = "pack" THEN meta[unit].pack
            ELSE [lo |-> 0, hi |-> 0, anchor |-> 0]]

EntriesIn(i) == CompactEntries(PacksOf(i), files[i].size)
SegmentsOf(i) == Segments(EntriesIn(i), files[i].size)

(* read_segment for bytes from..to-1: what the block holds, if it is of    *)
(* the segment's kind and, for a head, decodes to the segment's length.    *)
ReadSegment(seg, from, to) ==
    LET held == disk[seg.physical]
        at == held.from + from - seg.start
    IN  IF \/ seg.physical \notin DOMAIN disk
           \/ held.head # seg.head
           \/ seg.head /\ held.to - held.from # seg.end - seg.start
           \/ at + to - from > held.to
        THEN [file |-> 0, from |-> 0, to |-> 0]
        ELSE [file |-> held.file, from |-> at, to |-> at + to - from]

(* read_data_streaming, which `cat` uses: segment after segment.  *)
ReadStreaming(i) ==
    LET segs == SegmentsOf(i).segs
    IN  [s \in DOMAIN segs |-> ReadSegment(segs[s], segs[s].start, segs[s].end)]

(* read_range: the part of each segment that overlaps.  Rebuilds from a    *)
(* compressed image and read_prefix go through it.                         *)
ReadRange(i, offset, n) ==
    LET end == IF files[i].size - offset < n THEN files[i].size ELSE offset + n
        segs == SegmentsOf(i).segs
    IN  [s \in {k \in DOMAIN segs : segs[k].end > offset /\ segs[k].start < end} |->
            ReadSegment(segs[s], IF segs[s].start < offset THEN offset ELSE segs[s].start,
                                 IF segs[s].end < end THEN segs[s].end ELSE end)]

(* read_compact_data: every segment at its place in a buffer of zeros.  *)
ReadWhole(i) ==
    LET segs == SegmentsOf(i).segs
    IN  {[at |-> segs[s].start, piece |-> ReadSegment(segs[s], segs[s].start, segs[s].end)] :
            s \in DOMAIN segs}
=============================================================================
