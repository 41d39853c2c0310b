---------------------------- MODULE ClusterIndex ----------------------------
(***************************************************************************)
(* The compact index of a compressed EROFS file (fs/erofs/compress.rs):    *)
(* how clusters are packed into pclusters, how a run of pclusters is       *)
(* encoded into 8-byte packs of two 16-bit entries and a 32-bit anchor,    *)
(* and how a reader turns packs back into the segments of the file.        *)
(* Positions are byte numbers; what a block holds is the span of the file  *)
(* stored in it, so no byte is spelled out.                                *)
(***************************************************************************)
EXTENDS Integers, SequencesExt

CONSTANT BlockBits      \* log2 of the block size: 12 for 4 KiB

ASSUME BlockBitsAssumption == BlockBits \in 12..16

BlockSize == 2 ^ BlockBits
Clusters(size) == (size + BlockSize - 1) \div BlockSize

AtMost(a, b) == IF a < b THEN a ELSE b
AtLeast(a, b) == IF a < b THEN b ELSE a

PLAIN == 0
HEAD1 == 1
NONHEAD == 2
HEAD2 == 3

PairSize == 2           \* MAX_CLUSTERS_PER_PCLUSTER

-----------------------------------------------------------------------------
(* Packing.  A pcluster is a head of n clusters or a plain one, from       *)
(* cluster `lcn` of its file.  What a codec makes of bytes is not          *)
(* modelled: a pair pays off jointly, or each of its clusters does or does *)
(* not on its own (compress_pcluster returns Some or None).                *)
Pcluster(head, n, lcn) == [head |-> head, n |-> n, lcn |-> lcn]

Outcomes == [joint : {TRUE}, alone : {{}}] \cup [joint : {FALSE}, alone : SUBSET {1, 2}]

(* pack_pair: the pair as one head, or each cluster as a head or plain.  *)
PackPair(outcome, lcn, n) ==
    IF outcome.joint THEN <<Pcluster(TRUE, n, lcn)>>
    ELSE [i \in 1..n |-> Pcluster(i \in outcome.alone, 1, lcn + i - 1)]

Pairs(n) == (n + PairSize - 1) \div PairSize

(* pack_clusters: pairs by position.  They are packed in parallel, by      *)
(* rayon, which collects the results in the order of the input.            *)
PackClusters(outcomes, lcn, n) ==
    FlattenSeq([p \in 1..Pairs(n) |->
        LET before == PairSize * (p - 1)
        IN  PackPair(outcomes[p], lcn + before, AtMost(PairSize, n - before))])

(* Everything n clusters may be packed into.  *)
Packings(lcn, n) == {PackClusters(outcomes, lcn, n) : outcomes \in [1..Pairs(n) -> Outcomes]}

-----------------------------------------------------------------------------
(* Encoding.  Each pcluster has one block; all entries of a head name it.  *)
Entry(kind, value, block) == [kind |-> kind, value |-> value, block |-> block]

EntriesOf(pcluster, block) ==
    IF pcluster.head
    THEN [i \in 1..pcluster.n |->
            IF i = 1 THEN Entry(HEAD1, 0, block) ELSE Entry(NONHEAD, i - 1, block)]
    ELSE <<Entry(PLAIN, 0, block)>>

IndexEntries(pclusters, first) ==
    FlattenSeq([i \in DOMAIN pclusters |-> EntriesOf(pclusters[i], first + i - 1)])

Word(entry) == entry.kind * 4096 + entry.value

(* The block before that of the pack's first entry.  *)
AnchorOf(entries, p) == entries[2 * p - 1].block - 1

(* A pack: two entries and the anchor; an odd tail gets an empty entry.  *)
Pack(entries, p) ==
    [lo |-> Word(entries[2 * p - 1]),
     hi |-> IF 2 * p <= Len(entries) THEN Word(entries[2 * p]) ELSE 0,
     anchor |-> AnchorOf(entries, p)]

EncodePclusters(pclusters, first) ==
    LET entries == IndexEntries(pclusters, first)
    IN  [p \in 1..Pairs(Len(entries)) |-> Pack(entries, p)]

-----------------------------------------------------------------------------
(* Decoding.  cluster_bits is 0 in fresh files; an entry is the low        *)
(* low_bits bits of a 32-bit word read at the entry, its kind the next two.*)
LowBits == AtLeast(BlockBits, 12)

(* The word at entry i of a pack: what follows the entry comes with it.  *)
Raw(pack, i) ==
    IF i = 0 THEN pack.lo + 65536 * pack.hi
             ELSE pack.hi + 65536 * (pack.anchor % 65536)

KindOf(pack, i) == (Raw(pack, i) \div 2 ^ LowBits) % 4
ValueOf(pack, i) == Raw(pack, i) % 2 ^ LowBits

(* A mutant: both entries of a pack lead to the same block.  *)
OneBlockAPack(pack, i) == IF KindOf(pack, i) = NONHEAD THEN pack.anchor ELSE pack.anchor + 1

(* The block an anchor leads to: one for the entry itself and one for an   *)
(* entry before it in the pack that is not NONHEAD.                        *)
AnchoredBlock(pack, i) ==
    IF KindOf(pack, i) = NONHEAD THEN pack.anchor
    ELSE pack.anchor + 1 + IF i = 1 /\ KindOf(pack, 0) # NONHEAD THEN 1 ELSE 0

(* compact_entries, given the packs of a file.  *)
CompactEntries(packs, size) ==
    [c \in 1..Clusters(size) |->
        LET pack == packs[(c - 1) \div 2 + 1]
            i == (c - 1) % 2
        IN  [lcn |-> c - 1, kind |-> KindOf(pack, i), value |-> ValueOf(pack, i),
             pblk |-> AnchoredBlock(pack, i)]]

Start(entry) == entry.lcn * BlockSize + entry.value

(* Where the segment of entry i ends: at the next entry for a plain one,   *)
(* at the next that is not NONHEAD for a head, at the latest at the end.   *)
EndOf(entries, i, size) ==
    LET later == {j \in (i + 1)..Len(entries) :
                    \/ entries[i].kind = PLAIN
                    \/ entries[j].kind # NONHEAD}
    IN  IF later = {} THEN size
        ELSE LET end == Start(entries[Min(later)])
             IN  IF entries[i].kind = PLAIN THEN AtMost(end, size) ELSE end

(* The blocks of a head: a NONHEAD entry behind it that has bit 11 set     *)
(* says how many, otherwise it is one.                                     *)
BlocksOf(entries, i) ==
    LET later == {j \in (i + 1)..Len(entries) : entries[j].kind # NONHEAD}
        fillers == (i + 1)..(IF later = {} THEN Len(entries) ELSE Min(later) - 1)
        sized == {j \in fillers : (entries[j].value \div 2048) % 2 = 1}
    IN  IF sized = {} THEN 1 ELSE AtLeast(entries[Min(sized)].value - 2048, 1)

(* A mutant: a plain cluster does not move the cursor.  *)
AdvancePastHeads(entries, i) == IF entries[i].kind = PLAIN THEN 0 ELSE BlocksOf(entries, i)

(* The physical blocks a segment takes.  *)
AdvanceOf(entries, i) == IF entries[i].kind = PLAIN THEN 1 ELSE BlocksOf(entries, i)

(* The entries that start a segment.  *)
Starts(entries, size, i) ==
    entries[i].kind # NONHEAD /\ (entries[i].kind = PLAIN => Start(entries[i]) < size)

NoCursor == -1

(* segments(): the block of the first segment comes from its anchor, every *)
(* other segment follows the one before; a head that ends before it starts *)
(* or past the file is an error.  Segments are numbered by the entry they  *)
(* start at, and so in the order they are pushed.                          *)
Segments(entries, size) ==
    LET Physical(cursor, i) == IF cursor = NoCursor THEN entries[i].pblk ELSE cursor
        cursor[i \in 0..Len(entries)] ==
            IF i = 0 THEN NoCursor
            ELSE IF Starts(entries, size, i) THEN Physical(cursor[i - 1], i) + AdvanceOf(entries, i)
            ELSE cursor[i - 1]
        live == {i \in DOMAIN entries : Starts(entries, size, i)}
        seg == [i \in live |->
                  [head |-> entries[i].kind # PLAIN, start |-> Start(entries[i]),
                   end |-> EndOf(entries, i, size), physical |-> Physical(cursor[i - 1], i)]]
    IN  [bad |-> \E i \in live : seg[i].head /\ (seg[i].end <= seg[i].start \/ seg[i].end > size),
         segs |-> [i \in {k \in live : seg[k].end > seg[k].start} |-> seg[i]]]

=============================================================================
