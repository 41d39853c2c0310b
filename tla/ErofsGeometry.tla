---------------------------- MODULE ErofsGeometry ----------------------------
(***************************************************************************)
(* The metadata area of an EROFS image, counted in 32-byte inode slots.    *)
(* NID n is the slot n past the start of block MetaBlock.  The superblock  *)
(* (bytes 1024..1151) lies at slots SbFirst..SbEnd-1 from the start of the *)
(* image; every quantity of the code that matters here is a multiple of 32 *)
(* bytes, so nothing is lost by counting slots.                            *)
(***************************************************************************)
EXTENDS Naturals

CONSTANTS
  SlotsPerBlock,  \* block size / 32: 128 for 4 KiB blocks
  MetaBlock,      \* meta_blkaddr of the superblock
  SbFirst,        \* 1024 / 32 = 32 in the code
  SbEnd           \* 1152 / 32 = 36 in the code

\* Block sizes start at 4 KiB, so the superblock lies within block 0.
ASSUME GeometryAssumption ==
  /\ SlotsPerBlock \in Nat \ {0}
  /\ MetaBlock \in Nat
  /\ SbFirst \in Nat /\ SbEnd \in Nat
  /\ SbFirst < SbEnd /\ SbEnd <= SlotsPerBlock

SlotBytes == 32

CeilDiv(a, b) == (a + b - 1) \div b

\* The slot, counted from the start of the image, at which NID n lies.
SlotOf(n) == MetaBlock * SlotsPerBlock + n

\* A footprint of `stride` slots at NID n leaves the superblock alone.  The
\* code's u64 overflow exits need no case: an offset that overflows lies
\* beyond SbEnd.
ClearOfSuperblock(n, stride) ==
  \/ SlotOf(n) + stride <= SbFirst
  \/ SlotOf(n) >= SbEnd

\* Where the loop of skip_superblock stops: it leaves a clear footprint where
\* it is, and moves any other past the end of the superblock.
SkipSuperblock(next, stride) ==
  IF ClearOfSuperblock(next, stride)
  THEN next
  ELSE SbEnd - MetaBlock * SlotsPerBlock

\* A mutant: the pack of an odd last cluster is forgotten.
IndexLenOfPairs(clusters) == (clusters \div 2) * 8

\* Bytes of the index of a compressed file: one 8-byte pack per two clusters.
IndexLen(clusters) == CeilDiv(clusters, 2) * 8

\* Bytes of the inline area of an inode that names one shared xattr.
AreaLen(ctx) == IF ctx THEN 16 ELSE 0

\* Slots a fresh inode reserves: the 32-byte body, the xattr area, and for a
\* compressed file the 8-aligned map header and index.
InodeSlots(ctx, clusters) ==
  IF clusters = 0
  THEN IF ctx THEN 2 ELSE 1
  ELSE CeilDiv(CeilDiv(32 + AreaLen(ctx), 8) * 8 + 8 + IndexLen(clusters), SlotBytes)

\* The first byte past everything the writers store for an inode at NID n:
\* body and area, and for a compressed file the map header at data_off and
\* the index behind it.
WriteEnd(n, ctx, clusters) ==
  LET bodyEnd == SlotOf(n) * SlotBytes + 32 + AreaLen(ctx)
  IN  IF clusters = 0
      THEN bodyEnd
      ELSE CeilDiv(bodyEnd, 8) * 8 + 8 + IndexLen(clusters)
=============================================================================
