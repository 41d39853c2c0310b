------------------------ MODULE ErofsGeometryProofs ------------------------
(***************************************************************************)
(* Arithmetic of the metadata area: rounding up, that every footprint      *)
(* covers what is written for its inode, and where skipping the superblock *)
(* leads.                                                                  *)
(***************************************************************************)
EXTENDS ErofsGeometry, Integers, TLAPS

\* Rounding up: the least multiple of b that is at least a.
LEMMA CeilDivBounds ==
  ASSUME NEW a \in Nat, NEW b \in Nat \ {0}
  PROVE  /\ CeilDiv(a, b) \in Nat
         /\ a <= CeilDiv(a, b) * b
         /\ a > 0 => CeilDiv(a, b) > 0
<1> DEFINE c == a + b - 1
<1>1. c \in Nat
  OBVIOUS
<1>2. c = b * (c \div b) + (c % b) /\ c % b \in 0..b - 1 /\ c \div b \in Nat
  BY <1>1
<1>3. a <= (c \div b) * b
  BY <1>2
<1>4. a > 0 => c \div b > 0
  BY <1>2, <1>3
<1> QED
  BY <1>2, <1>3, <1>4 DEF CeilDiv

\* Every inode reserves at least one slot.
LEMMA InodeSlotsPositive ==
  ASSUME NEW ctx \in BOOLEAN, NEW clusters \in Nat
  PROVE  InodeSlots(ctx, clusters) \in Nat \ {0}
  BY SMTT(30) DEF InodeSlots, CeilDiv, IndexLen, AreaLen, SlotBytes

\* The bytes the writers store for an inode fit the slots it reserves.
LEMMA FootprintCoversWrites ==
  ASSUME NEW n \in Nat, NEW ctx \in BOOLEAN, NEW clusters \in Nat
  PROVE  WriteEnd(n, ctx, clusters) <= (SlotOf(n) + InodeSlots(ctx, clusters)) * SlotBytes
<1>1. SlotOf(n) \in Nat
  BY GeometryAssumption DEF SlotOf
<1>2. CASE clusters = 0
  BY <1>1, <1>2 DEF WriteEnd, InodeSlots, AreaLen, SlotBytes
<1>3. CASE clusters # 0
  BY <1>1, <1>3, SMTT(30) DEF WriteEnd, InodeSlots, AreaLen, IndexLen, CeilDiv, SlotBytes
<1> QED
  BY <1>2, <1>3

\* Skipping the superblock goes forward, to a slot that leaves it clear.
LEMMA SkipGoesForward ==
  ASSUME NEW next \in Nat, NEW stride \in Nat
  PROVE  /\ SkipSuperblock(next, stride) \in Nat
         /\ next <= SkipSuperblock(next, stride)
         /\ ClearOfSuperblock(SkipSuperblock(next, stride), stride)
<1>1. MetaBlock * SlotsPerBlock \in Nat
  BY GeometryAssumption
<1> QED
  BY <1>1, GeometryAssumption DEF SkipSuperblock, ClearOfSuperblock, SlotOf

=============================================================================
