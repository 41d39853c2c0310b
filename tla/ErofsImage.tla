----------------------------- MODULE ErofsImage -----------------------------
(***************************************************************************)
(* An EROFS image as a function from 32-byte slots to what they hold, and  *)
(* how it is read back (fs/erofs and Source::tree).  Inodes and payloads   *)
(* share one address space, so a writer that puts an inode into a slot in  *)
(* use, or a payload into a block in use, destroys what was there.         *)
(*                                                                         *)
(* A payload fills one block or, inlined, one slot behind its inode; the   *)
(* bytes of a file are one value.  An xattr area names its context in the  *)
(* shared table, which must be intact for the context to be read.          *)
(***************************************************************************)
EXTENDS ErofsGeometry, ImagePaths

CONSTANTS
  NoCtx,    \* no SELinux context
  NoBytes,  \* the payload of an empty file, and of a node not held in memory
  Junk      \* what an unreadable or foreign payload or context reads as

Zero == [t |-> "zero"]
Superblock(inodes, root, table) ==
  [t |-> "sb", inodes |-> inodes, root |-> root, table |-> table]
Inode(kind, perm, size, layout, raw, xattr) ==
  [t |-> "inode", kind |-> kind, perm |-> perm, size |-> size,
   layout |-> layout, raw |-> raw, xattr |-> xattr]
\* The slot behind an inode: its xattr area and the index of a packed file.
Area(ctx, index) == [t |-> "area", ctx |-> ctx, index |-> index]
FileData(bytes, packed) == [t |-> "data", bytes |-> bytes, packed |-> packed]
DirData(entries, up) == [t |-> "dir", entries |-> entries, up |-> up]
TableData == [t |-> "table"]
\* Bytes written as one thing over another, such as inode fields over data.
Foreign == [t |-> "foreign"]

SlotsOfBlock(b) == b * SlotsPerBlock..(b + 1) * SlotsPerBlock - 1
FillBlock(b, cell) == [s \in SlotsOfBlock(b) |-> cell]
SuperblockAt(cell) == [s \in SbFirst..SbEnd - 1 |-> cell]
BlocksOf(d) == Cardinality(DOMAIN d) \div SlotsPerBlock

\* An image whose superblock was overwritten leads nowhere.
Sb(d) == IF d[SbFirst].t = "sb" THEN d[SbFirst] ELSE Superblock(0, 0, 0)

\* A block reads as a payload only if all of it still belongs to that payload.
ReadBlock(d, b) ==
  LET cells == {d[s] : s \in SlotsOfBlock(b) \cap DOMAIN d}
  IN  IF Cardinality(cells) = 1 THEN CHOOSE c \in cells : TRUE ELSE Zero

CellAt(d, n) == IF SlotOf(n) \in DOMAIN d THEN d[SlotOf(n)] ELSE Zero

IsInode(d, n) == CellAt(d, n).t = "inode"

\* inode::read_data: plain and packed payloads start at raw_blkaddr, an inline
\* one follows the inode and its xattr area.
PayloadCell(d, n) ==
  LET ino == CellAt(d, n)
  IN  IF ino.layout = "inline"
      THEN CellAt(d, n + (IF ino.xattr THEN 2 ELSE 1))
      ELSE ReadBlock(d, ino.raw)

HasIndex(d, n) == CellAt(d, n + 1).t = "area" /\ CellAt(d, n + 1).index

Bytes(d, n) ==
  LET ino == CellAt(d, n)
      cell == PayloadCell(d, n)
      packed == ino.layout = "packed"
  IN  IF ino.size = 0 THEN NoBytes
      ELSE IF cell.t = "data" /\ cell.packed = packed /\ (packed => HasIndex(d, n))
           THEN cell.bytes ELSE Junk

\* dir::parse: names to NIDs.  A directory of size 0 has no entries, and one
\* longer than its inode says ("." and ".." counted) cannot be parsed.
NoEntries == [name \in {} |-> 0]
DirectoryReads(d, n) ==
  LET cell == PayloadCell(d, n)
  IN  cell.t = "dir" /\ Cardinality(DOMAIN cell.entries) + 2 <= CellAt(d, n).size
Entries(d, n) ==
  IF IsInode(d, n) /\ CellAt(d, n).kind = "dir" /\ DirectoryReads(d, n)
  THEN PayloadCell(d, n).entries
  ELSE NoEntries

\* xattr::selinux: the area behind the inode, resolved in the shared table.
Context(d, n) ==
  IF ~CellAt(d, n).xattr THEN NoCtx
  ELSE IF CellAt(d, n + 1).t = "area" /\ ReadBlock(d, Sb(d).table) = TableData
       THEN CellAt(d, n + 1).ctx ELSE Junk

\* The NID every path leads to; 0 where there is none.
NidOf(d) ==
  LET nid[p \in Paths] ==
        IF p = << >> THEN Sb(d).root
        ELSE IF nid[Front(p)] # 0 /\ Last(p) \in DOMAIN Entries(d, nid[Front(p)])
             THEN Entries(d, nid[Front(p)])[Last(p)] ELSE 0
  IN  LET named == {p \in Paths : nid[p] # 0} IN [p \in named |-> nid[p]]

\* The superblock is whole, every entry leads to an inode of a known path, and
\* every payload can be read: only such an image is opened again.
Loads(d) ==
  /\ \A s \in SbFirst..SbEnd - 1 : d[s] = Sb(d) /\ d[s].t = "sb"
  /\ LET nid == NidOf(d)
     IN  \A p \in DOMAIN nid :
           /\ IsInode(d, nid[p])
           /\ \A name \in DOMAIN Entries(d, nid[p]) : Append(p, name) \in Paths
           /\ Context(d, nid[p]) # Junk
           /\ IF CellAt(d, nid[p]).kind = "dir"
              THEN CellAt(d, nid[p]).size > 0 => DirectoryReads(d, nid[p])
              ELSE Bytes(d, nid[p]) # Junk

\* What a reader of the image sees.
View(d) ==
  LET nid == NidOf(d)
      Read(n) ==
        IF ~IsInode(d, n)
        THEN [kind |-> "lost", bytes |-> Junk, perm |-> Junk, ctx |-> Junk]
        ELSE [kind |-> CellAt(d, n).kind,
              bytes |-> IF CellAt(d, n).kind = "dir" THEN NoBytes ELSE Bytes(d, n),
              perm |-> CellAt(d, n).perm,
              ctx |-> Context(d, n)]
  IN  [p \in DOMAIN nid |-> Read(nid[p])]
=============================================================================
