------------------------------ MODULE Allocator ------------------------------
(***************************************************************************)
(* The zone and inode allocators of src/src/fs/bmap.c (balloc, bfree,     *)
(* ialloc, ifree) over the bit maps devmkfs (fs/super.c) lays out on a    *)
(* fresh device.  The map blocks stay cached in sb->zmaps / sb->imaps for *)
(* the life of the mount, so they are variables here; a zone or inode is *)
(* handed to a caller (bmap's reckon, mknod/mkdir/sys_open's new entry)   *)
(* and may later be freed by it (inode_bfree, unlink, rmdir).             *)
(*                                                                         *)
(* Block size and the table bounds are scaled down: BLOCK_SIZE bytes per  *)
(* block (1024 in the source), ZMAP_NR and IMAP_NR map blocks at most (8  *)
(* in the source), InodeDescSize bytes per inode (sizeof(inode_desc_t),  *)
(* 32 in the source).                                                     *)
(***************************************************************************)
EXTENDS Bitmap

CONSTANTS
    BLOCK_SIZE,     \* bytes per block
    ZMAP_NR,        \* sb->zmaps slots
    IMAP_NR,        \* sb->imaps slots
    InodeDescSize,  \* sizeof(inode_desc_t)
    TotalBlock,     \* device sectors / BLOCK_SECS
    ICount          \* devmkfs's icount argument (0: a third of the blocks)

BLOCK_BITS == BLOCK_SIZE * 8

DivRoundUp(a, b) == (a + b - 1) \div b

(* The geometry devmkfs computes (super.c 225-253). *)
icount        == IF ICount = 0 THEN TotalBlock \div 3 ELSE ICount
InodeBlocks   == DivRoundUp(icount * InodeDescSize, BLOCK_SIZE)
ImapBlocks    == DivRoundUp(icount, BLOCK_BITS)
Zcount        == TotalBlock - ImapBlocks - InodeBlocks - 2
ZmapBlocks    == DivRoundUp(Zcount, BLOCK_BITS)
FirstDataZone == 2 + ImapBlocks + ZmapBlocks + InodeBlocks

ASSUME /\ TotalBlock > 0 /\ icount < TotalBlock
       /\ ImapBlocks <= IMAP_NR /\ ZmapBlocks <= ZMAP_NR /\ Zcount > 0

\* The bit number of the first bit of zone map i and of inode map i.
ZoneBase  == FirstDataZone - 1
InodeBase == 0

VARIABLES
    zmap,       \* bytes of sb->zmaps[i], i < zmap_blocks
    imap,       \* bytes of sb->imaps[i], i < imap_blocks
    zones,      \* zone numbers balloc handed out and nobody freed
    inodes,     \* inode numbers ialloc handed out and nobody freed
    zres,       \* what the latest balloc returned, NoResult after a bfree
    ires,       \* what the latest ialloc returned, NoResult after an ifree
    halted      \* an assert failed

vars == <<zmap, imap, zones, inodes, zres, ires, halted>>

\* A value neither balloc nor ialloc returns.
NoResult == -2

Bytes == [0..(BLOCK_SIZE - 1) -> 0..255]

TypeOK ==
    /\ zmap \in [0..(ZmapBlocks - 1) -> Bytes]
    /\ imap \in [0..(ImapBlocks - 1) -> Bytes]
    /\ zones \subseteq Nat /\ inodes \subseteq Nat
    /\ zres \in Nat \cup {EOF, NoResult} /\ ires \in Nat \cup {EOF, NoResult}
    /\ halted \in BOOLEAN

-----------------------------------------------------------------------------
(* balloc and ialloc: for i in 0 .. NR-1, assert(maps[i]), scan map i for *)
(* a clear bit; the first found is set and written back.  A slot past the *)
(* blocks the device has is NULL, and the assert fails there.            *)

RECURSIVE AllocLoop(_, _, _, _, _)
AllocLoop(maps, nblocks, nr, base, i) ==
    IF i >= nr THEN [ok |-> TRUE, res |-> EOF, maps |-> maps]
    ELSE IF i >= nblocks THEN [ok |-> FALSE, res |-> EOF, maps |-> maps]
    ELSE LET r == BitmapScan(BitmapMake(maps[i], BLOCK_SIZE, i * BLOCK_BITS + base), 1)
         IN  IF r[1] # EOF
                THEN [ok |-> TRUE, res |-> r[1], maps |-> [maps EXCEPT ![i] = r[2].bits]]
                ELSE AllocLoop(maps, nblocks, nr, base, i + 1)

\* bfree and ifree: the map whose range holds idx; assert it exists and the
\* bit is set (no double free), clear it and write the map back.  An idx
\* in no map's range is ignored.
FreeBit(maps, nblocks, nr, base, idx) ==
    LET i == (idx - base) \div BLOCK_BITS
        m == BitmapMake(maps[i], BLOCK_SIZE, i * BLOCK_BITS + base)
    IN  IF idx < base \/ i >= nr THEN [ok |-> TRUE, maps |-> maps]
        ELSE IF i >= nblocks \/ ~BitmapTest(m, idx) THEN [ok |-> FALSE, maps |-> maps]
        ELSE [ok |-> TRUE, maps |-> [maps EXCEPT ![i] = BitmapSet(m, idx, FALSE).bits]]

-----------------------------------------------------------------------------
(* devmkfs's bit maps (super.c 258-316): clear every map, balloc once     *)
(* (zone bit 0, the block before the first data zone), ialloc twice       *)
(* (inode 0, unused, and the root inode 1), then mark the bits past the   *)
(* last zone and inode used in the last map: bytes after the one holding *)
(* bit `count % BLOCK_BITS' become 0xFF, and that byte is overwritten      *)
(* with its bits from that one up set.                                     *)

\* The while (remain--) loop: data |= bits; bits >>= 1, from bits = 0x80.
RECURSIVE TailData(_, _, _)
TailData(bits, data, remain) ==
    IF remain = 0 THEN data ELSE TailData(bits \div 2, data + bits, remain - 1)

TailMark(bytes, count) ==
    LET offset == count % BLOCK_BITS
        begin  == offset \div 8
    IN  [j \in DOMAIN bytes |->
            IF j > begin THEN 255
            ELSE IF j = begin THEN TailData(128, 0, 8 - (offset % 8))
            ELSE bytes[j]]

Zero(n) == [i \in 0..(n - 1) |-> [j \in 0..(BLOCK_SIZE - 1) |-> 0]]

MkfsZmap ==
    LET z == AllocLoop(Zero(ZmapBlocks), ZmapBlocks, ZMAP_NR, ZoneBase, 0).maps
    IN  [z EXCEPT ![ZmapBlocks - 1] = TailMark(@, Zcount)]

MkfsImap ==
    LET a == AllocLoop(Zero(ImapBlocks), ImapBlocks, IMAP_NR, InodeBase, 0).maps
        b == AllocLoop(a, ImapBlocks, IMAP_NR, InodeBase, 0).maps
    IN  [b EXCEPT ![ImapBlocks - 1] = TailMark(@, icount + 1)]

Init ==
    /\ zmap = MkfsZmap
    /\ imap = MkfsImap
    /\ zones = {} /\ inodes = {}
    /\ zres = NoResult /\ ires = NoResult
    /\ halted = FALSE

-----------------------------------------------------------------------------
Balloc ==
    LET r == AllocLoop(zmap, ZmapBlocks, ZMAP_NR, ZoneBase, 0)
    IN  /\ ~halted
        /\ IF ~r.ok
              THEN /\ halted' = TRUE /\ UNCHANGED <<zmap, zones, zres>>
              ELSE /\ zmap' = r.maps
                   /\ zres' = r.res
                   /\ zones' = IF r.res = EOF THEN zones ELSE zones \cup {r.res}
                   /\ UNCHANGED halted
        /\ UNCHANGED <<imap, inodes, ires>>

Bfree(b) ==
    LET r == FreeBit(zmap, ZmapBlocks, ZMAP_NR, ZoneBase, b)
    IN  /\ ~halted
        /\ b \in zones
        /\ zmap' = r.maps
        /\ halted' = ~r.ok
        /\ zones' = zones \ {b}
        /\ zres' = NoResult
        /\ UNCHANGED <<imap, inodes, ires>>

Ialloc ==
    LET r == AllocLoop(imap, ImapBlocks, IMAP_NR, InodeBase, 0)
    IN  /\ ~halted
        /\ IF ~r.ok
              THEN /\ halted' = TRUE /\ UNCHANGED <<imap, inodes, ires>>
              ELSE /\ imap' = r.maps
                   /\ ires' = r.res
                   /\ inodes' = IF r.res = EOF THEN inodes ELSE inodes \cup {r.res}
                   /\ UNCHANGED halted
        /\ UNCHANGED <<zmap, zones, zres>>

Ifree(n) ==
    LET r == FreeBit(imap, ImapBlocks, IMAP_NR, InodeBase, n)
    IN  /\ ~halted
        /\ n \in inodes
        /\ imap' = r.maps
        /\ halted' = ~r.ok
        /\ inodes' = inodes \ {n}
        /\ ires' = NoResult
        /\ UNCHANGED <<zmap, zones, zres>>

Next ==
    \/ Balloc \/ Ialloc
    \/ \E b \in zones : Bfree(b)
    \/ \E n \in inodes : Ifree(n)

Spec == Init /\ [][Next]_vars

-----------------------------------------------------------------------------
(* Properties.                                                             *)

DataZones   == FirstDataZone..(TotalBlock - 1)
\* Inode 0 stands for "no inode" and 1 is the root that devmkfs creates:
\* ialloc's callers may get 2..icount.
InodeNrs    == 2..icount

ZoneBit(b) ==
    LET i == (b - ZoneBase) \div BLOCK_BITS
    IN  BitmapTest(BitmapMake(zmap[i], BLOCK_SIZE, i * BLOCK_BITS + ZoneBase), b)

InodeBit(n) ==
    LET i == n \div BLOCK_BITS
    IN  BitmapTest(BitmapMake(imap[i], BLOCK_SIZE, i * BLOCK_BITS), n)

\* Over any sequence of balloc/bfree/ialloc/ifree after devmkfs, a bit of
\* the zone (inode) maps is clear exactly for a data zone (an inode
\* number 2..icount) that is not handed out: the mkfs layout, the map
\* offsets of the allocators and of the free functions all agree.
BitmapExact ==
    /\ \A b \in ZoneBase..(ZoneBase + ZmapBlocks * BLOCK_BITS - 1) :
          ~ZoneBit(b) <=> b \in DataZones \ zones
    /\ \A n \in 0..(ImapBlocks * BLOCK_BITS - 1) :
          ~InodeBit(n) <=> n \in InodeNrs \ inodes

\* balloc only hands out data zones of the device: never a metadata block
\* and never a block past the end of the device.
ZoneInDataArea == zones \subseteq DataZones

\* ialloc only hands out inode numbers 2..icount: never 0, which means "no
\* inode" in a directory entry, nor the root directory's 1 again.
InodeInRange == inodes \subseteq InodeNrs

\* balloc (ialloc) returns EOF only when every data zone (inode) is in use.
FailsOnlyWhenFull ==
    /\ zres = EOF => DataZones \subseteq zones
    /\ ires = EOF => InodeNrs \subseteq inodes

\* Running out of zones or inodes is reported as EOF, not by an assert.
AllocNeverHalts == ~halted

=============================================================================
