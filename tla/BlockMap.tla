------------------------------ MODULE BlockMap ------------------------------
(***************************************************************************)
(* bmap and reckon of src/src/fs/bmap.c: the zone that holds block `block' *)
(* of a file, found through the inode's zone[] table (7 direct entries,   *)
(* one single-indirect and one double-indirect entry) and the index      *)
(* blocks it points to, allocating missing zones when `create' is set.     *)
(*                                                                         *)
(* Several tasks may call bmap on the same inode (inode_write from two    *)
(* processes, a directory grown by two mkdirs): nothing locks the inode.  *)
(* A task only loses the CPU where the code blocks: inside balloc (its    *)
(* bwrite of the zone map waits for the disk) and inside bread of an      *)
(* index block (a cache miss waits for the disk).  The walk is therefore *)
(* split into the steps between those points.  Index blocks are read      *)
(* through the buffer cache and so are shared by every task; `disk' is    *)
(* their content, cache and device together.  `refs' counts the buffer   *)
(* references reckon takes and gives back (buf->count++ / bread against  *)
(* brelease).  A file starts with an empty zone table and the data zones *)
(* are clear: new_inode does not clear zone[], so this is the state of an *)
(* inode never used before on a blank device.                             *)
(***************************************************************************)
EXTENDS Naturals, FiniteSets, FiniteSetsExt

CONSTANTS
    Tasks,      \* tasks calling bmap
    BI,         \* BLOCK_INDEXES: zone numbers per index block (512 in the source)
    NZones,     \* free data zones 1..NZones
    Blocks,     \* the file blocks the tasks ask for
    MaxCalls    \* bmap calls per task

DIRECT_BLOCK    == 7
INDIRECT1_BLOCK == BI
TOTAL_BLOCK     == DIRECT_BLOCK + INDIRECT1_BLOCK + BI * BI

\* balloc returns EOF (-1, as uint32) on a full device; stored into the
\* uint16 zone array it keeps its low 16 bits, 0xFFFF.
Junk  == (-1) % 2^16
Zones == 1..NZones
ZoneVals == {0, Junk} \cup Zones
\* The inode's own buffer (inode->buf), named by a number no zone has.
Inode == 0

ASSUME Blocks \subseteq 0..(TOTAL_BLOCK - 1)

VARIABLES
    zone,       \* inode->desc->zone[0 .. DIRECT_BLOCK+1]
    disk,       \* disk[z][i]: entry i of the index block in zone z
    free,       \* zones balloc has not handed out
    refs,       \* buffer references reckon holds, by Inode or zone
    pc,         \* "idle", "check" (array[index] tested next), "alloc"
                \* (waiting inside balloc), "descend" (after brelease)
    frame,      \* reckon's locals: level, index, block, divider, array, create
    pending,    \* the zone balloc returned, while its bwrite waits
    calls,      \* bmap calls made per task
    mapped,     \* ghost: the zone a bmap first returned for each block
    got,        \* ghost: each task's latest result, <<block, zone>>
    overrun     \* reckon indexed past the end of an index block

vars == <<zone, disk, free, refs, pc, frame, pending, calls, mapped, got, overrun>>

Frames == [level : 0..2, index : Nat, block : Nat, divider : Nat,
           array : {Inode} \cup Zones \cup {Junk}, create : BOOLEAN, blk : Blocks]

TypeOK ==
    /\ zone \in [0..(DIRECT_BLOCK + 1) -> ZoneVals]
    /\ disk \in [Zones \cup {Junk} -> [0..(BI - 1) -> ZoneVals]]
    /\ free \subseteq Zones
    /\ refs \in [{Inode} \cup Zones \cup {Junk} -> Nat]
    /\ pc \in [Tasks -> {"idle", "check", "alloc", "descend"}]
    /\ \A t \in Tasks : pc[t] # "idle" => frame[t] \in Frames
    /\ pending \in [Tasks -> ZoneVals]
    /\ calls \in [Tasks -> 0..MaxCalls]
    /\ mapped \in [Blocks -> ZoneVals]
    /\ got \in [Tasks -> (Blocks \X ZoneVals) \cup {<<>>}]
    /\ overrun \in BOOLEAN

\* A new file on a blank device (new_inode of an unused inode number).
Init ==
    /\ zone = [i \in 0..(DIRECT_BLOCK + 1) |-> 0]
    /\ disk = [z \in Zones \cup {Junk} |-> [i \in 0..(BI - 1) |-> 0]]
    /\ free = Zones
    /\ refs = [x \in {Inode} \cup Zones \cup {Junk} |-> 0]
    /\ pc = [t \in Tasks |-> "idle"]
    /\ frame = [t \in Tasks |-> <<>>]
    /\ pending = [t \in Tasks |-> 0]
    /\ calls = [t \in Tasks |-> 0]
    /\ mapped = [b \in Blocks |-> 0]
    /\ got = [t \in Tasks |-> <<>>]
    /\ overrun = FALSE

-----------------------------------------------------------------------------
\* array[index] of reckon: the inode's table or an index block's entries.
Entry(f) == IF f.array = Inode THEN zone[f.index] ELSE disk[f.array][f.index]

InRange(f) == f.array = Inode \/ f.index < BI

\* array[index] = v, in the inode or in the index block's buffer.
SetEntry(f, v) ==
    IF f.array = Inode
       THEN /\ zone' = [zone EXCEPT ![f.index] = v] /\ UNCHANGED disk
       ELSE /\ disk' = [disk EXCEPT ![f.array][f.index] = v] /\ UNCHANGED zone

\* bmap's level choice and reckon's switch: the first frame of the walk.
StartFrame(b) ==
    CASE b < DIRECT_BLOCK ->
            [level |-> 0, index |-> b, block |-> b, divider |-> 0]
      [] b < DIRECT_BLOCK + INDIRECT1_BLOCK ->
            [level |-> 1, index |-> DIRECT_BLOCK, block |-> b - DIRECT_BLOCK, divider |-> 1]
      [] OTHER ->
            [level |-> 2, index |-> DIRECT_BLOCK + 1, block |-> b - INDIRECT1_BLOCK, divider |-> BI]

Start(b, c) ==
    LET s == StartFrame(b)
    IN  [level |-> s.level, index |-> s.index, block |-> s.block,
         divider |-> s.divider, array |-> Inode, create |-> c, blk |-> b]

\* bmap(inode, b, create) is called; reckon takes a reference on inode->buf.
Call(t, b, c) ==
    /\ ~overrun
    /\ pc[t] = "idle" /\ calls[t] < MaxCalls
    /\ frame' = [frame EXCEPT ![t] = Start(b, c)]
    /\ refs' = [refs EXCEPT ![Inode] = @ + 1]
    /\ calls' = [calls EXCEPT ![t] = @ + 1]
    /\ pc' = [pc EXCEPT ![t] = "check"]
    /\ UNCHANGED <<zone, disk, free, pending, mapped, got, overrun>>

\* The memory past an index block is read or written: the walk stops here.
Overrun(t) ==
    /\ ~overrun
    /\ pc[t] = "check" /\ ~InRange(frame[t])
    /\ overrun' = TRUE
    /\ UNCHANGED <<zone, disk, free, refs, pc, frame, pending, calls, mapped, got>>

\* The result of a call: the zone, or 0 for a hole.
Return(t, v) ==
    /\ pc' = [pc EXCEPT ![t] = "idle"]
    /\ got' = [got EXCEPT ![t] = <<frame[t].blk, v>>]
    /\ mapped' = IF v # 0 /\ mapped[frame[t].blk] = 0
                    THEN [mapped EXCEPT ![frame[t].blk] = v] ELSE mapped

\* brelease(buf) of the buffer reckon was looking at.
Release(x) == refs' = [refs EXCEPT ![x] = @ - 1]

\* The test of array[index] in reckon's loop.  A hole without `create'
\* returns 0 at once (buf is not released); with `create' balloc sets the
\* first free bit and waits for the zone map's bwrite, or finds none and
\* returns EOF without waiting, which is stored all the same.
Check(t) ==
    LET f == frame[t]
    IN  /\ ~overrun
        /\ pc[t] = "check" /\ InRange(f)
        /\ \/ /\ Entry(f) = 0 /\ ~f.create
              /\ Return(t, 0)
              /\ UNCHANGED <<zone, disk, free, refs, pending>>
           \/ /\ Entry(f) = 0 /\ f.create /\ free # {}
              /\ free' = free \ {Min(free)}
              /\ pending' = [pending EXCEPT ![t] = Min(free)]
              /\ pc' = [pc EXCEPT ![t] = "alloc"]
              /\ UNCHANGED <<zone, disk, refs, mapped, got>>
           \/ /\ Entry(f) = 0 /\ f.create /\ free = {}
              /\ SetEntry(f, Junk)
              /\ Release(f.array)
              /\ pc' = [pc EXCEPT ![t] = "descend"]
              /\ UNCHANGED <<free, pending, mapped, got>>
           \/ /\ Entry(f) # 0
              /\ Release(f.array)
              /\ pc' = [pc EXCEPT ![t] = "descend"]
              /\ UNCHANGED <<zone, disk, free, pending, mapped, got>>
        /\ UNCHANGED <<frame, calls, overrun>>

\* balloc has returned: array[index] = zone, whatever the entry holds now;
\* dirty the buffer and brelease it.
AllocDone(t) ==
    /\ pc[t] = "alloc"
    /\ SetEntry(frame[t], pending[t])
    /\ Release(frame[t].array)
    /\ pc' = [pc EXCEPT ![t] = "descend"]
    /\ pending' = [pending EXCEPT ![t] = 0]
    /\ UNCHANGED <<free, frame, calls, mapped, got, overrun>>

\* At level 0 return array[index]; above it bread the block array[index]
\* names and go one level down: index = block / divider, block %= divider,
\* divider /= BLOCK_INDEXES.
Descend(t) ==
    LET f == frame[t]
    IN  /\ pc[t] = "descend"
        /\ \/ f.level = 0 /\ Return(t, Entry(f)) /\ UNCHANGED <<refs, frame>>
           \/ /\ f.level > 0
              /\ refs' = [refs EXCEPT ![Entry(f)] = @ + 1]
              /\ frame' = [frame EXCEPT ![t] =
                    [f EXCEPT !.array = Entry(f), !.index = f.block \div f.divider,
                              !.block = f.block % f.divider,
                              !.divider = f.divider \div BI, !.level = @ - 1]]
              /\ pc' = [pc EXCEPT ![t] = "check"]
              /\ UNCHANGED <<mapped, got>>
        /\ UNCHANGED <<zone, disk, free, pending, calls, overrun>>

Next ==
    \E t \in Tasks :
        \/ \E b \in Blocks, c \in BOOLEAN : Call(t, b, c)
        \/ Check(t) \/ Overrun(t) \/ AllocDone(t) \/ Descend(t)

Spec == Init /\ [][Next]_vars

-----------------------------------------------------------------------------
(* Properties.                                                             *)

\* Zones the inode's tree points to: its table, and the entries of every
\* index block reachable from it.
RECURSIVE Below(_, _)
Below(z, level) ==
    IF level = 0 \/ z \notin Zones THEN {z}
    ELSE {z} \cup UNION {Below(disk[z][i], level - 1) : i \in 0..(BI - 1)}

Referenced ==
    (UNION {Below(zone[i], 0) : i \in 0..(DIRECT_BLOCK - 1)}
       \cup Below(zone[DIRECT_BLOCK], 1) \cup Below(zone[DIRECT_BLOCK + 1], 2)) \ {0}

\* bmap is a function of the file block: every call for a block returns
\* the zone the first allocating call returned, and two blocks never
\* share a zone.  It depends on the offsets of bmap, reckon's dividers and
\* the write-back of each allocated entry across calls.  (balloc's failure
\* value is the concern of ZoneRefsValid.)
BmapFunctional ==
    /\ \A b1, b2 \in Blocks : b1 # b2 /\ mapped[b1] \in Zones => mapped[b1] # mapped[b2]
    /\ \A t \in Tasks : got[t] # <<>> /\ got[t][2] \in Zones => got[t][2] = mapped[got[t][1]]

\* Every zone balloc handed out is reachable from the inode or is still
\* on its way into the array: no zone leaks out of the file.
NoLostZone ==
    Zones \ free \subseteq Referenced \cup {pending[t] : t \in Tasks}

\* Once a call returns, reckon holds no buffer reference: each reference
\* taken (inode->buf->count++, bread) is given back by a brelease.
BuffersReleased ==
    \A x \in DOMAIN refs :
        refs[x] = Cardinality({t \in Tasks : pc[t] \in {"check", "alloc"} /\ frame[t].array = x})

\* reckon never indexes past the BLOCK_INDEXES entries of an index block,
\* for any file block below TOTAL_BLOCK that bmap accepts.
NoIndexOverrun == ~overrun

\* No zone entry of the file holds balloc's failure value.
ZoneRefsValid == Junk \notin Referenced

=============================================================================
