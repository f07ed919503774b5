------------------------------- MODULE FileIO -------------------------------
(***************************************************************************)
(* sys_read, sys_write and sys_lseek of src/src/fs/file.c on a regular    *)
(* file, with the block loops of inode_read and inode_write              *)
(* (src/src/fs/inode.c) that they call.  Several tasks use one inode,     *)
(* each through the file_table entry FileOf[t]; tasks that share an entry *)
(* (after fork or dup) share its offset.                                   *)
(*                                                                         *)
(* A step runs from one point where the code may give up the CPU to the  *)
(* next: bread of a data block, balloc's write-back of the zone map when  *)
(* bmap allocates, brelease of a dirty buffer, and the bwrite of the      *)
(* inode that ends inode_write.  The bytes are left out: what is kept is  *)
(* which blocks of the file are mapped, its size and the offsets, which   *)
(* decide every branch of the calls.  The file's blocks are direct ones,  *)
(* so bmap itself does not block, and the device has free zones.         *)
(***************************************************************************)
EXTENDS Integers, FiniteSets

CONSTANTS
    Tasks,      \* the tasks making calls
    Files,      \* file_table entries open on the inode
    FileOf,     \* FileOf[t]: the entry behind the descriptor task t uses
    AccMode,    \* AccMode[f]: the O_ACCMODE bits of entry f's flags
    BLOCK_SIZE, \* bytes per block
    MAX_SIZE,   \* bound: no call moves an offset past MAX_SIZE
    Lens,       \* lengths passed to sys_read and sys_write
    SeekArgs    \* <<whence, offset>> pairs passed to sys_lseek

ASSUME /\ FileOf \in [Tasks -> Files]
       /\ AccMode \in [Files -> {"O_RDONLY", "O_WRONLY", "O_RDWR"}]
       /\ MAX_SIZE % BLOCK_SIZE = 0
       /\ Lens \subseteq 1..MAX_SIZE

Blocks == 0..(MAX_SIZE \div BLOCK_SIZE - 1)
Min2(a, b) == IF a < b THEN a ELSE b
Max2(a, b) == IF a > b THEN a ELSE b

VARIABLES
    offset,   \* offset[f]: file->offset of entry f
    size,     \* inode->desc->size
    zone,     \* zone[b]: bmap finds a zone for block b (zone[b] # 0)
    pc,       \* where each task is: "idle" or a point inside a call
    begin,    \* inode_read/inode_write's begin, the offset the call started at
    pos,      \* the loop's offset
    left,     \* the loop's bytes left
    halted    \* "no", or "assert" once an assert has stopped the kernel

vars == <<offset, size, zone, pc, begin, pos, left, halted>>

TypeOK ==
    /\ offset \in [Files -> 0..MAX_SIZE]
    /\ size \in 0..MAX_SIZE
    /\ zone \in [Blocks -> BOOLEAN]
    /\ pc \in [Tasks -> {"idle", "rcopy", "rmap", "rret", "wcopy", "wmap", "wend", "wret"}]
    /\ begin \in [Tasks -> 0..MAX_SIZE]
    /\ pos \in [Tasks -> 0..MAX_SIZE]
    /\ left \in [Tasks -> 0..MAX_SIZE]
    /\ halted \in {"no", "assert"}

Running == halted = "no"

\* Once an assert has stopped the kernel no call runs.
Halt == halted' = "assert" /\ UNCHANGED <<offset, size, zone, pc, begin, pos, left>>

\* The bytes one iteration copies: to the end of the block or of the call.
Chars(t) == Min2(BLOCK_SIZE - (pos[t] % BLOCK_SIZE), left[t])

-----------------------------------------------------------------------------
(* sys_read                                                                *)

\* sys_read returns EOF for a descriptor open O_WRONLY.
Readable(f) == AccMode[f] # "O_WRONLY"

\* bmap(inode, offset / BLOCK_SIZE, false); assert(idx); bread.  A block
\* with no zone is a hole, and the assert stops the kernel.
ReadMap(t) ==
    /\ Running
    /\ pc[t] = "rmap"
    /\ IF zone[pos[t] \div BLOCK_SIZE]
          THEN /\ pc' = [pc EXCEPT ![t] = "rcopy"]
               /\ UNCHANGED <<offset, size, zone, begin, pos, left, halted>>
          ELSE Halt

\* sys_read: a descriptor open O_WRONLY returns EOF, and inode_read returns
\* EOF at or past the end of the file: neither changes anything.  Else
\* inode_read starts at file->offset with MIN(len, size - offset) bytes
\* and maps its first block.
Read(t, len) ==
    LET f == FileOf[t] IN
    /\ Running
    /\ pc[t] = "idle"
    /\ Readable(f)
    /\ offset[f] < size
    /\ begin' = [begin EXCEPT ![t] = offset[f]]
    /\ pos' = [pos EXCEPT ![t] = offset[f]]
    /\ left' = [left EXCEPT ![t] = Min2(len, size - offset[f])]
    /\ IF zone[offset[f] \div BLOCK_SIZE]
          THEN pc' = [pc EXCEPT ![t] = "rcopy"] /\ UNCHANGED halted
          ELSE halted' = "assert" /\ UNCHANGED pc
    /\ UNCHANGED <<offset, size, zone>>

\* The copy out of the buffer and its brelease, which may block on the
\* write-back of a dirty buffer; the loop then maps the next block, or
\* ends.
ReadCopy(t) ==
    /\ Running
    /\ pc[t] = "rcopy"
    /\ pos' = [pos EXCEPT ![t] = @ + Chars(t)]
    /\ left' = [left EXCEPT ![t] = @ - Chars(t)]
    /\ pc' = [pc EXCEPT ![t] = IF left[t] = Chars(t) THEN "rret" ELSE "rmap"]
    /\ UNCHANGED <<offset, size, zone, begin, halted>>

\* inode_read returns offset - begin, and sys_read adds it to file->offset.
ReadReturn(t) ==
    /\ Running
    /\ pc[t] = "rret"
    /\ offset' = [offset EXCEPT ![FileOf[t]] = @ + (pos[t] - begin[t])]
    /\ pc' = [pc EXCEPT ![t] = "idle"]
    /\ UNCHANGED <<size, zone, begin, pos, left, halted>>

-----------------------------------------------------------------------------
(* sys_write                                                               *)

\* sys_write returns EOF for a descriptor open O_RDONLY.
Writable(f) == AccMode[f] # "O_RDONLY"

\* bmap(inode, offset / BLOCK_SIZE, true): a hole gets a zone from balloc;
\* assert(idx) holds, the device having free zones; bread.
WriteMap(t) ==
    /\ Running
    /\ pc[t] = "wmap"
    /\ zone' = [zone EXCEPT ![pos[t] \div BLOCK_SIZE] = TRUE]
    /\ pc' = [pc EXCEPT ![t] = "wcopy"]
    /\ UNCHANGED <<offset, size, begin, pos, left, halted>>

\* sys_write: a descriptor open O_RDONLY returns EOF.  Else inode_write
\* starts at file->offset with len bytes and maps its first block.
Write(t, len) ==
    LET f == FileOf[t] IN
    /\ Running
    /\ pc[t] = "idle"
    /\ Writable(f)
    /\ offset[f] + len <= MAX_SIZE
    /\ begin' = [begin EXCEPT ![t] = offset[f]]
    /\ pos' = [pos EXCEPT ![t] = offset[f]]
    /\ left' = [left EXCEPT ![t] = len]
    /\ zone' = [zone EXCEPT ![offset[f] \div BLOCK_SIZE] = TRUE]
    /\ pc' = [pc EXCEPT ![t] = "wcopy"]
    /\ UNCHANGED <<offset, size, halted>>

\* The copy into the buffer, dirty = true, and brelease, which may block on
\* its write-back; the loop then maps the next block, or ends.
WriteCopy(t) ==
    /\ Running
    /\ pc[t] = "wcopy"
    /\ pos' = [pos EXCEPT ![t] = @ + Chars(t)]
    /\ left' = [left EXCEPT ![t] = @ - Chars(t)]
    /\ pc' = [pc EXCEPT ![t] = IF left[t] = Chars(t) THEN "wend" ELSE "wmap"]
    /\ UNCHANGED <<offset, size, zone, begin, halted>>

\* size = MAX(offset, size), then bwrite(inode->buf), which blocks.
WriteEnd(t) ==
    /\ Running
    /\ pc[t] = "wend"
    /\ size' = Max2(pos[t], size)
    /\ pc' = [pc EXCEPT ![t] = "wret"]
    /\ UNCHANGED <<offset, zone, begin, pos, left, halted>>

\* inode_write returns offset - begin, and sys_write adds it to
\* file->offset.
WriteReturn(t) ==
    /\ Running
    /\ pc[t] = "wret"
    /\ offset' = [offset EXCEPT ![FileOf[t]] = @ + (pos[t] - begin[t])]
    /\ pc' = [pc EXCEPT ![t] = "idle"]
    /\ UNCHANGED <<size, zone, begin, pos, left, halted>>

-----------------------------------------------------------------------------
(* sys_lseek: SEEK_SET, SEEK_CUR or SEEK_END, each asserting that the new *)
(* offset is not negative; it does not block.                             *)

SeekTo(t, whence, o) ==
    LET f == FileOf[t] IN
    CASE whence = "SEEK_SET" -> o
      [] whence = "SEEK_CUR" -> offset[f] + o
      [] whence = "SEEK_END" -> size + o

Lseek(t, whence, o) ==
    /\ Running
    /\ pc[t] = "idle"
    /\ SeekTo(t, whence, o) <= MAX_SIZE
    /\ IF SeekTo(t, whence, o) >= 0
          THEN /\ offset' = [offset EXCEPT ![FileOf[t]] = SeekTo(t, whence, o)]
               /\ UNCHANGED <<size, zone, pc, begin, pos, left, halted>>
          ELSE Halt

-----------------------------------------------------------------------------

\* A new file, created by open(O_CREAT) in every entry: empty, no zones.
Init ==
    /\ offset = [f \in Files |-> 0]
    /\ size = 0
    /\ zone = [b \in Blocks |-> FALSE]
    /\ pc = [t \in Tasks |-> "idle"]
    /\ begin = [t \in Tasks |-> 0]
    /\ pos = [t \in Tasks |-> 0]
    /\ left = [t \in Tasks |-> 0]
    /\ halted = "no"

Next ==
    \/ \E t \in Tasks, len \in Lens : Read(t, len)
    \/ \E t \in Tasks : ReadMap(t)
    \/ \E t \in Tasks : ReadCopy(t)
    \/ \E t \in Tasks : ReadReturn(t)
    \/ \E t \in Tasks, len \in Lens : Write(t, len)
    \/ \E t \in Tasks : WriteMap(t)
    \/ \E t \in Tasks : WriteCopy(t)
    \/ \E t \in Tasks : WriteEnd(t)
    \/ \E t \in Tasks : WriteReturn(t)
    \/ \E t \in Tasks, a \in SeekArgs : Lseek(t, a[1], a[2])

Spec == Init /\ [][Next]_vars

-----------------------------------------------------------------------------
(* Properties.                                                             *)

\* Every entry's offset is within the file: each read and write moves the
\* offset it started from by the bytes it moved, and each write first
\* grows the size to where it ended.  A write from an offset past the end
\* would leave a hole.
OffsetWithinSize == \A f \in Files : offset[f] <= size

\* Every block below the size has a zone, so that the bmap(..., false) of
\* inode_read never finds a hole, which would fail its assert(idx) and
\* halt the kernel: every write maps each block it covers before it
\* grows the size.
NoHoleBelowSize == \A b \in Blocks : b * BLOCK_SIZE < size => zone[b]

=============================================================================
