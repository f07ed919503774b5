------------------------------- MODULE Bitmap -------------------------------
(***************************************************************************)
(* The bit maps of src/src/lib/bitmap.c, used by the zone and inode       *)
(* allocators (fs/bmap.c) and by the page allocator (kernel/memory.c).    *)
(* A map is bitmap_t: its bytes (a function from byte index to 0..255),   *)
(* and the offset of its first bit; bit i of the map is bit i % 8 of byte *)
(* i \div 8, as in bitmap_test.                                            *)
(***************************************************************************)
EXTENDS Naturals, Integers

EOF == -1

\* bitmap_make: a map over `length' bytes whose first bit is `offset'.
BitmapMake(bits, length, offset) ==
    [bits |-> bits, length |-> length, offset |-> offset]

\* The number of bits of a map.
BitsLeft(map) == map.length * 8

\* Bit k (0..7) of a byte.
ByteBit(byte, k) == (byte \div 2^k) % 2 = 1

\* bitmap_test: whether the bit numbered `index' (offset included) is set.
BitmapTest(map, index) ==
    LET idx == index - map.offset
    IN  ByteBit(map.bits[idx \div 8], idx % 8)

\* bitmap_set: the byte holding the bit gets it or'ed in or masked out.
BitmapSet(map, index, value) ==
    LET idx  == index - map.offset
        byte == map.bits[idx \div 8]
        k    == idx % 8
        new  == CASE value /\ ~ByteBit(byte, k) -> byte + 2^k
                  [] ~value /\ ByteBit(byte, k) -> byte - 2^k
                  [] OTHER                      -> byte
    IN  [map EXCEPT !.bits[idx \div 8] = new]

\* Mutant of ScanLoop: a set bit does not reset the run of clear bits.
RECURSIVE ScanLoopNoReset(_, _, _, _)
ScanLoopNoReset(map, count, next_bit, counter) ==
    IF next_bit >= BitsLeft(map) THEN EOF
    ELSE LET c == IF ~BitmapTest(map, map.offset + next_bit) THEN counter + 1
                  ELSE counter
         IN  IF c = count THEN next_bit - count + 1
             ELSE ScanLoopNoReset(map, count, next_bit + 1, c)

\* The first loop of bitmap_scan: walk the bits counting the clear ones in
\* a row; the start of the first run of `count' of them, or EOF.
RECURSIVE ScanLoop(_, _, _, _)
ScanLoop(map, count, next_bit, counter) ==
    IF next_bit >= BitsLeft(map) THEN EOF
    ELSE LET c == IF ~BitmapTest(map, map.offset + next_bit) THEN counter + 1
                  ELSE 0
         IN  IF c = count THEN next_bit - count + 1
             ELSE ScanLoop(map, count, next_bit + 1, c)

\* The second loop of bitmap_scan: set the bits start .. start+count-1.
RECURSIVE SetRun(_, _, _)
SetRun(map, start, n) ==
    IF n = 0 THEN map
    ELSE SetRun(BitmapSet(map, map.offset + start + n - 1, TRUE), start, n - 1)

\* bitmap_scan: find `count' clear bits in a row, set them, and give the
\* number of the first one (offset included), or EOF and the map unchanged.
BitmapScan(map, count) ==
    LET start == ScanLoop(map, count, 0, 0)
    IN  IF start = EOF THEN <<EOF, map>>
        ELSE <<start + map.offset, SetRun(map, start, count)>>

=============================================================================
