------------------------------ MODULE MCBitmap ------------------------------
(* Checks bitmap_scan over every map of MapBytes bytes, every run length   *)
(* 1..MaxCount and two offsets, against the definition of the first run   *)
(* of clear bits.  The state is the input; nothing changes.               *)
EXTENDS Bitmap

CONSTANTS MapBytes, MaxCount, Offsets

VARIABLES bits, count, offset

Init ==
    /\ bits \in [0..(MapBytes - 1) -> 0..255]
    /\ count \in 1..MaxCount
    /\ offset \in Offsets

Next == UNCHANGED <<bits, count, offset>>

Spec == Init /\ [][Next]_<<bits, count, offset>>

\* Reference: the least s such that bits s .. s+count-1 are all clear.
ClearRun(map, s) ==
    \A i \in s..(s + count - 1) : ~BitmapTest(map, map.offset + i)

RefStart(map) ==
    LET starts == {s \in 0..(BitsLeft(map) - count) : ClearRun(map, s)}
    IN  IF starts = {} THEN EOF ELSE CHOOSE s \in starts : \A t \in starts : s <= t

\* bitmap_scan (used with run lengths above 1 by the page allocator) finds
\* the first run of `count' clear bits, sets exactly those bits and returns
\* the number of the first; with no such run it returns EOF and leaves the
\* map alone.
ScanMatchesReference ==
    LET map == BitmapMake(bits, MapBytes, offset)
        res == BitmapScan(map, count)
        s   == RefStart(map)
    IN  /\ res[1] = IF s = EOF THEN EOF ELSE s + offset
        /\ \A i \in 0..(BitsLeft(map) - 1) :
              BitmapTest(res[2], offset + i)
                 = (BitmapTest(map, offset + i) \/ (s # EOF /\ i \in s..(s + count - 1)))

=============================================================================
