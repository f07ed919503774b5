\* A device of 16 blocks with 16-bit maps: 8 data zones (8..15), inodes 2..7.
CONSTANTS
    BLOCK_SIZE = 2
    TotalBlock = 16
    ICount = 7
    InodeDescSize = 1
    ZMAP_NR = 1
    IMAP_NR = 1
SPECIFICATION Spec
INVARIANT TypeOK
INVARIANT BitmapExact
