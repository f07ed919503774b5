\* zcount = 8 = BLOCK_BITS: the tail marks the whole zone map used.
CONSTANTS
    BLOCK_SIZE = 1
    TotalBlock = 13
    ICount = 2
    InodeDescSize = 1
    ZMAP_NR = 1
    IMAP_NR = 1
SPECIFICATION Spec
INVARIANT FailsOnlyWhenFull
