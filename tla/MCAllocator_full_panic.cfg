\* One zone map in use but ZMAP_NR = 2 slots, as 8 slots with fewer maps.
CONSTANTS
    BLOCK_SIZE = 2
    TotalBlock = 16
    ICount = 7
    InodeDescSize = 1
    ZMAP_NR = 2
    IMAP_NR = 1
SPECIFICATION Spec
INVARIANT AllocNeverHalts
