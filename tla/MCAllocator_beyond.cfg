\* Two zone maps of 8 bits: zcount = 9 but only blocks 7..13 exist.
CONSTANTS
    BLOCK_SIZE = 1
    TotalBlock = 14
    ICount = 2
    InodeDescSize = 1
    ZMAP_NR = 2
    IMAP_NR = 1
SPECIFICATION Spec
INVARIANT ZoneInDataArea
