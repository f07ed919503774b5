\* icount = 3: the inode tail byte is byte 0 of the only inode map.
CONSTANTS
    BLOCK_SIZE = 2
    TotalBlock = 16
    ICount = 3
    InodeDescSize = 1
    ZMAP_NR = 1
    IMAP_NR = 1
SPECIFICATION Spec
INVARIANT InodeInRange
