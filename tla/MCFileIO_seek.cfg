\* Two tasks, a file of three blocks of two bytes, reads and writes of 1 to 3 bytes.
CONSTANTS
    t1 = t1
    t2 = t2
    f1 = f1
    f2 = f2
    Tasks = {t1, t2}
    Files = {f1, f2}
    FileOf <- MCFileOfOwn
    AccMode <- MCAccRdWr
    BLOCK_SIZE = 2
    MAX_SIZE = 6
    Lens = {1, 3}
    SeekArgs <- MCSeekPastEnd
SPECIFICATION Spec
\* A failed assert halts the kernel: those states have no successor.
CHECK_DEADLOCK FALSE
INVARIANT NoHoleBelowSize
