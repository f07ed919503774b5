\* Three tasks, one inode number and two table entries: two tasks blocked
\* in the write-back of the inodes they put leave no entry for a third iget.
CONSTANTS
    Tasks = {t1, t2, t3}
    Nrs = {n1}
    Slots = {1, 2}
    MaxHeld = 1
    NoTask = NoTask
    NoNr = NoNr
    NoSlot = NoSlot
SYMMETRY Symmetry
SPECIFICATION Spec
INVARIANT NoAssertionFailure
