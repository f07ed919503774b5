\* Two tasks, two inode numbers, four table entries besides the root:
\* enough for both tasks to hold two inodes, one being freed each, with
\* no get_free_inode panic.  With two tasks a hit can wait on the lock of
\* an entry whose miss is reading it, but not on one that iput frees
\* meanwhile (that takes a third task: MCInodeCache_race.cfg).
CONSTANTS
    Tasks = {t1, t2}
    Nrs = {n1, n2}
    Slots = {1, 2, 3, 4}
    MaxHeld = 2
    NoTask = NoTask
    NoNr = NoNr
    NoSlot = NoSlot
SPECIFICATION Spec
INVARIANTS TypeOK HeldLive InodeUnique
