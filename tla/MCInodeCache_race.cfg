\* Three tasks and one inode number: a task waiting on the lock of an inode
\* found in the list is woken by the loading task's unlock, but the yield
\* lets a third task run, and the loading task is dispatched again and
\* iputs the inode before the waiter runs.
CONSTANTS
    Tasks = {t1, t2, t3}
    Nrs = {n1}
    Slots = {1, 2, 3}
    MaxHeld = 1
    NoTask = NoTask
    NoNr = NoNr
    NoSlot = NoSlot
SYMMETRY Symmetry
SPECIFICATION Spec
INVARIANT HeldLive
