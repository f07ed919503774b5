\* As MCMemory.cfg, but a program may pass sys_mmap the address of a page
\* it already maps (here: one its parent mapped before fork).
CONSTANTS
    Procs = {p1, p2}
    NFrames = 5
    NHeap = 1
    NMmap = 1
    NStack = 1
    MaxWrites = 1
    RemapInUse = TRUE
SYMMETRY ProcSymmetry
VIEW MemoryView
SPECIFICATION Spec
INVARIANT PrivateIsolation
CHECK_DEADLOCK FALSE
