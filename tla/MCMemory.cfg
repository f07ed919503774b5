\* Two processes, one page in each region, five frames and one user write.
\* Five frames let a process map a page, fork (a copied page table) and
\* take a copy-on-write fault (a fourth frame), or share an mmap page
\* across a fork; a bigger working set runs out of frames, which get_page
\* answers with its "Out of Memory" panic.  A panic stops the kernel, so
\* those states have no successor.  The view leaves out what no step reads
\* (see MCMemory.tla).  Programs pass sys_mmap only addresses they do not
\* map (see MCMemory_remap.cfg for the other case).
CONSTANTS
    Procs = {p1, p2}
    NFrames = 5
    NHeap = 1
    NMmap = 1
    NStack = 1
    MaxWrites = 1
    RemapInUse = FALSE
SYMMETRY ProcSymmetry
VIEW MemoryView
SPECIFICATION Spec
INVARIANTS TypeOK RefCountExact FreePagesExact PrivateIsolation NoAssertionFailure
CHECK_DEADLOCK FALSE
