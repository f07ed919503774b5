\* The MCNamei instance, checking that an inode a descriptor refers to stays
\* allocated: sys_unlink frees the inode at its last link while it is open.
CONSTANTS
    NInodes = 3
    Names = {"a", "b"}
    BLOCK_DENTRIES = 4
    MaxDirLen = 4
    MaxOpen = 1
    Uid = 1000
    RootPerm = {"r", "w", "x"}
    Modes <- MCModes
    NodeKinds = {"chr"}
    OpenFlags <- MCOpenFlags
    Paths <- MCPaths
    MaxEntries = 2
SPECIFICATION Spec
INVARIANT OpenedAllocated
VIEW NameiView
