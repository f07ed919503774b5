\* The MCNamei instance, checking that a directory is open only read-only:
\* inode_open returns the directory named found for a path ending in a
\* separator before makeup, whatever the flags.  The view keeps the access
\* modes this property reads.
CONSTANTS
    NInodes = 3
    Names = {"a", "b"}
    BLOCK_DENTRIES = 4
    MaxDirLen = 4
    MaxOpen = 1
    Uid = 1000
    RootPerm = {"r", "w", "x"}
    Modes <- MCModes
    NodeKinds = {"chr"}
    OpenFlags <- MCOpenFlags
    Paths <- MCPaths
    MaxEntries = 2
SPECIFICATION Spec
INVARIANT DirOpenedReadOnly
VIEW OpenView
