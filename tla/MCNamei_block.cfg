\* The MCNamei instance with blocks of three entries, so that a directory
\* grows past its first block: find_entry reads only block 0, so an entry
\* in block 1 is not found, and mkdir adds a second entry of the same name.
CONSTANTS
    NInodes = 3
    Names = {"a", "b"}
    BLOCK_DENTRIES = 3
    MaxDirLen = 4
    MaxOpen = 1
    Uid = 1000
    RootPerm = {"r", "w", "x"}
    Modes <- MCModes
    NodeKinds = {"chr"}
    OpenFlags <- MCOpenFlags
    Paths <- MCPaths
    MaxEntries = 2
SPECIFICATION Spec
INVARIANT LookupFindsEveryEntry
VIEW NameiView
