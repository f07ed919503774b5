\* Three inode numbers, two names, one block of four entries per directory,
\* up to two entries besides "." and ".." in all directories.
CONSTANTS
    NInodes = 3
    Names = {"a", "b"}
    BLOCK_DENTRIES = 4
    MaxDirLen = 4
    MaxOpen = 1
    Uid = 1000
    RootPerm = {"r", "w", "x"}
    Modes <- MCModes
    NodeKinds = {"chr"}
    OpenFlags <- MCOpenFlags
    Paths <- MCPaths
    MaxEntries = 2
SPECIFICATION Spec
INVARIANTS
    TypeOK
    NLinksCoverEntries
    NoDanglingEntry
VIEW NameiView
