\* The MCNamei instance, checking that no rmdir assertion fails: rmdir clears
\* the entry it found before its checks, so removing "a/." fails yet leaves a
\* looking empty to the next rmdir, whose assert(nlinks == 2) then fails.
CONSTANTS
    NInodes = 3
    Names = {"a", "b"}
    BLOCK_DENTRIES = 4
    MaxDirLen = 4
    MaxOpen = 1
    Uid = 1000
    RootPerm = {"r", "w", "x"}
    Modes <- MCModes
    NodeKinds = {"chr"}
    OpenFlags <- MCOpenFlags
    Paths <- MCPaths
    MaxEntries = 2
SPECIFICATION Spec
INVARIANT NoAssertionFailure
VIEW NameiView
