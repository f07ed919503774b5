CONSTANTS
    f1 = f1
    StdIn = StdIn
    NTasks = 3
    Inodes <- MCInodes
    Std <- StdIn
    TASK_FILE_NR = 2
    FILE_NR = 2
    FIRST_FD = 1
    KernelRefs = 2
SPECIFICATION Spec
INVARIANTS
    TypeOK
    FileCountExact
    InodeRefExact
    NoAssertionFailure
    ZombieParentLive
VIEW ProcessView
