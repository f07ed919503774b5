CONSTANTS
    RootDev = "hda"
    Disks = {"hdb"}
    Dirs = {"mnt", "usr"}
    SUPER_NR = 3
    INODE_NR = 6
    MaxHeld = 1
    NoDev = NoDev
    OpenPaths <- Paths
    UmountPaths <- Paths
SPECIFICATION Spec
INVARIANT MountsLive
