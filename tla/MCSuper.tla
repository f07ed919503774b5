------------------------------- MODULE MCSuper -------------------------------
(* Instantiates the superblock table for TLC; the sizes are in the .cfg.  *)
EXTENDS Super

\* Callers that open only names of the root directory and umount only
\* mount-point directories.
MCOpenDirect  == {p \in Paths : Len(p) = 1}
MCUmountDirs  == {<<m>> : m \in Dirs}

\* States that differ only where nothing reads: the nr a freed inode_table
\* entry keeps (find_inode scans only list members, and a miss overwrites
\* it), and the iroot a freed super_table entry keeps (read_super's caller
\* sets it before put_super can read it when imount is NULL, as it is for
\* every freed entry when umount is called on directories only).
SuperView ==
    << [s \in Slots |-> IF ino[s].dev = NoDev THEN [ino[s] EXCEPT !.nr = ROOT_NR]
                       ELSE ino[s]],
       [i \in SupSlots |-> IF sup[i].dev = NoDev /\ sup[i].imount = NULL
                            THEN [sup[i] EXCEPT !.iroot = NULL] ELSE sup[i]],
       held, fresh, halted >>
=============================================================================
