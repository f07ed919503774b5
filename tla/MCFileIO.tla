------------------------------- MODULE MCFileIO -------------------------------
(* Instantiates FileIO for TLC; the sizes are in the .cfg.                  *)
EXTENDS FileIO

CONSTANTS t1, t2, f1, f2

\* Each task opened the file itself: an entry each.
MCFileOfOwn == [t \in Tasks |-> IF t = t1 THEN f1 ELSE f2]

\* The tasks share one entry, as a parent and child do after fork.
MCFileOfShared == [t \in Tasks |-> f1]

MCAccRdWr == [f \in Files |-> "O_RDWR"]

\* lseek to the start or the end of the file.
MCSeekInFile == {<<"SEEK_SET", 0>>, <<"SEEK_END", 0>>}

\* lseek to the start, the end, or past the end of the file.
MCSeekPastEnd == MCSeekInFile \cup {<<"SEEK_SET", MAX_SIZE - BLOCK_SIZE>>}
=============================================================================
