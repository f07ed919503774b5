--------------------------- MODULE MCInodeCache ---------------------------
(* Model-checking instance of InodeCache: small sets of tasks, inode      *)
(* numbers and table entries.                                              *)
EXTENDS InodeCache, TLC

\* Tasks and inode numbers are interchangeable model values.
Symmetry == Permutations(Tasks) \cup Permutations(Nrs)
====
