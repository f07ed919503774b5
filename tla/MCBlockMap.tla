------------------------------ MODULE MCBlockMap ------------------------------
(* Instantiates bmap for TLC; tasks are model values, the rest is in the   *)
(* .cfg.  Tasks are interchangeable, so permuting them is a symmetry.      *)
EXTENDS BlockMap, TLC
TaskSymmetry == Permutations(Tasks)
=============================================================================
