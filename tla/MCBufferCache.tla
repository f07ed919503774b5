--------------------------- MODULE MCBufferCache ---------------------------
(* Instantiates BufferCache for TLC: the sets of tasks, blocks and buffer  *)
(* slots are model values given in the .cfg files.                         *)
EXTENDS BufferCache, TLC

\* Tasks are interchangeable (no property names one).
TaskSymmetry == Permutations(Tasks)

=============================================================================
