------------------------------ MODULE MCMemory ------------------------------
(* Model-checking instance of Memory.                                      *)
EXTENDS Memory, TLC

\* Process slots are interchangeable.
ProcSymmetry == Permutations(Procs)

\* unlink_page clears only the present bit, so a page that is not present
\* keeps its old bits, frame and expected contents, and a free frame keeps
\* its old contents.  link_page replaces such an entry whole (entry_init)
\* and takes the frame's contents as they are; nothing else reads them.
\* States differing only there are told apart no further.
Live(p, v) == pte[p][v].present
LivePte == [p \in Procs |-> [v \in VPages |-> IF Live(p, v) THEN pte[p][v] ELSE Blank]]
LiveExpect == [p \in Procs |-> [v \in VPages |-> IF Live(p, v) THEN expect[p][v] ELSE 0]]
LiveContent == [f \in Frames |-> IF mm[f] > 0 THEN content[f] ELSE 0]
MemoryView == <<alive, LivePte, table, brk, vmap, mm, freePages, LiveContent,
                LiveExpect, written, halted>>
====
