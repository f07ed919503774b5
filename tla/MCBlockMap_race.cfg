\* Two tasks writing the same direct block of one file.
CONSTANTS
    Tasks = {t1, t2}
    BI = 4
    NZones = 3
    Blocks = {0}
    MaxCalls = 1
SPECIFICATION Spec
\* Every task stops after MaxCalls calls; that end state is not a deadlock
\* of the code.
CHECK_DEADLOCK FALSE
SYMMETRY TaskSymmetry
INVARIANT BmapFunctional
