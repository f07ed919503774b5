\* One task writing the last block a file may have (TOTAL_BLOCK - 1).
CONSTANTS
    Tasks = {t1}
    BI = 4
    NZones = 4
    Blocks = {26}
    MaxCalls = 1
SPECIFICATION Spec
\* Every task stops after MaxCalls calls; that end state is not a deadlock
\* of the code.
CHECK_DEADLOCK FALSE
INVARIANT NoIndexOverrun
