\* One task writing a single-indirect block with one free zone left.
CONSTANTS
    Tasks = {t1}
    BI = 4
    NZones = 1
    Blocks = {8}
    MaxCalls = 1
SPECIFICATION Spec
\* Every task stops after MaxCalls calls; that end state is not a deadlock
\* of the code.
CHECK_DEADLOCK FALSE
INVARIANT ZoneRefsValid
