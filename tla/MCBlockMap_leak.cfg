\* One task reading a hole of a file.
CONSTANTS
    Tasks = {t1}
    BI = 4
    NZones = 2
    Blocks = {0}
    MaxCalls = 2
SPECIFICATION Spec
\* Every task stops after MaxCalls calls; that end state is not a deadlock
\* of the code.
CHECK_DEADLOCK FALSE
INVARIANT BuffersReleased
