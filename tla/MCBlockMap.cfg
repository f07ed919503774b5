\* One task: direct, single- and double-indirect blocks (12 and 13 share a
\* second-level index block), the last block (26, past an index block) and a
\* device that runs out of zones.
CONSTANTS
    Tasks = {t1}
    BI = 4
    NZones = 5
    Blocks = {0, 8, 12, 13, 26}
    MaxCalls = 4
SPECIFICATION Spec
\* Every task stops after MaxCalls calls; that end state is not a deadlock
\* of the code.
CHECK_DEADLOCK FALSE
INVARIANT TypeOK
INVARIANT BmapFunctional
INVARIANT NoLostZone
