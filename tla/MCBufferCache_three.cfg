CONSTANTS
    Tasks = {t1, t2, t3}
    Blocks = {k1, k2}
    Buffers = {b1, b2}
    MaxHeld = 1
    MaxWrites = 1
    NoTask = NoTask
    NoBlock = NoBlock
    NoBuffer = NoBuffer
SYMMETRY TaskSymmetry
SPECIFICATION Spec
\* A failed assert halts the kernel: those states have no successor.
CHECK_DEADLOCK FALSE
INVARIANTS
    RefCountExact
    FreePoolExact
