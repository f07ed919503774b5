CONSTANTS
    Tasks = {t1, t2, t3}
    Blocks = {k1, k2}
    Buffers = {b1, b2, b3}
    MaxHeld = 1
    MaxWrites = 1
    NoTask = NoTask
    NoBlock = NoBlock
    NoBuffer = NoBuffer
SYMMETRY TaskSymmetry
SPECIFICATION Spec
CHECK_DEADLOCK FALSE
INVARIANT HashUnique
