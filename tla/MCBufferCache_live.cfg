CONSTANTS
    Tasks = {t1, t2}
    Blocks = {k1, k2}
    Buffers = {b1}
    MaxHeld = 1
    MaxWrites = 1
    NoTask = NoTask
    NoBlock = NoBlock
    NoBuffer = NoBuffer
SPECIFICATION LiveSpec
PROPERTY CallsComplete
