\* Two tasks and two buffers, each system call holding one buffer, with the
\* fairness of the scheduler and the disk interrupt.  With two tasks the
\* yield in mutex_unlock always hands the CPU to the woken waiter; the
\* stale-lock cases need a third ready task (MCBufferCache_stale_lock.cfg).
CONSTANTS
    Tasks = {t1, t2}
    Blocks = {k1, k2}
    Buffers = {b1, b2}
    MaxHeld = 1
    MaxWrites = 2
    NoTask = NoTask
    NoBlock = NoBlock
    NoBuffer = NoBuffer
SPECIFICATION LiveSpec
INVARIANTS
    TypeOK
    NoAssertionFailure
    NoLostWrite
PROPERTY CallsComplete
