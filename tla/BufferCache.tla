---------------------------- MODULE BufferCache ----------------------------
(***************************************************************************)
(* The block buffer cache of src/src/kernel/buffer.c: bread, brelease and  *)
(* bwrite, with the per-buffer reentrant lock of kernel/mutex.c, the free  *)
(* list, the wait list of tasks starved of buffers, the request queue of   *)
(* kernel/device.c (device_request) and the cooperative scheduler of       *)
(* kernel/tasks.c.  Kernel code runs with interrupts off, so a task is     *)
(* only switched out where it blocks (task_block) or yields (task_yield in *)
(* mutex_unlock); a task in user mode may be preempted by the clock.       *)
(*                                                                         *)
(* One block device.  Block contents are abstracted to version numbers:    *)
(* every write a task makes into a held buffer produces a fresh version,   *)
(* and the history variable latest[k] is the last version written to k.   *)
(***************************************************************************)
EXTENDS Naturals, FiniteSets, Sequences

CONSTANTS
    Tasks,      \* kernel execution contexts (model values)
    Blocks,     \* block numbers of the device (model values)
    Buffers,    \* buffer_t slots the reserved memory region can hold
    MaxHeld,    \* most breads one system call makes before it returns
    MaxWrites,  \* bound on the versions written (history counter)
    NoTask, NoBlock, NoBuffer

ASSUME NoTask \notin Tasks /\ NoBlock \notin Blocks /\ NoBuffer \notin Buffers
ASSUME MaxHeld \in Nat \ {0} /\ MaxWrites \in Nat

VARIABLES
    running,    \* the task on the CPU, NoTask when the idle task runs
    blocked,    \* tasks in TASK_BLOCKED
    pc,         \* where each task is in the cache code
    want,       \* block a task's bread is looking for
    cur,        \* buffer a task is locking, reading or flushing
    cont,       \* "hit" or "miss": which bread path a lock wait resumes
    op,         \* "bread", "brelease" or "bwrite": what a pending I/O is for
    held,       \* <<buffer, block>> pairs a task got from bread
    reads,      \* breads made by the current system call
    bblock,     \* buffer_t.block (NoBlock for EOF)
    count,      \* buffer_t.count
    dirty,      \* buffer_t.dirty
    valid,      \* buffer_t.valid
    data,       \* version held in buffer_t.data
    carved,     \* the slot was handed out by get_new_buffer
    holder,     \* reentrantlock_t.holder (the mutex is held iff # NoTask)
    waiters,    \* mutex_t.waiters
    hash,       \* buffers linked into hash_table
    freeList,   \* free_list, least recently released first
    waitList,   \* wait_list
    disk,       \* version stored on the device for each block
    active,     \* task whose request the device is serving
    queue,      \* tasks whose requests wait in request_list
    latest,     \* history: last version written to each block
    written     \* history: number of versions written so far

sched == <<running, blocked>>
task == <<pc, want, cur, cont, op, held, reads>>
buf == <<bblock, count, dirty, valid, data, carved, holder, waiters>>
lists == <<hash, freeList, waitList>>
dev == <<disk, active, queue>>
vars == <<sched, task, buf, lists, dev, latest, written>>

PCs == {"user", "lock_wait", "getfree", "io_queued", "io_wait", "io_done", "panic"}

TypeOK ==
    /\ running \in Tasks \cup {NoTask}
    /\ blocked \subseteq Tasks
    /\ pc \in [Tasks -> PCs]
    /\ want \in [Tasks -> Blocks \cup {NoBlock}]
    /\ cur \in [Tasks -> Buffers \cup {NoBuffer}]
    /\ cont \in [Tasks -> {"hit", "miss"}]
    /\ op \in [Tasks -> {"none", "bread", "brelease", "bwrite"}]
    /\ held \in [Tasks -> SUBSET (Buffers \X Blocks)]
    /\ reads \in [Tasks -> 0..MaxHeld]
    /\ bblock \in [Buffers -> Blocks \cup {NoBlock}]
    /\ count \in [Buffers -> Nat]
    /\ dirty \in [Buffers -> BOOLEAN]
    /\ valid \in [Buffers -> BOOLEAN]
    /\ data \in [Buffers -> 0..MaxWrites]
    /\ carved \in [Buffers -> BOOLEAN]
    /\ holder \in [Buffers -> Tasks \cup {NoTask}]
    /\ waiters \in [Buffers -> SUBSET Tasks]
    /\ hash \subseteq Buffers
    /\ freeList \in Seq(Buffers)
    /\ waitList \subseteq Tasks
    /\ disk \in [Blocks -> 0..MaxWrites]
    /\ active \in Tasks \cup {NoTask}
    /\ queue \subseteq Tasks
    /\ latest \in [Blocks -> 0..MaxWrites]
    /\ written \in 0..MaxWrites

Init ==
    /\ running \in Tasks
    /\ blocked = {}
    /\ pc = [t \in Tasks |-> "user"]
    /\ want = [t \in Tasks |-> NoBlock]
    /\ cur = [t \in Tasks |-> NoBuffer]
    /\ cont = [t \in Tasks |-> "miss"]
    /\ op = [t \in Tasks |-> "none"]
    /\ held = [t \in Tasks |-> {}]
    /\ reads = [t \in Tasks |-> 0]
    /\ bblock = [b \in Buffers |-> NoBlock]
    /\ count = [b \in Buffers |-> 0]
    /\ dirty = [b \in Buffers |-> FALSE]
    /\ valid = [b \in Buffers |-> FALSE]
    /\ data = [b \in Buffers |-> 0]
    /\ carved = [b \in Buffers |-> FALSE]
    /\ holder = [b \in Buffers |-> NoTask]
    /\ waiters = [b \in Buffers |-> {}]
    /\ hash = {}
    /\ freeList = <<>>
    /\ waitList = {}
    /\ disk = [k \in Blocks |-> 0]
    /\ active = NoTask
    /\ queue = {}
    /\ latest = [k \in Blocks |-> 0]
    /\ written = 0

-----------------------------------------------------------------------------
(* Scheduling (kernel/tasks.c).                                            *)

\* The whole kernel is halted once an assertion has failed.
Halted == \E t \in Tasks : pc[t] = "panic"

\* A kernel step of task t: t is on the CPU.
Running(t) == ~Halted /\ running = t /\ t \notin blocked

\* schedule() after t blocked or yielded: task_search picks a READY task
\* other than the current one (by ticks and jiffies, abstracted to any),
\* and the idle task when there is none.
Reschedule(t) ==
    LET others == (Tasks \ blocked') \ {t}
    IN  IF others = {} THEN running' = NoTask ELSE running' \in others

\* One element of S, or NoTask when S is empty (list_pop of a maybe-empty list).
OneOf(S) == IF S = {} THEN {NoTask} ELSE S

\* The clock preempts a task back in user mode (outside any system call, so
\* holding no buffer), or the idle task finds a ready task.
InUserMode(t) == pc[t] = "user" /\ held[t] = {}

DispatchTo(t) ==
    /\ ~Halted
    /\ IF running = NoTask THEN TRUE ELSE InUserMode(running)
    /\ t \notin blocked \cup {running}
    /\ running' = t
    /\ UNCHANGED <<blocked, task, buf, lists, dev, latest, written>>

Dispatch == \E t \in Tasks : DispatchTo(t)

-----------------------------------------------------------------------------
(* The reentrant lock (kernel/mutex.c).  bread never re-enters a buffer    *)
(* lock it holds, so the repeat count stays at 1 and is left out.          *)

\* Mutant of ReleaseLock: the lock is freed but no waiter is woken.
ReleaseLockNoWake(t, b, woken) ==
    /\ holder' = [holder EXCEPT ![b] = NoTask]
    /\ UNCHANGED waiters
    /\ blocked' = blocked \ woken
    /\ UNCHANGED running

\* reentrant_unlock -> mutex_unlock: wake one waiter and, if there was one,
\* yield the CPU.  `woken' are tasks the same step unblocks besides.
ReleaseLock(t, b, woken) ==
    \E w \in OneOf(waiters[b]) :
        /\ holder' = [holder EXCEPT ![b] = NoTask]
        /\ waiters' = [waiters EXCEPT ![b] = @ \ {w}]
        /\ blocked' = blocked \ ({w} \cup woken)
        /\ IF w = NoTask THEN UNCHANGED running ELSE Reschedule(t)

\* device_request (kernel/device.c): with an empty request list the caller
\* starts the transfer at once, otherwise it queues and blocks until the
\* request before it hands the device over.  Either way the caller blocks.
Submit(t) ==
    /\ blocked' = blocked \cup {t}
    /\ Reschedule(t)
    /\ IF active = NoTask
          THEN /\ active' = t /\ queue' = queue
               /\ pc' = [pc EXCEPT ![t] = "io_wait"]
          ELSE /\ active' = active /\ queue' = queue \cup {t}
               /\ pc' = [pc EXCEPT ![t] = "io_queued"]

\* The end of device_request: request_nextreq picks the next request by
\* the elevator (any queued request: list.c is not part of the sources),
\* and wakes its task.  Gives the task woken, or NoTask.
NextReq == OneOf(queue)

-----------------------------------------------------------------------------
(* bread (kernel/buffer.c).  The lock is taken; b is the buffer found for  *)
(* block k.  Each body assigns every variable but want, carved, freeList,  *)
(* waitList and the history, which its caller assigns.                     *)

\* Hash-table hit, lock taken: assert(bf->valid); a buffer whose count fell
\* to 0 is given up for a fresh one (goto getagain); else count it.
HitBody(t, b, k) ==
    \/ /\ ~valid[b]
       /\ pc' = [pc EXCEPT ![t] = "panic"]
       /\ holder' = [holder EXCEPT ![b] = t]
       /\ UNCHANGED <<sched, cur, cont, op, held, bblock, count, dirty,
                      valid, data, waiters, hash, dev>>
    \/ /\ valid[b] /\ count[b] = 0
       /\ ReleaseLock(t, b, {})
       /\ pc' = [pc EXCEPT ![t] = "getfree"]
       /\ cur' = [cur EXCEPT ![t] = NoBuffer]
       /\ UNCHANGED <<cont, op, held, bblock, count, dirty, valid, data, hash, dev>>
    \/ /\ valid[b] /\ count[b] > 0
       /\ count' = [count EXCEPT ![b] = @ + 1]
       /\ ReleaseLock(t, b, {})
       /\ held' = [held EXCEPT ![t] = @ \cup {<<b, k>>}]
       /\ pc' = [pc EXCEPT ![t] = "user"]
       /\ cur' = [cur EXCEPT ![t] = NoBuffer]
       /\ UNCHANGED <<cont, op, bblock, dirty, valid, data, hash, dev>>

\* Mutant of MissBody: the lock is dropped before the read, not after it.
MissBodyEarlyUnlock(t, b, k) ==
    /\ count' = [count EXCEPT ![b] = 1]
    /\ bblock' = [bblock EXCEPT ![b] = k]
    /\ hash' = hash \cup {b}
    /\ cur' = [cur EXCEPT ![t] = b]
    /\ op' = [op EXCEPT ![t] = "bread"]
    /\ Submit(t)
    /\ UNCHANGED <<cont, held, dirty, valid, data, holder, waiters, disk>>

\* Mutant of MissBody: the new buffer starts with count 0 (off by one).
MissBodyZeroCount(t, b, k) ==
    /\ holder' = [holder EXCEPT ![b] = t]
    /\ count' = [count EXCEPT ![b] = 0]
    /\ bblock' = [bblock EXCEPT ![b] = k]
    /\ hash' = hash \cup {b}
    /\ cur' = [cur EXCEPT ![t] = b]
    /\ op' = [op EXCEPT ![t] = "bread"]
    /\ Submit(t)
    /\ UNCHANGED <<cont, held, dirty, valid, data, waiters, disk>>

\* Miss, lock taken on a buffer from get_free_buffer (whose assert that it
\* is clean and unused FreePoolExact checks): claim it for k, link it into
\* the hash table and read it, keeping the lock across the read.
MissBody(t, b, k) ==
    /\ holder' = [holder EXCEPT ![b] = t]
    /\ count' = [count EXCEPT ![b] = 1]
    /\ bblock' = [bblock EXCEPT ![b] = k]
    /\ hash' = hash \cup {b}
    /\ cur' = [cur EXCEPT ![t] = b]
    /\ op' = [op EXCEPT ![t] = "bread"]
    /\ Submit(t)
    /\ UNCHANGED <<cont, held, dirty, valid, data, waiters, disk>>

\* reentrant_lock -> mutex_lock on b, then the path's body; if another task
\* holds the mutex, block on its waiters and retry when woken.
LockFor(t, b, k, path) ==
    \/ /\ holder[b] = NoTask
       /\ IF path = "hit" THEN HitBody(t, b, k) ELSE MissBody(t, b, k)
    \/ /\ holder[b] \notin {NoTask, t}
       /\ waiters' = [waiters EXCEPT ![b] = @ \cup {t}]
       /\ blocked' = blocked \cup {t}
       /\ Reschedule(t)
       /\ pc' = [pc EXCEPT ![t] = "lock_wait"]
       /\ cur' = [cur EXCEPT ![t] = b]
       /\ cont' = [cont EXCEPT ![t] = path]
       /\ UNCHANGED <<op, held, bblock, count, dirty, valid, data, holder, hash, dev>>

\* get_free_buffer: a never-used slot while the region lasts, else the
\* least recently released buffer, else sleep on wait_list and loop.
GetFree(t, k) ==
    LET fresh == {b \in Buffers : ~carved[b]}
    IN  \/ /\ fresh # {}
           /\ LET b == CHOOSE x \in fresh : TRUE
              IN  /\ carved' = [carved EXCEPT ![b] = TRUE]
                  /\ LockFor(t, b, k, "miss")
           /\ UNCHANGED <<freeList, waitList>>
        \/ /\ fresh = {} /\ freeList # <<>>
           /\ freeList' = Tail(freeList)
           /\ LockFor(t, Head(freeList), k, "miss")
           /\ UNCHANGED <<carved, waitList>>
        \/ /\ fresh = {} /\ freeList = <<>>
           /\ waitList' = waitList \cup {t}
           /\ blocked' = blocked \cup {t}
           /\ Reschedule(t)
           /\ pc' = [pc EXCEPT ![t] = "getfree"]
           /\ UNCHANGED <<cur, cont, op, held, bblock, count, dirty, valid, data,
                          carved, holder, waiters, hash, freeList, dev>>

\* A task may ask for block k when it does not hold it already; a system
\* call makes a bounded number of breads and returns once it has released
\* what it read.
MayRead(t, k) ==
    /\ Running(t)
    /\ pc[t] = "user"
    /\ reads[t] < MaxHeld
    /\ \A h \in held[t] : h[2] # k
    /\ reads' = [reads EXCEPT ![t] = @ + 1]

BreadHit(t, k) ==
    /\ MayRead(t, k)
    /\ \E b \in hash : bblock[b] = k /\ LockFor(t, b, k, "hit")
    /\ want' = [want EXCEPT ![t] = k]
    /\ UNCHANGED <<carved, freeList, waitList, latest, written>>

BreadMiss(t, k) ==
    /\ MayRead(t, k)
    /\ ~\E b \in hash : bblock[b] = k
    /\ want' = [want EXCEPT ![t] = k]
    /\ GetFree(t, k)
    /\ UNCHANGED <<latest, written>>

\* Woken from wait_list, or sent back by the count = 0 check: getagain.
GetAgain(t) ==
    /\ Running(t)
    /\ pc[t] = "getfree"
    /\ GetFree(t, want[t])
    /\ UNCHANGED <<want, reads, latest, written>>

\* Woken from the mutex's waiters: mutex_lock checks the mutex again.
LockRetry(t) ==
    /\ Running(t)
    /\ pc[t] = "lock_wait"
    /\ LockFor(t, cur[t], want[t], cont[t])
    /\ UNCHANGED <<want, reads, carved, freeList, waitList, latest, written>>

-----------------------------------------------------------------------------
(* The device (kernel/device.c device_request and do_request).             *)

\* A queued request's task, woken by its predecessor, starts its transfer.
IoStart(t) ==
    /\ Running(t)
    /\ pc[t] = "io_queued"
    /\ active = t
    /\ pc' = [pc EXCEPT ![t] = "io_wait"]
    /\ blocked' = blocked \cup {t}
    /\ Reschedule(t)
    /\ UNCHANGED <<want, cur, cont, op, held, reads, buf, lists, dev, latest, written>>

\* The disk interrupt: the transfer is done and its task is ready again.
Interrupt ==
    LET t == active
        b == cur[t]
    IN  /\ ~Halted
        /\ t # NoTask
        /\ pc[t] = "io_wait"
        /\ blocked' = blocked \ {t}
        /\ pc' = [pc EXCEPT ![t] = "io_done"]
        /\ IF op[t] = "bread"
              THEN /\ data' = [data EXCEPT ![b] = disk[bblock[b]]]
                   /\ UNCHANGED disk
              ELSE /\ disk' = [disk EXCEPT ![bblock[b]] = data[b]]
                   /\ UNCHANGED data
        /\ UNCHANGED <<running, want, cur, cont, op, held, reads, bblock, count, dirty,
                       valid, carved, holder, waiters, lists, active, queue,
                       latest, written>>

\* Mutant of FreeBuffer: the buffer keeps its valid flag.
FreeBufferKeepValid(b, woken) ==
    /\ bblock' = [bblock EXCEPT ![b] = NoBlock]
    /\ freeList' = Append(freeList, b)
    /\ \E w \in OneOf(waitList) :
          /\ waitList' = waitList \ {w}
          /\ blocked' = blocked \ ({w} \cup woken)
    /\ UNCHANGED valid

\* The end of brelease once the count is 0 and any flush is done: forget
\* the block, push the buffer on free_list and wake one task sleeping on
\* wait_list (`woken' are tasks the same step unblocks besides).
FreeBuffer(b, woken) ==
    /\ bblock' = [bblock EXCEPT ![b] = NoBlock]
    /\ valid' = [valid EXCEPT ![b] = FALSE]
    /\ freeList' = Append(freeList, b)
    /\ \E w \in OneOf(waitList) :
          /\ waitList' = waitList \ {w}
          /\ blocked' = blocked \ ({w} \cup woken)

\* device_request returns after handing the device to the next request;
\* then the rest of the caller: bread marks the buffer valid and unlocks,
\* brelease puts the flushed buffer on the free list and wakes a waiter.
IoDone(t) ==
    LET b == cur[t]
    IN
    /\ Running(t)
    /\ pc[t] = "io_done"
    /\ \E n \in NextReq :
        /\ active' = n
        /\ queue' = queue \ {n}
        /\ op' = [op EXCEPT ![t] = "none"]
        /\ cur' = [cur EXCEPT ![t] = NoBuffer]
        /\ pc' = [pc EXCEPT ![t] = "user"]
        /\ \/ /\ op[t] = "bread"
              /\ valid' = [valid EXCEPT ![b] = TRUE]
              /\ ReleaseLock(t, b, {n})
              /\ held' = [held EXCEPT ![t] = @ \cup {<<b, want[t]>>}]
              /\ UNCHANGED <<bblock, count, dirty, data, carved, lists>>
           \/ /\ op[t] = "brelease"
              /\ FreeBuffer(b, {n})
              /\ UNCHANGED <<running, held, count, dirty, data, carved, holder,
                             waiters, hash>>
           \/ /\ op[t] = "bwrite"
              /\ blocked' = blocked \ {n}
              /\ UNCHANGED <<running, held, buf, lists>>
    /\ UNCHANGED <<want, cont, reads, disk, latest, written>>

-----------------------------------------------------------------------------
(* brelease and bwrite on a buffer h = <<buffer, block>> the task holds,   *)
(* and a caller's write into it (memcpy then bf->dirty = true, as in       *)
(* inode_write).                                                           *)

Holding(t, h) == Running(t) /\ pc[t] = "user" /\ h \in held[t]

\* Mutant of BRelease: the count is decremented twice.
BReleaseTwice(t, h) ==
    /\ Holding(t, h)
    /\ held' = [held EXCEPT ![t] = @ \ {h}]
    /\ reads' = [reads EXCEPT ![t] = IF held'[t] = {} THEN 0 ELSE @]
    /\ count' = [count EXCEPT ![h[1]] = @ - 2]
    /\ UNCHANGED <<sched, pc, cur, op, bblock, dirty, valid, lists, dev,
                   want, cont, data, carved, holder, waiters, latest, written>>

\* brelease: drop a reference; the last one unlinks the buffer from the
\* hash table, flushes it if dirty, forgets its block, frees it and wakes
\* one task waiting for a buffer.
BRelease(t, h) ==
    LET b == h[1]
    IN
    /\ Holding(t, h)
    /\ held' = [held EXCEPT ![t] = @ \ {h}]
    /\ reads' = [reads EXCEPT ![t] = IF held'[t] = {} THEN 0 ELSE @]
    /\ count' = [count EXCEPT ![b] = @ - 1]
    /\ \/ /\ count[b] > 1
          /\ UNCHANGED <<sched, pc, cur, op, bblock, dirty, valid, lists, dev>>
       \/ /\ count[b] = 1
          /\ hash' = hash \ {b}
          /\ \/ /\ dirty[b]
                /\ dirty' = [dirty EXCEPT ![b] = FALSE]
                /\ cur' = [cur EXCEPT ![t] = b]
                /\ op' = [op EXCEPT ![t] = "brelease"]
                /\ Submit(t)
                /\ UNCHANGED <<bblock, valid, freeList, waitList, disk>>
             \/ /\ ~dirty[b]
                /\ FreeBuffer(b, {})
                /\ UNCHANGED <<running, pc, cur, op, dirty, dev>>
    /\ UNCHANGED <<want, cont, data, carved, holder, waiters, latest, written>>

\* bwrite: write the buffer through to the device; the count is untouched.
BWrite(t, h) ==
    /\ Holding(t, h)
    /\ cur' = [cur EXCEPT ![t] = h[1]]
    /\ op' = [op EXCEPT ![t] = "bwrite"]
    /\ Submit(t)
    /\ UNCHANGED <<want, cont, held, reads, buf, lists, disk, latest, written>>

\* Mutant of Modify: the caller forgets to mark the buffer dirty.
ModifyNoDirty(t, h) ==
    /\ Holding(t, h)
    /\ written < MaxWrites
    /\ written' = written + 1
    /\ data' = [data EXCEPT ![h[1]] = written + 1]
    /\ latest' = [latest EXCEPT ![h[2]] = written + 1]
    /\ UNCHANGED <<sched, task, bblock, count, dirty, valid, carved, holder,
                   waiters, lists, dev>>

\* A caller copies new contents into the buffer and marks it dirty.
Modify(t, h) ==
    /\ Holding(t, h)
    /\ written < MaxWrites
    /\ written' = written + 1
    /\ data' = [data EXCEPT ![h[1]] = written + 1]
    /\ dirty' = [dirty EXCEPT ![h[1]] = TRUE]
    /\ latest' = [latest EXCEPT ![h[2]] = written + 1]
    /\ UNCHANGED <<sched, task, bblock, count, valid, carved, holder, waiters,
                   lists, dev>>

-----------------------------------------------------------------------------
Next ==
    \/ Dispatch
    \/ Interrupt
    \/ \E t \in Tasks :
        \/ \E k \in Blocks : BreadHit(t, k) \/ BreadMiss(t, k)
        \/ GetAgain(t) \/ LockRetry(t) \/ IoStart(t) \/ IoDone(t)
        \/ \E h \in held[t] : BRelease(t, h) \/ BWrite(t, h) \/ Modify(t, h)

Spec == Init /\ [][Next]_vars

-----------------------------------------------------------------------------
(* Properties.                                                             *)

\* Every buffer a task got from bread(k), and has not released, still
\* caches block k, is valid and shows the last version written to k: the
\* contract of bread (spec 4.1) across hits, misses, lock waits, buffer
\* starvation, write-back on release and the device's request order.
HeldCoherent ==
    \A t \in Tasks : \A h \in held[t] :
        /\ bblock[h[1]] = h[2]
        /\ valid[h[1]]
        /\ data[h[1]] = latest[h[2]]

\* The hash table never indexes two buffers for the same block.
HashUnique ==
    \A b1, b2 \in hash : bblock[b1] = bblock[b2] => b1 = b2

\* The assert(bf->valid) of bread's hash-table hit never fails.
NoAssertionFailure == ~Halted

\* A buffer's count is the number of references held to it, plus one for
\* a bread miss still reading it: no path leaks or loses a reference.
RefCountExact ==
    \A b \in Buffers :
        count[b] = Cardinality({<<t, h>> \in Tasks \X (Buffers \X Blocks) :
                                    h \in held[t] /\ h[1] = b})
                   + Cardinality({t \in Tasks : op[t] = "bread" /\ cur[t] = b})

\* Spec 3: a buffer is on the free list exactly when nothing references it
\* and no task is flushing it or waiting to lock it for a miss, and it is
\* there once; a referenced buffer is never there, an unreferenced one is
\* never in the hash table.
FreePoolExact ==
    /\ \A i, j \in 1..Len(freeList) : freeList[i] = freeList[j] => i = j
    /\ \A b \in Buffers :
        (\E i \in 1..Len(freeList) : freeList[i] = b)
            <=> /\ carved[b]
                /\ count[b] = 0
                /\ ~\E t \in Tasks : op[t] = "brelease" /\ cur[t] = b
                /\ ~\E t \in Tasks : /\ pc[t] = "lock_wait" /\ cont[t] = "miss"
                                     /\ cur[t] = b
    /\ \A i \in 1..Len(freeList) : ~dirty[freeList[i]] /\ ~valid[freeList[i]]
    /\ \A b \in hash : count[b] > 0

\* Spec section 3: a buffer with reference count 0 is always on the free
\* list, one with count > 0 never is.  brelease writes a dirty buffer back
\* after dropping its count to 0 and before pushing it on free_list.
SpecFreeList ==
    \A b \in Buffers :
        carved[b] =>
            ((count[b] = 0) <=> \E i \in 1..Len(freeList) : freeList[i] = b)

\* The last version written to a block is never lost: it is on the disk,
\* or in a buffer of that block that is dirty or being flushed.
NoLostWrite ==
    \A k \in Blocks :
        \/ disk[k] = latest[k]
        \/ \E b \in Buffers :
              /\ bblock[b] = k
              /\ data[b] = latest[k]
              /\ \/ dirty[b]
                 \/ \E t \in Tasks : op[t] = "brelease" /\ cur[t] = b

\* A bread never reads a block from the disk while a write-back of the same
\* block waits in the request queue: the elevator does not let a read
\* overtake an earlier flush of that block.
ReadAfterWrite ==
    [][\A t \in Tasks :
          (op[t] = "bread" /\ pc[t] = "io_wait" /\ pc'[t] = "io_done")
             => ~\E w \in queue : op[w] # "bread" /\ bblock[cur[w]] = bblock[cur[t]]
      ]_vars

-----------------------------------------------------------------------------
(* Liveness.  The device finishes every transfer; a running task keeps    *)
(* going; the clock and the jiffies term of task_search give every ready  *)
(* task the CPU again whenever the running one is in user mode; and every *)
(* file-system path releases the buffers it reads before it returns.      *)

Fairness ==
    /\ WF_vars(Interrupt)
    /\ \A t \in Tasks :
        /\ WF_vars(GetAgain(t) \/ LockRetry(t) \/ IoStart(t) \/ IoDone(t))
        /\ SF_vars(DispatchTo(t))
        /\ SF_vars(\E h \in held[t] : BRelease(t, h))

LiveSpec == Spec /\ Fairness

\* Every bread, brelease and bwrite a task starts eventually returns: no
\* task starves for a buffer, a lock or the device.
CallsComplete ==
    \A t \in Tasks : pc[t] # "user" ~> pc[t] = "user"

=============================================================================
