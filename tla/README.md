# TLA+ models of the onix_study file system and buffer cache

This directory holds TLA+ models of the kernel in `src/src`. They cover its
block buffer cache, the locks and the device queue it relies on, and (as the
project grows) the file system layers above them: the allocator, inodes,
superblocks and path resolution. Every module is translated from the C
sources. `PROJECT.json` maps each definition to the lines it models and lists
the runs, the mutants, the findings and the hazards.

Tools: `tlasany M.tla` parses a module and
`tlc -workers 2 -config X.cfg M` checks a configuration.

## 1. The system

The kernel runs everything on one CPU. Kernel code (system calls, handlers)
runs with interrupts off (`task_block` and `schedule` assert it). A task
therefore leaves the CPU only where it blocks (`task_block`), where it yields
(`task_yield`, called by `mutex_unlock` when it woke a waiter), or where the
clock preempts it while it is in user mode (`clock_handler`).

The file system is layered. Each layer calls the one below it:

| Layer | Source | Shared state | Blocking points |
|---|---|---|---|
| Path resolution, directory operations | `fs/namei.c` | directory blocks via the cache | everything below |
| Files, descriptors | `fs/file.c`, `fs/stat.c` | `file_table`, `task->files` | everything below |
| Inodes | `fs/inode.c` | `inode_table`, `sb->inode_list`, `inode->buf` | bread |
| Superblocks, mount | `fs/super.c` | `super_table`, bitmaps | bread |
| Allocator, block map | `fs/bmap.c` | bitmap buffers | bread |
| Buffer cache | `kernel/buffer.c` | `hash_table`, `free_list`, `wait_list`, buffers | buffer lock, `wait_list`, device |
| Locks | `kernel/mutex.c` | `mutex.value`, `waiters`, `holder` | `waiters` |
| Block device queue | `kernel/device.c` | `request_list` | queue, and the driver's interrupt |
| Scheduler | `kernel/tasks.c`, `kernel/clock.c` | task states | — |

### 1.1 Inventory

For each part: its state, the operations that change the state, what it
interacts with, what makes it hard, and what should hold.

- **Buffer cache** (`kernel/buffer.c`).
  - State: buffers carved from a reserved region (`get_new_buffer`), each
    with `dev`, `block`, `count`, `dirty`, `valid`, a reentrant lock and
    data; a 31-bucket `hash_table`; `free_list`; `wait_list`.
  - Operations: `bread` has three paths. A hit locks the buffer, asserts
    `valid` and counts it; on count 0 it goes to getagain. A miss takes a
    free buffer, locks it, links it into the hash table and reads the block
    with the lock held. The wait path sleeps on `wait_list`. `brelease`
    decrements the count; at 0 it unlinks the buffer, writes it back if
    dirty, resets it, pushes it on `free_list` and wakes one sleeper.
    `bwrite` is a synchronous device write.
  - Hard: the block found by the lookup is used after blocking on the lock,
    and `mutex_unlock`'s yield may run a third task before the woken
    waiter. Write-back happens after unlinking. The carved region (4 MB)
    holds thousands of buffers, far more than tasks can hold at once, so
    in the kernel `wait_list` is never slept on; a model with two or three
    buffers can reach it, and nothing below is argued from it.
  - Properties: references are to valid buffers of the right block; one
    buffer per block; exact reference counts; the free list holds exactly
    the unreferenced buffers; no write is lost; calls complete.
- **Locks** (`kernel/mutex.c`). `mutex_lock` blocks while the value is set.
  `mutex_unlock` wakes the tail waiter and yields. `reentrant_lock` records
  the holder and a repeat count. Hard: the yield after a wake-up reorders
  tasks, and wake-ups can be lost. Property: no task waits forever on a
  free lock.
- **Block device queue** (`kernel/device.c`). `device_request` inserts the
  request in `request_list` sorted by sector. If the list was not empty the
  caller blocks until the request ahead of it hands the device over.
  `do_request` runs the driver, which blocks until the disk interrupt (the
  IDE driver is not in the sources; the ramdisk copies synchronously).
  `request_nextreq` is an elevator. Hard: requests are served out of order.
  Property: a read does not overtake a queued write of the same block.
- **Scheduler** (`kernel/tasks.c`, `clock.c`). `schedule` picks a READY task
  other than the current one by ticks and jiffies, or the idle task.
  `task_block` and `task_unblock` move tasks between lists. The clock
  decrements ticks and reschedules. `task_fork`, `task_exit` and `sys_waitpid`
  create, end and reap tasks. Hard: `task_exit` may block after marking the
  task dead. Modelled in `Process` (section 9).
- **Allocator and block map** (`fs/bmap.c`).
  - State: the zone and inode bitmaps in cached buffers.
  - Operations: `balloc`, `bfree`, `ialloc` and `ifree` scan, set or clear
    a bit, then mark the buffer dirty. `bmap` maps a file block to a zone
    through 7 direct, 1 indirect and 1 double-indirect pointer, allocating
    when asked.
  - Hard: the index arithmetic at the indirect and double-indirect
    boundaries. `balloc` returns `EOF` when full, and `bmap` stores it in a
    16-bit zone. `reckon` returns 0 without releasing a buffer.
  - Properties: allocation returns only free numbers; no double free; bmap
    is injective on a file's blocks and within range.
- **Inodes** (`fs/inode.c`).
  - State: `inode_table`, each superblock's `inode_list`, and each inode's
    count, `buf`, `mount`, lock and pipe fields.
  - Operations: `iget` (hit with `fit_inode`'s mount crossing, or miss),
    `iput` (at 0, release the buffer and the slot), `inode_read`,
    `inode_write`, `inode_truncate`, `new_inode`.
  - Hard: the miss path links the inode before the blocking read. A freed
    slot keeps its `mount` field. The truncate guard
    `!ISFILE || !ISDIR` is always true.
  - Properties: count 0 ⇔ not listed; one live inode per (dev, nr);
    truncate frees every block.
- **Superblocks** (`fs/super.c`).
  - State: `super_table`, per superblock its count, bitmaps, `iroot`,
    `imount` and `inode_list`.
  - Operations: `get_super`, `read_super`, `put_super`, `sys_mount`,
    `sys_umount`, `devmkfs`.
  - Hard: the rollback paths of mount and umount. `sys_umount`'s failure
    path calls `put_super` on a superblock it did not count.
  - Properties: a mounted superblock is never freed; counts stay balanced
    over failed calls.
- **Path resolution and directories** (`fs/namei.c`).
  - Operations: `named` and `namei` walk a path with `..` and mount
    crossings. `find_entry`, `add_entry`, `sys_link`, `sys_unlink`,
    `sys_mkdir`, `sys_rmdir`, `inode_open` and `sys_mknod` mutate entries.
  - Hard: `named` caches `dev` before crossing a mount. `rmdir` clears the
    entry before its checks, so a failed rmdir loses the entry. A
    tombstoned slot is never reused.
  - Properties: find after add; absent after unlink; a failed call leaves
    the directory unchanged; link counts match entries. Modelled in
    `Namei` (section 10).
- **Files** (`fs/file.c`). `file_table` slots with counts; `task->files`;
  `sys_open`, `sys_close`, `sys_dup`, `sys_dup2`, `sys_read`, `sys_write`,
  `sys_lseek`. Hard: `dupfd`'s loop tests `files[arg]` before
  `arg < TASK_FILE_NR`. Properties: a slot's count equals the descriptors
  that name it. Modelled with the task table in `Process` (section 9);
  read, write and lseek with the shared offset in `FileIO` (section 12).
- **User paging** (`kernel/memory.c`, with the page-table parts of
  `task_fork` and `task_exit`).
  - Operations: `page_fault`, `link_page`, `unlink_page`, `copy_pde`,
    `free_pde`, `sys_brk`, `sys_mmap`, `sys_munmap`, and `get_page` and
    `put_page` on `memory_map`.
  - Hard: copy-on-write after fork, reference counts across fork, unmap
    and exit, and `sys_mmap` rewriting the bits of a page that is already
    present.
  - Properties: counts are exact; a private page shows only its own
    process's writes.
- **Not modelled.**
  - Kernel pages and the arena allocator (`alloc_kpage` over `kernel_map`,
    `arena.c`), `memory_init` and `mapping_init`: boot-time setup and
    byte-level allocation. (`lib/bitmap.c`, which the page allocator shares
    with the file system, is modelled.)
  - Interrupt setup (`interrupt.c`, `gate.c`, `global.c`).
  - Character devices and the ramdisk (`console.c`, `serial.c`, `rtc.c`,
    `ramdisk.c`, `lib/fifo.c`): pure I/O.
  - `dev.c`: one-shot boot setup.
  - Boot, thread bodies, user library and shell (`main.c`, `thread.c`,
    `lib/*`, `builtin/*`).

## 2. Plan

Modules in order, leaves first:

1. `BufferCache` (done). Buffer cache, buffer locks, device queue and
   scheduler in one module, because the interesting behaviour is their
   interleaving.
2. (done) `Bitmap`: `lib/bitmap.c` as operators, checked against a
   reference definition. `Allocator`: devmkfs's layout as Init, then
   balloc/bfree/ialloc/ifree. `BlockMap`: bmap/reckon as a walk of steps
   between blocking points, with several tasks on one inode.
3. (done, one device) `InodeCache`: iget/iput with the inode lock and
   the scheduler; the buffer calls are reduced to "may block". Still to
   come: a second device and fit_inode's crossing, which belong with
   `Super`, and pipe inodes.
4. (done) `Super`: mount/umount/mkfs/put_super over two devices with their
   failure paths, composed with iget/iput/fit_inode and namei through
   `inode->mount` and `sb->imount`, and shown to implement the abstract
   `MountTable` (section 11).
5. (done, root device) `Namei`: directory entries of a small tree;
   mkdir/rmdir/link/unlink/mknod, open and close, chdir and chroot, with
   the lost entry of a failed rmdir. Still to come: mount crossings and
   `named`'s stale `dev` across a mount, which belong with `Super`.
6. (done) `Process`: the task table's side of fork/exit/waitpid with the
   scheduler, and descriptors and `file_table` counts under
   open/close/dup/dup2, with close's write-back blocking. sys_read,
   sys_write and sys_lseek are in `FileIO` (section 12).
7. (done, partly) `Memory`: user paging in `kernel/memory.c`, with the
   page-table side of fork and exit. Still to come: kernel pages and the
   arena allocator.
8. An abstract specification of the cache, a map from blocks to their
   latest contents in which read returns the latest write. `BufferCache`
   is to be shown to refine it under a mapping that takes each block to its
   dirty buffer's data, or else to the disk. That mapping fails where
   `ReadAfterWrite` fails; the refinement is to be checked on the
   configurations where the races cannot occur.

The run budget is small. A passing run is kept only where its bounds
reach the hazards its properties are about; where every bound that reaches
them breaks the property (the allocator's layout, bmap's race, the shared
file offset), the module's run is the violation instead, and the passing
configuration stays as a further one. The run list holds the most serious
findings. The other disagreements
are kept as further configurations (listed in each section and in the
hazards of `PROJECT.json`); each can be run with `tlc` as above.

## 3. BufferCache

`BufferCache.tla` models `kernel/buffer.c` together with the buffer lock,
the device queue and the scheduler. `MCBufferCache.tla` adds the symmetry
set of tasks.

- **State.**
  - Tasks: `running`, `blocked`, `pc` (where a task is inside a cache
    call), `want`, `cur`, `cont` (whether a lock wait resumes a hit or a
    miss), `op` (what a pending transfer is for), `held` (the
    `<<buffer, block>>` references bread returned) and `reads` (breads in
    the current system call).
  - Buffers: `bblock`, `count`, `dirty`, `valid`, `data` (a version
    number), `carved` (handed out by `get_new_buffer`), `holder` and
    `waiters` (the lock).
  - Lists: `hash`, `freeList` (a sequence: `list_push` at the head and
    `list_popback` at the tail make it FIFO) and `waitList`.
  - Device: `disk`, `active` (the request being served) and `queue`.
  - History: `latest` (the last version written to each block) and
    `written`.
- **Actions.** Each action runs from one switch point to the next, because
  kernel code runs with interrupts off.
  - `BreadHit` and `BreadMiss` are bread up to the first block. `LockFor`
    is `reentrant_lock` followed by the path's body. `HitBody` covers the
    assert, the count==0 getagain branch and the count. `MissBody` covers
    claiming the buffer, `hash_locate` and submitting the read.
  - `GetFree` is `get_new_buffer`, then `list_popback`, then the sleep on
    `wait_list`.
  - `GetAgain` resumes getagain and `LockRetry` resumes `mutex_lock`.
  - `IoStart` is a queued request handed the device. `Interrupt` is the
    transfer. `IoDone` is the end of `device_request` plus the rest of the
    caller (bread's unlock, brelease's free).
  - `BRelease`, `BWrite` and `Modify` (inode_write's `memcpy` plus
    `dirty = true`) act on a held buffer.
  - `DispatchTo` is the clock or the idle task giving the CPU to a ready
    task; it fires only when the running task is in user mode.
- **Abstractions.** There is one device. Block contents are version
  numbers. The elevator is any queued request (`list_insert_sort` is not in
  the sources). The reentrant repeat count is left out because bread never
  re-locks.

### Runs

| Run | Config | Result | What it shows |
|---|---|---|---|
| bc_two | `MCBufferCache_two.cfg`: 2 tasks, 2 buffers, 2 blocks, 1 bread per call, 2 writes, `LiveSpec` | pass | `TypeOK`; `NoAssertionFailure` while a hit waits on the lock a miss holds across its read; `NoLostWrite` across brelease's write-back and a re-read; `CallsComplete` under fairness. With two tasks the yield in `mutex_unlock` always hands the CPU to the woken waiter, so the stale-lock race below cannot happen here. |
| bc_three | `MCBufferCache_three.cfg`: 3 tasks, 2 buffers, 1 write | pass | `RefCountExact` and `FreePoolExact` hold even through the races below. Every action and disjunct fires across this run and bc_two. |
| bc_stale_lock | `MCBufferCache_stale_lock.cfg`: 3 tasks, 2 buffers | violation | `NoAssertionFailure`: t1's miss unlocks and yields to t3 instead of the waiting t2; t1 runs again and releases the buffer, which clears `valid`; t2 then gets the lock and `assert(bf->valid)` fails. |

Further configurations, each violating one property:
- `MCBufferCache_getagain.cfg` (`HashUnique`): 3 tasks, 3 buffers; a hit
  woken on a buffer whose release is writing it back sees count 0 and goes
  to getagain without a lookup, while a third task has cached the block
  again.
- `MCBufferCache_wrong_block.cfg` (`HeldCoherent`): bread returns a buffer
  recycled for another block (the other outcome of the stale-lock race).
- `MCBufferCache_elevator.cfg` (`ReadAfterWrite`): a read overtakes the
  write-back of the same block.
- `MCBufferCache_flush_gap.cfg` (`SpecFreeList`): a count-0 buffer is off
  the free list during write-back (spec §3).

`MCBufferCache_live.cfg` checks `CallsComplete` with one buffer, and it
passes.

CHECK_DEADLOCK FALSE is set where `assertion_failure` can stop the kernel
(bc_three and the 3-task configurations).

**Bounds.** Two blocks make reuse for another block possible. Three tasks
are the fewest for the lock-wait races: a holder, a waiter and a third
ready task that the yield in `mutex_unlock` may run first (and that may
reuse the buffer). Two buffers stand for a carved region that is used up,
so the free-list path runs. They also let a model task sleep on
`wait_list`, which the kernel's region never lets happen; the properties
checked here do not depend on that path. One bread per system call
(`MaxHeld = 1`) keeps the model away from holding several buffers while
waiting for another, which is only possible with a pool as small as the
model's.

**Fairness.**
- `WF(Interrupt)`: the disk completes transfers.
- Weak fairness on each task's continuation steps (`GetAgain`, `LockRetry`,
  `IoStart`, `IoDone`): a task on the CPU inside the kernel keeps running,
  since interrupts are off.
- `SF(DispatchTo(t))`: `task_search` prefers the task with the most ticks
  and the oldest jiffies, so a ready task is eventually chosen.
- `SF(BRelease)`: every file-system path releases what it reads.

Symmetry is not used with liveness.

## 4. Bitmap

`Bitmap.tla` gives `lib/bitmap.c` as operators over a record
`[bits, length, offset]`, where `bits` maps a byte index to 0..255:
`BitmapMake`, `BitmapTest` and `BitmapSet` (byte `idx \div 8`, bit
`idx % 8`), and `BitmapScan`. `BitmapScan` is built from two RECURSIVE
operators: `ScanLoop` is the loop that counts clear bits in a row, and
`SetRun` is the loop that sets the run found.

`MCBitmap.tla` makes every input an initial state: each 2-byte map, run
length 1..3 and offset 5. The invariant `ScanMatchesReference` compares the
result with a reference. The reference is the least start of `count` clear
bits, found with CHOOSE, and exactly those bits must become set.

| Run | Config | Result | What it shows |
|---|---|---|---|
| bitmap_scan | `MCBitmap.cfg`: 65,536 maps × 3 counts × offsets 0 and 5 | pass | bitmap_scan returns the first clear run, or EOF, and sets exactly that run. |

Run lengths above 1 are used by the page allocator (`memory.c:460`). The
file system uses 1.

## 5. Allocator

`Allocator.tla` models `fs/bmap.c`'s balloc, bfree, ialloc and ifree over
the zone and inode maps that devmkfs (`fs/super.c` 219-316) lays out.

- **Constants.** The geometry constants are scaled down: `BLOCK_SIZE`
  (bytes, so `BLOCK_BITS = 8 * BLOCK_SIZE`), `ZMAP_NR`/`IMAP_NR`, and
  `InodeDescSize`. The device is given by `TotalBlock` and `ICount`.
- **Geometry.** devmkfs's formulas are copied as definitions: `icount`,
  `InodeBlocks`, `ImapBlocks`, `Zcount`, `ZmapBlocks` and `FirstDataZone`.
- **Init.** This is devmkfs's bitmap code: zeroed maps, one balloc, two
  ialloc, then the tail marking. The marking is byte by byte: bytes after
  `begin` become 0xFF, and byte `begin` is assigned `TailData`, the
  `while (remain--)` loop.
- **State.**
  - `zmap` and `imap` are the bytes of the map buffers, which stay cached
    for the mount.
  - `zones` and `inodes` are what callers hold.
  - `zres` and `ires` are the latest results.
  - `halted` records a failed assert.
- **Actions.**
  - `Balloc` and `Ialloc` are `AllocLoop`: scan each map in turn, and fail
    `assert(buf)` on a NULL slot past `zmap_blocks`.
  - `Bfree` and `Ifree` are `FreeBit`: the map whose range holds the
    number; the assert that it exists and that the bit is set; clear it.
  - A caller may free only a number it holds.

The allocator has no run of its own. `MCAllocator.cfg` (16 blocks,
16-bit maps, icount 7: data zones 8..15, inodes 2..7) checks `TypeOK` and
`BitmapExact` (a bit is clear exactly for an allocatable number nobody
holds) and passes, but only because it has one map of each kind and an
icount away from the edges: every layout that reaches the bugs below
breaks `BitmapExact` too, so it is not counted as a check of the code.

Further configurations, each violating one property:
- `MCAllocator_beyond.cfg` (`ZoneInDataArea`): 8-bit maps, 14 blocks and
  2 zone maps, so balloc hands out block 14, past the device.
- `MCAllocator_small_icount.cfg` (`InodeInRange`): icount 3, so ialloc
  returns inode 0.
- `MCAllocator_lost_map.cfg` (`FailsOnlyWhenFull`): zcount = 8 =
  `BLOCK_BITS`, so balloc fails on an empty device.
- `MCAllocator_full_panic.cfg` (`AllocNeverHalts`): `ZMAP_NR = 2` with one
  zone map, so a full device halts in balloc's assert.

**Bounds.** The bugs depend on how `zcount` and `icount + 1` sit relative
to `BLOCK_BITS`: below 8, a multiple of `BLOCK_BITS`, or above one map.
8-bit and 16-bit maps reach each case with devices of 13 to 16 blocks. The
same cases occur at the source's 8192 bits. For example, any device with
more than 8192 data zones (about 8 MB) has `zmap_blocks >= 2`.

## 6. BlockMap

`BlockMap.tla` models bmap and reckon (`fs/bmap.c` 91-154) for one inode.
Several tasks may call it, and nothing locks the inode.

- **Constants.** `DIRECT_BLOCK = 7` as in the source. `BI`
  (`BLOCK_INDEXES`) is 4 instead of 512, so `TOTAL_BLOCK = 27`.
- **State.**
  - `zone` is the inode's table.
  - `disk[z]` holds the entries of an index block; the cache and the device
    are taken together, since every task sees the same buffer.
  - `free` are the zones balloc may still hand out, smallest first.
  - `refs` are the buffer references reckon holds.
  - Each task has `pc`, a `frame` (reckon's locals `level`, `index`,
    `block`, `divider`, the array being read and `create`) and `pending`.
  - The ghosts are `mapped` (the first zone returned for each block), `got`
    and `overrun`.
- **Actions.** reckon's loop is cut at the points where the code blocks.
  - `Call`: bmap's level choice and reckon's switch, plus `count++` on
    `inode->buf`.
  - `Check`: the test of `array[index]`. It has four branches: return 0 for
    a hole without create; balloc, which sets the bit and then blocks in the
    zone map's bwrite; balloc failing, which stores EOF as 0xFFFF; or
    brelease.
  - `AllocDone`: the store after balloc returns.
  - `Descend`: return at level 0; otherwise bread the next index block (a
    possible wait) and update `index`, `block` and `divider`.
  - `Overrun`: an index at or past `BLOCK_INDEXES`, after which nothing is
    modelled.
- **Init.** A new file on a blank device. `new_inode` does not clear
  `zone[]`, so a reused inode number would start otherwise (see the hazards).

| Run | Config | Result | What it shows |
|---|---|---|---|
| bmap_race | `MCBlockMap_race.cfg`: 2 tasks, block 0, 3 zones, 1 call each | violation | `BmapFunctional` (a stable zone per block, distinct zones for distinct blocks): both tasks find `zone[0]` empty, both balloc (which blocks in the zone map's bwrite), and the second store overwrites the first task's zone. |

`MCBlockMap.cfg` (1 task, blocks 0, 8, 12, 13, 26, 5 zones, 4 calls)
checks `TypeOK`, `BmapFunctional` and `NoLostZone` across direct, single-
and double-indirect blocks and passes; with one task it only confirms the
walk's arithmetic, since the hazard these properties are about needs two.

Further configurations, each violating one property:
- `MCBlockMap_leak.cfg` (`BuffersReleased`): reading a hole leaks
  `inode->buf`.
- `MCBlockMap_overrun.cfg` (`NoIndexOverrun`): block 26 (`TOTAL_BLOCK - 1`)
  indexes the double-indirect block at 5 of 0..3.
- `MCBlockMap_full.cfg` (`ZoneRefsValid`): with one zone, EOF is stored as
  0xFFFF.

CHECK_DEADLOCK FALSE is set in the BlockMap configurations because every
task stops after `MaxCalls` calls, and the model stops at an overrun.

No fairness is assumed in `Allocator` or `BlockMap`: their properties are
safety properties.

## 7. InodeCache

`InodeCache.tla` models iget, iput and put_free_inode (`fs/inode.c`
19-161), with each inode's reentrant lock and the scheduler, as in
`BufferCache`. There is one device. The root entry `inode_table[0]` is
pinned by the mount and left out, so `Slots` are the other entries.

- **State.**
  - Per entry: `used` (dev # EOF), `nr`, `count`, `listed` (on
    `sb->inode_list`), `loaded` (desc was read for this nr), and the lock
    (`holder`, `waiters`).
  - Per task: `pc`, the entry it works on (`cur`), the nr it asked for
    (`want`), the iget branch it is waiting in (`path`), and `held`, a
    count of the references iget returned to it as `<<entry, nr>>`.
  - `count` counts as uint32 does for the properties: a decrement of 0
    shows as -1, which `TypeOK` rejects.
- **Actions.**
  - `IgetHit`: find_inode finds the entry; lock (or wait), `count++`,
    unlock.
  - `IgetMiss`: iget when find_inode finds nothing: get_free_inode's
    first free entry (`FreeInodes`; panic when there is none); lock, set dev/nr, `count++`, link, then bread. bread either
    returns at once or blocks, in which case `IoComplete` and `ReadDone`
    finish it.
  - `LockRetry`: mutex_lock's loop after a wake-up. It goes on with the
    entry looked up before blocking, as the code does.
  - `Iput`: `count--`, and at 0 list_remove, brelease and put_free_inode.
    brelease either returns at once or blocks writing back, in which case
    `FlushDone` finishes it.
  - Unlocking wakes one waiter and yields (`Unlock`). The scheduler may
    then run any other ready task.
  - Interrupts (`IoComplete`, `DispatchTo`) occur only while the idle task
    or a task in user mode is on the CPU.

| Run | Config | Result | What it shows |
|---|---|---|---|
| inode | `MCInodeCache.cfg`: 2 tasks, 2 numbers, 4 entries, 2 references per task | pass (65,086 states) | `TypeOK` (no count goes below 0); `HeldLive`: a hit that waits on the lock of an entry whose miss is still in bread gets the entry only once it is read; `InodeUnique`: two igets of one number, the second arriving while the first is blocked in bread, share one entry. |

Further configurations:
- `MCInodeCache_race.cfg` (`HeldLive`): 3 tasks, 1 number and 3 entries.
  A hit waiter is handed an entry that iput removed while it waited.
- `MCInodeCache_full.cfg` (`NoAssertionFailure`): with two entries, two
  tasks blocked in write-back and a third iget, get_free_inode panics.
  The pass run sizes the table so that this cannot happen, and
  put_free_inode's assert fails only through the three-task race, so the
  pass run does not check `NoAssertionFailure`.

**Bounds.** The race needs three tasks: with two, the unlocking task's
yield must pick the waiter, since task_search skips the current task. Four
entries are enough for two tasks holding two references each, with one
entry in write-back, so the pass run never panics. Entries in write-back
still count against the table, which is what the `_full` configuration
exercises.

## 8. Memory

`Memory.tla` models a process's user address space in `kernel/memory.c`:
physical frames with `memory_map` and `free_pages`, page tables, the
page-fault handler, fork's copy_pde and exit's free_pde, and sys_brk,
sys_mmap and sys_munmap. Everything happens on one CPU with interrupts off
inside the kernel, so each system call and each fault is one step.

- **Address space.** Three regions of user pages, each with its own page
  table: the heap (`NHeap` pages from `USER_EXEC_ADDR`), the mmap area
  (`NMmap`), and the stack (`NStack`). A page is `<<region, i>>`. An entry
  keeps the bits the code reads or writes: present, write, shared, readonly
  and the frame.
- **State.**
  - `pte[p][v]` is p's entry for v. `table[p][r]` is the frame of p's page
    table for region r (0 when its directory entry is not present).
  - `brk` counts heap pages, and `vmap` is the mmap bit map.
  - `mm` is `memory_map`, and `freePages` is `free_pages`.
  - `content` is a version number per frame; `expect[p][v]` is what p last
    wrote at v or was given there.
  - `halted` says why the kernel stopped: `"oom"` for get_page's panic,
    `"assert"` for any other panic or failed assert.
- **Actions.**
  - `Touch`: a fault on a page that is not present, in the heap below brk
    or in the stack. It calls link_page, which runs get_pte (a new table
    if needed), then get_page and entry_init.
  - `UserWrite`: a store to a writable page. Shared entries of the same
    frame see it.
  - `WriteFault`: a store to a present page without the write bit. With
    `memory_map` 1 it sets the write bit; otherwise copy_page, a decrement
    of the old frame, and entry_init on the copy.
  - `Fork`: copy_pde. Each present entry that is not shared loses its write
    bit, every entry's frame gains a reference (with its asserts), and each
    page table is copied to a new frame. The child gets brk and vmap.
  - `Exit`: free_pde puts every page, then every table. The first process
    does not exit.
  - `Brk`: sys_brk; shrinking unlinks pages, and growing by more than
    `free_pages` returns -1.
  - `Mmap`: sys_mmap of one page. Address 0 takes the first free vmap bit;
    then link_page and the bits from prot and flags.
  - `Munmap`: sys_munmap of a mapped page.
- **Init.** One process in user mode with no user page tables:
  task_to_user_mode's copy_pde of the kernel directory. sys_execve is not
  in the sources, so no program image is loaded.

| Run | Config | Result | What it shows |
|---|---|---|---|
| memory | `MCMemory.cfg`: 2 processes, 1 page per region, 5 frames, 1 write | pass (272,017 states) | `TypeOK`, `RefCountExact`, `FreePagesExact`, `PrivateIsolation` and `NoAssertionFailure` over any sequence of faults, writes, fork, exit, brk, mmap and munmap. |
| (further) | `MCMemory_remap.cfg`: as above, with `RemapInUse` | violation | `PrivateIsolation`: mmap over a copy-on-write page makes it writable in place, so one process's write shows in the other's page. |

**Inputs.** Programs touch only the heap below brk and the stack, write
only pages they mapped writable, and munmap only pages they mapped. Each
other access ends in the segmentation-fault exit or a user-triggerable
assert, which a test reaches in one step. Address 0 is passed to sys_mmap
only while the area has room, since scan_page panics when it is full. With
`RemapInUse = FALSE`, a given address is one the program does not map.

**Bounds.** Five frames are enough for a process to map a page (a table
and a page), fork (a table copy) and take a copy-on-write fault (the
fourth), or to share an mmap page across a fork. Larger working sets run
out of frames, and those states stop at get_page's panic. That is why
CHECK_DEADLOCK is FALSE. Six frames give over four million states, past the
time budget. Versions are labels, so one write is enough to tell a write
that shows through from one that does not.

**View.** `MCMemory.tla` checks up to a view. The view leaves out the bits
of entries that are not present, their `expect`, and the contents of free
frames. unlink_page clears only the present bit, but nothing reads the rest
afterwards: link_page replaces the entry whole, and a fresh page takes the
frame's contents as its expected value.

No fairness is assumed: the properties are safety properties.

## 9. Process

`Process.tla` models the task table of `kernel/tasks.c` (task_fork,
task_exit, sys_waitpid, schedule, task_block and task_unblock) together
with the descriptor calls of `fs/file.c` (sys_open, sys_close, sys_dup,
sys_dup2) and the `file_table` counts they share. Exit closes every
descriptor, and a close of the last reference to a file may block in
iput's write-back, so the two sides meet in task_exit.

- **State.**
  - Scheduler: `running` (0 is the idle task), and per task `state` (free,
    ready, running, blocked, waiting, dead), `ppid` and `waitfor` (the pid
    argument of waitpid).
  - Kernel continuation: `pc` says where a task is in its system call
    ("user" when it is in user mode). `fd` is close's or exit's descriptor
    index and `arg` dup2's target; they carry a call across a block.
  - Files: `files[t][i]` (an entry of `file_table`, or -1), `fcount` and
    `finode` of each entry, and `icount`, the references the entries hold on
    each inode. The inode cache itself is in `InodeCache`; here only the
    count and whether iput blocks are kept.
  - `exited` is a ghost: t has called exit. `halted` records a panic or a
    failed assert.
- **Actions.**
  - `Fork`: the first free PCB slot (panic when there is none); the child
    shares every descriptor, so each entry's count goes up; it is READY
    with ppid t.
  - `Exit`, `ExitIput`, `ExitClose`, `ExitFinish`: task_exit as steps.
    `Exit` sets TASK_DEAD and puts the cwd, root and program inodes; the
    root is never at its last reference, but the cwd or program may be
    (after a rmdir or unlink), and then iput's write-back may block the
    task, which task_block marks TASK_BLOCKED. Which inodes those are is
    not modelled, so the block is a free choice, and `ExitIput` goes on
    once the task runs again. `ExitClose` closes one descriptor through `CloseFd`;
    `ExitFinish` hands the children to the parent, wakes the parent if it
    waits, and calls schedule. The first task does not exit.
  - `CloseFd`: put_file. The assert on the count; the decrement; at the
    last reference iput, which may block (task_block(TASK_BLOCKED)) until
    `IoDone`, after which `IoResume` clears the descriptor and goes on with
    the call that closed it (close, dup2 or exit).
  - `Open`: the lowest free descriptor and entry (panic when none), a new
    reference on the inode. `Dup`, `Dup2` and `Dup2Dup`: dupfd's scan from
    the argument; dup2 closes the target first when it is open.
  - `Waitpid` and `WaitRetry`: the loop over the table. A dead child the
    pid selects is freed and its pid returned; a task with such children
    but none dead blocks in TASK_WAITING; one with none returns -1.
  - `DispatchTo`: the clock or a wake-up gives a ready task the CPU. It and
    `IoDone` happen only while interrupts are on, that is while the idle
    task or a task in user mode is on the CPU.

| Run | Config | Result | What it shows |
|---|---|---|---|
| process | `MCProcess.cfg`: 3 tasks, 2 descriptors, 2 entries, 1 file | pass (about 1,780,000 states, under 3 minutes with coverage) | `TypeOK`, `FileCountExact`, `InodeRefExact`, `NoAssertionFailure`, `ZombieParentLive`: over any interleaving of fork, exit, waitpid and the descriptor calls, with blocking in close, each entry's count is exactly its descriptors, each inode's count its entries, put_file's assert holds and every zombie has a live parent. |
| (further) | `MCProcess_exit.cfg`: as above, with `ExitIsFinal` | violation | An exiting task that blocks in close's write-back (or in the iput of its cwd or program) is made READY by the wake-up, and task_exit's final schedule leaves it READY: it returns to user mode after exit. |

`WaitpidReturns` (a waiting parent eventually returns once a child is dead)
fails for the same reason: the child never becomes TASK_DEAD again, and a
parent in waitpid sleeps for ever. It is stated in the module but not
checked by a run; add it as a PROPERTY to `MCProcess.cfg` to see the trace.

**Bounds.** Three tasks are needed for reparenting (init, a parent and a
child). Two descriptors give the standard stream plus one file, and two
entries a file that can be shared by fork and dup and closed by two tasks.
With `FILE_NR = 3` the run takes about four minutes and finds nothing new.

**View.** `MCProcess.tla` checks up to a view that blanks the continuation
data of a task in user mode (`fd`, `arg`, `waitfor`), the inode of an unused
entry, and the ghost `exited`: no later step reads them.

**Fairness.** `Spec` has weak fairness on kernel continuations (kernel code
on the CPU runs with interrupts off), and strong fairness on `IoDone` and
`DispatchTo` (a pending interrupt is taken once interrupts are on, and the
clock and ticks give every ready task a turn). The runs check safety only.

Not modelled here: sys_read, sys_write and sys_lseek, which are in `FileIO`
(section 12); `dup2(fd, fd)`,
which closes the descriptor it is asked to keep.

## 10. Namei

`Namei.tla` models path lookup and the directory system calls of
`fs/namei.c` on the root device, for one calling task: `permission`,
`find_entry`, `add_entry`, `named`, `namei`, `sys_mkdir`, `sys_rmdir` (with
`is_empty`), `sys_link`, `sys_unlink`, `sys_mknod`, `inode_open` with
`sys_open`'s reference, `sys_close`, `sys_chdir` and `sys_chroot`. Each call
is one step. The kernel runs with interrupts off and there is one caller,
so nothing else runs between a call's lookups and its stores. The blocking
inside bread and iget belongs to `BufferCache` and `InodeCache`.

- **State.**
  - `imap` (allocated inode numbers), and per inode `mode` (its file type),
    `perm` (the bits of its mode that apply to the caller), `nlinks` and,
    for a directory, `dents`: its entries in order, each a name and an inode
    number (0 once removed). The directory's size is the sequence's length.
  - `iroot` and `ipwd`, the task's root and working directory.
  - `opened[i][a]`: the references `sys_open` holds on inode `i`, by access
    mode.
  - `halted`: an assert failed, or `new_inode` was called on inode EOF.
- **Lookup.** `FindEntry` sees only the first `BLOCK_DENTRIES` entries.
  find_entry takes entry i as `data[i % BLOCK_DENTRIES]`, so it never
  leaves block 0. `WalkDirs` is named's loop: it goes only into directories
  the caller may search. `Named` returns the parent and the last component
  ("" for a trailing separator). `Lookup`/`Namei` return the inode the
  result names.
- **Actions.** One per system call. Each takes `Named(p)` of its path, or
  `Namei(p)` for link's first argument, chdir and chroot.
  - An early return before the first store changes nothing, so it is
    left out as a stuttering step.
  - `Rmdir` clears the entry first, as the code does, and then tests the
    kind, `is_empty` (`IsEmpty`, with the stray reads past a block as a
    free choice) and the inode's count (`InodeCount`), and then asserts
    nlinks.
  - `Unlink` frees the inode at its last link.
  - `OpenDir` is inode_open's early return for a path with no last
    component. `OpenExisting` and `OpenCreate` go through makeup (`Makeup`,
    `AccMask` for `ACC_MODE(flag && O_ACCMODE)`, and `OpenFlag` for
    O_TRUNC|O_RDONLY becoming O_RDWR).
  - When the inode map is full, `NoInode` stores ialloc's EOF in the entry
    and stops.
- **Init.** devmkfs's root directory: inode 1 with "." and ".." naming
  itself, and nlinks 2. mount_root's two references are counted in
  `RootPins`.
- **Abstractions.**
  - All gids are 0 and the caller owns what it creates, so `perm` is the one
    set of bits (owner or other) that permission tests for the caller.
  - The ISVTX tests are left out: no mode the model makes has the sticky
    bit.
  - `inode_truncate` returns at once for every mode (its guard is always
    true), so file contents play no part.

| Run | Config | Result | What it shows |
|---|---|---|---|
| namei | `MCNamei.cfg`: 3 inodes, names a and b, blocks of 4 entries, up to 2 entries besides "." and "..", 1 open file | pass (about 100,000 states up to the view) | `TypeOK`; `NLinksCoverEntries`: no inode has fewer links than the entries naming it; `NoDanglingEntry`: no live entry names a freed inode. All of these hold over any sequence of the calls. |
| (further) | `MCNamei_rmdir.cfg` | violation | mkdir a; mkdir a/a; rmdir a/. fails after clearing a's "."; rmdir a then sees a empty and `assert(nlinks == 2)` fails. |

Further configurations, each violating one property:
- `MCNamei_block.cfg` (`LookupFindsEveryEntry`: find_entry finds every
  live entry by its name): with blocks of three entries, the fourth entry
  of the root is not found. The pass run keeps every directory within one
  block, where this property only restates add_entry's lookup, so it
  checks it there no more.
- `MCNamei_unlink.cfg` (`OpenedAllocated`): open("a", O_CREAT), then
  unlink("a") frees the open inode.
- `MCNamei_diropen.cfg` (`DirOpenedReadOnly`, under `OpenView`):
  open("/", O_WRONLY|O_CREAT) returns the root directory open for writing.

**Paths and flags.** Paths are:
- one component (a, b, ".", "..", or none, that is "/"), absolute or
  relative;
- "/a/x" and "../x", where x is a, b, "." or none.

With these, subdirectories, "." and "..", trailing separators, and the
working and root directories all come into play. The empty relative path
is left out: `named` returns NULL for it without a lookup and its caller
then does `inode->count++` through NULL (namei.c:153), undefined behaviour
that one call of `open("")` reaches and a model adds nothing to. The open flags are:
- O_RDONLY;
- O_WRONLY|O_CREAT;
- O_RDONLY|O_TRUNC, which inode_open turns into O_RDWR.

**Bounds.**
- Three inode numbers give the root, a subdirectory and one more node, and
  a full inode map.
- Four entries per directory let the root hold a and b.
- `MaxEntries = 2` bounds the entries of all directories taken together.
  That is enough for the rmdir trace, for a link between two directories,
  and for every call to fire.
- One open file (`MaxOpen`) is enough for a reference that keeps an inode
  busy.

**View.** `NameiView` leaves out data that no later step reads:
- the desc of a freed inode: new_inode and the caller rewrite it before it
  is read;
- the name of a removed entry: find_entry skips it and only its slot counts;
- the access mode of an open file: only close's choice of descriptor reads
  it.

`OpenView` keeps the access modes, for the property about them.

**Fairness.** None. The properties are safety properties, and one caller
may stop making calls at any point.

Not modelled here:
- mount crossings: find_entry's switch to `sb->imount` for ".." in inode 1
  is the identity on the root device, and `named`'s cached `dev` across a
  mount belongs with `Super`;
- match_name's character handling: a name is one whole component;
- abspath and sys_getcwd: the pwd string;
- the sticky-bit tests.

## 11. Super and MountTable

`Super.tla` models the superblock table of `fs/super.c` with the part of
the inode table (`fs/inode.c`) that mount and umount work on:
`get_super`, `get_free_super`, `read_super`, `put_super`, `super_init` with
`mount_root`, `sys_mount`, `sys_umount`, `devmkfs`'s use of the tables and
`sys_mkfs`, and, below them, `iget` (with `find_inode`, `get_free_inode`
and `fit_inode`), `iput` (with `put_free_inode`) and `named`/`namei`. Each
system call is one step: the kernel runs with interrupts off and the
blocking inside bread and iget belongs to `BufferCache` and `InodeCache`.
A call is written as a chain of stages, each taking the tables and the
result of the stage before (`MountDev(Namei(S0, pd), pm)`), and ends with
`Commit`, which stores the tables or stops the kernel at the first failed
assert, panic or undefined read.

- **State.**
  - `ino`: per `inode_table` entry, `dev` (`NoDev` for EOF), `nr`,
    `count` (a uint32: `Inc` and `Dec` wrap), `mount` and `sb`, the
    superblock whose `inode_list` holds it.
  - `sup`: per `super_table` entry, `dev`, `count`, `iroot`, `imount`
    (entry indices, `NULL` for none).
  - `held`: the references kept by open files and the task's cwd.
  - `fresh`: the devices mkfs has formatted (their root holds only `.` and
    `..`).
  - `halted`: "no", or why the kernel stopped.
- **Name space.** Fixed: the root device's root directory holds the
  directories `Dirs` and a block file per device; every disk's root holds
  one file `"f"` until mkfs formats the disk. The inode numbers are these
  names. Paths are `/x` and `/m/f`.
- **Init.** super_init frees every entry and mount_root reads the root
  superblock and gets inode 1 twice (`iroot`, `imount`); the first task
  takes it twice more (`task->iroot`, `ipwd`, tasks.c:190-192). The kernel
  has more tasks holding it, so its real count is higher; no property
  depends on the base value, only on the count staying equal to the
  holders the model has.
- **Counts.** `Inc` and `Dec` keep uint32 arithmetic, so an iput of a
  count of 0 would wrap; every iput the model makes is of a reference its
  caller holds, so no run reaches the wrap, and `TypeOK` says nothing
  about it.

`MountTable.tla` is the abstract specification: a map from mount points to
the device mounted there, where mount needs a free mount point and an
unmounted device, and umount clears one mount point. `Super` implements it
under the mapping `MountOf(m)`: the device of the superblock whose `imount`
is the cached inode of `m`. `MountTableSpec` is `MountTable!Spec` under that
mapping, checked as a PROPERTY.

| Run | Config | Result | What it shows |
|---|---|---|---|
| super | `MCSuper.cfg`: root device, 1 disk, 2 mount points, 3 superblocks, 6 inodes, 1 held reference; open of `/x`, umount of mount points | pass (148 distinct states under the view) | `TypeOK`; `RefCountExact`: every live inode's count is its holders; `MountsLive`: the root superblock lives and every mount mark points at a live superblock of its device whose imount is that inode; `MountTableSpec`. |
| super_umount | `MCSuper_umount.cfg`: as above, any path opened or unmounted | violation | `MountsLive`: `umount("/hda")` is refused, but its put_super frees the root superblock. |

**Bounds.** One disk and two mount points give a device mounted, remounted
elsewhere, refused a second mount, and mkfs'd while mounted. Three
superblock entries fit the root, the disk and the second entry devmkfs takes
for a mounted disk. Six inode entries hold the root, both mount points, a
device file and the disk's root with room for a lookup; with more disks the
table fills and the runs stop at `get_free_inode`'s panic. One held
reference is enough to keep a mounted file system busy.

**View.** `SuperView` blanks the `nr` of a freed inode entry and the
`iroot` of a freed superblock entry whose `imount` is `NULL`. No step reads
them: iget's miss path writes `nr`, and read_super's caller writes `iroot`
before any read in every path the pass run takes. The stale `mount` field
and a stale `imount` are kept, since later steps read them.

**Fairness.** None: every property is a safety property, and a caller may
stop making calls.

Not modelled here: the map and descriptor buffers of a superblock (every
device holds a valid Minix superblock), devmkfs's map layout (in
`Allocator`), and the dirty data of the root inode mkfs writes.

## 12. FileIO

`FileIO.tla` models `sys_read`, `sys_write` and `sys_lseek` of `fs/file.c`
on a regular file, with the block loops of `inode_read` and `inode_write`
(`fs/inode.c`) they call. Several tasks use one inode, each through its
descriptor's `file_table` entry `FileOf[t]`. Tasks that share an entry
(after fork or dup) share its offset.

- **Steps.** A step runs from one point where the code may give up the CPU
  to the next. Those points are:
  - bread of a data block;
  - balloc's write-back of the zone map when bmap allocates;
  - brelease of a buffer that is dirty;
  - the bwrite of the inode that ends `inode_write`.

  So a read is `Read` (the checks, `begin = offset`, and the first bmap
  with its `assert(idx)`), then `ReadCopy` and `ReadMap` for each block, then
  `ReadReturn` (`file->offset += ret`). A write is `Write`, then `WriteCopy`
  and `WriteMap` for each block, then `WriteEnd` (`size = MAX(offset,
  size)`, then bwrite) and `WriteReturn`. `Lseek` does not block.
- **State.**
  - `offset`: each entry's `file->offset`.
  - `size`: the inode's size.
  - `zone`: whether bmap finds a zone for each block of the file.
  - Per task: `pc`, and the loop's `begin`, `pos` and `left`.
  - `halted`.

  The bytes are left out. No branch of these calls reads them.
- **Init.** A new, empty file, open in every entry at offset 0.

| Run | Config | Result | What it shows |
|---|---|---|---|
| fileio_shared | `MCFileIO_shared.cfg`: 2 tasks sharing one entry, 2-byte blocks, 6 bytes, lengths 1 and 3, lseek to the start or the end | violation | `NoHoleBelowSize` (every block below the size has a zone, so inode_read's `assert(idx)` cannot fail): t1 reads, t2's lseek to the end lands while t1 is blocked, and t1 adds its count to that offset. The offset passes the size, and t1's next write leaves a hole. |
| (further) | `MCFileIO_seek.cfg`: an entry each, lseek may go past the end | violation | `NoHoleBelowSize`: lseek past the end, then a write, leaves a hole. |
| (further) | `MCFileIO.cfg`: an entry each, lseek to the start or the end | pass (45,645 states) | `TypeOK`, `OffsetWithinSize` and `NoHoleBelowSize` hold, but only because both ways to a hole are left out; it checks the loops' arithmetic, not the hazards. |

**Bounds.** With 2-byte blocks and lengths 1 and 3, a call can stay inside
a block, end on a block's edge, or cross into the next block, so every
branch of the loop is taken. Three blocks leave room for a hole between two
mapped blocks. Two tasks are the fewest that interleave.

**Fairness.** None: the properties are safety properties.

Not modelled here:
- the pipe and device branches of `sys_read` and `sys_write`;
- `O_APPEND`, which `sys_open` applies once, at open;
- indirect blocks, whose bmap may block (BlockMap models them).

## 13. Findings

See `PROJECT.json` "findings". In short:
- bread uses a lookup result after blocking on the buffer lock, and
  `mutex_unlock`'s yield may run a third task before the waiter. This
  fails the assert (bc_stale_lock), or returns the wrong block.
- A hit woken on a buffer that is being written back goes to getagain
  without a new lookup, so a block can be cached twice
  (`MCBufferCache_getagain.cfg`).
- devmkfs's tail marking of the zone map leaves blocks past the device
  allocatable when there are two or more zone maps
  (`MCAllocator_beyond.cfg`).
- Two tasks extending the same hole of a file both allocate a zone, and one
  task's data goes to a zone the file no longer references (bmap_race).
- sys_mmap at an address a process already maps rewrites the write and
  shared bits of the present entry, so a copy-on-write page after fork
  becomes writable in place and one process's write changes the other's
  page (`MCMemory_remap.cfg`).
- iget's hit path, like bread, uses the entry it looked up before waiting
  on the inode lock. It can return an inode that iput removed meanwhile,
  after which put_free_inode's assert fails or the entry goes to another
  nr (`MCInodeCache_race.cfg`).
- sys_rmdir clears the entry before its checks. A failed rmdir of `a/.`
  makes `a` look empty, and the next rmdir of `a` fails
  `assert(nlinks == 2)`: any user halts the kernel (`MCNamei_rmdir.cfg`).
- task_exit sets TASK_DEAD and then closes the descriptors. A close that
  blocks in write-back is woken to READY, and the final schedule leaves it
  READY, so the task returns to user mode after exit, is never reaped, and
  a parent in waitpid sleeps for ever (`MCProcess_exit.cfg`).
- sys_umount takes the superblock with get_super, which adds no reference,
  yet every failure path ends in put_super. A refused umount of the root
  partition's device file frees the root superblock, and the next iget on
  the root device fails `assert(sb)`; a refused umount of a busy mount point
  frees the mounted superblock (super_umount).

- sys_read and sys_write add the bytes moved to `file->offset` as it is
  after their blocking loops. With an entry shared after fork or dup, an
  lseek or a write by another task in between pushes the offset past the
  size. The next write then leaves a hole below the size, and any read
  across the hole fails inode_read's `assert(idx)` and halts the kernel
  (fileio_shared). The same hole comes from one task's lseek past
  the end followed by a write (`MCFileIO_seek.cfg`).

Also shown by the further configurations:
- A read can overtake a write-back.
- The spec's free-list invariant does not hold during write-back.
- devmkfs clears the reserved bits for small counts and wastes a whole map
  when the count is a multiple of `BLOCK_BITS`.
- balloc asserts on NULL map slots when the device is full.
- reckon leaks a buffer on a hole, indexes past the double-indirect block,
  and stores balloc's EOF.
- find_entry reads only a directory's first block, so from the 65th entry
  on names are not found and can be added twice (`MCNamei_block.cfg`).
- sys_unlink frees an inode that is still open (`MCNamei_unlink.cfg`),
  against spec.md's "the inode stays allocated until the last reference is
  released".
- open of a path ending in `/` returns the directory before any check, so
  `open("/", O_WRONLY)` gives a writable descriptor of a directory
  (`MCNamei_diropen.cfg`).

Not yet modelled, from reading the code:
- `inode_truncate`'s guard (inode.c:274) is always true, so no block is
  ever freed.
- `new_inode` keeps the previous `zone[]`.
