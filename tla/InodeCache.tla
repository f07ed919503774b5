---------------------------- MODULE InodeCache ----------------------------
(***************************************************************************)
(* The in-memory inode table of src/src/fs/inode.c: iget (find_inode, the *)
(* hit path and the miss path through get_free_inode), iput and           *)
(* put_free_inode, with each inode's reentrant lock (kernel/mutex.c) and  *)
(* the cooperative scheduler of kernel/tasks.c.  Kernel code runs with    *)
(* interrupts off, so a task is switched out only where it blocks or      *)
(* yields; a task in user mode may be preempted by the clock.             *)
(*                                                                         *)
(* One device; the root inode (inode_table[0]) is pinned by the mount and  *)
(* left out, so Slots are the other table entries.  The buffer calls are  *)
(* abstracted to what they do to the caller: bread of the inode block     *)
(* returns at once (cache hit) or blocks, and brelease of the last        *)
(* reference returns at once or blocks writing a dirty block back.        *)
(***************************************************************************)
EXTENDS Integers, FiniteSets, FiniteSetsExt

CONSTANTS
    Tasks,      \* kernel execution contexts (model values)
    Nrs,        \* inode numbers of the device (model values)
    Slots,      \* entries of inode_table other than the root
    MaxHeld,    \* most inode references one task holds at a time
    NoTask, NoNr, NoSlot

ASSUME NoTask \notin Tasks /\ NoNr \notin Nrs /\ NoSlot \notin Slots
ASSUME MaxHeld \in Nat \ {0}

VARIABLES
    running,    \* the task on the CPU, NoTask when the idle task runs
    blocked,    \* tasks in TASK_BLOCKED
    pc,         \* where each task is in iget or iput
    cur,        \* the inode_t a task is working on
    want,       \* the nr a task passed to iget
    path,       \* "hit" or "miss": the branch of iget a lock waiter is in
    held,       \* held[t][<<s, n>>]: references iget(n) returned to t as s
    used,       \* dev # EOF: the slot is taken
    nr,         \* inode->nr
    count,      \* inode->count (uint32; -1 stands for a wrap to 0xFFFFFFFF)
    listed,     \* slots on sb->inode_list
    loaded,     \* inode->desc points at the block read by bread
    holder,     \* holder of inode->lock (the mutex value is holder # NoTask)
    waiters     \* inode->lock.mutex.waiters

vars == <<running, blocked, pc, cur, want, path, held, used, nr, count,
          listed, loaded, holder, waiters>>

PCs == {"user", "lock_wait", "bread", "flush", "panic"}

Refs == Slots \X Nrs

\* The type invariant; count in Nat also says inode->count never wraps
\* below zero (every iput matches an iget).
TypeOK ==
    /\ running \in Tasks \cup {NoTask}
    /\ blocked \subseteq Tasks
    /\ pc \in [Tasks -> PCs]
    /\ cur \in [Tasks -> Slots \cup {NoSlot}]
    /\ want \in [Tasks -> Nrs \cup {NoNr}]
    /\ path \in [Tasks -> {"hit", "miss"}]
    /\ held \in [Tasks -> [Refs -> 0..MaxHeld]]
    /\ used \in [Slots -> BOOLEAN]
    /\ nr \in [Slots -> Nrs \cup {NoNr}]
    /\ count \in [Slots -> Nat]
    /\ listed \subseteq Slots
    /\ loaded \in [Slots -> BOOLEAN]
    /\ holder \in [Slots -> Tasks \cup {NoTask}]
    /\ waiters \in [Slots -> SUBSET Tasks]

\* inode_init: every entry has dev = EOF, count 0 and a fresh lock.
Init ==
    /\ running \in Tasks
    /\ blocked = {}
    /\ pc = [t \in Tasks |-> "user"]
    /\ cur = [t \in Tasks |-> NoSlot]
    /\ want = [t \in Tasks |-> NoNr]
    /\ path = [t \in Tasks |-> "hit"]
    /\ held = [t \in Tasks |-> [r \in Refs |-> 0]]
    /\ used = [s \in Slots |-> FALSE]
    /\ nr = [s \in Slots |-> NoNr]
    /\ count = [s \in Slots |-> 0]
    /\ listed = {}
    /\ loaded = [s \in Slots |-> FALSE]
    /\ holder = [s \in Slots |-> NoTask]
    /\ waiters = [s \in Slots |-> {}]

-----------------------------------------------------------------------------
(* The scheduler (kernel/tasks.c), as in BufferCache.                      *)

\* panic or a failed assert halts the kernel.
Halted == \E t \in Tasks : pc[t] = "panic"

Running(t) == ~Halted /\ running = t /\ t \notin blocked

\* schedule() after t blocked or yielded: task_search picks a READY task
\* other than the current one, or the idle task when there is none.
Reschedule(t) ==
    LET others == (Tasks \ blocked') \ {t}
    IN  IF others = {} THEN running' = NoTask ELSE running' \in others

\* Interrupts are on: the idle task or a task in user mode is on the CPU.
InterruptsOn == IF running = NoTask THEN TRUE ELSE pc[running] = "user"

\* The clock preempts a task in user mode, or the idle task finds a ready one.
DispatchTo(t) ==
    /\ ~Halted
    /\ InterruptsOn
    /\ t \notin blocked \cup {running}
    /\ running' = t
    /\ UNCHANGED <<blocked, pc, cur, want, path, held, used, nr, count,
                   listed, loaded, holder, waiters>>

OneOf(S) == IF S = {} THEN {NoTask} ELSE S

\* The references task t holds.
Total(t) == MapThenSumSet(LAMBDA r : held[t][r], Refs)

-----------------------------------------------------------------------------
(* The reentrant lock (kernel/mutex.c).  iget never re-enters an inode    *)
(* lock it holds, so the repeat count stays at 1 and is left out.         *)

\* reentrant_unlock -> mutex_unlock: wake the oldest waiter (any, here)
\* and, if there was one, yield the CPU.
Unlock(t, s) ==
    \E w \in OneOf(waiters[s]) :
        /\ holder' = [holder EXCEPT ![s] = NoTask]
        /\ waiters' = [waiters EXCEPT ![s] = @ \ {w}]
        /\ blocked' = blocked \ {w}
        /\ IF w = NoTask THEN UNCHANGED running ELSE Reschedule(t)

\* iget returns inode s to t for the nr it asked for (fit_inode: the
\* device has nothing mounted on its inodes, so s itself).
Return(t, s) ==
    /\ held' = [held EXCEPT ![t][<<s, want'[t]>>] = @ + 1]
    /\ pc' = [pc EXCEPT ![t] = "user"]

\* Mutant of HitBody: the reference is not counted.
HitBodyNoCount(t, s) ==
    /\ Unlock(t, s)
    /\ Return(t, s)
    /\ UNCHANGED <<cur, used, nr, count, listed, loaded>>

\* iget's hit path once it holds the lock: count++, unlock, fit_inode.
HitBody(t, s) ==
    /\ count' = [count EXCEPT ![s] = @ + 1]
    /\ Unlock(t, s)
    /\ Return(t, s)
    /\ UNCHANGED <<cur, used, nr, listed, loaded>>

\* Mutant of MissBody: the lock is released before bread fills desc.
MissBodyEarlyUnlock(t, s) ==
    /\ used' = [used EXCEPT ![s] = TRUE]
    /\ nr' = [nr EXCEPT ![s] = want'[t]]
    /\ count' = [count EXCEPT ![s] = @ + 1]
    /\ listed' = listed \cup {s}
    /\ loaded' = [loaded EXCEPT ![s] = FALSE]
    /\ holder' = [holder EXCEPT ![s] = NoTask]
    /\ pc' = [pc EXCEPT ![t] = "bread"]
    /\ cur' = [cur EXCEPT ![t] = s]
    /\ blocked' = blocked \cup {t}
    /\ Reschedule(t)
    /\ UNCHANGED <<held, waiters>>

\* iget's miss path once it holds the lock: dev, nr, count++, list_push on
\* sb->inode_list, then bread of the inode block with the lock held.  A
\* cached block returns at once (desc set, unlock, return); otherwise the
\* task blocks and ReadDone finishes.
MissBody(t, s) ==
    /\ used' = [used EXCEPT ![s] = TRUE]
    /\ nr' = [nr EXCEPT ![s] = want'[t]]
    /\ count' = [count EXCEPT ![s] = @ + 1]
    /\ listed' = listed \cup {s}
    /\ \/ /\ loaded' = [loaded EXCEPT ![s] = TRUE]
          /\ Unlock(t, s)
          /\ Return(t, s)
          /\ UNCHANGED cur
       \/ /\ loaded' = [loaded EXCEPT ![s] = FALSE]
          /\ holder' = [holder EXCEPT ![s] = t]
          /\ pc' = [pc EXCEPT ![t] = "bread"]
          /\ cur' = [cur EXCEPT ![t] = s]
          /\ blocked' = blocked \cup {t}
          /\ Reschedule(t)
          /\ UNCHANGED <<held, waiters>>

\* reentrant_lock -> mutex_lock on s, then the branch's body; if another
\* task holds the mutex, block on its waiters and test again when woken.
LockFor(t, s, p) ==
    \/ /\ holder[s] = NoTask
       /\ IF p = "hit" THEN HitBody(t, s) ELSE MissBody(t, s)
       /\ UNCHANGED path
    \/ /\ holder[s] \notin {NoTask, t}
       /\ waiters' = [waiters EXCEPT ![s] = @ \cup {t}]
       /\ blocked' = blocked \cup {t}
       /\ Reschedule(t)
       /\ pc' = [pc EXCEPT ![t] = "lock_wait"]
       /\ cur' = [cur EXCEPT ![t] = s]
       /\ path' = [path EXCEPT ![t] = p]
       /\ UNCHANGED <<held, used, nr, count, listed, loaded, holder>>

-----------------------------------------------------------------------------
(* iget (fs/inode.c).                                                      *)

\* A task in user mode makes a system call that igets inode n; one task
\* holds at most MaxHeld references.
MayGet(t, n) ==
    /\ Running(t)
    /\ pc[t] = "user"
    /\ Total(t) < MaxHeld
    /\ want' = [want EXCEPT ![t] = n]

\* find_inode: an inode of sb->inode_list with that nr.
Found(n) == {s \in listed : nr[s] = n}

\* get_free_inode: the entries with dev = EOF (it takes the first, and
\* panics when there is none).
FreeInodes == {s \in Slots : ~used[s]}

\* Mutant of IgetMiss: find_inode's result is ignored.
IgetMissNoLookup(t, n) ==
    /\ MayGet(t, n)
    /\ LET free == FreeInodes
       IN  IF free = {}
           THEN /\ pc' = [pc EXCEPT ![t] = "panic"]
                /\ UNCHANGED <<running, blocked, cur, path, held, used, nr,
                               count, listed, loaded, holder, waiters>>
           ELSE LockFor(t, Min(free), "miss")

IgetHit(t, n) ==
    /\ MayGet(t, n)
    /\ \E s \in Found(n) : LockFor(t, s, "hit")

\* iget when find_inode finds nothing: get_free_inode's entry, whose lock
\* the miss path takes before it claims the entry.
IgetMiss(t, n) ==
    /\ MayGet(t, n)
    /\ Found(n) = {}
    /\ LET free == FreeInodes
       IN  IF free = {}
           THEN /\ pc' = [pc EXCEPT ![t] = "panic"]
                /\ UNCHANGED <<running, blocked, cur, path, held, used, nr,
                               count, listed, loaded, holder, waiters>>
           ELSE LockFor(t, Min(free), "miss")

\* Woken from the lock's waiters: mutex_lock tests the mutex again, and
\* the branch goes on with the inode it looked up before blocking.
LockRetry(t) ==
    /\ Running(t)
    /\ pc[t] = "lock_wait"
    /\ UNCHANGED want
    /\ LockFor(t, cur[t], path[t])

\* The disk interrupt ends a transfer while the CPU is in user mode or
\* idle (kernel code runs with interrupts off) and wakes its task.
IoComplete(t) ==
    /\ ~Halted
    /\ InterruptsOn
    /\ t \in blocked
    /\ pc[t] \in {"bread", "flush"}
    /\ blocked' = blocked \ {t}
    /\ UNCHANGED <<running, pc, cur, want, path, held, used, nr, count,
                   listed, loaded, holder, waiters>>

\* bread returned: desc, ctime, unlock, return the inode.
ReadDone(t) ==
    /\ Running(t)
    /\ pc[t] = "bread"
    /\ UNCHANGED <<cur, want, path, used, nr, count, listed>>
    /\ loaded' = [loaded EXCEPT ![cur[t]] = TRUE]
    /\ Unlock(t, cur[t])
    /\ Return(t, cur[t])

-----------------------------------------------------------------------------
(* iput and put_free_inode (fs/inode.c).                                   *)

\* put_free_inode: assert the entry is not the root (Slots excludes it)
\* and that count = 0, then dev = EOF.
PutFreeInode(t, s, c) ==
    IF c = 0
    THEN /\ used' = [used EXCEPT ![s] = FALSE]
         /\ pc' = [pc EXCEPT ![t] = "user"]
    ELSE /\ pc' = [pc EXCEPT ![t] = "panic"]
         /\ UNCHANGED used

\* iput of a reference r = <<inode, nr>> that t holds: count--, and at 0
\* list_remove, brelease(inode->buf) (which blocks when it writes a dirty
\* block back) and put_free_inode.
Iput(t, r) ==
    /\ Running(t)
    /\ pc[t] = "user"
    /\ held[t][r] > 0
    /\ held' = [held EXCEPT ![t][r] = @ - 1]
    /\ count' = [count EXCEPT ![r[1]] = @ - 1]
    /\ IF count'[r[1]] # 0
       THEN UNCHANGED <<pc, running, blocked, cur, used, listed>>
       ELSE /\ listed' = listed \ {r[1]}
            /\ \/ /\ PutFreeInode(t, r[1], count'[r[1]])
                  /\ UNCHANGED <<running, blocked, cur>>
               \/ /\ pc' = [pc EXCEPT ![t] = "flush"]
                  /\ cur' = [cur EXCEPT ![t] = r[1]]
                  /\ blocked' = blocked \cup {t}
                  /\ Reschedule(t)
                  /\ UNCHANGED used
    /\ UNCHANGED <<want, path, nr, loaded, holder, waiters>>

\* brelease returned after the write-back.
FlushDone(t) ==
    /\ Running(t)
    /\ pc[t] = "flush"
    /\ PutFreeInode(t, cur[t], count[cur[t]])
    /\ UNCHANGED <<running, blocked, cur, want, path, held, nr, count,
                   listed, loaded, holder, waiters>>

Next ==
    \/ \E t \in Tasks : DispatchTo(t)
    \/ \E t \in Tasks, n \in Nrs : IgetHit(t, n) \/ IgetMiss(t, n)
    \/ \E t \in Tasks : LockRetry(t) \/ IoComplete(t) \/ ReadDone(t) \/ FlushDone(t)
    \/ \E t \in Tasks, r \in Refs : Iput(t, r)

Spec == Init /\ [][Next]_vars

-----------------------------------------------------------------------------
(* Properties.                                                             *)

\* Every inode iget returned and the caller still holds is a live table
\* entry (dev # EOF), on sb->inode_list, for the nr the caller asked for,
\* with its descriptor read: iget never returns an entry that iput freed,
\* that another nr took over, or whose bread has not finished.
HeldLive ==
    \A t \in Tasks, r \in Refs :
        held[t][r] > 0 =>
            /\ used[r[1]]
            /\ nr[r[1]] = r[2]
            /\ r[1] \in listed
            /\ loaded[r[1]]

\* find_inode sees at most one entry per inode number: two igets of the
\* same nr share one inode_t, so their writes meet in one descriptor.
InodeUnique ==
    \A s1, s2 \in listed : s1 # s2 => nr[s1] # nr[s2]

\* No panic or failed assert: get_free_inode finds a free entry, and
\* put_free_inode frees an entry nobody counts.
NoAssertionFailure == ~Halted

====
