------------------------------ MODULE Process ------------------------------
(***************************************************************************)
(* Processes and their open files: task_fork, task_exit and task_waitpid  *)
(* of src/src/kernel/tasks.c, with the descriptor table task->files and   *)
(* the system-wide file_table of src/src/fs/file.c (sys_open, sys_close,  *)
(* sys_dup, sys_dup2, get_file, put_file), on the single-CPU cooperative  *)
(* scheduler.  Kernel code runs with interrupts off: a task leaves the    *)
(* CPU inside the kernel only where it blocks; in user mode the clock     *)
(* may preempt it.                                                         *)
(*                                                                         *)
(* A PCB slot is its pid (get_free_task: task->pid = i).  Slot 0 is the   *)
(* idle task, which runs when nothing is ready; slot 1 is init, which     *)
(* never exits.  Inodes are reduced to their reference counts: iput of   *)
(* the last reference releases the inode's buffer, and brelease of a     *)
(* dirty buffer writes it back, which may block the caller (bwrite ->     *)
(* device_request).  The kernel's own threads hold one reference each to *)
(* the standard file_table entry 0 and its inode, so it never reaches 0.  *)
(***************************************************************************)
EXTENDS Integers, FiniteSets, FiniteSetsExt

CONSTANTS
    NTasks,         \* PCB slots 1..NTasks of user processes (NR_TASKS)
    Inodes,         \* regular files a process may open (model values)
    TASK_FILE_NR,   \* descriptors 0..TASK_FILE_NR-1 of a task
    FILE_NR,        \* entries 0..FILE_NR-1 of file_table
    FIRST_FD,       \* first descriptor and entry handed out (3 in the code)
    KernelRefs,     \* references the kernel threads hold to entry 0
    Std             \* the inode of the standard stream (/dev/stdin)

ASSUME NTasks \in Nat \ {0} /\ FIRST_FD \in 1..TASK_FILE_NR - 1
ASSUME FIRST_FD < FILE_NR /\ KernelRefs \in Nat /\ Std \notin Inodes

Tasks == 1..NTasks
Init1 == 1                       \* user_init_thread's task
Fds == 0..TASK_FILE_NR - 1
Entries == 0..FILE_NR - 1
NoFile == -1
Any == -1                        \* waitpid(-1): any child

States == {"free", "ready", "running", "blocked", "waiting", "dead"}

\* Where a task is: in user mode, or inside the kernel at a point where it
\* can be switched out: blocked in iput under sys_close, sys_dup2's close
\* or task_exit's close, or in task_waitpid's loop; "dup2" and "exit" are
\* sys_dup2 after its close and task_exit's loop over the descriptors;
\* "exit_iput" is task_exit blocked in the iput of its cwd or program.
PCs == {"user", "close_io", "dup2", "dup2_io", "exit", "exit_io", "exit_iput",
        "wait"}

VARIABLES
    running,    \* the task on the CPU, 0 for the idle task
    state,      \* task->state, "free" for an empty task_table slot
    pc,
    ppid,       \* task->ppid
    waitfor,    \* task->waitpid
    files,      \* task->files: an entry of file_table or NoFile
    fd,         \* the descriptor a task's kernel code is working on
    arg,        \* sys_dup2's oldfd
    fcount,     \* file_table[e].count
    finode,     \* file_table[e].inode
    icount,     \* inode->count, of the references file_table holds
    exited,     \* the task has entered task_exit (since its fork)
    halted      \* "no", or why the kernel stopped: "panic" or "assert"

vars == <<running, state, pc, ppid, waitfor, files, fd, arg, fcount, finode,
          icount, exited, halted>>

TypeOK ==
    /\ running \in Tasks \cup {0}
    /\ state \in [Tasks -> States]
    /\ pc \in [Tasks -> PCs]
    /\ ppid \in [Tasks -> Tasks \cup {0}]
    /\ waitfor \in [Tasks -> Tasks \cup {Any}]
    /\ files \in [Tasks -> [Fds -> Entries \cup {NoFile}]]
    /\ fd \in [Tasks -> 0..TASK_FILE_NR]
    /\ arg \in [Tasks -> Fds]
    /\ fcount \in [Entries -> Nat]
    /\ finode \in [Entries -> Inodes \cup {Std}]
    /\ icount \in [Inodes -> Nat]
    /\ exited \in [Tasks -> BOOLEAN]
    /\ halted \in {"no", "panic", "assert"}

\* task_init and dev_init: init runs with descriptor 0 on entry 0 (the
\* standard stream, count 1 + KernelRefs); file_init clears the others.
Init ==
    /\ running = Init1
    /\ state = [t \in Tasks |-> IF t = Init1 THEN "running" ELSE "free"]
    /\ pc = [t \in Tasks |-> "user"]
    /\ ppid = [t \in Tasks |-> 0]
    /\ waitfor = [t \in Tasks |-> Any]
    /\ files = [t \in Tasks |-> [i \in Fds |->
                  IF t = Init1 /\ i < FIRST_FD THEN 0 ELSE NoFile]]
    /\ fd = [t \in Tasks |-> 0]
    /\ arg = [t \in Tasks |-> 0]
    /\ fcount = [e \in Entries |-> IF e = 0 THEN 1 + KernelRefs ELSE 0]
    /\ finode = [e \in Entries |-> IF e = 0 THEN Std ELSE CHOOSE i \in Inodes : TRUE]
    /\ icount = [i \in Inodes |-> 0]
    /\ exited = [t \in Tasks |-> FALSE]
    /\ halted = "no"

-----------------------------------------------------------------------------
(* The scheduler (kernel/tasks.c).                                          *)

\* t is on the CPU (its kernel code runs with interrupts off, or it is in
\* user mode).  An exiting task is on the CPU in state TASK_DEAD.
OnCpu(t) == halted = "no" /\ running = t

\* t is in user mode and may make a system call.
InUser(t) == OnCpu(t) /\ state[t] = "running" /\ pc[t] = "user"

\* task_search(TASK_READY) from t: the READY tasks other than t (it picks
\* one of them by ticks and jiffies, or the idle task when there is none).
TaskSearch(t, s) == {u \in Tasks \ {t} : s[u] = "ready"}

\* schedule(), called with the state function s the code leaves behind: a
\* RUNNING current task becomes READY, and the task task_search picks runs.
Schedule(t, s) ==
    LET cur    == IF s[t] = "running" THEN [s EXCEPT ![t] = "ready"] ELSE s
        others == TaskSearch(t, s)
    IN  \/ /\ others = {}
           /\ running' = 0
           /\ state' = cur
        \/ \E n \in others :
           /\ running' = n
           /\ state' = [cur EXCEPT ![n] = "running"]

\* task_block(t, NULL, st) of the running task: it takes state st and
\* schedule() runs another task.
Block(t, st) == Schedule(t, [state EXCEPT ![t] = st])

\* task_unblock(u) applied to the state function s.
Unblock(s, u) == [s EXCEPT ![u] = "ready"]

\* Interrupts are on: the idle task or a task in user mode is on the CPU.
InterruptsOn == IF running = 0 THEN TRUE ELSE pc[running] = "user"

\* The clock preempts a task in user mode, or the idle task's interrupt
\* finds a ready one (schedule from the clock handler).
DispatchTo(t) ==
    /\ halted = "no"
    /\ InterruptsOn
    /\ state[t] = "ready"
    /\ running' = t
    /\ state' = [u \in Tasks |-> IF u = t THEN "running"
                                 ELSE IF u = running THEN "ready"
                                 ELSE state[u]]
    /\ UNCHANGED <<pc, ppid, waitfor, files, fd, arg, fcount, finode, icount,
                   exited, halted>>

\* The write-back a task is blocked in completes (the disk's interrupt
\* handler calls task_unblock).
IoDone(t) ==
    /\ halted = "no"
    /\ InterruptsOn
    /\ state[t] = "blocked"
    /\ state' = Unblock(state, t)
    /\ UNCHANGED <<running, pc, ppid, waitfor, files, fd, arg, fcount, finode,
                   icount, exited, halted>>

Stop(why) ==
    /\ halted' = why
    /\ UNCHANGED <<running, state, pc, ppid, waitfor, files, fd, arg, fcount,
                   finode, icount, exited>>

-----------------------------------------------------------------------------
(* Descriptors and file_table (fs/file.c).                                  *)

\* The lowest element of a set of descriptors or entries.
Lowest(S) == Min(S)

\* The kernel code a task blocked in iput goes on with once it runs again,
\* and the point it is blocked at for each.
IoPc == [user |-> "close_io", dup2 |-> "dup2_io", exit |-> "exit_io"]
IoPcs == {IoPc[k] : k \in DOMAIN IoPc}
AfterIo(p) == CHOOSE k \in DOMAIN IoPc : IoPc[k] = p

\* put_file calling iput on every put, not only at the last one.
LastRefAlways(e) == finode[e] \in Inodes

\* Entry e holds the last reference to a regular file's inode.
LastRef(e) == fcount[e] = 1 /\ finode[e] \in Inodes

\* close(i) by t, after which t's kernel code goes on at next: put_file
\* asserts count > 0 and decrements it; at 0 it calls iput, which at the
\* inode's last reference releases the inode's buffer, whose write-back
\* may block t; task_put_fd clears the descriptor once put_file returns.
CloseFd(t, i, next) ==
    LET e == files[t][i] IN
    \/ /\ fcount[e] = 0
       /\ halted' = "assert"
       /\ UNCHANGED <<running, state, pc, ppid, waitfor, files, fd, fcount,
                      finode, icount, exited>>
    \/ /\ fcount[e] > 0
       /\ fcount' = [fcount EXCEPT ![e] = @ - 1]
       /\ icount' = IF LastRef(e) THEN [icount EXCEPT ![finode[e]] = @ - 1]
                                  ELSE icount
       /\ fd' = [fd EXCEPT ![t] = i]
       /\ \/ /\ LastRef(e) /\ icount[finode[e]] = 1
             /\ pc' = [pc EXCEPT ![t] = IoPc[next]]
             /\ Block(t, "blocked")
             /\ UNCHANGED files
          \/ /\ files' = [files EXCEPT ![t][i] = NoFile]
             /\ pc' = [pc EXCEPT ![t] = next]
             /\ UNCHANGED <<running, state>>
       /\ UNCHANGED <<ppid, waitfor, finode, exited, halted>>

\* IoResume forgetting task_put_fd after a blocking iput.
IoResumeKeepFd(t) ==
    /\ OnCpu(t)
    /\ pc[t] \in IoPcs
    /\ pc' = [pc EXCEPT ![t] = AfterIo(pc[t])]
    /\ UNCHANGED <<running, state, ppid, waitfor, files, fd, arg, fcount, finode,
                   icount, exited, halted>>

\* t runs again after the write-back: iput and put_file return, and
\* task_put_fd clears the descriptor.
IoResume(t) ==
    /\ OnCpu(t)
    /\ pc[t] \in IoPcs
    /\ files' = [files EXCEPT ![t][fd[t]] = NoFile]
    /\ pc' = [pc EXCEPT ![t] = AfterIo(pc[t])]
    /\ UNCHANGED <<running, state, ppid, waitfor, fd, arg, fcount, finode,
                   icount, exited, halted>>

\* task_get_fd: the free descriptors from FIRST_FD (it takes the lowest,
\* and panics when there is none).
FreeFds(t) == {j \in FIRST_FD..TASK_FILE_NR - 1 : files[t][j] = NoFile}

\* get_file: the unused entries from FIRST_FD (it takes the lowest and
\* counts it, and panics when there is none).
FreeEntries == {e \in FIRST_FD..FILE_NR - 1 : fcount[e] = 0}

\* sys_open with an inode_open that takes no reference to the inode.
OpenNoRef(t, i) ==
    LET freeFds == FreeFds(t)
        freeEnt == FreeEntries
    IN  /\ InUser(t)
        /\ IF freeFds = {} \/ freeEnt = {}
           THEN Stop("panic")
           ELSE /\ files' = [files EXCEPT ![t][Lowest(freeFds)] = Lowest(freeEnt)]
                /\ fcount' = [fcount EXCEPT ![Lowest(freeEnt)] = 1]
                /\ finode' = [finode EXCEPT ![Lowest(freeEnt)] = i]
                /\ UNCHANGED <<running, state, pc, ppid, waitfor, fd, arg, icount,
                               exited, halted>>

\* sys_open(i): inode_open takes a reference to the inode, task_get_fd the
\* lowest free descriptor from FIRST_FD and get_file the lowest unused
\* entry from FIRST_FD; either panics when none is left.  (An inode_open
\* that fails returns EOF and changes nothing.)
Open(t, i) ==
    LET freeFds == FreeFds(t)
        freeEnt == FreeEntries
    IN  /\ InUser(t)
        /\ IF freeFds = {} \/ freeEnt = {}
           THEN Stop("panic")
           ELSE LET j == Lowest(freeFds)
                    e == Lowest(freeEnt)
                IN  /\ files' = [files EXCEPT ![t][j] = e]
                    /\ fcount' = [fcount EXCEPT ![e] = 1]
                    /\ finode' = [finode EXCEPT ![e] = i]
                    /\ icount' = [icount EXCEPT ![i] = @ + 1]
                    /\ UNCHANGED <<running, state, pc, ppid, waitfor, fd, arg,
                                   exited, halted>>

\* sys_close(i): nothing when the descriptor is not open.
Close(t, i) ==
    /\ InUser(t)
    /\ files[t][i] # NoFile
    /\ CloseFd(t, i, "user")
    /\ UNCHANGED arg

\* dupfd(old, a): EOF when old is not open; otherwise the lowest free
\* descriptor from a, if there is one, shares old's entry.
DupFd(t, old, a) ==
    LET free == {j \in a..TASK_FILE_NR - 1 : files[t][j] = NoFile}
        e    == files[t][old]
    IN  IF e = NoFile \/ free = {}
        THEN UNCHANGED <<files, fcount>>
        ELSE /\ files' = [files EXCEPT ![t][Lowest(free)] = e]
             /\ fcount' = [fcount EXCEPT ![e] = @ + 1]

\* sys_dup(old) == dupfd(old, 0).
Dup(t, old) ==
    /\ InUser(t)
    /\ DupFd(t, old, 0)
    /\ UNCHANGED <<running, state, pc, ppid, waitfor, fd, arg, finode, icount,
                   exited, halted>>

\* sys_dup2(old, new): close(new), then dupfd(old, new).  When new is
\* open the close runs first (and may block); Dup2Dup goes on from there.
Dup2(t, old, new) ==
    /\ InUser(t)
    /\ \/ /\ files[t][new] = NoFile
          /\ DupFd(t, old, new)
          /\ UNCHANGED <<running, state, pc, ppid, waitfor, fd, arg, finode,
                         icount, exited, halted>>
       \/ /\ files[t][new] # NoFile
          /\ CloseFd(t, new, "dup2")
          /\ arg' = [arg EXCEPT ![t] = old]

\* The dupfd half of sys_dup2, after close(new) returned.
Dup2Dup(t) ==
    /\ OnCpu(t)
    /\ pc[t] = "dup2"
    /\ DupFd(t, arg[t], fd[t])
    /\ pc' = [pc EXCEPT ![t] = "user"]
    /\ UNCHANGED <<running, state, ppid, waitfor, fd, arg, finode, icount,
                   exited, halted>>

-----------------------------------------------------------------------------
(* Process lifecycle (kernel/tasks.c).                                      *)

\* get_free_task: the empty slots of task_table (it takes the lowest, and
\* panics "No more PCBs" when there is none).
FreeSlots == {c \in Tasks : state[c] = "free"}

\* task_fork without the loop that counts the child's descriptors.
ForkNoShare(t) ==
    LET free == FreeSlots IN
    /\ InUser(t)
    /\ IF free = {}
       THEN Stop("panic")
       ELSE LET c == Lowest(free) IN
            /\ state' = [state EXCEPT ![c] = "ready"]
            /\ ppid' = [ppid EXCEPT ![c] = t]
            /\ waitfor' = [waitfor EXCEPT ![c] = waitfor[t]]
            /\ files' = [files EXCEPT ![c] = files[t]]
            /\ pc' = [pc EXCEPT ![c] = "user"]
            /\ fd' = [fd EXCEPT ![c] = fd[t]]
            /\ arg' = [arg EXCEPT ![c] = arg[t]]
            /\ exited' = [exited EXCEPT ![c] = FALSE]
            /\ UNCHANGED <<running, fcount, finode, icount, halted>>

\* task_fork: get_free_task takes the lowest free slot (panic "No more
\* PCBs" when none is); the child is a copy of the parent, READY, with the
\* parent as ppid, and every entry the parent's descriptors refer to gets
\* one more reference.
Fork(t) ==
    LET free == FreeSlots IN
    /\ InUser(t)
    /\ IF free = {}
       THEN Stop("panic")
       ELSE LET c == Lowest(free) IN
            /\ state' = [state EXCEPT ![c] = "ready"]
            /\ ppid' = [ppid EXCEPT ![c] = t]
            /\ waitfor' = [waitfor EXCEPT ![c] = waitfor[t]]
            /\ files' = [files EXCEPT ![c] = files[t]]
            /\ pc' = [pc EXCEPT ![c] = "user"]
            /\ fd' = [fd EXCEPT ![c] = fd[t]]
            /\ arg' = [arg EXCEPT ![c] = arg[t]]
            /\ fcount' = [e \in Entries |->
                  fcount[e] + Cardinality({i \in Fds : files[t][i] = e})]
            /\ exited' = [exited EXCEPT ![c] = FALSE]
            /\ UNCHANGED <<running, finode, icount, halted>>

\* task_exit: the task becomes TASK_DEAD and puts its cwd, root and
\* program inodes, then closes its open descriptors in order (ExitClose)
\* and finishes (ExitFinish).  init never exits.  The root directory is
\* never at its last reference, but the cwd or the program may be (after
\* a rmdir or unlink of it): that iput releases the inode's buffer, whose
\* write-back may block the task (task_block sets TASK_BLOCKED over
\* TASK_DEAD).  Which inodes these are is not modelled, so the block is a
\* free choice.
Exit(t) ==
    LET dead == [state EXCEPT ![t] = "dead"] IN
    /\ InUser(t)
    /\ t # Init1
    /\ \/ /\ state' = dead
          /\ pc' = [pc EXCEPT ![t] = "exit"]
          /\ UNCHANGED running
       \/ /\ pc' = [pc EXCEPT ![t] = "exit_iput"]
          /\ Block(t, "blocked")
    /\ fd' = [fd EXCEPT ![t] = 0]
    /\ exited' = [exited EXCEPT ![t] = TRUE]
    /\ UNCHANGED <<ppid, waitfor, files, arg, fcount, finode, icount, halted>>

\* The iput task_exit blocked in returns once the task runs again, and the
\* loop over the descriptors starts.
ExitIput(t) ==
    /\ OnCpu(t)
    /\ pc[t] = "exit_iput"
    /\ pc' = [pc EXCEPT ![t] = "exit"]
    /\ UNCHANGED <<running, state, ppid, waitfor, files, fd, arg, fcount, finode,
                   icount, exited, halted>>

\* The open descriptors task_exit's loop has still to close.
ToClose(t) == {i \in fd[t]..TASK_FILE_NR - 1 : files[t][i] # NoFile}

\* One turn of task_exit's loop: close(i) of the next open descriptor.
ExitClose(t) ==
    /\ OnCpu(t)
    /\ pc[t] = "exit"
    /\ ToClose(t) # {}
    /\ CloseFd(t, Lowest(ToClose(t)), "exit")
    /\ UNCHANGED arg

\* task_exit without the loop that hands its children to its parent.
ExitFinishNoReparent(t) ==
    LET p    == ppid[t]
        wake == p \in Tasks /\ state[p] = "waiting" /\ waitfor[p] \in {t, Any}
    IN
    /\ OnCpu(t)
    /\ pc[t] = "exit"
    /\ ToClose(t) = {}
    /\ Schedule(t, IF wake THEN Unblock(state, p) ELSE state)
    /\ pc' = [pc EXCEPT ![t] = "user"]
    /\ UNCHANGED <<ppid, waitfor, files, fd, arg, fcount, finode, icount, exited,
                   halted>>

\* The end of task_exit: its children get its ppid as their parent, its
\* parent is unblocked when it waits for this pid or for any, and
\* schedule() runs.  schedule() leaves the task off the CPU only if it is
\* still TASK_DEAD; a task that blocked in the loop above came back
\* TASK_RUNNING, becomes READY, and returns to user mode when it runs.
ExitFinish(t) ==
    LET p    == ppid[t]
        wake == p \in Tasks /\ state[p] = "waiting" /\ waitfor[p] \in {t, Any}
    IN
    /\ OnCpu(t)
    /\ pc[t] = "exit"
    /\ ToClose(t) = {}
    /\ ppid' = [c \in Tasks |-> IF state[c] # "free" /\ ppid[c] = t
                                THEN p ELSE ppid[c]]
    /\ Schedule(t, IF wake THEN Unblock(state, p) ELSE state)
    /\ pc' = [pc EXCEPT ![t] = "user"]
    /\ UNCHANGED <<waitfor, files, fd, arg, fcount, finode, icount, exited,
                   halted>>

\* One pass of task_waitpid's loop over slots 2.. for t's children that
\* pid selects: the first TASK_DEAD one is reaped (its slot freed) and t
\* returns to user mode (the freed slot has no parent); if some other child matched, t records pid in
\* waitpid and blocks TASK_WAITING; with no matching child it returns -1.
WaitScan(t, pid) ==
    LET match == {c \in 2..NTasks : state[c] # "free" /\ ppid[c] = t
                                   /\ pid \in {c, Any}}
        dead  == {c \in match : state[c] = "dead"}
    IN  \/ /\ dead # {}
           /\ state' = [state EXCEPT ![Lowest(dead)] = "free"]
           /\ pc' = [pc EXCEPT ![t] = "user"]
           /\ UNCHANGED <<running, waitfor>>
           /\ ppid' = [ppid EXCEPT ![Lowest(dead)] = 0]
        \/ /\ dead = {} /\ match # {}
           /\ waitfor' = [waitfor EXCEPT ![t] = pid]
           /\ pc' = [pc EXCEPT ![t] = "wait"]
           /\ Block(t, "waiting")
           /\ UNCHANGED ppid
        \/ /\ match = {}
           /\ pc' = [pc EXCEPT ![t] = "user"]
           /\ UNCHANGED <<running, state, waitfor, ppid>>

\* sys_waitpid(pid) from user mode.
Waitpid(t, pid) ==
    /\ InUser(t)
    /\ WaitScan(t, pid)
    /\ UNCHANGED <<files, fd, arg, fcount, finode, icount, exited, halted>>

\* task_waitpid's loop goes round again once t is unblocked and runs.
WaitRetry(t) ==
    /\ OnCpu(t)
    /\ state[t] = "running"
    /\ pc[t] = "wait"
    /\ WaitScan(t, waitfor[t])
    /\ UNCHANGED <<files, fd, arg, fcount, finode, icount, exited, halted>>

-----------------------------------------------------------------------------

\* After a panic or a failed assertion the kernel stops.
Halted == halted # "no" /\ UNCHANGED vars

Next ==
    \/ \E t \in Tasks :
          \/ Fork(t) \/ Exit(t)
          \/ \E i \in Inodes : Open(t, i)
          \/ \E i \in Fds : Close(t, i) \/ Dup(t, i)
          \/ \E old, new \in Fds : Dup2(t, old, new)
          \/ \E pid \in Tasks \cup {Any} : Waitpid(t, pid)
          \/ ExitIput(t) \/ ExitClose(t) \/ ExitFinish(t) \/ IoResume(t)
          \/ Dup2Dup(t) \/ WaitRetry(t)
          \/ DispatchTo(t) \/ IoDone(t)
    \/ Halted

\* Kernel code that is on the CPU goes on (weak fairness); the disk's
\* interrupt stays pending while interrupts are off and is taken when they
\* are on again (strong fairness); the clock and task_search's choice by ticks and
\* jiffies give a task that is ready again and again the CPU (strong
\* fairness).  User code need not make any system call.
Fairness ==
    \A t \in Tasks :
        /\ WF_vars(ExitIput(t) \/ ExitClose(t) \/ ExitFinish(t) \/ IoResume(t)
                   \/ Dup2Dup(t) \/ WaitRetry(t))
        /\ SF_vars(IoDone(t))
        /\ SF_vars(DispatchTo(t))

Spec == Init /\ [][Next]_vars /\ Fairness

-----------------------------------------------------------------------------
(* Properties.                                                              *)

\* The descriptor t's close has put but not yet cleared (t is blocked in
\* iput, or about to clear it).
Closing(t, i) == pc[t] \in IoPcs /\ fd[t] = i

\* Every file_table entry's count is the number of descriptors of live
\* tasks (and of the kernel threads, for entry 0) that refer to it: fork,
\* dup, dup2, close and exit's loop, in any interleaving with blocking in
\* iput, neither leak nor lose a reference (spec.md, section 7).
FileCountExact ==
    \A e \in Entries :
        fcount[e] = (IF e = 0 THEN KernelRefs ELSE 0)
                    + Cardinality({<<t, i>> \in Tasks \X Fds :
                                     /\ state[t] # "free"
                                     /\ files[t][i] = e
                                     /\ ~Closing(t, i)})

\* Every inode's count is the number of file_table entries in use that
\* refer to it: put_file hands back the inode exactly when the entry's
\* last reference goes.
InodeRefExact ==
    \A i \in Inodes :
        icount[i] = Cardinality({e \in Entries : fcount[e] > 0 /\ finode[e] = i})

\* No assertion of put_file (count > 0) fails, whatever the processes do
\* with their descriptors.
NoAssertionFailure == halted # "assert"

\* The parent of every TASK_DEAD task is a task that is neither freed nor
\* done exiting: task_exit hands its children to its own parent before
\* it leaves the CPU, so every zombie can still be reaped by a waitpid.
ZombieParentLive ==
    \A c \in Tasks :
        state[c] = "dead" =>
            LET p == ppid[c] IN
            /\ p \in Tasks
            /\ state[p] # "free"
            /\ state[p] = "dead" => pc[p] = "exit"

\* A task in waitpid while a child its pid selects is TASK_DEAD eventually
\* returns from waitpid (having reaped a dead child): the exiting child
\* unblocks its waiting parent, and the parent's loop finds it (unless the
\* kernel has stopped on a panic meanwhile).
WaitpidReturns ==
    \A p \in Tasks :
        (/\ pc[p] = "wait"
         /\ \E c \in Tasks : /\ state[c] = "dead" /\ ppid[c] = p
                             /\ waitfor[p] \in {c, Any})
        ~> (pc[p] = "user" \/ halted # "no")

\* A task that has called exit never runs user code again: task_exit does
\* not return (the comment on its final schedule(): run other tasks).
ExitIsFinal ==
    \A t \in Tasks : exited[t] => ~(running = t /\ pc[t] = "user")

====
