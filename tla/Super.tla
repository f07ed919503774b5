------------------------------- MODULE Super -------------------------------
(***************************************************************************)
(* The superblock table of src/src/fs/super.c (get_super, get_free_super, *)
(* read_super, put_super, sys_mount, sys_umount, sys_mkfs with devmkfs)  *)
(* over the in-memory inode table of src/src/fs/inode.c (iget with       *)
(* find_inode and fit_inode, iput, put_free_inode), the reference          *)
(* counting that ties them, and namei's walk of one or two components    *)
(* (src/src/fs/namei.c).  One task makes the calls; kernel code is not    *)
(* preempted, and no other task touches these tables between its steps,  *)
(* so each system call is one step.                                        *)
(*                                                                         *)
(* The name space is fixed: the root file system (RootDev) holds a       *)
(* directory for each of Dirs and a block special file for each device,  *)
(* named after it, whose zone[0] is that device; the file system of each *)
(* other device holds one file "f".  devmkfs leaves a device with only    *)
(* "." and "..".  Buffers (the superblock, the bit maps, the inode        *)
(* blocks) are left to BufferCache; bread here always succeeds.           *)
(***************************************************************************)
EXTENDS Integers, Sequences, FiniteSets, FiniteSetsExt

CONSTANTS
    RootDev,    \* the first IDE partition, mounted by mount_root
    Disks,      \* the other block devices, each holding a file system
    Dirs,       \* the directories of the root file system
    SUPER_NR,   \* entries of super_table
    INODE_NR,   \* entries of inode_table
    MaxHeld,    \* most references user calls (open, chdir) hold at once
    OpenPaths,  \* the paths the callers open
    UmountPaths,\* the paths the callers umount
    NoDev       \* EOF in a dev field

Devs     == {RootDev} \cup Disks
SupSlots == 0..(SUPER_NR - 1)
Slots    == 0..(INODE_NR - 1)
NULL     == -1
\* The largest inode count: 0xFFFFFFFF in the source, where a count of 0
\* wraps to on an iput; TLC's integers stop at 2^31 - 1, which stands for it.
COUNT_MAX == 2147483647
Inc(c) == IF c = COUNT_MAX THEN 0 ELSE c + 1
Dec(c) == IF c = 0 THEN COUNT_MAX ELSE c - 1
ROOT_NR  == "1"     \* inode 1, the root directory of a file system
FILE_NR  == "f"
NO_NR    == "0"     \* what find_entry finds for a name not in the directory
Nrs      == {ROOT_NR, FILE_NR} \cup Dirs \cup Devs

ASSUME NoDev \notin Devs /\ RootDev \notin Disks /\ Dirs \cap Devs = {}
ASSUME SUPER_NR > 0 /\ INODE_NR > 0 /\ MaxHeld \in Nat

VARIABLES
    ino,      \* inode_table[s]: dev, nr, count, mount, and sb: the
              \* super_table entry whose inode_list holds it, or NULL
    sup,      \* super_table[i]: dev, count, iroot and imount (inode slots)
    held,     \* held[s]: references that open and chdir keep to slot s
    fresh,    \* fresh[d]: devmkfs has rewritten d's root directory
    halted    \* "no", or the assert, panic or fault that stopped the kernel

vars == <<ino, sup, held, fresh, halted>>

Inode == [dev : Devs \cup {NoDev}, nr : Nrs, count : Nat,
          mount : Devs \cup {NoDev}, sb : SupSlots \cup {NULL}]
SuperBlock == [dev : Devs \cup {NoDev}, count : Nat,
               iroot : Slots \cup {NULL}, imount : Slots \cup {NULL}]

TypeOK ==
    /\ ino \in [Slots -> Inode]
    /\ sup \in [SupSlots -> SuperBlock]
    /\ held \in [Slots -> 0..MaxHeld]
    /\ fresh \in [Devs -> BOOLEAN]
    /\ halted \in {"no", "assert", "panic", "undefined"}

-----------------------------------------------------------------------------
(* The state a system call works on: the two tables and whether an assert  *)
(* or panic has stopped it.  Every helper leaves a stopped state alone.    *)

Fail(st, why) == IF st.err = "no" THEN [st EXCEPT !.err = why] ELSE st

\* get_super: the first entry of super_table whose dev is d.
GetSuper(st, d) ==
    LET S == {i \in SupSlots : st.sup[i].dev = d}
    IN  IF S = {} THEN NULL ELSE Min(S)

\* iput: count-- (uint32, so 0 wraps); at zero, off the superblock's list and
\* put_free_inode, which asserts the slot is not inode_table[0].
IPut(st, s) ==
    IF st.err # "no" \/ s = NULL THEN st
    ELSE LET c == Dec(st.ino[s].count)
         IN  IF c # 0 THEN [st EXCEPT !.ino[s].count = c]
             ELSE IF s = 0 THEN Fail([st EXCEPT !.ino[s].count = 0], "assert")
             ELSE [st EXCEPT !.ino[s] = [@ EXCEPT !.count = 0, !.sb = NULL,
                                                 !.dev = NoDev]]

\* fit_inode: a mount point stands for the root of the device mounted on
\* it.  get_super(mount) must exist (assert); the mount point is put, and
\* the count of sb->iroot is incremented as it is: an iroot that is NULL
\* or a freed entry is a fault, its desc is not there.
FitRoot(t, i) ==
    LET r == IF i = NULL THEN NULL ELSE t.sup[i].iroot
    IN  CASE t.err # "no" -> [st |-> t, r |-> NULL]
          [] i = NULL      -> [st |-> Fail(t, "assert"), r |-> NULL]
          [] r = NULL \/ t.ino[r].dev = NoDev -> [st |-> Fail(t, "undefined"), r |-> NULL]
          [] OTHER -> [st |-> [t EXCEPT !.ino[r].count = Inc(@)], r |-> r]

FitInode(st, s) ==
    IF st.ino[s].mount = NoDev THEN [st |-> st, r |-> s]
    ELSE FitRoot(IPut(st, s), GetSuper(st, st.ino[s].mount))

\* iget: assert the device has a superblock; a hit in its inode_list is
\* counted and fitted; a miss takes the first free slot of inode_table
\* (panic when none), which keeps the mount field its last user left.
IGet(st, d, n) ==
    LET i    == GetSuper(st, d)
        hit  == {s \in Slots : i # NULL /\ st.ino[s].sb = i /\ st.ino[s].nr = n}
        free == {s \in Slots : st.ino[s].dev = NoDev}
        h    == CHOOSE s \in hit : TRUE
        f    == Min(free)
    IN  CASE st.err # "no" -> [st |-> st, r |-> NULL]
          [] i = NULL      -> [st |-> Fail(st, "assert"), r |-> NULL]
          [] hit # {}      -> FitInode([st EXCEPT !.ino[h].count = Inc(@)], h)
          [] free = {}     -> [st |-> Fail(st, "panic"), r |-> NULL]
          [] OTHER -> [st |-> [st EXCEPT !.ino[f] = [@ EXCEPT !.dev = d, !.nr = n,
                                   !.count = Inc(@), !.sb = i]],
                       r |-> f]

\* The directory tests of the name space: the root of every file system and
\* the root file system's Dirs are directories; its Devs are block files.
IsDir(st, s) == st.ino[s].nr = ROOT_NR \/ (st.ino[s].dev = RootDev /\ st.ino[s].nr \in Dirs)
IsBlk(st, s) == st.ino[s].dev = RootDev /\ st.ino[s].nr \in Devs

\* find_entry: the inode number named name in directory slot s, or NO_NR.
Entry(st, s, name) ==
    LET d == st.ino[s].dev
    IN  CASE st.ino[s].nr # ROOT_NR \/ fresh[d] -> NO_NR
          [] d = RootDev /\ name \in Dirs \cup Devs -> name
          [] d # RootDev /\ name = FILE_NR -> FILE_NR
          [] OTHER -> NO_NR

\* namei of "/a" or "/a/b" from the task's root, inode_table[0]: named
\* counts the root and, for two components, finds the first (find_entry),
\* puts the root, igets it and asserts it is a directory; namei finds the
\* last component in the directory reached, igets it, then puts the
\* directory.
PutDir(h, dir) == [st |-> IPut(h.st, dir), r |-> h.r]

LookupIn(st, dir, n) ==
    IF n = NO_NR THEN [st |-> IPut(st, dir), r |-> NULL]
    ELSE PutDir(IGet(st, st.ino[dir].dev, n), dir)

WalkDir(g, last) ==
    CASE g.r = NULL            -> g
      [] ~IsDir(g.st, g.r)      -> [st |-> IPut(g.st, g.r), r |-> NULL]
      [] OTHER                  -> LookupIn(g.st, g.r, Entry(g.st, g.r, last))

WalkFirst(st, n, last) ==
    IF n = NO_NR THEN [st |-> IPut(st, 0), r |-> NULL]
    ELSE WalkDir(IGet(IPut(st, 0), st.ino[0].dev, n), last)

Named(st, p) ==
    IF Len(p) = 1 THEN LookupIn(st, 0, Entry(st, 0, p[1]))
    ELSE WalkFirst(st, Entry(st, 0, p[1]), p[2])

Namei(st, p) ==
    IF st.err # "no" THEN [st |-> st, r |-> NULL]
    ELSE Named([st EXCEPT !.ino[0].count = Inc(@)], p)

\* read_super: a superblock of d already in the table gains a reference;
\* otherwise the first free entry (panic when none) takes d with count 1.
\* iroot and imount are left as they were.
ReadSuper(st, d) ==
    LET i    == GetSuper(st, d)
        free == {j \in SupSlots : st.sup[j].dev = NoDev}
        j    == Min(free)
    IN  CASE st.err # "no" -> [st |-> st, r |-> NULL]
          [] i # NULL      -> [st |-> [st EXCEPT !.sup[i].count = @ + 1], r |-> i]
          [] free = {}     -> [st |-> Fail(st, "panic"), r |-> NULL]
          [] OTHER -> [st |-> [st EXCEPT !.sup[j].dev = d, !.sup[j].count = 1], r |-> j]

\* put_super: assert count > 0 and decrement; at zero the entry is freed
\* (dev = EOF) and its imount and iroot are put, then the map buffers.
PutSuper(st, i) ==
    IF st.err # "no" \/ i = NULL THEN st
    ELSE IF st.sup[i].count = 0 THEN Fail(st, "assert")
    ELSE IF st.sup[i].count > 1 THEN [st EXCEPT !.sup[i].count = @ - 1]
    ELSE IPut(IPut([st EXCEPT !.sup[i].count = 0, !.sup[i].dev = NoDev],
                   st.sup[i].imount),
              st.sup[i].iroot)

-----------------------------------------------------------------------------
(* The system calls.  Each starts from the tables as they are and ends by  *)
(* storing what it left, or by stopping the kernel where an assert, a     *)
(* panic or a fault stopped it.                                            *)

S0 == [ino |-> ino, sup |-> sup, err |-> "no"]

Commit(st) ==
    IF st.err = "no"
       THEN /\ ino' = st.ino /\ sup' = st.sup /\ UNCHANGED halted
       ELSE /\ halted' = st.err /\ UNCHANGED <<ino, sup>>

\* Once an assert, a panic or a fault has stopped the kernel no call runs:
\* a stopped state has no successor.
Running == halted = "no"

Paths == {<<x>> : x \in Dirs \cup Devs} \cup {<<m, FILE_NR>> : m \in Dirs}

ASSUME OpenPaths \subseteq Paths /\ UmountPaths \subseteq Paths

\* sys_mount(devname, dirname): the device file must be a block file and
\* the directory a directory that nobody else holds and that is not a
\* mount point; read_super, and if the superblock is mounted already put
\* it back; else record iroot and imount and mark the directory.  Every
\* failure goes through rollback: put_super, iput of both inodes.
\* Mutant of MountRoot: the device file is not put.
MountRootKeepDev(g, i, dv, di) ==
    IF g.st.err # "no" THEN g.st
    ELSE [g.st EXCEPT !.sup[i].iroot = g.r, !.sup[i].imount = di,
                      !.ino[di].mount = g.st.sup[i].dev]

MountRoot(g, i, dv, di) ==
    IF g.st.err # "no" THEN g.st
    ELSE IPut([g.st EXCEPT !.sup[i].iroot = g.r, !.sup[i].imount = di,
                           !.ino[di].mount = g.st.sup[i].dev], dv)

\* Mutant of MountSuper: no test of sb->imount.
MountSuperUnchecked(c, dv, di) ==
    IF c.r = NULL THEN c.st
    ELSE MountRoot(IGet(c.st, c.st.sup[c.r].dev, ROOT_NR), c.r, dv, di)

MountSuper(c, dv, di) ==
    CASE c.r = NULL                  -> c.st
      [] c.st.sup[c.r].imount # NULL  -> IPut(IPut(PutSuper(c.st, c.r), dv), di)
      [] OTHER -> MountRoot(IGet(c.st, c.st.sup[c.r].dev, ROOT_NR), c.r, dv, di)

MountDir(b, dv) ==
    CASE b.r = NULL -> IPut(b.st, dv)
      [] ~IsDir(b.st, b.r) \/ b.st.ino[b.r].count # 1 \/ b.st.ino[b.r].mount # NoDev ->
            IPut(IPut(b.st, dv), b.r)
      [] OTHER -> MountSuper(ReadSuper(b.st, b.st.ino[dv].nr), dv, b.r)

MountDev(a, pm) ==
    CASE a.r = NULL           -> a.st
      [] ~IsBlk(a.st, a.r)     -> IPut(a.st, a.r)
      [] OTHER                 -> MountDir(Namei(a.st, pm), a.r)

Mount(pd, pm) ==
    /\ Running
    /\ Commit(MountDev(Namei(S0, pd), pm))
    /\ UNCHANGED <<held, fresh>>

\* sys_umount(target): a block file names its device, the root of a
\* mounted file system its own; the root file system's mount inode is
\* refused.  get_super; if the superblock has no imount, or more than its
\* root on its inode_list, fail; else put iroot, clear the mark, put
\* imount.  Success and failure alike end with put_super and iput.  A
\* device with no superblock leaves sb NULL, and sb->imount reads what
\* lies at address 0: zero (a failure) or not (garbage is then put).
\* Mutant of Detach: the mount point keeps its mount field.
DetachKeepMark(u, i, m) ==
    [IPut([u EXCEPT !.sup[i].iroot = NULL], m) EXCEPT !.sup[i].imount = NULL]

\* sb->iroot = NULL; sb->imount->mount = 0; iput(sb->imount); sb->imount = NULL.
Detach(u, i, m) ==
    [IPut([u EXCEPT !.sup[i].iroot = NULL, !.ino[m].mount = NoDev], m)
        EXCEPT !.sup[i].imount = NULL]

UmountSuper(t, s, zero, i) ==
    CASE i = NULL -> IF zero THEN IPut(t, s) ELSE Fail(t, "undefined")
      [] t.sup[i].imount = NULL \/ Cardinality({x \in Slots : t.ino[x].sb = i}) > 1 ->
            IPut(PutSuper(t, i), s)
      [] OTHER -> IPut(PutSuper(Detach(IPut(t, t.sup[i].iroot), i, t.sup[i].imount), i), s)

UmountTarget(a, zero) ==
    CASE a.r = NULL                                    -> a.st
      [] ~IsBlk(a.st, a.r) /\ a.st.ino[a.r].nr # ROOT_NR -> IPut(a.st, a.r)
      [] a.r = a.st.sup[0].imount                       -> IPut(a.st, a.r)
      [] OTHER -> UmountSuper(a.st, a.r, zero,
                    GetSuper(a.st, IF IsBlk(a.st, a.r) THEN a.st.ino[a.r].nr
                                   ELSE a.st.ino[a.r].dev))

Umount(p, zero) ==
    /\ Running
    /\ Commit(UmountTarget(Namei(S0, p), zero))
    /\ UNCHANGED <<held, fresh>>

\* sys_mkfs(devname): a block file's device is formatted by devmkfs, which
\* takes a free superblock entry (panic when none) for it with count 1,
\* lays out the maps, makes the root with new_inode (an iget of inode 1
\* through get_super, the first entry of the device), writes "." and ".."
\* and put_supers the entry; sys_mkfs then puts the device file.
MkfsRoot(g, j) ==
    IF g.st.err # "no" THEN g.st
    ELSE PutSuper([g.st EXCEPT !.sup[j].iroot = g.r], j)

DevMkfs(t, d) ==
    LET free == {j \in SupSlots : t.sup[j].dev = NoDev}
    IN  IF free = {} THEN Fail(t, "panic")
        ELSE MkfsRoot(IGet([t EXCEPT !.sup[Min(free)].dev = d,
                                     !.sup[Min(free)].count = 1], d, ROOT_NR),
                      Min(free))

MkfsDev(a) ==
    CASE a.r = NULL           -> [st |-> a.st, dev |-> NoDev]
      [] ~IsBlk(a.st, a.r)     -> [st |-> IPut(a.st, a.r), dev |-> NoDev]
      [] OTHER -> [st |-> IPut(DevMkfs(a.st, a.st.ino[a.r].nr), a.r),
                   dev |-> a.st.ino[a.r].nr]

MkfsCommit(r) ==
    /\ Commit(r.st)
    /\ fresh' = IF r.dev = NoDev \/ r.st.err # "no" THEN fresh
                ELSE [fresh EXCEPT ![r.dev] = TRUE]

Mkfs(p) ==
    /\ Running
    /\ MkfsCommit(MkfsDev(Namei(S0, p)))
    /\ UNCHANGED held

HeldTotal == MapThenSumSet(LAMBDA s : held[s], Slots)

\* sys_open or sys_chdir of a path: namei's reference is kept by the file
\* or the task until Close.
OpenCommit(a) ==
    /\ Commit(a.st)
    /\ held' = IF a.r = NULL \/ a.st.err # "no" THEN held
               ELSE [held EXCEPT ![a.r] = @ + 1]

Open(p) ==
    /\ Running
    /\ HeldTotal < MaxHeld
    /\ OpenCommit(Namei(S0, p))
    /\ UNCHANGED fresh


\* Mutant of Close: the descriptor is not checked.
CloseUnchecked(s) ==
    /\ Running
    /\ Commit(IPut(S0, s))
    /\ held' = [held EXCEPT ![s] = @ - 1]
    /\ UNCHANGED fresh

\* sys_close of the last descriptor of the file: iput.
Close(s) ==
    /\ Running
    /\ held[s] > 0
    /\ Commit(IPut(S0, s))
    /\ held' = [held EXCEPT ![s] = @ - 1]
    /\ UNCHANGED fresh

\* super_init and mount_root: inode_table[0] is the root directory, got
\* twice (iroot and imount of super_table[0]) and twice more as the first
\* task's iroot and ipwd; every other entry is free.
Init ==
    /\ ino = [s \in Slots |->
                IF s = 0 THEN [dev |-> RootDev, nr |-> ROOT_NR, count |-> 4,
                               mount |-> NoDev, sb |-> 0]
                ELSE [dev |-> NoDev, nr |-> ROOT_NR, count |-> 0,
                      mount |-> NoDev, sb |-> NULL]]
    /\ sup = [i \in SupSlots |->
                IF i = 0 THEN [dev |-> RootDev, count |-> 1, iroot |-> 0, imount |-> 0]
                ELSE [dev |-> NoDev, count |-> 0, iroot |-> NULL, imount |-> NULL]]
    /\ held = [s \in Slots |-> 0]
    /\ fresh = [d \in Devs |-> FALSE]
    /\ halted = "no"

Next ==
    \/ \E pd, pm \in Paths : Mount(pd, pm)
    \/ \E p \in UmountPaths, z \in BOOLEAN : Umount(p, z)
    \/ \E p \in Paths : Mkfs(p)
    \/ \E p \in OpenPaths : Open(p)
    \/ \E s \in Slots : Close(s)

Spec == Init /\ [][Next]_vars

-----------------------------------------------------------------------------
(* Properties.                                                             *)

\* The references each inode_table entry has: the first task's iroot and
\* ipwd, open files and working directories, and the iroot and imount of
\* every superblock in use.
Holders(s) ==
    (IF s = 0 THEN 2 ELSE 0) + held[s]
    + Cardinality({i \in SupSlots : sup[i].dev # NoDev /\ sup[i].iroot = s})
    + Cardinality({i \in SupSlots : sup[i].dev # NoDev /\ sup[i].imount = s})

\* While the kernel runs, the count of every inode in use is the number of
\* references held to it: mount, umount and mkfs each put exactly what
\* their namei, read_super and iget calls got, on every path through them.
RefCountExact ==
    Running => \A s \in Slots : ino[s].dev # NoDev => ino[s].count = Holders(s)

\* The root file system's superblock lives as long as the kernel, and a
\* mount point in the inode table always has the superblock of the device
\* it carries, with that inode as its imount.
MountsLive ==
    Running =>
        /\ sup[0].dev = RootDev
        /\ \A s \in Slots : ino[s].dev # NoDev /\ ino[s].mount # NoDev =>
              \E i \in SupSlots : sup[i].dev = ino[s].mount /\ sup[i].imount = s

-----------------------------------------------------------------------------
(* Refinement of MountTable: the device a directory of the root file      *)
(* system carries is the mount field of its entry in the inode table,     *)
(* which holds it from sys_mount to sys_umount.                            *)

MountOf(m) ==
    LET S == {s \in Slots : ino[s].dev = RootDev /\ ino[s].nr = m /\ ino[s].mount # NoDev}
    IN  IF S = {} THEN NoDev ELSE ino[CHOOSE s \in S : TRUE].mount

MT == INSTANCE MountTable WITH mounted <- [m \in Dirs |-> MountOf(m)]

\* Every sequence of mount, umount, mkfs, open and close calls is one the
\* mount table allows: sys_mount adds a mount only on a free directory for
\* a device mounted nowhere, sys_umount removes only the one it names.
MountTableSpec == MT!Spec

====
