------------------------------- MODULE Namei -------------------------------
(***************************************************************************)
(* Path lookup and the directory operations of fs/namei.c on the root     *)
(* device: named, namei and find_entry/add_entry, and the system calls     *)
(* mkdir, rmdir, link, unlink, mknod, chdir, chroot and open (inode_open  *)
(* with sys_open's reference), for one calling task.                       *)
(*                                                                         *)
(* Each system call is one step: the kernel runs with interrupts off and   *)
(* the model has one caller, so nothing else runs between the lookups and  *)
(* the stores of a call.  A directory is the sequence of its dentries (a   *)
(* name and an inode number, 0 for an entry that was removed); its size is *)
(* the length of that sequence.  An inode's desc is kept as its kind, the  *)
(* bits of its mode that apply to the caller, nlinks and, for a directory, *)
(* its entries.  Blocks, buffers and the inode cache are left out: a      *)
(* reference the caller keeps is counted, the rest are released within    *)
(* the call.                                                               *)
(***************************************************************************)
EXTENDS Integers, Sequences, SequencesExt

CONSTANTS
    NInodes,         \* inode numbers 1..NInodes on the device (icount)
    Names,           \* the file names callers pass (strings)
    BLOCK_DENTRIES,  \* dentries per directory block (BLOCK_SIZE / 16)
    MaxDirLen,       \* bound: entries a directory may grow to
    MaxEntries,      \* bound: entries the directories hold besides . and ..
    MaxOpen,         \* bound: files the caller has open (its descriptors)
    Uid,             \* the calling task's uid
    RootPerm,        \* the bits of the root directory's mode that apply to the caller
    Modes,           \* the owner bits callers pass to mkdir, open and mknod
    NodeKinds,       \* the file types callers pass to mknod
    OpenFlags,       \* the flags callers pass to open: [acc, creat, trunc]
    Paths            \* the path names callers pass: [abs, comps]

\* is_empty reads at most two blocks of a directory the way the model
\* follows it.
ASSUME MaxDirLen <= 2 * BLOCK_DENTRIES + 1

KERNEL_USER == 0
EOF == -1
ROOT_INO == 1                     \* devmkfs's root directory
Ino == 1..NInodes
Dot == "."
DotDot == ".."
AllNames == Names \cup {Dot, DotDot}
Kinds == {"dir", "reg", "chr", "blk"}
Bits == {"r", "w", "x"}
P_EXEC == {"x"}
P_WRITE == {"w"}
P_READ == {"r"}
O_RDONLY == 0
O_WRONLY == 1
O_RDWR == 2
AccModes == {O_RDONLY, O_WRONLY, O_RDWR}
\* mount_root holds the root inode twice (sb->iroot and sb->imount).
RootPins == 2

Dentry(name, nr) == [name |-> name, nr |-> nr]

VARIABLES
    imap,      \* inode numbers whose imap bit is set
    mode,      \* desc->mode's file type, per inode
    perm,      \* the bits of desc->mode that apply to the caller
    nlinks,    \* desc->nlinks
    dents,     \* a directory's dentries, in order (desc->size / 16 of them)
    iroot,     \* task->iroot
    ipwd,      \* task->ipwd
    opened,    \* references sys_open holds, per inode and access mode
    halted     \* "no", or why the kernel stopped

vars == <<imap, mode, perm, nlinks, dents, iroot, ipwd, opened, halted>>

TypeOK ==
    /\ imap \subseteq Ino /\ ROOT_INO \in imap
    /\ mode \in [Ino -> Kinds]
    /\ perm \in [Ino -> SUBSET Bits]
    /\ nlinks \in [Ino -> Nat]
    /\ dents \in [Ino -> Seq([name : AllNames, nr : {0, EOF} \cup Ino])]
    /\ iroot \in Ino /\ ipwd \in Ino
    /\ opened \in [Ino -> [AccModes -> 0..MaxOpen]]
    /\ halted \in {"no", "assert", "noinode"}

\* devmkfs has made the root directory (inode 1, "." and ".." naming it);
\* the task's root and working directory are the root inode.
Init ==
    /\ imap = {ROOT_INO}
    /\ mode = [i \in Ino |-> IF i = ROOT_INO THEN "dir" ELSE "reg"]
    /\ perm = [i \in Ino |-> IF i = ROOT_INO THEN RootPerm ELSE {}]
    /\ nlinks = [i \in Ino |-> IF i = ROOT_INO THEN 2 ELSE 0]
    /\ dents = [i \in Ino |-> IF i = ROOT_INO
                               THEN <<Dentry(Dot, ROOT_INO), Dentry(DotDot, ROOT_INO)>>
                               ELSE <<>>]
    /\ iroot = ROOT_INO
    /\ ipwd = ROOT_INO
    /\ opened = [i \in Ino |-> [a \in AccModes |-> 0]]
    /\ halted = "no"

-----------------------------------------------------------------------------
(* Lookup.                                                                  *)

IsDir(i) == mode[i] = "dir"

\* permission: an inode with no links grants nothing; the kernel user
\* everything; otherwise the mask must be among the bits that apply.
Permission(i, mask) ==
    /\ nlinks[i] # 0
    /\ Uid = KERNEL_USER \/ mask \subseteq perm[i]

\* find_entry: the index of the first live entry called name, or 0.  Its
\* loop reloads the buffer only when the previous entry pointer is past the
\* block, which the pointer taken as data[i % BLOCK_DENTRIES] never is: it
\* reads block 0 over and over, so only the first BLOCK_DENTRIES entries
\* are seen.  (".." in inode 1 switches to sb->imount, which for the root
\* device is inode 1 itself.)
FindEntry(d, name) ==
    LET seen == SubSeq(dents[d], 1, Min({Len(dents[d]), BLOCK_DENTRIES}))
    IN  SelectInSeq(seen, LAMBDA e : e.name = name /\ e.nr # 0)

Fail == [dir |-> 0, next |-> ""]

\* named's loop from the start directory: look up each component but the
\* last, iget it, and go on only into a directory the caller may search.
RECURSIVE WalkDirs(_, _)
WalkDirs(i, comps) ==
    IF Len(comps) = 1 THEN [dir |-> i, next |-> comps[1]]
    ELSE LET k == FindEntry(i, Head(comps))
             c == dents[i][k].nr
         IN  IF k = 0 THEN Fail
             ELSE IF ~IsDir(c) \/ ~Permission(c, P_EXEC) THEN Fail
             ELSE WalkDirs(c, Tail(comps))

\* named: the parent directory of a path and its last component ("" for
\* "/" and for a path that ends in a separator); dir = 0 when it fails.
Named(p) == WalkDirs(IF p.abs THEN iroot ELSE ipwd, p.comps)

\* namei: the inode named's result r names, or 0.
Lookup(r) ==
    LET k == FindEntry(r.dir, r.next)
    IN  IF r.dir = 0 \/ r.next = "" THEN 0
        ELSE IF k = 0 THEN 0
        ELSE dents[r.dir][k].nr
Namei(p) == Lookup(Named(p))

\* ialloc: the lowest clear bit of the inode map (bits 0 and 1 are set by
\* devmkfs), or EOF.
Ialloc ==
    LET free == (2..NInodes) \ imap
    IN  IF free = {} THEN EOF ELSE Min(free)

-----------------------------------------------------------------------------
(* Directory changes shared by the calls.                                   *)

\* The model's bounds on add_entry: the directory's length, and the
\* entries the device's directories hold besides "." and "..".
Appended == MapThenSumSet(LAMBDA i : Len(dents[i]) - 2, {d \in imap : IsDir(d)})
Room(d) == Len(dents[d]) < MaxDirLen /\ Appended < MaxEntries

\* add_entry appends (a removed entry's slot is never reused) and the
\* caller stores ialloc's number; when the inode map is full that number
\* is EOF, and new_inode then reads "inode EOF" from a block past the inode
\* table.  The model stores the entry and does not follow the call further.
NoInode(d, name) ==
    /\ dents' = [dents EXCEPT ![d] = Append(@, Dentry(name, EOF))]
    /\ halted' = "noinode"
    /\ UNCHANGED <<imap, mode, perm, nlinks, iroot, ipwd, opened>>

\* ialloc's bit for n, and the type and mode the caller gives new_inode's
\* inode.
AddNode(n, kind, bits) ==
    /\ imap' = imap \cup {n}
    /\ mode' = [mode EXCEPT ![n] = kind]
    /\ perm' = [perm EXCEPT ![n] = bits]

\* The references to an inode when rmdir tests inode->count: rmdir's own
\* iget, named's reference when it is the parent itself, sys_open's, the
\* task's root and working directory, and the mount's on the root inode.
Held(i) == opened[i][O_RDONLY] + opened[i][O_WRONLY] + opened[i][O_RDWR]
InodeCount(i, d) ==
    1 + (IF i = d THEN 1 ELSE 0) + Held(i)
      + (IF i = ipwd THEN 1 ELSE 0) + (IF i = iroot THEN 1 ELSE 0)
      + (IF i = ROOT_INO THEN RootPins ELSE 0)

\* is_empty's loop reloads when the entry pointer is strictly past the
\* block (> instead of >=): with more than BLOCK_DENTRIES entries it reads
\* the dentry just past block 0's buffer (a stray read of whatever memory
\* follows), then block 1 one entry behind, so the last entry is skipped.
IsEmptyReads(i) ==
    1..(IF Len(dents[i]) > BLOCK_DENTRIES THEN Len(dents[i]) - 1 ELSE Len(dents[i]))
StrayReads(i) ==
    Cardinality({j \in {BLOCK_DENTRIES, 2 * BLOCK_DENTRIES + 1} : j < Len(dents[i])})

\* is_empty with g of the stray reads finding a non-zero inode number: at
\* least two entries, and exactly two counted (fewer is "bad directory").
IsEmpty(i, g) ==
    /\ Len(dents[i]) >= 2
    /\ Quantify(IsEmptyReads(i), LAMBDA k : dents[i][k].nr # 0) + g = 2

-----------------------------------------------------------------------------
(* The system calls.  Each early return before the first store changes     *)
(* nothing, so a call that takes one is a stuttering step and is left out. *)
(* A call that takes a path gets named's result r = [dir, next] for it.   *)

\* No call runs once the kernel has stopped.
Running == halted = "no"

\* sys_mkdir: the new directory gets "." and "..", nlinks 2, and its
\* parent one more link.
Mkdir(r, m) ==
    LET d == r.dir
        n == Ialloc
    IN  /\ Running
        /\ d # 0 /\ r.next # ""
        /\ Permission(d, P_WRITE)
        /\ FindEntry(d, r.next) = 0
        /\ Room(d)
        /\ IF n = EOF THEN NoInode(d, r.next)
           ELSE /\ AddNode(n, "dir", m)
                /\ nlinks' = [nlinks EXCEPT ![n] = 2, ![d] = @ + 1]
                /\ dents' = [dents EXCEPT ![d] = Append(@, Dentry(r.next, n)),
                                          ![n] = <<Dentry(Dot, n), Dentry(DotDot, d)>>]
                /\ UNCHANGED <<iroot, ipwd, opened, halted>>

\* sys_rmdir: the entry is cleared as soon as it is found, before the
\* checks; a check that fails returns EOF with the entry gone.  The sticky
\* bit test is left out: no mode the model creates has ISVTX.
Rmdir(r) ==
    LET d == r.dir
        k == FindEntry(d, r.next)
        i == dents[d][k].nr
    IN  /\ Running
        /\ d # 0 /\ r.next # ""
        /\ Permission(d, P_WRITE)
        /\ k # 0
        /\ dents' = [dents EXCEPT ![d][k].nr = 0]
        /\ \E g \in 0..StrayReads(i) :
              IF ~IsDir(i) \/ ~IsEmpty(i, g) \/ InodeCount(i, d) > 1
              THEN UNCHANGED <<imap, nlinks, halted>>
              ELSE IF nlinks[i] # 2
              THEN halted' = "assert" /\ UNCHANGED <<imap, nlinks>>
              ELSE /\ imap' = imap \ {i}
                   /\ nlinks' = [nlinks EXCEPT ![d] = @ - 1]
                   /\ UNCHANGED halted
        /\ UNCHANGED <<mode, perm, iroot, ipwd, opened>>

\* Mutant: link that adds the entry without inode->desc.nlinks++.
LinkNoCount(i, r) ==
    LET d == r.dir
    IN  /\ Running
        /\ i # 0 /\ ~IsDir(i)
        /\ d # 0 /\ r.next # ""
        /\ Permission(d, P_WRITE)
        /\ FindEntry(d, r.next) = 0
        /\ Room(d)
        /\ dents' = [dents EXCEPT ![d] = Append(@, Dentry(r.next, i))]
        /\ UNCHANGED <<imap, mode, perm, nlinks, iroot, ipwd, opened, halted>>

\* sys_link: a new entry for a file that is not a directory.
\* i is namei's inode for the first path, r named's result for the second.
Link(i, r) ==
    LET d == r.dir
    IN  /\ Running
        /\ i # 0 /\ ~IsDir(i)
        /\ d # 0 /\ r.next # ""
        /\ Permission(d, P_WRITE)
        /\ FindEntry(d, r.next) = 0
        /\ Room(d)
        /\ dents' = [dents EXCEPT ![d] = Append(@, Dentry(r.next, i))]
        /\ nlinks' = [nlinks EXCEPT ![i] = @ + 1]
        /\ UNCHANGED <<imap, mode, perm, iroot, ipwd, opened, halted>>

\* Mutant: unlink that frees the inode whatever links it has left.
UnlinkFreeAlways(r) ==
    LET d == r.dir
        k == FindEntry(d, r.next)
        i == dents[d][k].nr
    IN  /\ Running
        /\ d # 0 /\ r.next # ""
        /\ k # 0
        /\ ~IsDir(i)
        /\ dents' = [dents EXCEPT ![d][k].nr = 0]
        /\ nlinks' = [nlinks EXCEPT ![i] = @ - 1]
        /\ imap' = imap \ {i}
        /\ UNCHANGED <<mode, perm, iroot, ipwd, opened, halted>>

\* sys_unlink: no permission check on the directory; the inode is freed
\* when its last link goes, whoever still holds it (inode_truncate returns
\* at once: its guard is true for every mode).
Unlink(r) ==
    LET d == r.dir
        k == FindEntry(d, r.next)
        i == dents[d][k].nr
    IN  /\ Running
        /\ d # 0 /\ r.next # ""
        /\ k # 0
        /\ ~IsDir(i)
        /\ dents' = [dents EXCEPT ![d][k].nr = 0]
        /\ nlinks' = [nlinks EXCEPT ![i] = @ - 1]
        /\ imap' = IF nlinks[i] = 1 THEN imap \ {i} ELSE imap
        /\ UNCHANGED <<mode, perm, iroot, ipwd, opened, halted>>

\* sys_mknod: a device node with new_inode's one link and no entries.
Mknod(r, kind, m) ==
    LET d == r.dir
        n == Ialloc
    IN  /\ Running
        /\ d # 0 /\ r.next # ""
        /\ Permission(d, P_WRITE)
        /\ FindEntry(d, r.next) = 0
        /\ Room(d)
        /\ IF n = EOF THEN NoInode(d, r.next)
           ELSE /\ AddNode(n, kind, m)
                /\ nlinks' = [nlinks EXCEPT ![n] = 1]
                /\ dents' = [dents EXCEPT ![d] = Append(@, Dentry(r.next, n)), ![n] = <<>>]
                /\ UNCHANGED <<iroot, ipwd, opened, halted>>

\* inode_open's flag: O_TRUNC with O_RDONLY is made O_RDWR.
OpenFlag(f) == IF f.trunc /\ f.acc = O_RDONLY THEN [f EXCEPT !.acc = O_RDWR] ELSE f

\* The mask makeup checks, ACC_MODE(flag && O_ACCMODE): the logical and
\* is 1 for every flag but 0, so every flag but O_RDONLY asks for P_WRITE
\* alone, and O_RDONLY for P_READ.
AccMask(f) == IF f.acc # O_RDONLY \/ f.creat \/ f.trunc THEN P_WRITE ELSE P_READ

\* makeup: the permission test and "a directory only read-only" (O_TRUNC's
\* inode_truncate returns at once).
Makeup(i, f) == Permission(i, AccMask(f)) /\ ~(IsDir(i) /\ f.acc # O_RDONLY)

\* sys_open's file keeps the reference, and the access the caller asked for
\* (file->flags is sys_open's own flags).
OpenCount == MapThenSumSet(Held, Ino)
Grant(i, a) ==
    /\ OpenCount < MaxOpen
    /\ opened' = [opened EXCEPT ![i][a] = @ + 1]

\* open of a path with no last component: inode_open returns the directory
\* named found, before any check.
OpenDir(r, f) ==
    /\ Running
    /\ r.dir # 0 /\ r.next = ""
    /\ Grant(r.dir, f.acc)
    /\ UNCHANGED <<imap, mode, perm, nlinks, dents, iroot, ipwd, halted>>

\* open of an existing file: find_entry, iget, makeup.
OpenExisting(r, f) ==
    LET k == FindEntry(r.dir, r.next)
        i == dents[r.dir][k].nr
    IN  /\ Running
        /\ r.dir # 0 /\ r.next # ""
        /\ k # 0
        /\ Makeup(i, OpenFlag(f))
        /\ Grant(i, f.acc)
        /\ UNCHANGED <<imap, mode, perm, nlinks, dents, iroot, ipwd, halted>>

\* open with O_CREAT of a missing file: add_entry, ialloc, new_inode with
\* the mode masked to a regular file, then makeup on the new inode.  When
\* makeup refuses, the call fails and the file stays created.
OpenCreate(r, f, m) ==
    LET d == r.dir
        n == Ialloc
    IN  /\ Running
        /\ d # 0 /\ r.next # ""
        /\ FindEntry(d, r.next) = 0
        /\ f.creat /\ Permission(d, P_WRITE)
        /\ Room(d)
        /\ IF n = EOF THEN NoInode(d, r.next)
           ELSE /\ AddNode(n, "reg", m)
                /\ nlinks' = [nlinks EXCEPT ![n] = 1]
                /\ dents' = [dents EXCEPT ![d] = Append(@, Dentry(r.next, n)), ![n] = <<>>]
                /\ IF Uid = KERNEL_USER \/ AccMask(OpenFlag(f)) \subseteq m
                   THEN Grant(n, f.acc)
                   ELSE UNCHANGED opened
                /\ UNCHANGED <<iroot, ipwd, halted>>

\* Mutant: close without the test that the descriptor is open.
CloseUnchecked(i, a) ==
    /\ Running
    /\ opened' = [opened EXCEPT ![i][a] = @ - 1]
    /\ UNCHANGED <<imap, mode, perm, nlinks, dents, iroot, ipwd, halted>>

\* sys_close of a descriptor sys_open gave: put_file's iput.
Close(i, a) ==
    /\ Running
    /\ opened[i][a] > 0
    /\ opened' = [opened EXCEPT ![i][a] = @ - 1]
    /\ UNCHANGED <<imap, mode, perm, nlinks, dents, iroot, ipwd, halted>>

\* sys_chdir: namei, a directory other than the current one (abspath's
\* update of the task->pwd string is left out).
Chdir(i) ==
    /\ Running
    /\ i # 0 /\ IsDir(i) /\ i # ipwd
    /\ ipwd' = i
    /\ UNCHANGED <<imap, mode, perm, nlinks, dents, iroot, opened, halted>>

\* sys_chroot: the same for the task's root.
Chroot(i) ==
    /\ Running
    /\ i # 0 /\ IsDir(i) /\ i # iroot
    /\ iroot' = i
    /\ UNCHANGED <<imap, mode, perm, nlinks, dents, ipwd, opened, halted>>

\* A failed assertion, or new_inode on inode EOF, ends the model's run.
Halted == halted # "no" /\ UNCHANGED vars

\* The inodes namei finds for some path; link, chdir and chroot use only
\* that inode of their (first) path.
Named1 == {Namei(p) : p \in Paths}

Next ==
    \/ \E p \in Paths, m \in Modes : Mkdir(Named(p), m)
    \/ \E p \in Paths : Rmdir(Named(p))
    \/ \E i \in Named1, p \in Paths : Link(i, Named(p))
    \/ \E p \in Paths : Unlink(Named(p))
    \/ \E p \in Paths, k \in NodeKinds, m \in Modes : Mknod(Named(p), k, m)
    \/ \E p \in Paths, f \in OpenFlags : OpenDir(Named(p), f)
    \/ \E p \in Paths, f \in OpenFlags : OpenExisting(Named(p), f)
    \/ \E p \in Paths, f \in OpenFlags, m \in Modes : OpenCreate(Named(p), f, m)
    \/ \E i \in Ino, a \in AccModes : Close(i, a)
    \/ \E i \in Named1 : Chdir(i)
    \/ \E i \in Named1 : Chroot(i)
    \/ Halted

Spec == Init /\ [][Next]_vars

-----------------------------------------------------------------------------
(* Properties.                                                              *)

LiveDirs == {d \in imap : IsDir(d)}

\* The live entries, in allocated directories, that name inode i.
EntriesNaming(i) ==
    {<<d, k>> \in LiveDirs \X (1..MaxDirLen) :
        k <= Len(dents[d]) /\ dents[d][k].nr = i}

\* After any sequence of calls, find_entry of the name of any live entry a
\* caller made returns that very entry: add_entry is only reached when the
\* lookup found nothing, and find_entry sees every entry (spec.md, section
\* 5: find after add returns the inode added, and absent after unlink).
LookupFindsEveryEntry ==
    \A d \in LiveDirs : \A k \in 1..Len(dents[d]) :
        (dents[d][k].nr # 0 /\ dents[d][k].name \in Names)
            => FindEntry(d, dents[d][k].name) = k

\* No inode has fewer links than live entries naming it: mkdir, link,
\* unlink and rmdir change nlinks with the entries, so no call can free an
\* inode (at its last link) that an entry still names.
NLinksCoverEntries ==
    \A i \in imap : nlinks[i] >= Cardinality(EntriesNaming(i))

\* Every live entry of an allocated directory names an allocated inode
\* (or holds the EOF of a failed ialloc, a separate hazard): unlink frees
\* at the last link, and rmdir only an empty directory nobody else holds.
NoDanglingEntry ==
    \A d \in LiveDirs : \A k \in 1..Len(dents[d]) :
        dents[d][k].nr \in imap \cup {0, EOF}

\* No assertion of rmdir fails, whatever sequence of calls a program
\* makes.
NoAssertionFailure == halted # "assert"

\* An inode a descriptor still refers to stays allocated (spec.md: the
\* inode stays allocated until the last reference is released).
OpenedAllocated ==
    \A i \in Ino : Held(i) > 0 => i \in imap

\* A directory is open only read-only (inode_open: "a directory must be
\* opened read-only").
DirOpenedReadOnly ==
    \A d \in LiveDirs : opened[d][O_WRONLY] = 0 /\ opened[d][O_RDWR] = 0

====
