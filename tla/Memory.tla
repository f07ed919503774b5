------------------------------ MODULE Memory ------------------------------
(***************************************************************************)
(* User memory of src/src/kernel/memory.c: the physical page reference    *)
(* counts memory_map[] and free_pages (get_page, put_page), the page      *)
(* tables of each process (link_page, unlink_page, get_pte), fork's       *)
(* copy-on-write copy_pde, exit's free_pde, the page-fault handler, brk,  *)
(* and anonymous mmap/munmap.                                              *)
(*                                                                         *)
(* Every one of these runs in the kernel with interrupts off and never    *)
(* blocks, so each is one atomic step; processes interleave between them. *)
(* The user address space is cut to three regions, each in its own page   *)
(* table as in the source (heap at 16M, mmap at 128M, stack below 256M),  *)
(* with a few pages each; a virtual page is <<region, index>>.  Frames    *)
(* are the physical pages above the kernel's 16M.  Page contents are      *)
(* version numbers: every user write stores a fresh one.                  *)
(***************************************************************************)
EXTENDS Integers, Sequences, FiniteSets, FiniteSetsExt, Functions

CONSTANTS
    Procs,      \* task_table slots of user processes (model values)
    NFrames,    \* physical pages above KERNEL_MEMORY_SIZE
    NHeap,      \* heap pages from USER_EXEC_ADDR
    NMmap,      \* pages of the mmap area from USER_MMAP_ADDR
    NStack,     \* stack pages below USER_STACK_TOP
    MaxWrites,  \* bound on the versions user writes produce
    RemapInUse  \* whether programs may pass sys_mmap an address they map

ASSUME NFrames \in Nat /\ MaxWrites \in Nat /\ RemapInUse \in BOOLEAN
ASSUME \A n \in {NHeap, NMmap, NStack} : n \in Nat \ {0}

\* The page tables of a process in didx order (copy_pde, free_pde).
Regions == <<"heap", "mmap", "stack">>
RegionSet == {"heap", "mmap", "stack"}
Size(r) == CASE r = "heap" -> NHeap [] r = "mmap" -> NMmap [] r = "stack" -> NStack
VPages == UNION {{<<r, i>> : i \in 1..Size(r)} : r \in RegionSet}
Frames == 1..NFrames

\* The page_entry_t bits the code reads or writes (user is always 1).
Entry == [present : BOOLEAN, write : BOOLEAN, shared : BOOLEAN,
          readonly : BOOLEAN, frame : 0..NFrames]
Blank == [present |-> FALSE, write |-> FALSE, shared |-> FALSE,
          readonly |-> FALSE, frame |-> 0]

\* entry_init: zero the entry, then present, write, user and the index.
EntryInit(f) == [present |-> TRUE, write |-> TRUE, shared |-> FALSE,
                 readonly |-> FALSE, frame |-> f]

VARIABLES
    alive,      \* processes in task_table with their page directory
    pte,        \* pte[p][v]: p's page table entry for v
    table,      \* table[p][r]: frame of p's page table for region r, 0 if none
    brk,        \* task->brk, in heap pages above USER_EXEC_ADDR
    vmap,       \* task->vmap: mmap pages in use
    mm,         \* memory_map[]: reference count of each frame
    freePages,  \* free_pages
    content,    \* contents of each frame (a version)
    expect,     \* expect[p][v]: what p last wrote or was given at v
    written,    \* versions written so far
    halted      \* "no", or why the kernel stopped: get_page's "Out of
                \* Memory" panic, or another panic or failed assert

vars == <<alive, pte, table, brk, vmap, mm, freePages, content, expect,
          written, halted>>

TypeOK ==
    /\ alive \subseteq Procs
    /\ pte \in [Procs -> [VPages -> Entry]]
    /\ table \in [Procs -> [RegionSet -> 0..NFrames]]
    /\ brk \in [Procs -> 0..NHeap]
    /\ vmap \in [Procs -> SUBSET (1..NMmap)]
    /\ mm \in [Frames -> 0..255]
    /\ freePages \in 0..NFrames
    /\ content \in [Frames -> 0..MaxWrites]
    /\ expect \in [Procs -> [VPages -> 0..MaxWrites]]
    /\ written \in 0..MaxWrites
    /\ halted \in {"no", "oom", "assert"}

\* One process after task_to_user_mode: copy_pde of the kernel directory
\* gives it no user page table; brk = end = USER_EXEC_ADDR.
Init ==
    /\ \E p0 \in Procs : alive = {p0}
    /\ pte = [p \in Procs |-> [v \in VPages |-> Blank]]
    /\ table = [p \in Procs |-> [r \in RegionSet |-> 0]]
    /\ brk = [p \in Procs |-> 0]
    /\ vmap = [p \in Procs |-> {}]
    /\ mm = [f \in Frames |-> 0]
    /\ freePages = NFrames
    /\ content = [f \in Frames |-> 0]
    /\ expect = [p \in Procs |-> [v \in VPages |-> 0]]
    /\ written = 0
    /\ halted = "no"

-----------------------------------------------------------------------------
(* Physical pages: get_page and put_page.                                  *)

FreeFrames(m) == {f \in Frames : m[f] = 0}

\* get_page scans memory_map[] upward from start_page: the k lowest free
\* frames, in the order k calls in a row return them.
RECURSIVE Lowest(_, _)
Lowest(S, k) == IF k = 0 \/ S = {} THEN <<>>
                ELSE <<Min(S)>> \o Lowest(S \ {Min(S)}, k - 1)

\* put_page of every frame in the bag `puts' (frame -> number of calls):
\* memory_map[idx]-- and ++free_pages when it reaches 0.  The assert
\* memory_map[idx] >= 1 fails when a frame is put more often than counted.
PutsOk(puts) == \A f \in Frames : mm[f] >= puts[f]
PutPagesNoFree(puts) ==
    /\ mm' = [f \in Frames |-> mm[f] - puts[f]]
    /\ freePages' = freePages
PutPagesFreeEach(puts) ==
    /\ mm' = [f \in Frames |-> mm[f] - puts[f]]
    /\ freePages' = freePages + Cardinality({f \in Frames : puts[f] > 0})
PutPages(puts) ==
    /\ mm' = [f \in Frames |-> mm[f] - puts[f]]
    /\ freePages' = freePages + Cardinality({f \in Frames : puts[f] > 0 /\ mm[f] = puts[f]})

NoPuts == [f \in Frames |-> 0]

\* The frames p's present entries in the set of pages V point at, as a bag.
EntryPuts(p, V) ==
    [f \in Frames |-> Cardinality({v \in V : pte[p][v].present /\ pte[p][v].frame = f})]

-----------------------------------------------------------------------------
(* link_page (with get_pte(vaddr, true)).                                  *)

\* The effect of link_page(v) for p as a record: a missing page table
\* gets the first free frame and is cleared (memset), then a missing
\* entry gets the next one; a present entry is left as it is.  ok is
\* FALSE when get_page runs out of frames (panic "Out of Memory").
Link(p, v) ==
    LET r   == v[1]
        nT  == IF table[p][r] = 0 THEN 1 ELSE 0
        old == IF nT = 1 THEN Blank ELSE pte[p][v]
        nP  == IF old.present THEN 0 ELSE 1
        fs  == Lowest(FreeFrames(mm), nT + nP)
        At(i) == IF i <= Len(fs) THEN fs[i] ELSE 0
        tf  == IF nT = 1 THEN At(1) ELSE table[p][r]
        pf  == IF nP = 1 THEN At(nT + 1) ELSE old.frame
    IN  [ok    |-> Len(fs) = nT + nP,
         fresh |-> nP = 1,
         tf    |-> tf,
         pf    |-> pf,
         rows  |-> [w \in VPages |->
                      IF w = v THEN (IF nP = 1 THEN EntryInit(pf) ELSE old)
                      ELSE IF nT = 1 /\ w[1] = r THEN Blank ELSE pte[p][w]],
         mm    |-> [f \in Frames |->
                      IF Len(fs) = nT + nP /\ f \in {fs[i] : i \in 1..Len(fs)}
                      THEN 1 ELSE mm[f]],
         free  |-> freePages - (nT + nP)]

\* A panic: the kernel stops where it is.
Panic(why) ==
    /\ halted' = why
    /\ UNCHANGED <<alive, pte, table, brk, vmap, mm, freePages, content,
                   expect, written>>

\* Apply a successful Link for p at v, with e then stored as v's entry.
ApplyLink(p, v, L, e) ==
    /\ pte' = [pte EXCEPT ![p] = [L.rows EXCEPT ![v] = e]]
    /\ table' = [table EXCEPT ![p][v[1]] = L.tf]
    /\ mm' = L.mm
    /\ freePages' = L.free
    /\ expect' = IF L.fresh
                 THEN [expect EXCEPT ![p][v] = content[L.pf]]
                 ELSE expect

-----------------------------------------------------------------------------
(* The page-fault handler (page_fault) and user accesses.                  *)

\* A user access to a page that is not present: inside the heap (below
\* brk) or the stack, page_fault maps it with link_page.  (Elsewhere the
\* handler panics; user programs here touch only what they own.)
Touch(p, v) ==
    /\ halted = "no"
    /\ p \in alive
    /\ ~pte[p][v].present
    /\ \/ v[1] = "heap" /\ v[2] <= brk[p]
       \/ v[1] = "stack"
    /\ LET L == Link(p, v)
       IN  IF L.ok
           THEN /\ ApplyLink(p, v, L, L.rows[v])
                /\ UNCHANGED <<alive, brk, vmap, content, written, halted>>
           ELSE Panic("oom")

\* A user write to a present, writable page stores a fresh version.  Every
\* shared entry of the same frame sees it.
UserWrite(p, v) ==
    /\ halted = "no"
    /\ p \in alive
    /\ pte[p][v].present /\ pte[p][v].write
    /\ written < MaxWrites
    /\ LET f == pte[p][v].frame
           n == written + 1
           sees(q, w) == \/ <<q, w>> = <<p, v>>
                         \/ /\ q \in alive
                            /\ pte[q][w].present /\ pte[q][w].frame = f
                            /\ pte[q][w].shared /\ pte[p][v].shared
       IN  /\ content' = [content EXCEPT ![f] = n]
           /\ expect' = [q \in Procs |-> [w \in VPages |->
                            IF sees(q, w) THEN n ELSE expect[q][w]]]
           /\ written' = n
    /\ UNCHANGED <<alive, pte, table, brk, vmap, mm, freePages, halted>>

\* A write to a present page without the write bit: page_fault's present
\* branch.  It asserts the page is not shared and not readonly (user
\* programs here write only pages they mapped writable); with
\* memory_map = 1 it sets the write bit, otherwise it copies the page to
\* a new frame (copy_page), drops a reference to the old one and points
\* the entry at the copy (entry_init).
WriteFaultNoCopy(p, v) ==
    /\ halted = "no"
    /\ p \in alive
    /\ pte[p][v].present /\ ~pte[p][v].write /\ ~pte[p][v].readonly
    /\ IF pte[p][v].shared \/ mm[pte[p][v].frame] = 0
       THEN Panic("assert")
       ELSE /\ pte' = [pte EXCEPT ![p][v].write = TRUE]
            /\ UNCHANGED <<alive, table, brk, vmap, mm, freePages, content,
                           expect, written, halted>>
WriteFault(p, v) ==
    /\ halted = "no"
    /\ p \in alive
    /\ pte[p][v].present /\ ~pte[p][v].write /\ ~pte[p][v].readonly
    /\ LET f == pte[p][v].frame
       IN  IF pte[p][v].shared \/ mm[f] = 0
           THEN Panic("assert")
           ELSE IF mm[f] = 1
           THEN /\ pte' = [pte EXCEPT ![p][v].write = TRUE]
                /\ UNCHANGED <<alive, table, brk, vmap, mm, freePages, content,
                               expect, written, halted>>
           ELSE IF FreeFrames(mm) = {}
           THEN Panic("oom")
           ELSE LET n == Min(FreeFrames(mm))
                IN  /\ content' = [content EXCEPT ![n] = content[f]]
                    /\ mm' = [mm EXCEPT ![f] = @ - 1, ![n] = 1]
                    /\ freePages' = freePages - 1
                    /\ pte' = [pte EXCEPT ![p][v] = EntryInit(n)]
                    /\ UNCHANGED <<alive, table, brk, vmap, expect, written, halted>>

-----------------------------------------------------------------------------
(* fork (task_fork's copy_pde) and exit (task_exit's free_pde).            *)

\* copy_pde, run by the parent p for the child c: for each present user
\* page table in didx order, every present entry that is not shared loses
\* its write bit, its frame gains a reference (asserting it had one and
\* stays below 255), and the table is copied to a new frame (copy_page).
\* The child's directory is the parent's with those copies.  The PCB slot
\* and the kernel pages come from other pools and are left out.
\* p's entries as copy_pde leaves them, in its own table and the child's.
CowRowsAll(p) ==
    [v \in VPages |-> IF pte[p][v].present THEN [pte[p][v] EXCEPT !.write = FALSE]
                                          ELSE pte[p][v]]
CowRows(p) ==
    [v \in VPages |-> IF pte[p][v].present /\ ~pte[p][v].shared
                     THEN [pte[p][v] EXCEPT !.write = FALSE]
                     ELSE pte[p][v]]

Fork(p, c) ==
    /\ halted = "no"
    /\ p \in alive /\ c \notin alive
    /\ LET tr   == SelectSeq(Regions, LAMBDA r : table[p][r] # 0)
           fs   == Lowest(FreeFrames(mm), Len(tr))
           refs == EntryPuts(p, VPages)
           rows == CowRows(p)
           copy == [r \in RegionSet |->
                      IF table[p][r] = 0 THEN 0
                      ELSE fs[CHOOSE j \in 1..Len(tr) : tr[j] = r]]
       IN  IF \E f \in Frames : refs[f] > 0 /\ (mm[f] = 0 \/ mm[f] + refs[f] >= 255)
           THEN Panic("assert")
           ELSE IF Len(fs) < Len(tr)
           THEN Panic("oom")
           ELSE /\ alive' = alive \cup {c}
                /\ pte' = [pte EXCEPT ![p] = rows, ![c] = rows]
                /\ table' = [table EXCEPT ![c] = copy]
                /\ mm' = [f \in Frames |->
                            IF f \in Range(fs) THEN 1 ELSE mm[f] + refs[f]]
                /\ freePages' = freePages - Len(tr)
                /\ brk' = [brk EXCEPT ![c] = brk[p]]
                /\ vmap' = [vmap EXCEPT ![c] = vmap[p]]
                /\ expect' = [expect EXCEPT ![c] = expect[p]]
                /\ UNCHANGED <<content, written, halted>>

\* free_pde: put_page of every present entry's frame, then of every user
\* page table.  The first process (init) does not exit, so some process
\* is always left.
Exit(p) ==
    /\ halted = "no"
    /\ p \in alive /\ alive # {p}
    /\ LET puts == [f \in Frames |->
                      EntryPuts(p, VPages)[f]
                      + Cardinality({r \in RegionSet : table[p][r] = f})]
       IN  IF ~PutsOk(puts)
           THEN Panic("assert")
           ELSE /\ PutPages(puts)
                /\ alive' = alive \ {p}
                /\ pte' = [pte EXCEPT ![p] = [v \in VPages |-> Blank]]
                /\ table' = [table EXCEPT ![p] = [r \in RegionSet |-> 0]]
                /\ brk' = [brk EXCEPT ![p] = 0]
                /\ vmap' = [vmap EXCEPT ![p] = {}]
                /\ expect' = [expect EXCEPT ![p] = [v \in VPages |-> 0]]
                /\ UNCHANGED <<content, written, halted>>

-----------------------------------------------------------------------------
(* brk, mmap and munmap.                                                   *)

\* unlink_page of each page of V: skipped when its table or entry is not
\* present, else present = false and put_page of its frame.
UnlinkNoPut(p, V) ==
    /\ UNCHANGED <<mm, freePages>>
    /\ pte' = [pte EXCEPT ![p] = [v \in VPages |->
                 IF v \in V THEN [pte[p][v] EXCEPT !.present = FALSE]
                 ELSE pte[p][v]]]
Unlink(p, V) ==
    LET puts == EntryPuts(p, V)
    IN  /\ PutsOk(puts)
        /\ PutPages(puts)
        /\ pte' = [pte EXCEPT ![p] = [v \in VPages |->
                     IF v \in V THEN [pte[p][v] EXCEPT !.present = FALSE]
                     ELSE pte[p][v]]]

\* sys_brk(b): shrinking unlinks the heap pages from b up to the old brk;
\* growing by more pages than free_pages fails (returns -1, no change).
Brk(p, b) ==
    /\ halted = "no"
    /\ p \in alive
    /\ IF brk[p] > b
       THEN LET U == {<<"heap", i>> : i \in b + 1..brk[p]}
            IN  IF PutsOk(EntryPuts(p, U))
                THEN /\ Unlink(p, U)
                     /\ brk' = [brk EXCEPT ![p] = b]
                     /\ UNCHANGED <<alive, table, vmap, content, expect,
                                    written, halted>>
                ELSE Panic("assert")
       ELSE /\ brk' = IF b - brk[p] > freePages THEN brk
                      ELSE [brk EXCEPT ![p] = b]
            /\ UNCHANGED <<alive, pte, table, vmap, mm, freePages, content,
                           expect, written, halted>>

\* sys_mmap(addr, PAGE_SIZE, prot, flags, EOF, 0): addr 0 takes the first
\* free page of task->vmap (panic when there is none); then link_page
\* (which keeps an entry that is already present), mark the vmap bit,
\* and set the entry's bits from prot and flags.
Mmap(p, a, prot, flag) ==
    /\ halted = "no"
    /\ p \in alive
    /\ LET room == (1..NMmap) \ vmap[p]
       IN  IF a = 0 /\ room = {}
           THEN Panic("assert")
           ELSE LET i == IF a = 0 THEN Min(room) ELSE a
                    v == <<"mmap", i>>
                    L == Link(p, v)
                    bits(e) == [e EXCEPT !.write = (prot = "rw"),
                                         !.readonly = (prot # "rw"),
                                         !.shared = @ \/ flag = "shared"]
                IN  IF L.ok
                    THEN /\ ApplyLink(p, v, L, bits(L.rows[v]))
                         /\ vmap' = [vmap EXCEPT ![p] = @ \cup {i}]
                         /\ UNCHANGED <<alive, brk, content, written, halted>>
                    ELSE Panic("oom")

\* sys_munmap(addr, PAGE_SIZE) of a page the process mapped: unlink_page,
\* then assert and clear the vmap bit.
Munmap(p, i) ==
    /\ halted = "no"
    /\ p \in alive
    /\ i \in vmap[p]
    /\ LET V == {<<"mmap", i>>}
       IN  IF PutsOk(EntryPuts(p, V))
           THEN /\ Unlink(p, V)
                /\ vmap' = [vmap EXCEPT ![p] = @ \ {i}]
                /\ UNCHANGED <<alive, table, brk, content, expect, written, halted>>
           ELSE Panic("assert")

Next ==
    \/ \E p \in Procs, v \in VPages : Touch(p, v) \/ UserWrite(p, v) \/ WriteFault(p, v)
    \/ \E p, c \in Procs : Fork(p, c)
    \/ \E p \in Procs : Exit(p)
    \/ \E p \in Procs, b \in 0..NHeap : Brk(p, b)
    \* Programs ask for a page anywhere only while the mmap area has room:
    \* scan_page's panic on a full area (128M of mappings) is left out.
    \/ \E p \in Procs, a \in 0..NMmap, prot \in {"r", "rw"}, flag \in {"private", "shared"} :
           /\ a = 0 => vmap[p] # 1..NMmap
           \* sys_mmap does not check a given address: with RemapInUse a
           \* program maps again a page it (or its parent) already maps.
           /\ a # 0 /\ ~RemapInUse => a \notin vmap[p]
           /\ Mmap(p, a, prot, flag)
    \/ \E p \in Procs, i \in 1..NMmap : Munmap(p, i)

Spec == Init /\ [][Next]_vars

-----------------------------------------------------------------------------
(* Properties.                                                             *)

\* memory_map[] counts exactly the references to a frame: the present
\* entries of live processes that point at it and the page tables stored
\* in it.  fork's increments, the copy-on-write decrement, unlink_page and
\* free_pde's puts must all keep it so, or a frame is freed while mapped
\* (or never freed).
RefCountExact ==
    \A f \in Frames :
        mm[f] = Cardinality({pv \in alive \X VPages :
                               pte[pv[1]][pv[2]].present /\ pte[pv[1]][pv[2]].frame = f})
              + Cardinality({pr \in alive \X RegionSet : table[pr[1]][pr[2]] = f})

\* free_pages, kept apart from memory_map[], is the number of frames with
\* count 0; sys_brk's check relies on it.
FreePagesExact == freePages = Cardinality(FreeFrames(mm))

\* Copy-on-write isolation: every present page of a process that is not a
\* shared mapping holds what that process last wrote there (or was given
\* at fork or when it was mapped): no other process's write shows through.
PrivateIsolation ==
    \A p \in alive, v \in VPages :
        pte[p][v].present /\ ~pte[p][v].shared =>
            content[pte[p][v].frame] = expect[p][v]

\* No failed assert or panic other than running out of frames: in the
\* page-fault handler, put_page, copy_pde, sys_mmap and sys_munmap.
NoAssertionFailure == halted # "assert"

====
