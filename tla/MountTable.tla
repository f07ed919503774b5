----------------------------- MODULE MountTable -----------------------------
(***************************************************************************)
(* What sys_mount and sys_umount promise, as spec.md's Superblock Manager *)
(* states it: a device's file system is mounted on at most one directory, *)
(* a directory carries at most one mount, the root file system is never   *)
(* mounted again, and an umount takes away exactly the mount it names.    *)
(* Failed calls and every other call leave the table as it is.            *)
(***************************************************************************)
CONSTANTS
    RootDev,    \* the root file system's device
    Disks,      \* the devices that may be mounted
    Dirs,       \* the directories of the root file system
    NoDev       \* no device mounted

VARIABLE mounted    \* mounted[m]: the device mounted on directory m

MountedDevs == {mounted[m] : m \in Dirs} \ {NoDev}

TypeOK == mounted \in [Dirs -> Disks \cup {NoDev}]

Init == mounted = [m \in Dirs |-> NoDev]

\* Mount d on m: m carries no mount and d is mounted nowhere.
DoMount(d, m) ==
    /\ mounted[m] = NoDev
    /\ d \notin MountedDevs
    /\ mounted' = [mounted EXCEPT ![m] = d]

\* Take away the mount on m.
DoUmount(m) ==
    /\ mounted[m] # NoDev
    /\ mounted' = [mounted EXCEPT ![m] = NoDev]

Next ==
    \/ \E d \in Disks, m \in Dirs : DoMount(d, m)
    \/ \E m \in Dirs : DoUmount(m)

Spec == Init /\ [][Next]_mounted
=============================================================================
