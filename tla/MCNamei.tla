------------------------------ MODULE MCNamei ------------------------------
(* Namei with the names a and b.  Paths: one component (a name, "." or   *)
(* "..", or none: "/"), absolute or relative; "a/x" absolute or relative  *)
(* and "../x" relative, x a name, "." or none (a trailing separator); a   *)
(* leading "./" is left out, as the path without it.  Three open flags.   *)
EXTENDS Namei

Last1 == AllNames \cup {""}
Last2 == Last1 \ {DotDot}
MCPaths ==
    ({[abs |-> a, comps |-> <<l>>] : a \in BOOLEAN, l \in Last1}
      \cup {[abs |-> TRUE, comps |-> <<"a", l>>] : l \in Last2}
      \cup {[abs |-> FALSE, comps |-> <<DotDot, l>>] : l \in Last2})
      \ {[abs |-> FALSE, comps |-> <<"">>]}

MCOpenFlags ==
    {[acc |-> O_RDONLY, creat |-> FALSE, trunc |-> FALSE],
     [acc |-> O_WRONLY, creat |-> TRUE, trunc |-> FALSE],
     [acc |-> O_RDONLY, creat |-> FALSE, trunc |-> TRUE]}

MCModes == {{"r", "w", "x"}}

\* What no later step reads is told apart no further: the desc of a freed
\* inode (new_inode and the caller rewrite it before it is read again), the
\* name of a removed entry (find_entry skips it, and only its slot counts),
\* and the access mode of an open file, which only sys_close's choice of
\* descriptor reads (OpenView keeps it, for the properties about it).
Blank(e) == IF e.nr = 0 THEN Dentry("", 0) ELSE e
NameiView ==
    <<imap, iroot, ipwd, halted,
      [i \in Ino |-> Held(i)],
      [i \in Ino |-> IF i \in imap
                     THEN <<mode[i], perm[i], nlinks[i], [k \in DOMAIN dents[i] |-> Blank(dents[i][k])]>>
                     ELSE 0]>>
OpenView == <<NameiView, opened>>
====
