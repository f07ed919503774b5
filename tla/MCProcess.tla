----------------------------- MODULE MCProcess -----------------------------
(* Process with three PCB slots (init and two more), two descriptors per   *)
(* task and two file_table entries, the first of each being the standard   *)
(* stream, and one regular file.                                           *)
EXTENDS Process

CONSTANTS f1, StdIn

MCInodes == {f1}

\* Data no later step reads is told apart no further: the descriptor and
\* dup2 argument of a task that is not inside close, dup2 or exit, the
\* pid of a task that is not in waitpid, the inode of an unused entry;
\* and the ghost exited, which no step reads (ExitView keeps it).
InKernel(t) == pc[t] # "user"
ProcessView ==
    <<running, state, pc, ppid, files, fcount, icount, halted,
      [t \in Tasks |-> IF InKernel(t) THEN fd[t] ELSE 0],
      [t \in Tasks |-> IF pc[t] \in {"dup2", "dup2_io"} THEN arg[t] ELSE 0],
      [t \in Tasks |-> IF pc[t] = "wait" THEN waitfor[t] ELSE Any],
      [e \in Entries |-> IF fcount[e] > 0 THEN finode[e] ELSE StdIn]>>
ExitView == <<ProcessView, exited>>
====
