---------------------------- MODULE MCProcLife ----------------------------
(* Three processes and a pipe of two bytes for TLC. *)
EXTENDS ProcLife

Locks == {"pi", "wait"}
Channels == {"nread", "nwrite", "p1", "p2", "p3"}

\* A writer and a reader, both descendants of init, who has closed its descriptors; or a
\* reader that can write as well.
Shell == { <<{}, {2}, {1}>>, <<{}, {2}, {1, 2}>> }
=============================================================================
