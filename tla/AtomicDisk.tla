----------------------------- MODULE AtomicDisk -----------------------------
(***************************************************************************)
(* What the logging layer (kernel/log.c) promises file system calls: the   *)
(* blocks they see change at once, the blocks that survive a crash change  *)
(* all together, and only while no call is half done.                      *)
(***************************************************************************)
CONSTANTS Op, Block, Value

VARIABLES
    current,  \* the contents file system calls read and write
    durable,  \* the contents a crash leaves behind
    open      \* calls between begin_op() and end_op()

vars == <<current, durable, open>>

Init == current \in [Block -> Value] /\ durable = current /\ open = {}

Begin(p) == p \notin open /\ open' = open \cup {p} /\ UNCHANGED <<current, durable>>

Write(p, b, v) ==
    /\ p \in open
    /\ current' = [current EXCEPT ![b] = v]
    /\ UNCHANGED <<durable, open>>

End(p) == p \in open /\ open' = open \ {p} /\ UNCHANGED <<current, durable>>

Commit == open = {} /\ durable' = current /\ UNCHANGED <<current, open>>

Crash == current' = durable /\ open' = {} /\ UNCHANGED durable

Next ==
    \/ \E p \in Op : Begin(p) \/ End(p) \/ \E b \in Block, v \in Value : Write(p, b, v)
    \/ Commit \/ Crash

Spec == Init /\ [][Next]_vars
=============================================================================
