-------------------------------- MODULE Log --------------------------------
(***************************************************************************)
(* The redo log of kernel/log.c with the part of the buffer cache          *)
(* (kernel/bio.c) it leans on: processes run file system calls between     *)
(* begin_op() and end_op(), the last one to end commits for all, buffers   *)
(* may be evicted unless pinned, and the machine may crash at any moment,  *)
(* during recovery too.  One disk block is written in one step.            *)
(***************************************************************************)
EXTENDS Integers, Sequences, FiniteSetsExt

CONSTANTS
    Proc, Block, Value, None,
    LOGSIZE, MAXOPBLOCKS,
    nlog,      \* blocks of the on-disk log, its header included
    MaxOps,    \* BOUND on file system calls
    MaxCrash   \* BOUND on crashes

ASSUME LogAssumption ==
    /\ IsFiniteSet(Proc) /\ Block # {} /\ None \notin Value
    /\ LOGSIZE \in Nat /\ MAXOPBLOCKS \in 0 .. LOGSIZE /\ nlog \in Nat \ {0}
    /\ MaxOps \in Nat /\ MaxCrash \in Nat

VARIABLES
    home, slot, head,                 \* on disk: home blocks, log blocks, header
    cache,                            \* buffers, None where a block is not cached
    lh, outstanding, committing,      \* struct log
    pc, written,                      \* per process; blocks its call has written
    tail, mode,                       \* copy loop; "up", or a step of recovery
    ops, crashes

disk == <<home, slot, head>>
log == <<lh, outstanding, committing>>
vars == <<home, slot, head, cache, lh, outstanding, committing, pc, written,
          tail, mode, ops, crashes>>

\* refcnt > 0 because of bpin(): log_write() pins every block it adds to lh,
\* install_trans() unpins it once it is home.
Pinned(b) ==
    \E i \in DOMAIN lh :
        lh[i] = b /\ ~ (\E p \in Proc : pc[p] = "install" /\ i < tail)

\* bread()
Contents(b) == IF cache[b] # None THEN cache[b] ELSE home[b]

Init ==
    /\ home \in [Block -> Value] /\ (\A b, c \in Block : home[b] = home[c])
    /\ slot = [i \in 1 .. nlog - 1 |-> home[CHOOSE b \in Block : TRUE]]
    /\ head = <<>> /\ cache = [b \in Block |-> None]
    /\ lh = <<>> /\ outstanding = 0 /\ committing = FALSE
    /\ pc = [p \in Proc |-> "idle"] /\ written = [p \in Proc |-> {}]
    /\ tail = 1 /\ mode = "up" /\ ops = 0 /\ crashes = 0

Up(p, l) == mode = "up" /\ pc[p] = l

-----------------------------------------------------------------------------
(* File system calls *)

Call(p) ==
    /\ Up(p, "idle") /\ ops < MaxOps
    /\ pc' = [pc EXCEPT ![p] = "begin"] /\ ops' = ops + 1
    /\ UNCHANGED <<disk, cache, log, written, tail, mode, crashes>>


\* This call might exhaust log space.
NoSpace == Len(lh) + (outstanding + 1) * MAXOPBLOCKS > LOGSIZE

begin_op(p) ==
    /\ Up(p, "begin")
    /\ IF committing \/ NoSpace
       THEN pc' = [pc EXCEPT ![p] = "asleep"] /\ UNCHANGED <<outstanding, written>>
       ELSE /\ pc' = [pc EXCEPT ![p] = "op"] /\ outstanding' = outstanding + 1
            /\ written' = [written EXCEPT ![p] = {}]
    /\ UNCHANGED <<disk, cache, lh, committing, tail, mode, ops, crashes>>

\* A call changes a block, at most MAXOPBLOCKS different ones, and hands it to
\* log_write() with the buffer locked throughout.
log_write(p, b, v) ==
    /\ Up(p, "op")
    /\ Cardinality(written[p] \cup {b}) <= MAXOPBLOCKS
    /\ cache' = [cache EXCEPT ![b] = v]
    /\ IF Len(lh) >= LOGSIZE \/ Len(lh) >= nlog - 1
       THEN mode' = "panic" /\ UNCHANGED <<lh, written>>
       ELSE /\ lh' = IF b \in Range(lh) THEN lh ELSE Append(lh, b)
            /\ written' = [written EXCEPT ![p] = @ \cup {b}]
            /\ UNCHANGED mode
    /\ UNCHANGED <<disk, outstanding, committing, pc, tail, ops, crashes>>

\* wakeup(&log), with p's own position set to l.
Awake(p, l) == [q \in Proc |-> IF q = p THEN l
                               ELSE IF pc[q] = "asleep" THEN "begin" ELSE pc[q]]

\* Mutant of end_op: waiting calls are woken only after a commit.
end_op_silent(p) ==
    /\ Up(p, "op")
    /\ outstanding' = outstanding - 1
    /\ committing' = (outstanding = 1)
    /\ pc' = [pc EXCEPT ![p] = IF outstanding = 1 THEN "write_log" ELSE "idle"]
    /\ written' = [written EXCEPT ![p] = {}] /\ tail' = 1
    /\ UNCHANGED <<disk, cache, lh, mode, ops, crashes>>

end_op(p) ==
    /\ Up(p, "op")
    /\ outstanding' = outstanding - 1
    /\ IF outstanding = 1
       THEN committing' = TRUE /\ pc' = [pc EXCEPT ![p] = "write_log"]
       ELSE committing' = committing /\ pc' = Awake(p, "idle")
    /\ written' = [written EXCEPT ![p] = {}] /\ tail' = 1
    /\ UNCHANGED <<disk, cache, lh, mode, ops, crashes>>

-----------------------------------------------------------------------------
(* commit() *)

\* One turn of write_log().
write_log(p) ==
    /\ Up(p, "write_log") /\ tail <= Len(lh)
    /\ slot' = [slot EXCEPT ![tail] = Contents(lh[tail])]
    /\ tail' = tail + 1
    /\ UNCHANGED <<home, head, cache, log, pc, written, mode, ops, crashes>>

\* The true point at which the transaction commits.
write_head(p) ==
    /\ Up(p, "write_log") /\ lh # <<>> /\ tail = Len(lh) + 1
    /\ head' = lh
    /\ pc' = [pc EXCEPT ![p] = "install"] /\ tail' = 1
    /\ UNCHANGED <<home, slot, cache, log, written, mode, ops, crashes>>

\* One turn of install_trans(0).
install_trans(p) ==
    /\ Up(p, "install") /\ tail <= Len(lh)
    /\ home' = [home EXCEPT ![lh[tail]] = slot[tail]]
    /\ cache' = [cache EXCEPT ![lh[tail]] = slot[tail]]
    /\ tail' = tail + 1
    /\ UNCHANGED <<slot, head, log, pc, written, mode, ops, crashes>>

\* Mutant of EraseLog: the header on disk is left as it is.
EraseLogInMemory(p) ==
    /\ Up(p, "install") /\ tail = Len(lh) + 1
    /\ lh' = <<>>
    /\ pc' = [pc EXCEPT ![p] = "committed"]
    /\ UNCHANGED <<disk, cache, outstanding, committing, written, tail, mode, ops, crashes>>

\* log.lh.n = 0 and the second write_head().
EraseLog(p) ==
    /\ Up(p, "install") /\ tail = Len(lh) + 1
    /\ lh' = <<>> /\ head' = <<>>
    /\ pc' = [pc EXCEPT ![p] = "committed"]
    /\ UNCHANGED <<home, slot, cache, outstanding, committing, written, tail, mode, ops, crashes>>

\* Mutant of Committed: it does not wait for commit().
Uncommitted(p) ==
    /\ Up(p, "committed") \/ Up(p, "write_log")
    /\ committing' = FALSE /\ pc' = Awake(p, "idle")
    /\ UNCHANGED <<disk, cache, lh, outstanding, written, tail, mode, ops, crashes>>

\* The end of end_op(), also when there was nothing to commit.
Committed(p) ==
    /\ Up(p, "committed") \/ (Up(p, "write_log") /\ lh = <<>>)
    /\ committing' = FALSE /\ pc' = Awake(p, "idle")
    /\ UNCHANGED <<disk, cache, lh, outstanding, written, tail, mode, ops, crashes>>

-----------------------------------------------------------------------------
(* The buffer cache *)

\* bread() by a call that only reads.
bread(b) ==
    /\ mode = "up" /\ cache[b] = None
    /\ cache' = [cache EXCEPT ![b] = home[b]]
    /\ UNCHANGED <<disk, log, pc, written, tail, mode, ops, crashes>>

\* bget() recycles an unused buffer.
bget(b) ==
    /\ mode = "up" /\ cache[b] # None /\ ~ Pinned(b)
    /\ cache' = [cache EXCEPT ![b] = None]
    /\ UNCHANGED <<disk, log, pc, written, tail, mode, ops, crashes>>

-----------------------------------------------------------------------------
(* Crash and recovery *)

\* Memory is lost; initlog() runs first when the machine is up again.
Crash ==
    /\ crashes < MaxCrash /\ crashes' = crashes + 1
    /\ mode' = "read_head"
    /\ cache' = [b \in Block |-> None]
    /\ lh' = <<>> /\ outstanding' = 0 /\ committing' = FALSE
    /\ pc' = [p \in Proc |-> "idle"] /\ written' = [p \in Proc |-> {}]
    /\ tail' = 1
    /\ UNCHANGED <<disk, ops>>

read_head ==
    /\ mode = "read_head" /\ mode' = "recover" /\ lh' = head
    /\ UNCHANGED <<disk, cache, outstanding, committing, pc, written, tail, ops, crashes>>

\* One turn of install_trans(1).
RecoverBlock ==
    /\ mode = "recover" /\ tail <= Len(lh)
    /\ home' = [home EXCEPT ![lh[tail]] = slot[tail]]
    /\ cache' = [cache EXCEPT ![lh[tail]] = slot[tail]]
    /\ tail' = tail + 1
    /\ UNCHANGED <<slot, head, log, pc, written, mode, ops, crashes>>

recover_from_log ==
    /\ mode = "recover" /\ tail = Len(lh) + 1
    /\ lh' = <<>> /\ head' = <<>> /\ mode' = "up"
    /\ UNCHANGED <<home, slot, cache, outstanding, committing, pc, written, tail, ops, crashes>>

Next ==
    \/ \E p \in Proc :
        \/ Call(p) \/ begin_op(p) \/ end_op(p)
        \/ write_log(p) \/ write_head(p) \/ install_trans(p) \/ EraseLog(p)
        \/ Committed(p)
        \/ \E b \in Block, v \in Value : log_write(p, b, v)
    \/ \E b \in Block : bread(b) \/ bget(b)
    \/ Crash \/ read_head \/ RecoverBlock \/ recover_from_log

Spec == Init /\ [][Next]_vars

-----------------------------------------------------------------------------
(* Properties *)

TypeOK ==
    /\ home \in [Block -> Value] /\ slot \in [1 .. nlog - 1 -> Value]
    /\ head \in Seq(Block) /\ Len(head) <= nlog - 1
    /\ cache \in [Block -> Value \cup {None}]
    /\ lh \in Seq(Block) /\ Len(lh) <= nlog - 1
    /\ outstanding \in Nat /\ committing \in BOOLEAN
    /\ pc \in [Proc -> {"idle", "begin", "asleep", "op", "write_log", "install",
                        "committed"}]
    /\ written \in [Proc -> SUBSET Block]
    /\ tail \in 1 .. nlog /\ mode \in {"up", "panic", "read_head", "recover"}
    /\ ops \in 0 .. MaxOps /\ crashes \in 0 .. MaxCrash

\* The contents recovery would produce from what is on disk now.
Durable ==
    [b \in Block |-> IF b \in Range(head)
                     THEN slot[CHOOSE i \in DOMAIN head : head[i] = b]
                     ELSE home[b]]

\* The contents calls see; after a crash, what they will see.
Current == IF mode \in {"up", "panic"} THEN [b \in Block |-> Contents(b)] ELSE Durable

Disk == INSTANCE AtomicDisk WITH
    Op <- Proc, current <- Current, durable <- Durable,
    open <- {p \in Proc : pc[p] = "op"}

\* Whatever is on disk at a crash, at whichever write of commit() or of an earlier
\* recovery it happens, recovers to the state after some commit: all the blocks of
\* all the calls that ended before it, and nothing of a call that had not ended.
\* Evicting a buffer never brings back an old block.
ImplementsAtomicDisk == Disk!Spec

\* Once the last call has returned from end_op(), a crash loses nothing: what calls
\* see is what the disk recovers to (commit() happened, or had nothing to do).
ReturnedMeansDurable ==
    mode = "up" /\ outstanding = 0 /\ ~ committing => Current = Durable

\* A call that sleeps in begin_op() has somebody left to wake it: another call is
\* under way that will reach end_op(), or a commit is, and while there is room for
\* one more call nobody sleeps on without either.
SleeperHasWaker ==
    \A p \in Proc : pc[p] = "asleep" =>
        \/ committing
        \/ outstanding > 0 /\ NoSpace


\* What param.h and begin_op() say of the space of the log: a call that begin_op()
\* has let in finds room for MAXOPBLOCKS blocks.
AdmittedCallFits == mode # "panic"
=============================================================================
