------------------------------ MODULE ProcLife ------------------------------
(***************************************************************************)
(* Processes that share pipes: fork(), exit(), wait() and kill() of        *)
(* kernel/proc.c, with the open files of Pipe.  A process that has been    *)
(* killed exits at the next boundary between user space and the kernel     *)
(* (usertrap() of kernel/trap.c).  init (slot 1) neither exits nor is      *)
(* killed: exit() panics then.  Memory is the subject of CowMemory.        *)
(***************************************************************************)
EXTENDS Pipe

VARIABLE parent   \* p->parent

vars == <<sleepVars, pipeVars, parent>>

WaitChan == <<"p1", "p2", "p3">>   \* wait() sleeps on the process itself
Children(p) == {q \in Proc : parent[q] = p}

ASSUME ProcLifeAssumption ==
    /\ NPROC \in 1 .. Len(WaitChan) /\ Handler = {}
    /\ Spinlock = {"pi", "wait"} /\ Chan = {"nread", "nwrite"} \cup Range(WaitChan)

\* init has made a pipe and forked a process, which may have forked the third.
Init ==
    /\ SleepInit /\ PipeInit
    /\ state = [p \in Proc |-> "RUNNABLE"]
    /\ pc = [p \in Proc |-> "user"]
    /\ parent \in [Proc -> {Nobody, initproc, 2}]
    /\ \A p \in Proc : /\ (parent[p] = Nobody) <=> (p = initproc)
                      /\ parent[p] < p

-----------------------------------------------------------------------------
(* fork() *)

\* allocproc() takes the first free slot; the child shares the parent's files.
fork(p) ==
    /\ Enters(p)
    /\ \E q \in Proc :
        /\ state[q] = "UNUSED" /\ \A r \in 1 .. q - 1 : state[r] # "UNUSED"
        /\ state' = [state EXCEPT ![q] = "USED"]
        /\ ofile' = [ofile EXCEPT ![q] = ofile[p]]
        /\ file' = [f \in File |->
                [file[f] EXCEPT !.ref = @ + Cardinality({d \in FD : ofile[p][d] = f})]]
        /\ loc' = [loc EXCEPT ![p].np = q]
    /\ Jump(p, "fork_parent")
    /\ UNCHANGED <<chan, killed, plock, lock, pi, history, parent>>

fork_parent(p) ==
    /\ pc[p] = "fork_parent" /\ lock["wait"] = Nobody
    /\ parent' = [parent EXCEPT ![loc[p].np] = p]
    /\ Jump(p, "fork_run")
    /\ UNCHANGED <<procs, lock, pipeVars>>

fork_run(p) ==
    LET q == loc[p].np IN
    /\ pc[p] = "fork_run" /\ plock[q] = Nobody
    /\ state' = [state EXCEPT ![q] = "RUNNABLE"]
    /\ pc' = [pc EXCEPT ![p] = "user", ![q] = "user"]
    /\ loc' = [loc EXCEPT ![p] = Idle]
    /\ UNCHANGED <<chan, killed, plock, lock, fr, ofile, file, pi, calls, history, parent>>

-----------------------------------------------------------------------------
(* exit() *)

Open(p) == SelectSeq(ofile[p], LAMBDA f : f # 0)

\* sys_exit(), or usertrap() finds the process killed: close all files.
exit(p) ==
    /\ pc[p] = "user" /\ p # initproc
    /\ killed[p] \/ calls < MaxCalls
    /\ calls' = IF killed[p] THEN calls ELSE calls + 1
    /\ ofile' = [ofile EXCEPT ![p] = [d \in FD |-> 0]]
    /\ loc' = [loc EXCEPT ![p] = [Idle EXCEPT !.close = Open(p), !.then = "exit_wait"]]
    /\ Jump(p, "fileclose")
    /\ UNCHANGED <<procs, lock, file, pi, history, parent>>

\* reparent(): init is woken for the children it is given.
exit_wait(p) ==
    /\ pc[p] = "exit_wait" /\ Acquire(p, "wait")
    /\ parent' = [q \in Proc |-> IF parent[q] = p THEN initproc ELSE parent[q]]
    /\ IF Children(p) = {} THEN Jump(p, "exit_wake")
                           ELSE Waking(p, WaitChan[initproc], "exit_wake")
    /\ UNCHANGED <<procs, pipeVars>>

\* Mutation: the parent is not woken.
exit_wake_nobody(p) ==
    /\ pc[p] = "exit_wake"
    /\ Jump(p, "exit_zombie")
    /\ UNCHANGED <<procs, lock, pipeVars, parent>>

exit_wake(p) ==
    /\ pc[p] = "exit_wake"
    /\ Waking(p, WaitChan[parent[p]], "exit_zombie")
    /\ UNCHANGED <<procs, lock, pipeVars, parent>>

exit_zombie(p) ==
    /\ pc[p] = "exit_zombie" /\ plock[p] = Nobody
    /\ plock' = [plock EXCEPT ![p] = p]
    /\ state' = [state EXCEPT ![p] = "ZOMBIE"]
    /\ Release(p, "wait")
    /\ Jump(p, "exit_sched")
    /\ UNCHANGED <<chan, killed, pipeVars, parent>>

\* The scheduler, on its own stack, releases p->lock.
exit_sched(p) ==
    /\ pc[p] = "exit_sched"
    /\ plock' = [plock EXCEPT ![p] = Nobody]
    /\ Jump(p, "dead")
    /\ UNCHANGED <<state, chan, killed, lock, pipeVars, parent>>

-----------------------------------------------------------------------------
(* wait() *)

wait(p) ==
    /\ Enters(p)
    /\ Jump(p, "wait")
    /\ UNCHANGED <<procs, lock, ofile, file, pi, loc, history, parent>>

wait_lock(p) ==
    /\ pc[p] = "wait" /\ Acquire(p, "wait")
    /\ Jump(p, "wait_scan")
    /\ UNCHANGED <<procs, pipeVars, parent>>

Zombies(p) == {q \in Children(p) : state[q] = "ZOMBIE"}

\* Mutation: a zombie is freed without its lock.
wait_reap_unlocked(p) ==
    LET q == Lowest(Zombies(p)) IN
    /\ pc[p] = "wait_scan" /\ Zombies(p) # {}
    /\ state' = [state EXCEPT ![q] = "UNUSED"]
    /\ killed' = [killed EXCEPT ![q] = FALSE]
    /\ parent' = [parent EXCEPT ![q] = Nobody]
    /\ Release(p, "wait")
    /\ Jump(p, "user")
    /\ UNCHANGED <<chan, plock, pipeVars>>

\* The scan takes the lock of each child up to the first zombie, and frees it, unless
\* its status cannot be copied out.
wait_reap(p) ==
    LET q == Lowest(Zombies(p)) IN
    /\ pc[p] = "wait_scan" /\ Zombies(p) # {}
    /\ \A r \in Children(p) : r <= q => plock[r] = Nobody
    /\ \/ /\ state' = [state EXCEPT ![q] = "UNUSED"]
          /\ killed' = [killed EXCEPT ![q] = FALSE]
          /\ parent' = [parent EXCEPT ![q] = Nobody]
       \/ UNCHANGED <<state, killed, parent>>
    /\ Release(p, "wait")
    /\ Jump(p, "user")
    /\ UNCHANGED <<chan, plock, pipeVars>>

\* No zombie: give up without children or when killed, else wait for a child to exit.
wait_sleep(p) ==
    /\ pc[p] = "wait_scan" /\ Zombies(p) = {}
    /\ \A r \in Children(p) : plock[r] = Nobody
    /\ IF Children(p) = {} \/ killed[p]
       THEN Release(p, "wait") /\ Jump(p, "user")
       ELSE Sleeping(p, WaitChan[p], "wait", "wait_scan") /\ UNCHANGED lock
    /\ UNCHANGED <<procs, pipeVars, parent>>

-----------------------------------------------------------------------------
sys_kill(p) ==
    /\ Enters(p)
    /\ \E q \in Proc \ {initproc} : state[q] # "UNUSED" /\ kill(q)
    /\ Jump(p, "user")
    /\ UNCHANGED <<ofile, file, pi, loc, history, parent>>

Call(p) == \/ PipeCall(p) /\ UNCHANGED parent
           \/ fork(p) \/ exit(p) \/ wait(p) \/ sys_kill(p)

Step(p) ==
    \/ (SleepStep(p) \/ wakeup(p)) /\ UNCHANGED <<pipeVars, parent>>
    \/ PipeStep(p) /\ UNCHANGED parent
    \/ fork_parent(p) \/ fork_run(p)
    \/ exit_wait(p) \/ exit_wake(p) \/ exit_zombie(p) \/ exit_sched(p)
    \/ wait_lock(p) \/ wait_reap(p) \/ wait_sleep(p)
    \/ killed[p] /\ exit(p)

Next == \E p \in Proc : Call(p) \/ Step(p)

\* A process in the kernel, or killed, goes on; what it calls from user space is its choice.
Spec == Init /\ [][Next]_vars /\ \A p \in Proc : WF_vars(Step(p))

-----------------------------------------------------------------------------
(* Properties *)

TypeOK ==
    /\ SleepTypeOK
    /\ ofile \in [Proc -> [FD -> 0 .. NFILE]]
    /\ file \in [File -> [ref : 0 .. NPROC * NOFILE, type : {"none", "pipe"}, writable : BOOLEAN]]
    /\ pi.data \in [0 .. PIPESIZE - 1 -> Byte] /\ delivered \in Seq(Byte)
    /\ {pi.nread, pi.nwrite} \subseteq 0 .. CountMod - 1
    /\ {pi.alloc, pi.readopen, pi.writeopen} \subseteq BOOLEAN
    /\ parent \in [Proc -> Proc \cup {Nobody}]

\* No wake-up is lost: whoever sleeps although what they wait for has happened will be
\* looked at by the holder of the lock that guards it (sleep() takes p->lock before it
\* releases lk).  The exception is a byte whose writer found itself killed before it
\* called wakeup(): pipewrite() returns -1 then, and the readers sleep on.
NoLostWakeup ==
    \A p \in Proc :
        /\ Asleep(p, "nread") /\ ((~Empty /\ ~unannounced) \/ ~pi.writeopen) =>
            \E t \in Proc : lock["pi"] = t /\ (WillWake(t, "nread", p) \/ pc[t] = "pipewrite_loop")
        /\ Asleep(p, "nwrite") /\ (~Full \/ ~pi.readopen) =>
            \E t \in Proc : lock["pi"] = t /\ WillWake(t, "nwrite", p)
        /\ Asleep(p, WaitChan[p]) /\ Zombies(p) # {} =>
            \E t \in Proc : lock["wait"] = t /\ WillWake(t, WaitChan[p], p)

\* p has let go of its lock in sleep(c, lk) and has not been woken.
Waiting(p, c) == /\ fr[p].chan = c
                 /\ \/ pc[p] = "sleep_sched"
                    \/ pc[p] = "asleep" /\ state[p] = "SLEEPING"

\* sleep() gives up its lock and sleeps as if in one step, and wakeup() wakes all at once:
\* when wakeup(c) returns, nobody who gave up the lock in sleep(c) still sleeps.  CondVar,
\* on which the models of the disk and of the console are built, takes this for granted.
SleepIsAtomic ==
    [][\A t \in Thread, c \in Chan : pc[t] = "wakeup" /\ pc'[t] # "wakeup" /\ fr[t].chan = c =>
            \A p \in Proc \ {t} : ~Waiting(p, c)']_vars

\* A file's ref is the number of descriptors that name it and of fileclose() calls still
\* to be made for it, and no more than there are descriptors.
RefsCounted ==
    /\ TypeOK
    /\ \A f \in File :
        file[f].ref = Cardinality({x \in Proc \X FD : ofile[x[1]][x[2]] = f})
                      + Cardinality({x \in Proc \X (1 .. NOFILE) :
                            x[2] <= Len(loc[x[1]].close) /\ loc[x[1]].close[x[2]] = f})

PipeCode(p) ==
    \/ pc[p] \in {"pipeclose", "pipeclose_free", "piperead", "piperead_loop", "piperead_done",
                  "pipewrite", "pipewrite_loop", "pipewrite_sleep", "pipewrite_done"}
    \/ fr[p].ret \in {"pipeclose_free", "piperead_loop", "piperead_done", "pipewrite_loop",
                      "pipewrite_sleep", "pipewrite_done"}

\* The pipe's page is allocated while anybody is in pipe code or an open file refers to
\* it, and each end is open while a file for that end is: nobody touches a freed pipe.
PipeOutlivesUsers ==
    /\ \A p \in Proc : PipeCode(p) => pi.alloc
    /\ \A f \in File : file[f].type = "pipe" =>
            pi.alloc /\ IF file[f].writable THEN pi.writeopen ELSE pi.readopen
    /\ pi.alloc => \/ \E f \in File : file[f].type = "pipe"
                   \/ \E p \in Proc : PipeCode(p)

\* A slot is freed by wait() only after its process has left the CPU: exit() holds p->lock
\* until the switch to the scheduler.
FreedIsOffCpu == \A p \in Proc : state[p] \in {"UNUSED", "USED"} => pc[p] = "dead"

Stream == INSTANCE ByteStream WITH Size <- PIPESIZE, q <- Content, rd <- pi.readopen,
                                   wr <- pi.writeopen, out <- delivered

\* Whatever readers, writers, close(), exit() and kill() do, also when nread and nwrite
\* wrap around, the pipe is a byte stream.
ImplementsByteStream == Stream!Spec

Reading(p) == loc[p].f # 0 /\ ~file[loc[p].f].writable
Writing(p) == loc[p].f # 0 /\ file[loc[p].f].writable

Waits(p) == pc[p] \in {"wait", "wait_scan"} \/ fr[p].ret = "wait_scan"

\* What p waits for in a system call has happened, or p was asleep when it was killed.
\* (Who was about to sleep, past its test of killed, may sleep on.)
CanReturn(p) ==
    \/ Reading(p) /\ ~pi.writeopen
    \/ Writing(p) /\ ~pi.readopen
    \/ Waits(p) /\ Zombies(p) # {}
    \/ pc[p] = "asleep" /\ killed[p] /\ state[p] = "RUNNABLE"

\* A read whose writers are gone, a write whose readers are gone, a wait() with a zombie
\* child, its own or one that reparent() gave it, and a sleep interrupted by kill() return.
NobodyStuck == \A p \in Proc : CanReturn(p) ~> pc[p] \in {"user", "dead"}
=============================================================================
