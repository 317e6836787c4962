---------------------------- MODULE PbsScheduler ----------------------------
(***************************************************************************)
(* The priority based scheduler (PBS) of kernel/proc.c on several CPUs:    *)
(* scheduler(), yield(), sleep(), the clock interrupt with update_time(),  *)
(* and the setpriority system call of kernel/sysproc.c, together with the  *)
(* life of process slots (fork, exit, wait) as far as they touch the       *)
(* fields the scheduler looks at.                                          *)
(*                                                                         *)
(* p->lock is explicit where it is held across steps: by the scheduler for *)
(* its best candidate so far, and by setpriority.  Elsewhere a step is one *)
(* critical section of p->lock.  Slots are numbered as in proc[NPROC].     *)
(***************************************************************************)
EXTENDS Integers, FiniteSets

CONSTANTS
    NPROC,       \* slots of the process table
    CPU,         \* harts; hart 0 keeps the time
    Priorities,  \* arguments setpriority may be called with, within 0 .. 100
    MaxTicks,    \* BOUND on timer periods
    MaxPid,      \* BOUND on processes created
    MaxCalls     \* BOUND on calls of sleep() and setpriority()

ASSUME PbsAssumption ==
    /\ NPROC \in Nat \ {0}
    /\ 0 \in CPU /\ CPU \subseteq Nat /\ IsFiniteSet(CPU)
    /\ Priorities \subseteq 0 .. 100
    /\ MaxTicks \in Nat /\ MaxPid \in Nat \ {0} /\ MaxCalls \in Nat

Slot == 1 .. NPROC
initproc == 1

VARIABLES
    proc,     \* the process table, with the kernel position of each process
    lock,     \* lock[p]: the CPU that holds p->lock, or -1
    cpu,      \* per CPU: its process, and scheduler()'s loop variables
    ticks, nextpid,
    calls,    \* calls of sleep() and setpriority() so far
    due,      \* CPUs with a timer interrupt pending
    tk,       \* next slot update_time() visits on hart 0, or 0
    fresh     \* history: slots a scan has visited that have not changed since

vars == <<proc, lock, cpu, ticks, nextpid, calls, due, tk, fresh>>

-----------------------------------------------------------------------------
(* Priorities *)

\* C's int division, for b > 0.
CDiv(a, b) == IF a >= 0 THEN a \div b ELSE -((-a) \div b)

max(a, b) == IF a > b THEN a ELSE b

\* Both branches of min() return a.
min(a, b) == IF a < b THEN a ELSE a

rbi_calculator(p) ==
    max(CDiv((3 * p.running_time - p.sleep_time - p.wait_time) * 50,
             p.running_time + p.wait_time + p.sleep_time + 1), 0)

dp_calc(p) == min(p.st_priority + rbi_calculator(p), 100)

\* scheduler() prefers p to its candidate q.
Better(p, q) ==
    \/ dp_calc(p) < dp_calc(q)
    \/ /\ dp_calc(p) = dp_calc(q)
       /\ \/ p.schedule_count < q.schedule_count
          \/ p.schedule_count = q.schedule_count /\ p.ctime < q.ctime

-----------------------------------------------------------------------------
Free(p) == lock[p] = -1

\* c is not inside its clock interrupt handler.
Ready(c) == c = 0 => tk = 0

\* No lock is held by c, so interrupts are on.
InterruptsOn(c) == \A p \in Slot : lock[p] # c

\* The history variable: what c just scanned joins, what changed leaves.
SchedulerView(p) == <<p.state, p.st_priority, p.running_time, p.wait_time,
                      p.sleep_time, p.schedule_count, p.ctime>>
Touched == {p \in Slot : SchedulerView(proc[p]) # SchedulerView(proc'[p])}
Track(c, scanned) ==
    fresh' = [d \in CPU |-> (IF d = c THEN scanned ELSE fresh[d]) \ Touched]
Tracked == fresh' = [d \in CPU |-> fresh[d] \ Touched]

Unused == [state |-> "UNUSED", pid |-> 0, parent |-> 0, st_priority |-> 0,
           rbi |-> 0, running_time |-> 0, wait_time |-> 0, sleep_time |-> 0,
           schedule_count |-> 0, ctime |-> 0, rtime |-> 0, etime |-> 0,
           at |-> "user", prc |-> 0, arg |-> 0, new |-> 0]

\* The fields allocproc() gives a slot.
allocproc(pid) == [Unused EXCEPT !.state = "USED", !.pid = pid, !.ctime = ticks,
                                 !.st_priority = 50, !.rbi = 25]

\* c runs scheduler() from the top of its for loop.
Scheduling == [pc |-> "sched", proc |-> 0, idx |-> 1, pri_pro |-> 0]

Init ==
    /\ ticks = 0 /\ nextpid = 2 /\ calls = 0 /\ due = {} /\ tk = 0
    /\ proc = [p \in Slot |-> IF p = initproc
                 THEN [Unused EXCEPT !.state = "RUNNABLE", !.pid = 1,
                                     !.st_priority = 50, !.rbi = 25]
                 ELSE Unused]
    /\ lock = [p \in Slot |-> -1]
    /\ cpu = [c \in CPU |-> Scheduling]
    /\ fresh = [c \in CPU |-> {}]

-----------------------------------------------------------------------------
(* scheduler() *)

\* c keeps the lock of its new candidate and releases the old one's.
HandOver(c, old, new) ==
    [p \in Slot |-> IF p = new THEN c ELSE IF p = old THEN -1 ELSE lock[p]]

\* Mutant of Chosen: the first RUNNABLE process is kept.
ChosenFirst(p, b) == proc[p].state = "RUNNABLE" /\ b = 0

\* Slot p replaces the candidate b.
Chosen(p, b) == proc[p].state = "RUNNABLE" /\ (b = 0 \/ Better(proc[p], proc[b]))

\* One turn of the loop over proc[]: the best candidate's lock is kept, every
\* other one is released. dp_calc() stores p->rbi when it is evaluated.
Scan(c) ==
    LET p == cpu[c].idx  b == cpu[c].pri_pro
        compared == proc[p].state = "RUNNABLE" /\ b # 0
        chosen == Chosen(p, b)
    IN
    /\ cpu[c].pc = "sched" /\ p <= NPROC
    /\ Ready(c)
    /\ Free(p)
    /\ proc' = [q \in Slot |->
                 IF compared /\ q \in {p, b}
                 THEN [proc[q] EXCEPT !.rbi = rbi_calculator(proc[q])] ELSE proc[q]]
    /\ lock' = IF chosen THEN HandOver(c, b, p) ELSE lock
    /\ cpu' = [cpu EXCEPT ![c].idx = @ + 1, ![c].pri_pro = IF chosen THEN p ELSE b]
    /\ Track(c, fresh[c] \cup {p})
    /\ UNCHANGED <<ticks, nextpid, due, tk, calls>>

\* Mutant of Scheduled: the state is left RUNNABLE.
ScheduledRunnable(p) == [p EXCEPT !.schedule_count = @ + 1, !.running_time = 0]

Scheduled(p) == [p EXCEPT !.schedule_count = @ + 1, !.running_time = 0,
                          !.state = "RUNNING"]

\* After the loop: swtch to the candidate, which releases its own lock.
Dispatch(c) ==
    LET b == cpu[c].pri_pro IN
    /\ cpu[c].pc = "sched" /\ cpu[c].idx = NPROC + 1 /\ b # 0
    /\ proc' = [proc EXCEPT ![b] = Scheduled(@)]
    /\ lock' = [lock EXCEPT ![b] = -1]
    /\ cpu' = [cpu EXCEPT ![c] = [pc |-> "run", proc |-> b, idx |-> 0, pri_pro |-> 0]]
    /\ Track(c, {})
    /\ UNCHANGED <<ticks, nextpid, due, tk, calls>>

\* Nothing is RUNNABLE: look again.
Idle(c) ==
    /\ cpu[c].pc = "sched" /\ cpu[c].idx = NPROC + 1 /\ cpu[c].pri_pro = 0
    /\ Ready(c)
    /\ cpu' = [cpu EXCEPT ![c] = Scheduling]
    /\ fresh' = [fresh EXCEPT ![c] = {}]
    /\ UNCHANGED <<proc, lock, ticks, nextpid, due, tk, calls>>

\* c's process p changes to record q under its lock and leaves the CPU: yield(),
\* sleep() and exit() set p->state, call sched(), and scheduler() releases the lock.
SwitchOut(c, table) ==
    /\ Free(cpu[c].proc)
    /\ proc' = table
    /\ cpu' = [cpu EXCEPT ![c] = Scheduling]
    /\ Track(c, {})

yield(c) ==
    /\ cpu[c].pc = "yield" /\ Ready(c)
    /\ SwitchOut(c, [proc EXCEPT ![cpu[c].proc].state = "RUNNABLE"])
    /\ UNCHANGED <<lock, ticks, nextpid, due, tk, calls>>

-----------------------------------------------------------------------------
(* Timer interrupts: every period one for each CPU. Hart 0 takes the clock    *)
(* tick; a CPU that runs a process yields.                                    *)

TimerPeriod ==
    /\ due = {} /\ tk = 0 /\ ticks < MaxTicks
    /\ due' = CPU
    /\ UNCHANGED <<proc, lock, cpu, ticks, nextpid, tk, fresh, calls>>

\* What usertrap() and kerneltrap() do once devintr() has returned 2.
AfterTimer(c) == [cpu EXCEPT ![c].pc = IF @ = "run" THEN "yield" ELSE @]

devintr(c) ==
    /\ c # 0 /\ c \in due /\ InterruptsOn(c)
    /\ due' = due \ {c}
    /\ cpu' = AfterTimer(c)
    /\ UNCHANGED <<proc, lock, ticks, nextpid, tk, fresh, calls>>

\* clockintr() up to the loop of update_time().
clockintr ==
    /\ 0 \in due /\ InterruptsOn(0)
    /\ due' = due \ {0} /\ ticks' = ticks + 1 /\ tk' = 1
    /\ UNCHANGED <<proc, lock, cpu, nextpid, fresh, calls>>

\* Mutant of Accounted: a RUNNING process is also charged as waiting.
AccountedTwice(p) ==
    CASE p.state = "RUNNING" -> [p EXCEPT !.rtime = @ + 1, !.running_time = @ + 1,
                                          !.sleep_time = 0, !.wait_time = @ + 1]
      [] p.state = "RUNNABLE" -> [p EXCEPT !.wait_time = @ + 1]
      [] p.state = "SLEEPING" -> [p EXCEPT !.sleep_time = @ + 1]
      [] OTHER -> p

\* What one tick adds to a process.
Accounted(p) ==
    CASE p.state = "RUNNING" -> [p EXCEPT !.rtime = @ + 1, !.running_time = @ + 1,
                                          !.sleep_time = 0]
      [] p.state = "RUNNABLE" -> [p EXCEPT !.wait_time = @ + 1]
      [] p.state = "SLEEPING" -> [p EXCEPT !.sleep_time = @ + 1]
      [] OTHER -> p

update_time ==
    /\ tk \in Slot /\ Free(tk)
    /\ proc' = [proc EXCEPT ![tk] = Accounted(@)]
    /\ tk' = tk + 1
    /\ Tracked
    /\ UNCHANGED <<lock, cpu, ticks, nextpid, due, calls>>

\* The handler returns. wakeup(&ticks) is an instance of Wakeup.
ClockDone ==
    /\ tk = NPROC + 1
    /\ tk' = 0
    /\ cpu' = AfterTimer(0)
    /\ UNCHANGED <<proc, lock, ticks, nextpid, due, fresh, calls>>

-----------------------------------------------------------------------------
(* Processes *)

\* c executes its process p, at kernel position l.
Running(c, l) == cpu[c].pc = "run" /\ Ready(c) /\ proc[cpu[c].proc].at = l

sleep(c) ==
    /\ Running(c, "user")
    /\ calls < MaxCalls /\ calls' = calls + 1
    /\ SwitchOut(c, [proc EXCEPT ![cpu[c].proc].state = "SLEEPING"])
    /\ UNCHANGED <<lock, ticks, nextpid, due, tk>>

\* Whatever p waits for happens: wakeup() by another process or an interrupt.
wakeup(p) ==
    /\ proc[p].state = "SLEEPING" /\ Free(p)
    /\ proc' = [proc EXCEPT ![p].state = "RUNNABLE"]
    /\ Tracked
    /\ UNCHANGED <<lock, cpu, ticks, nextpid, due, tk, calls>>

\* fork(): allocproc() in one critical section of the child's lock ...
fork(c) ==
    /\ Running(c, "user") /\ nextpid <= MaxPid
    /\ \E np \in Slot :
        /\ proc[np].state = "UNUSED" /\ Free(np)
        /\ proc' = [proc EXCEPT ![np] = allocproc(nextpid),
                               ![cpu[c].proc].at = "forked", ![cpu[c].proc].prc = np]
    /\ nextpid' = nextpid + 1
    /\ Tracked
    /\ UNCHANGED <<lock, cpu, ticks, due, tk, calls>>

\* ... and RUNNABLE in a second one.
ForkDone(c) ==
    LET p == cpu[c].proc  np == proc[p].prc IN
    /\ Running(c, "forked") /\ Free(np)
    /\ proc' = [proc EXCEPT ![np].state = "RUNNABLE", ![np].parent = p,
                           ![p].at = "user", ![p].prc = 0]
    /\ Tracked
    /\ UNCHANGED <<lock, cpu, ticks, nextpid, due, tk, calls>>

\* p is a zombie and its children are init's.
Exited(p) ==
    [q \in Slot |->
        IF q = p THEN [proc[q] EXCEPT !.state = "ZOMBIE", !.etime = ticks]
        ELSE IF proc[q].parent = p THEN [proc[q] EXCEPT !.parent = initproc]
        ELSE proc[q]]

exit(c) ==
    /\ Running(c, "user") /\ cpu[c].proc # initproc
    /\ SwitchOut(c, Exited(cpu[c].proc))
    /\ UNCHANGED <<lock, ticks, nextpid, due, tk, calls>>

\* wait() and waitx() free a zombie's slot. The fields freeproc() keeps are not
\* looked at before allocproc() sets them again.
wait(c) ==
    /\ Running(c, "user")
    /\ \E pp \in Slot :
        /\ proc[pp].state = "ZOMBIE" /\ proc[pp].parent = cpu[c].proc /\ Free(pp)
        /\ proc' = [proc EXCEPT ![pp] = Unused]
    /\ Tracked
    /\ UNCHANGED <<lock, cpu, ticks, nextpid, due, tk, calls>>

\* setpriority(pid, new): the slot is found without its lock ...
sys_setpriority(c) ==
    LET p == cpu[c].proc IN
    /\ Running(c, "user")
    /\ calls < MaxCalls /\ calls' = calls + 1
    /\ \E prc \in Slot, new \in Priorities :
        proc' = [proc EXCEPT ![p].at = "setpriority", ![p].prc = prc,
                             ![p].arg = proc[prc].pid, ![p].new = new]
    /\ UNCHANGED <<lock, cpu, ticks, nextpid, due, tk, fresh>>

\* ... then the lock is acquired ...
SetAcquire(c) ==
    LET p == cpu[c].proc IN
    /\ Running(c, "setpriority") /\ Free(proc[p].prc)
    /\ lock' = [lock EXCEPT ![proc[p].prc] = c]
    /\ proc' = [proc EXCEPT ![p].at = "change"]
    /\ UNCHANGED <<cpu, ticks, nextpid, due, tk, fresh, calls>>

\* ... and the process changed; the caller yields if that is a better priority.
change_priority(c) ==
    LET p == cpu[c].proc  prc == proc[p].prc  op == proc[prc].st_priority
        new == proc[p].new
        done == [proc EXCEPT ![p].at = "user", ![p].prc = 0, ![p].arg = 0, ![p].new = 0]
    IN
    /\ Running(c, "change")
    /\ proc' = [done EXCEPT ![prc].running_time = 0, ![prc].sleep_time = 0,
                            ![prc].st_priority = new]
    /\ lock' = [lock EXCEPT ![prc] = -1]
    /\ cpu' = [cpu EXCEPT ![c].pc = IF new < op THEN "yield" ELSE @]
    /\ Tracked
    /\ UNCHANGED <<ticks, nextpid, due, tk, calls>>

Next ==
    \/ TimerPeriod \/ clockintr \/ update_time \/ ClockDone
    \/ \E p \in Slot : wakeup(p)
    \/ \E c \in CPU :
        \/ Scan(c) \/ Dispatch(c) \/ Idle(c) \/ yield(c) \/ devintr(c)
        \/ sleep(c) \/ fork(c) \/ ForkDone(c) \/ exit(c) \/ wait(c)
        \/ sys_setpriority(c) \/ SetAcquire(c) \/ change_priority(c)

Spec == Init /\ [][Next]_vars

-----------------------------------------------------------------------------
(* Properties *)

Positions == {"user", "forked", "setpriority", "change"}

TypeOK ==
    /\ proc \in [Slot -> [state : {"UNUSED", "USED", "SLEEPING", "RUNNABLE",
                                   "RUNNING", "ZOMBIE"},
                          pid : 0 .. MaxPid, parent : 0 .. NPROC,
                          st_priority : 0 .. 100, rbi : 0 .. 150,
                          running_time : Nat, wait_time : Nat, sleep_time : Nat,
                          schedule_count : Nat, ctime : Nat, rtime : Nat, etime : Nat,
                          at : Positions, prc : 0 .. NPROC, arg : 0 .. MaxPid,
                          new : {0} \cup Priorities]]
    /\ lock \in [Slot -> {-1} \cup CPU]
    /\ cpu \in [CPU -> [pc : {"sched", "run", "yield"}, proc : 0 .. NPROC,
                        idx : 0 .. NPROC + 1, pri_pro : 0 .. NPROC]]
    /\ ticks \in 0 .. MaxTicks /\ nextpid \in 2 .. MaxPid + 1
    /\ calls \in 0 .. MaxCalls /\ due \subseteq CPU /\ tk \in 0 .. NPROC + 1
    /\ fresh \in [CPU -> SUBSET Slot]

\* A process runs on at most one CPU, and it is in state RUNNING exactly while
\* it does: two schedulers scanning at the same time never pick the same process,
\* because each keeps its candidate's lock until the swtch (proc.c, scheduler()).
OneCpuPerProcess ==
    \A p \in Slot :
        /\ proc[p].state = "RUNNING" <=> \E c \in CPU : cpu[c].proc = p
        /\ \A c, d \in CPU : cpu[c].proc = p /\ cpu[d].proc = p => c = d

\* Whatever other CPUs, the clock and setpriority do during a scan, the candidate
\* the scheduler holds is at least as good, by dynamic priority, then schedule
\* count, then creation time, as every RUNNABLE process it has passed and nobody
\* has changed since; and with no candidate it has passed over no RUNNABLE process.
NothingBetterSkipped ==
    \A c \in CPU : \A p \in fresh[c] :
        cpu[c].pc = "sched" /\ proc[p].state = "RUNNABLE" =>
            /\ cpu[c].pri_pro # 0
            /\ ~ Better(proc[p], proc[cpu[c].pri_pro])

\* Every tick charges a process once, as running or as waiting: the two never
\* exceed the ticks of its life by more than one (the tick whose update_time()
\* was under way when it was created).  The fields of a slot stay in their ranges.
ChargedOncePerTick ==
    /\ TypeOK
    /\ \A p \in Slot : proc[p].state # "UNUSED" =>
        proc[p].rtime + proc[p].wait_time
          <= (IF proc[p].state = "ZOMBIE" THEN proc[p].etime ELSE ticks)
             - proc[p].ctime + 1

\* What README.md says of the dynamic priority: DP = min(SP + RBI, 100). The
\* scheduler compares RUNNABLE processes by it.
DpAtMost100 ==
    \A p \in Slot : proc[p].state = "RUNNABLE" => dp_calc(proc[p]) <= 100

\* What README.md says of the running time RBI is computed from: it is 0 or 1.
RtimeZeroOrOne == \A p \in Slot : proc[p].running_time \in {0, 1}

\* What README.md says of setpriority: it resets the rbi to 25.
SetPriorityResetsRbi ==
    [][\A c \in CPU :
         LET p == cpu[c].proc  prc == proc[p].prc IN
         /\ Running(c, "change") /\ proc'[p].at # "change"
         /\ proc[prc].state # "UNUSED"
         => proc'[prc].rbi = 25]_vars

\* What README.md says of setpriority: it changes the process with that pid. The
\* process found is still that process once its lock is held.
StillThatProcess ==
    \A c \in CPU : Running(c, "change") /\ proc[cpu[c].proc].arg # 0 =>
        proc[proc[cpu[c].proc].prc].pid = proc[cpu[c].proc].arg

\* What proc.h says of rtime, ctime and etime ("How long the process ran for",
\* "When was the process created", "When did the process exited"): a process
\* has not run for longer than it lived.
RanWithinLifetime ==
    \A p \in Slot : proc[p].state = "ZOMBIE" =>
        proc[p].rtime <= proc[p].etime - proc[p].ctime
=============================================================================
