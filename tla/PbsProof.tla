------------------------------ MODULE PbsProof ------------------------------
(***************************************************************************)
(* A process runs on at most one CPU, for any number of slots, CPUs, ticks *)
(* and calls.  The property is not inductive: that two schedulers do not   *)
(* dispatch the same process rests on who holds which p->lock.             *)
(***************************************************************************)
EXTENDS PbsScheduler, TLAPS

State == {"UNUSED", "USED", "SLEEPING", "RUNNABLE", "RUNNING", "ZOMBIE"}

Record == [state : State, pid : Int, parent : Int, st_priority : Int, rbi : Int,
           running_time : Nat, wait_time : Nat, sleep_time : Nat, schedule_count : Nat,
           ctime : Int, rtime : Int, etime : Int, at : Positions, prc : 0 .. NPROC,
           arg : Int, new : Int]

CpuRecord == [pc : {"sched", "run", "yield"}, proc : 0 .. NPROC, idx : Int, pri_pro : 0 .. NPROC]

Types ==
    /\ proc \in [Slot -> Record]
    /\ lock \in [Slot -> {-1} \cup CPU]
    /\ cpu \in [CPU -> CpuRecord]
    /\ ticks \in Int /\ nextpid \in Int /\ tk \in Int

\* A scheduler holds the lock of its candidate, which is RUNNABLE; otherwise the CPU runs a
\* process, which is RUNNING.
CpuOK(c) ==
    \/ /\ cpu[c].pc = "sched" /\ cpu[c].proc = 0 /\ cpu[c].idx >= 1
       /\ \/ cpu[c].pri_pro = 0
          \/ lock[cpu[c].pri_pro] = c /\ proc[cpu[c].pri_pro].state = "RUNNABLE"
    \/ /\ cpu[c].pc \in {"run", "yield"} /\ cpu[c].proc \in Slot /\ cpu[c].pri_pro = 0
       /\ proc[cpu[c].proc].state = "RUNNING"

Cpus == \A c \in CPU : CpuOK(c)

\* No two CPUs run the same process, and who is RUNNING is on one.
Alone ==
    /\ \A c, d \in CPU : cpu[c].proc = cpu[d].proc /\ cpu[c].proc # 0 => c = d
    /\ \A p \in Slot : proc[p].state = "RUNNING" => \E c \in CPU : cpu[c].proc = p

\* Inside a call only a process that runs or could run is, and a child that fork() has
\* allocated and not finished belongs to one parent.
Calls ==
    /\ \A p \in Slot :
        /\ proc[p].state \notin {"RUNNING", "RUNNABLE"} => proc[p].at = "user"
        /\ proc[p].at = "setpriority" => proc[p].prc \in Slot
        /\ proc[p].at = "forked" => proc[p].prc \in Slot /\ proc[proc[p].prc].state = "USED"
    /\ \A p, q \in Slot : proc[p].at = "forked" /\ proc[q].at = "forked"
                          /\ proc[p].prc = proc[q].prc => p = q

\* change_priority() runs with the lock of the process it changes.
Changes ==
    \A p \in Slot : proc[p].at = "change" =>
        /\ proc[p].prc \in Slot
        /\ \E c \in CPU : cpu[c].proc = p /\ cpu[c].pc = "run" /\ lock[proc[p].prc] = c

\* Nobody else holds a lock over several steps.
Locks ==
    \A p \in Slot, c \in CPU : lock[p] = c =>
        \/ cpu[c].pri_pro = p
        \/ cpu[c].pc = "run" /\ proc[cpu[c].proc].at = "change" /\ proc[cpu[c].proc].prc = p

\* The clock interrupt does not come while hart 0 holds a lock.
Clock == tk # 0 => InterruptsOn(0)

SchedInv == Types /\ Cpus /\ Alone /\ Calls /\ Changes /\ Locks /\ Clock

-----------------------------------------------------------------------------
USE SMTT(30)

\* The constants: slots and CPUs are numbers, -1 is not a CPU.
LEMMA Consts == NPROC \in Nat \ {0} /\ CPU \subseteq Nat /\ 0 \in CPU /\ 0 \notin Slot /\ -1 \notin CPU
                /\ Slot \subseteq Nat /\ initproc \in Slot
BY PbsAssumption DEF Slot, initproc

\* What rbi_calculator() returns is an integer.
LEMMA RbiInt == ASSUME NEW r \in Record PROVE rbi_calculator(r) \in Int
<1> DEFINE a == (3 * r.running_time - r.sleep_time - r.wait_time) * 50
           b == r.running_time + r.wait_time + r.sleep_time + 1
<1>1. a \in Int /\ b \in Nat \ {0}
  BY DEF Record
<1> HIDE DEF a, b
<1>2. CDiv(a, b) \in Int
  BY <1>1 DEF CDiv
<1>3. rbi_calculator(r) = max(CDiv(a, b), 0)
  BY DEF rbi_calculator, a, b
<1> QED
  BY <1>2, <1>3 DEF max

\* A slot nobody uses is well formed.
LEMMA UnusedRecord == Unused \in Record /\ Unused.state = "UNUSED" /\ Unused.at = "user"
BY Consts DEF Unused, Record, State, Positions

\* The initial state: every CPU scans, no lock is held.
LEMMA InitInv == Init => SchedInv
<1> SUFFICES ASSUME Init PROVE SchedInv
  OBVIOUS
<1>1. proc \in [Slot -> Record]
  <2> DEFINE r1 == [Unused EXCEPT !.state = "RUNNABLE"]
             r2 == [r1 EXCEPT !.pid = 1]
             r3 == [r2 EXCEPT !.st_priority = 50]
             r4 == [r3 EXCEPT !.rbi = 25]
  <2>1. proc = [p \in Slot |-> IF p = initproc THEN r4 ELSE Unused]
    BY DEF Init
  <2>2. r1 \in Record
    BY UnusedRecord DEF Record, State
  <2> HIDE DEF r1
  <2>3. r2 \in Record
    BY <2>2 DEF Record
  <2> HIDE DEF r2
  <2>4. r3 \in Record
    BY <2>3 DEF Record
  <2> HIDE DEF r3
  <2>5. r4 \in Record
    BY <2>4 DEF Record
  <2> HIDE DEF r4
  <2> QED
    BY <2>1, <2>5, UnusedRecord
<1>2. \A p \in Slot : /\ proc[p].at = "user"
                      /\ proc[p].state # "RUNNING"
  BY UnusedRecord DEF Init, Record
<1>3. \A c \in CPU : cpu[c] = Scheduling
  BY DEF Init
<1>4. cpu \in [CPU -> CpuRecord]
  BY Consts DEF Init, Scheduling, CpuRecord
<1>5. Types
  BY <1>1, <1>4 DEF Init, Types
<1>6. Cpus /\ Alone /\ Calls /\ Changes
  BY <1>2, <1>3 DEF Cpus, CpuOK, Alone, Calls, Changes, Scheduling
<1>7. Locks /\ Clock
  BY Consts DEF Init, Locks, Clock
<1> QED
  BY <1>5, <1>6, <1>7 DEF SchedInv

\* What the invariant says of one CPU.
LEMMA CpuFacts ==
    ASSUME SchedInv, NEW c \in CPU
    PROVE  /\ cpu[c] \in CpuRecord
           /\ \/ /\ cpu[c].pc = "sched" /\ cpu[c].proc = 0 /\ cpu[c].idx \in Int /\ cpu[c].idx >= 1
                 /\ \/ cpu[c].pri_pro = 0
                    \/ /\ cpu[c].pri_pro \in Slot /\ lock[cpu[c].pri_pro] = c
                       /\ proc[cpu[c].pri_pro].state = "RUNNABLE"
              \/ /\ cpu[c].pc \in {"run", "yield"} /\ cpu[c].proc \in Slot /\ cpu[c].pri_pro = 0
                 /\ proc[cpu[c].proc].state = "RUNNING"
<1>1. cpu[c] \in CpuRecord
  BY DEF SchedInv, Types
<1>2. cpu[c].pri_pro \in 0 .. NPROC /\ cpu[c].idx \in Int
  BY <1>1 DEF CpuRecord
<1>3. cpu[c].pri_pro = 0 \/ cpu[c].pri_pro \in Slot
  BY <1>2, Consts DEF Slot
<1> QED
  BY <1>1, <1>2, <1>3 DEF SchedInv, Cpus, CpuOK

\* scheduler() looks at one slot: it hands its lock over to a better candidate.
LEMMA ScanStep == ASSUME SchedInv, NEW c \in CPU, Scan(c) PROVE SchedInv'
<1> DEFINE p == cpu[c].idx
           b == cpu[c].pri_pro
<1>1. /\ cpu[c].pc = "sched" /\ p <= NPROC /\ Ready(c) /\ lock[p] = -1
      /\ lock' = IF Chosen(p, b) THEN HandOver(c, b, p) ELSE lock
      /\ cpu' = [cpu EXCEPT ![c].idx = p + 1, ![c].pri_pro = IF Chosen(p, b) THEN p ELSE b]
      /\ tk' = tk /\ ticks' = ticks /\ nextpid' = nextpid
  BY DEF Scan, Free
<1>2. /\ p \in Slot /\ cpu[c].proc = 0
      /\ b = 0 \/ (b \in Slot /\ lock[b] = c /\ b # p /\ proc[b].state = "RUNNABLE")
  BY <1>1, CpuFacts, Consts DEF Slot
<1>3. /\ proc' \in [Slot -> Record]
      /\ \A q \in Slot : proc'[q].state = proc[q].state /\ proc'[q].at = proc[q].at
                         /\ proc'[q].prc = proc[q].prc
  BY RbiInt DEF Scan, SchedInv, Types, Record
<1> HIDE DEF p, b
<1>4. /\ cpu' \in [CPU -> CpuRecord]
      /\ \A d \in CPU : cpu'[d].pc = cpu[d].pc /\ cpu'[d].proc = cpu[d].proc
                        /\ (d # c => cpu'[d] = cpu[d])
      /\ cpu'[c].idx = p + 1 /\ cpu'[c].pri_pro = IF Chosen(p, b) THEN p ELSE b
  <2> DEFINE u == [cpu EXCEPT ![c].idx = p + 1]
             w == [u EXCEPT ![c].pri_pro = IF Chosen(p, b) THEN p ELSE b]
  <2>1. p \in Int /\ p \in 0 .. NPROC /\ b \in 0 .. NPROC
    BY <1>2, Consts DEF Slot
  <2>2. cpu' = w
    BY <1>1
  <2>3. /\ u \in [CPU -> CpuRecord] /\ u[c].idx = p + 1
        /\ \A d \in CPU : u[d].pc = cpu[d].pc /\ u[d].proc = cpu[d].proc /\ (d # c => u[d] = cpu[d])
    BY <2>1 DEF SchedInv, Types, CpuRecord
  <2> HIDE DEF u
  <2>4. /\ w \in [CPU -> CpuRecord] /\ w[c].idx = u[c].idx
        /\ w[c].pri_pro = IF Chosen(p, b) THEN p ELSE b
        /\ \A d \in CPU : w[d].pc = u[d].pc /\ w[d].proc = u[d].proc /\ (d # c => w[d] = u[d])
    BY <2>1, <2>3 DEF CpuRecord
  <2> HIDE DEF w
  <2> QED
    BY <2>2, <2>3, <2>4
<1>5. CASE Chosen(p, b)
  <2>1. \A q \in Slot : lock'[q] = IF q = p THEN c ELSE IF q = b THEN -1 ELSE lock[q]
    BY <1>1, <1>5 DEF HandOver
  <2>2. lock' \in [Slot -> {-1} \cup CPU]
    BY <1>1, <1>5 DEF HandOver, SchedInv, Types
  <2>3. proc[p].state = "RUNNABLE" /\ cpu'[c].pri_pro = p
    BY <1>4, <1>5 DEF Chosen
  <2>4. Types'
    BY <1>1, <1>3, <1>4, <2>2 DEF SchedInv, Types
  <2>5. Cpus'
    <3> SUFFICES ASSUME NEW d \in CPU PROVE CpuOK(d)'
      BY DEF Cpus
    <3>1. CASE d = c
      BY <3>1, <1>1, <1>2, <1>3, <1>4, <2>1, <2>3, Consts DEF CpuOK, Slot
    <3>2. CASE d # c
      <4>1. cpu'[d] = cpu[d] /\ CpuOK(d)
        BY <3>2, <1>4 DEF SchedInv, Cpus
      <4>2. \A q \in Slot : lock[q] = d => lock'[q] = d
        BY <3>2, <1>1, <1>2, <2>1, Consts
      <4> QED
        BY <4>1, <4>2, <1>3, CpuFacts DEF CpuOK
    <3> QED
      BY <3>1, <3>2
  <2>6. Alone' /\ Calls'
    BY <1>3, <1>4 DEF SchedInv, Alone, Calls
  <2>7. Changes'
    <3> SUFFICES ASSUME NEW q \in Slot, proc[q].at = "change"
                 PROVE  /\ proc[q].prc \in Slot
                        /\ \E d \in CPU : cpu'[d].proc = q /\ cpu'[d].pc = "run"
                                         /\ lock'[proc[q].prc] = d
      BY <1>3 DEF Changes
    <3>1. PICK d \in CPU : cpu[d].proc = q /\ cpu[d].pc = "run" /\ lock[proc[q].prc] = d
      BY DEF SchedInv, Changes
    <3>2. proc[q].prc \in Slot
      BY DEF SchedInv, Changes
    <3>3. d # c
      BY <3>1, <1>1
    <3>4. lock'[proc[q].prc] = d
      BY <3>1, <3>2, <3>3, <1>1, <1>2, <2>1, Consts
    <3> QED
      BY <3>1, <3>2, <3>4, <1>4
  <2>8. Locks'
    <3> SUFFICES ASSUME NEW q \in Slot, NEW d \in CPU, lock'[q] = d
                 PROVE  \/ cpu'[d].pri_pro = q
                        \/ /\ cpu'[d].pc = "run" /\ proc'[cpu'[d].proc].at = "change"
                           /\ proc'[cpu'[d].proc].prc = q
      BY DEF Locks
    <3>1. CASE q = p
      BY <3>1, <2>1, <2>3
    <3>2. CASE q # p
      <4>1. q # b /\ lock[q] = d
        BY <3>2, <2>1, Consts
      <4>2. \/ cpu[d].pri_pro = q
            \/ cpu[d].pc = "run" /\ proc[cpu[d].proc].at = "change" /\ proc[cpu[d].proc].prc = q
        BY <4>1 DEF SchedInv, Locks
      <4>3. d # c
        BY <4>1, <4>2, <1>1 DEF b
      <4> QED
        BY <4>2, <4>3, <1>3, <1>4, CpuFacts
    <3> QED
      BY <3>1, <3>2
  <2>9. Clock'
    BY <1>1, <2>1, Consts DEF SchedInv, Clock, Ready, InterruptsOn
  <2> QED
    BY <2>4, <2>5, <2>6, <2>7, <2>8, <2>9 DEF SchedInv
<1>6. CASE ~Chosen(p, b)
  <2>1. lock' = lock /\ cpu'[c].pri_pro = b
    BY <1>1, <1>4, <1>6
  <2>2. Types'
    BY <1>1, <1>3, <1>4, <2>1 DEF SchedInv, Types
  <2>3. Cpus'
    BY <1>1, <1>2, <1>3, <1>4, <2>1, CpuFacts, Consts DEF Cpus, CpuOK, Slot
  <2>4. Alone' /\ Calls' /\ Changes'
    BY <1>3, <1>4, <2>1 DEF SchedInv, Alone, Calls, Changes
  <2>5. Locks' /\ Clock'
    BY <1>1, <1>2, <1>3, <1>4, <2>1, CpuFacts, Consts DEF SchedInv, Locks, Clock, InterruptsOn, b
  <2> QED
    BY <2>2, <2>3, <2>4, <2>5 DEF SchedInv
<1> QED
  BY <1>5, <1>6

\* swtch() to the candidate: its lock made sure that nobody else runs it.
LEMMA DispatchStep == ASSUME SchedInv, NEW c \in CPU, Dispatch(c) PROVE SchedInv'
<1> DEFINE b == cpu[c].pri_pro
           r == [pc |-> "run", proc |-> b, idx |-> 0, pri_pro |-> 0]
<1>1. /\ b \in Slot /\ lock[b] = c /\ proc[b].state = "RUNNABLE" /\ cpu[c].pc = "sched"
      /\ tk' = tk /\ ticks' = ticks /\ nextpid' = nextpid
  BY CpuFacts DEF Dispatch
<1>2. /\ proc' \in [Slot -> Record]
      /\ \A q \in Slot : /\ proc'[q].state = IF q = b THEN "RUNNING" ELSE proc[q].state
                         /\ proc'[q].at = proc[q].at /\ proc'[q].prc = proc[q].prc
  <2> DEFINE r1 == [proc[b] EXCEPT !.schedule_count = @ + 1]
             r2 == [r1 EXCEPT !.running_time = 0]
             r3 == [r2 EXCEPT !.state = "RUNNING"]
  <2>1. proc' = [proc EXCEPT ![b] = r3]
    BY DEF Dispatch, Scheduled
  <2>2. proc \in [Slot -> Record]
    BY DEF SchedInv, Types
  <2>3. r1 \in Record /\ r1.at = proc[b].at /\ r1.prc = proc[b].prc
    BY <1>1, <2>2 DEF Record
  <2> HIDE DEF r1
  <2>4. r2 \in Record /\ r2.at = r1.at /\ r2.prc = r1.prc
    BY <2>3 DEF Record
  <2> HIDE DEF r2
  <2>5. r3 \in Record /\ r3.at = r2.at /\ r3.prc = r2.prc /\ r3.state = "RUNNING"
    BY <2>4 DEF Record, State
  <2> HIDE DEF r3
  <2> QED
    BY <1>1, <2>1, <2>2, <2>3, <2>4, <2>5
<1>3. /\ lock' \in [Slot -> {-1} \cup CPU]
      /\ \A q \in Slot : lock'[q] = IF q = b THEN -1 ELSE lock[q]
  BY <1>1 DEF Dispatch, SchedInv, Types
<1>4. /\ cpu' \in [CPU -> CpuRecord]
      /\ \A d \in CPU : cpu'[d] = IF d = c THEN r ELSE cpu[d]
  BY <1>1, Consts DEF Dispatch, SchedInv, Types, CpuRecord, Slot
<1>5. r.pc = "run" /\ r.proc = b /\ r.pri_pro = 0
  OBVIOUS
<1> HIDE DEF b, r
<1>6. ASSUME NEW d \in CPU PROVE cpu[d].proc # b
  BY <1>1, CpuFacts, Consts
<1>7. Types'
  BY <1>1, <1>2, <1>3, <1>4 DEF SchedInv, Types
<1>8. Cpus'
  <2> SUFFICES ASSUME NEW d \in CPU PROVE CpuOK(d)'
    BY DEF Cpus
  <2>1. CASE d = c
    BY <2>1, <1>1, <1>2, <1>4, <1>5 DEF CpuOK
  <2>2. CASE d # c
    <3>1. cpu'[d] = cpu[d] /\ CpuOK(d)
      BY <2>2, <1>4 DEF SchedInv, Cpus
    <3>2. \A q \in Slot : lock[q] = d => lock'[q] = d /\ proc'[q].state = proc[q].state
      BY <2>2, <1>1, <1>2, <1>3
    <3>3. \A q \in Slot : cpu[d].proc = q => proc'[q].state = proc[q].state
      BY <1>2, <1>6
    <3> QED
      BY <3>1, <3>2, <3>3, CpuFacts DEF CpuOK
  <2> QED
    BY <2>1, <2>2
<1>9. Alone'
  BY <1>1, <1>2, <1>4, <1>5, <1>6, CpuFacts, Consts DEF SchedInv, Alone
<1>10. Calls'
  BY <1>1, <1>2 DEF SchedInv, Calls
<1>11. Changes'
  BY <1>1, <1>2, <1>3, <1>4 DEF SchedInv, Changes
<1>12. Locks'
  <2> SUFFICES ASSUME NEW q \in Slot, NEW d \in CPU, lock'[q] = d
               PROVE  \/ cpu'[d].pri_pro = q
                      \/ /\ cpu'[d].pc = "run" /\ proc'[cpu'[d].proc].at = "change"
                         /\ proc'[cpu'[d].proc].prc = q
    BY DEF Locks
  <2>1. q # b /\ lock[q] = d
    BY <1>3, Consts
  <2>2. \/ cpu[d].pri_pro = q
        \/ cpu[d].pc = "run" /\ proc[cpu[d].proc].at = "change" /\ proc[cpu[d].proc].prc = q
    BY <2>1 DEF SchedInv, Locks
  <2>3. d # c
    BY <2>1, <2>2, <1>1 DEF b
  <2> QED
    BY <2>2, <2>3, <1>2, <1>4, CpuFacts
<1>13. Clock'
  BY <1>1, <1>3, Consts DEF SchedInv, Clock, InterruptsOn
<1> QED
  BY <1>7, <1>8, <1>9, <1>10, <1>11, <1>12, <1>13 DEF SchedInv

\* The process of c leaves its CPU in state s, and nothing else of the invariant changes.
Leaves(c, s) ==
    /\ cpu[c].pc \in {"run", "yield"}
    /\ cpu[c].pc = "run" \/ s # "RUNNABLE" => proc[cpu[c].proc].at = "user"
    /\ proc' \in [Slot -> Record]
    /\ \A q \in Slot : /\ proc'[q].state = IF q = cpu[c].proc THEN s ELSE proc[q].state
                       /\ proc'[q].at = proc[q].at /\ proc'[q].prc = proc[q].prc
    /\ cpu' = [cpu EXCEPT ![c] = Scheduling]
    /\ lock' = lock /\ tk' = tk /\ ticks' = ticks /\ nextpid' = nextpid

\* A process leaves its CPU by sched(): yield(), sleep() and exit().
LEMMA SwitchedOut ==
    ASSUME SchedInv, NEW c \in CPU, NEW s \in {"RUNNABLE", "SLEEPING", "ZOMBIE"}, Leaves(c, s)
    PROVE  SchedInv'
<1> DEFINE p == cpu[c].proc
<1>1. p \in Slot /\ proc[p].state = "RUNNING" /\ cpu[c].pri_pro = 0
  BY CpuFacts DEF Leaves
<1>2. cpu' \in [CPU -> CpuRecord] /\ \A d \in CPU : cpu'[d] = IF d = c THEN Scheduling ELSE cpu[d]
  BY Consts DEF Leaves, SchedInv, Types, CpuRecord, Scheduling
<1>3. /\ Scheduling.pc = "sched" /\ Scheduling.proc = 0 /\ Scheduling.idx = 1
      /\ Scheduling.pri_pro = 0
  BY DEF Scheduling
<1>4. \A q \in Slot : /\ proc'[q].state = IF q = p THEN s ELSE proc[q].state
                      /\ proc'[q].at = proc[q].at /\ proc'[q].prc = proc[q].prc
  BY DEF Leaves
<1>5. cpu[c].pc = "run" \/ s # "RUNNABLE" => proc[p].at = "user"
  BY DEF Leaves
<1>6. \A d \in CPU : d # c => cpu[d].proc # p
  BY <1>1, Consts DEF SchedInv, Alone
<1>8. cpu[c].proc = p
  OBVIOUS
<1> HIDE DEF p
<1>7. ASSUME NEW q \in Slot PROVE lock[q] # c
  <2>1. lock[q] = c => \/ cpu[c].pri_pro = q
                       \/ cpu[c].pc = "run" /\ proc[cpu[c].proc].at = "change"
    BY DEF SchedInv, Locks
  <2> QED
    BY <2>1, <1>1, <1>5, <1>8, Consts
<1>9. /\ proc' \in [Slot -> Record] /\ cpu[c].pc \in {"run", "yield"}
      /\ lock' = lock /\ tk' = tk /\ ticks' = ticks /\ nextpid' = nextpid
  BY DEF Leaves
<1>16. Types'
  BY <1>2, <1>9 DEF SchedInv, Types
<1>10. Cpus'
  <2> SUFFICES ASSUME NEW d \in CPU PROVE CpuOK(d)'
    BY DEF Cpus
  <2>1. CASE d = c
    BY <2>1, <1>2, <1>3 DEF CpuOK
  <2>2. CASE d # c
    <3>1. cpu'[d] = cpu[d] /\ CpuOK(d) /\ cpu[d].proc # p
      BY <2>2, <1>2, <1>6 DEF SchedInv, Cpus
    <3> QED
      BY <3>1, <1>1, <1>4, <1>9, CpuFacts DEF CpuOK
  <2> QED
    BY <2>1, <2>2
<1>11. Alone'
  <2>1. \A d, e \in CPU : cpu'[d].proc = cpu'[e].proc /\ cpu'[d].proc # 0 => d = e
    BY <1>2, <1>3 DEF SchedInv, Alone
  <2>2. ASSUME NEW q \in Slot, proc'[q].state = "RUNNING" PROVE \E d \in CPU : cpu'[d].proc = q
    <3>1. q # p /\ proc[q].state = "RUNNING"
      BY <2>2, <1>4
    <3>2. PICK d \in CPU : cpu[d].proc = q
      BY <3>1 DEF SchedInv, Alone
    <3> QED
      BY <3>1, <3>2, <1>2, <1>8
  <2> QED
    BY <2>1, <2>2 DEF Alone
<1>12. Calls'
  BY <1>1, <1>4, <1>5 DEF SchedInv, Calls
<1>13. Changes'
  <2> SUFFICES ASSUME NEW q \in Slot, proc[q].at = "change"
               PROVE  /\ proc[q].prc \in Slot
                      /\ \E d \in CPU : cpu'[d].proc = q /\ cpu'[d].pc = "run"
                                       /\ lock[proc[q].prc] = d
    BY <1>4, <1>9 DEF Changes
  <2>1. proc[q].prc \in Slot
    BY DEF SchedInv, Changes
  <2>2. PICK d \in CPU : cpu[d].proc = q /\ cpu[d].pc = "run" /\ lock[proc[q].prc] = d
    BY DEF SchedInv, Changes
  <2>3. d # c
    BY <2>1, <2>2, <1>7
  <2> QED
    BY <2>1, <2>2, <2>3, <1>2
<1>14. Locks'
  BY <1>2, <1>4, <1>7, <1>9, CpuFacts DEF SchedInv, Locks
<1>15. Clock'
  BY <1>9 DEF SchedInv, Clock, InterruptsOn
<1> QED
  BY <1>16, <1>10, <1>11, <1>12, <1>13, <1>14, <1>15 DEF SchedInv

\* yield(): the process stays RUNNABLE, in whatever call it is.
LEMMA YieldStep == ASSUME SchedInv, NEW c \in CPU, yield(c) PROVE SchedInv'
<1>1. cpu[c].proc \in Slot
  BY CpuFacts DEF yield
<1>2. /\ proc' \in [Slot -> Record]
      /\ \A q \in Slot :
            /\ proc'[q].state = IF q = cpu[c].proc THEN "RUNNABLE" ELSE proc[q].state
            /\ proc'[q].at = proc[q].at /\ proc'[q].prc = proc[q].prc
  BY <1>1 DEF yield, SwitchOut, SchedInv, Types, Record, State
<1>3. /\ cpu[c].pc = "yield" /\ cpu' = [cpu EXCEPT ![c] = Scheduling]
      /\ lock' = lock /\ tk' = tk /\ ticks' = ticks /\ nextpid' = nextpid
  BY DEF yield, SwitchOut
<1>4. Leaves(c, "RUNNABLE")
  BY <1>2, <1>3 DEF Leaves
<1> QED
  BY <1>4, SwitchedOut

\* sleep(), called outside of the other calls of the model.
LEMMA SleepStep == ASSUME SchedInv, NEW c \in CPU, sleep(c) PROVE SchedInv'
<1>1. cpu[c].pc = "run" /\ cpu[c].proc \in Slot /\ proc[cpu[c].proc].at = "user"
  BY CpuFacts DEF sleep, Running
<1>2. /\ proc' \in [Slot -> Record]
      /\ \A q \in Slot :
            /\ proc'[q].state = IF q = cpu[c].proc THEN "SLEEPING" ELSE proc[q].state
            /\ proc'[q].at = proc[q].at /\ proc'[q].prc = proc[q].prc
  BY <1>1 DEF sleep, SwitchOut, SchedInv, Types, Record, State
<1>3. /\ cpu' = [cpu EXCEPT ![c] = Scheduling]
      /\ lock' = lock /\ tk' = tk /\ ticks' = ticks /\ nextpid' = nextpid
  BY DEF sleep, SwitchOut
<1>4. Leaves(c, "SLEEPING")
  BY <1>1, <1>2, <1>3 DEF Leaves
<1> QED
  BY <1>4, SwitchedOut

\* exit(): also hands the children to init.
LEMMA ExitStep == ASSUME SchedInv, NEW c \in CPU, exit(c) PROVE SchedInv'
<1>1. cpu[c].pc = "run" /\ cpu[c].proc \in Slot /\ proc[cpu[c].proc].at = "user"
  BY CpuFacts DEF exit, Running
<1>2. /\ proc' \in [Slot -> Record]
      /\ \A q \in Slot :
            /\ proc'[q].state = IF q = cpu[c].proc THEN "ZOMBIE" ELSE proc[q].state
            /\ proc'[q].at = proc[q].at /\ proc'[q].prc = proc[q].prc
  <2> DEFINE p == cpu[c].proc
             r1 == [proc[p] EXCEPT !.state = "ZOMBIE"]
             r2 == [r1 EXCEPT !.etime = ticks]
  <2>1. proc' = [q \in Slot |-> IF q = p THEN r2
                               ELSE IF proc[q].parent = p THEN [proc[q] EXCEPT !.parent = initproc]
                               ELSE proc[q]]
    <3>1. proc' = Exited(p)
      BY DEF exit, SwitchOut
    <3>2. r2 = [proc[p] EXCEPT !.state = "ZOMBIE", !.etime = ticks]
      OBVIOUS
    <3> HIDE DEF r2
    <3>3. Exited(p) = [q \in Slot |-> IF q = p THEN r2
                               ELSE IF proc[q].parent = p THEN [proc[q] EXCEPT !.parent = initproc]
                               ELSE proc[q]]
      BY <3>2, Zenon DEF Exited
    <3> QED
      BY <3>1, <3>3
  <2>2. proc \in [Slot -> Record] /\ ticks \in Int /\ initproc \in Int
    BY DEF SchedInv, Types, initproc
  <2>3. r1 \in Record /\ r1.at = proc[p].at /\ r1.prc = proc[p].prc /\ r1.state = "ZOMBIE"
    BY <1>1, <2>2 DEF Record, State
  <2> HIDE DEF r1
  <2>4. r2 \in Record /\ r2.at = r1.at /\ r2.prc = r1.prc /\ r2.state = r1.state
    BY <2>2, <2>3 DEF Record
  <2> HIDE DEF r2
  <2>5. \A q \in Slot : LET r == [proc[q] EXCEPT !.parent = initproc] IN
          r \in Record /\ r.at = proc[q].at /\ r.prc = proc[q].prc /\ r.state = proc[q].state
    BY <2>2 DEF Record
  <2> QED
    BY <1>1, <2>1, <2>2, <2>3, <2>4, <2>5
<1>3. /\ cpu' = [cpu EXCEPT ![c] = Scheduling]
      /\ lock' = lock /\ tk' = tk /\ ticks' = ticks /\ nextpid' = nextpid
  BY DEF exit, SwitchOut
<1>4. Leaves(c, "ZOMBIE")
  BY <1>1, <1>2, <1>3 DEF Leaves
<1> QED
  BY <1>4, SwitchedOut

\* Nothing is RUNNABLE: the scan starts again.
LEMMA IdleStep == ASSUME SchedInv, NEW c \in CPU, Idle(c) PROVE SchedInv'
<1>1. /\ cpu[c].pc = "sched" /\ cpu[c].pri_pro = 0 /\ cpu[c].proc = 0
      /\ proc' = proc /\ lock' = lock /\ tk' = tk /\ ticks' = ticks /\ nextpid' = nextpid
  BY CpuFacts DEF Idle
<1>2. cpu' \in [CPU -> CpuRecord] /\ \A d \in CPU : cpu'[d] = IF d = c THEN Scheduling ELSE cpu[d]
  BY Consts DEF Idle, SchedInv, Types, CpuRecord, Scheduling
<1>3. /\ Scheduling.pc = "sched" /\ Scheduling.proc = 0 /\ Scheduling.idx = 1
      /\ Scheduling.pri_pro = 0
  BY DEF Scheduling
<1>4. Types' /\ Calls' /\ Clock'
  BY <1>1, <1>2 DEF SchedInv, Types, Calls, Clock, InterruptsOn
<1>5. Cpus'
  BY <1>1, <1>2, <1>3 DEF SchedInv, Cpus, CpuOK
<1>6. Alone'
  BY <1>1, <1>2, <1>3, Consts DEF SchedInv, Alone
<1>7. Changes'
  BY <1>1, <1>2 DEF SchedInv, Changes
<1>8. Locks'
  BY <1>1, <1>2, Consts DEF SchedInv, Locks
<1> QED
  BY <1>4, <1>5, <1>6, <1>7, <1>8 DEF SchedInv

\* A step of processes: CPUs and locks stay, RUNNING processes stay so, candidates stay
\* RUNNABLE, and nobody enters or leaves change_priority().
OnlyProcs ==
    /\ cpu' = cpu /\ lock' = lock /\ ticks' \in Int /\ nextpid' \in Int /\ tk' \in Int
    /\ proc' \in [Slot -> Record]
    /\ \A q \in Slot : /\ proc[q].state = "RUNNABLE" => proc'[q].state = "RUNNABLE"
                       /\ proc[q].state = "RUNNING" <=> proc'[q].state = "RUNNING"
                       /\ proc[q].at = "change" <=> proc'[q].at = "change"
                       /\ proc[q].at = "change" => proc'[q].prc = proc[q].prc

\* What such a step leaves to be shown.
LEMMA OnlyProcsStep == ASSUME SchedInv, OnlyProcs, Calls', Clock' PROVE SchedInv'
<1>1. Types'
  BY DEF OnlyProcs, SchedInv, Types
<1>2. Cpus'
  <2> SUFFICES ASSUME NEW c \in CPU PROVE CpuOK(c)'
    BY DEF Cpus
  <2> QED
    BY CpuFacts DEF OnlyProcs, CpuOK
<1>3. Alone'
  BY DEF OnlyProcs, SchedInv, Alone
<1>4. Changes'
  BY DEF OnlyProcs, SchedInv, Changes
<1>5. Locks'
  <2> SUFFICES ASSUME NEW q \in Slot, NEW d \in CPU, lock[q] = d
               PROVE  \/ cpu[d].pri_pro = q
                      \/ /\ cpu[d].pc = "run" /\ proc'[cpu[d].proc].at = "change"
                         /\ proc'[cpu[d].proc].prc = q
    BY DEF Locks, OnlyProcs
  <2>1. \/ cpu[d].pri_pro = q
        \/ cpu[d].pc = "run" /\ proc[cpu[d].proc].at = "change" /\ proc[cpu[d].proc].prc = q
    BY DEF SchedInv, Locks
  <2> QED
    BY <2>1, CpuFacts DEF OnlyProcs
<1> QED
  BY <1>1, <1>2, <1>3, <1>4, <1>5 DEF SchedInv

\* With the locks and the handler's position unchanged, so is what Clock says.
LEMMA SameClock == ASSUME SchedInv, lock' = lock, tk' = tk PROVE Clock'
BY DEF SchedInv, Clock, InterruptsOn

\* wakeup(): a sleeper becomes RUNNABLE.
LEMMA WakeupStep == ASSUME SchedInv, NEW p \in Slot, wakeup(p) PROVE SchedInv'
<1>1. /\ proc' \in [Slot -> Record] /\ proc[p].state = "SLEEPING"
      /\ \A q \in Slot : /\ proc'[q].state = IF q = p THEN "RUNNABLE" ELSE proc[q].state
                         /\ proc'[q].at = proc[q].at /\ proc'[q].prc = proc[q].prc
  BY DEF wakeup, SchedInv, Types, Record, State
<1>2. cpu' = cpu /\ lock' = lock /\ tk' = tk /\ ticks' = ticks /\ nextpid' = nextpid
  BY DEF wakeup
<1>3. OnlyProcs
  BY <1>1, <1>2 DEF OnlyProcs, SchedInv, Types
<1>4. Calls'
  BY <1>1 DEF SchedInv, Calls
<1> QED
  BY <1>2, <1>3, <1>4, SameClock, OnlyProcsStep

\* wait() frees the slot of a zombie.
LEMMA WaitStep == ASSUME SchedInv, NEW c \in CPU, wait(c) PROVE SchedInv'
<1>1. PICK p \in Slot : proc[p].state = "ZOMBIE" /\ proc' = [proc EXCEPT ![p] = Unused]
  BY Zenon DEF wait
<1>2. /\ proc' \in [Slot -> Record]
      /\ \A q \in Slot : proc'[q] = IF q = p THEN Unused ELSE proc[q]
  BY <1>1, UnusedRecord DEF SchedInv, Types
<1>3. cpu' = cpu /\ lock' = lock /\ tk' = tk /\ ticks' = ticks /\ nextpid' = nextpid
  BY DEF wait
<1>4. proc[p].at = "user"
  BY <1>1 DEF SchedInv, Calls
<1>5. OnlyProcs
  BY <1>1, <1>2, <1>3, <1>4, UnusedRecord DEF OnlyProcs, SchedInv, Types
<1>6. Calls'
  BY <1>1, <1>2, <1>4, UnusedRecord DEF SchedInv, Calls
<1> QED
  BY <1>3, <1>5, <1>6, SameClock, OnlyProcsStep

\* update_time() charges one process and changes nothing the invariant looks at.
LEMMA UpdateTimeStep == ASSUME SchedInv, update_time PROVE SchedInv'
<1>1. ASSUME NEW r \in Record
      PROVE  /\ Accounted(r) \in Record /\ Accounted(r).state = r.state
             /\ Accounted(r).at = r.at /\ Accounted(r).prc = r.prc
  <2>1. CASE r.state = "RUNNING"
    <3> DEFINE r1 == [r EXCEPT !.rtime = @ + 1]
               r2 == [r1 EXCEPT !.running_time = @ + 1]
               r3 == [r2 EXCEPT !.sleep_time = 0]
    <3>1. r1 \in Record /\ r1.state = r.state /\ r1.at = r.at /\ r1.prc = r.prc
      BY DEF Record
    <3>2. Accounted(r) = r3
      BY <2>1, <3>1 DEF Accounted
    <3> HIDE DEF r1
    <3>3. r2 \in Record /\ r2.state = r1.state /\ r2.at = r1.at /\ r2.prc = r1.prc
      BY <3>1 DEF Record
    <3> HIDE DEF r2
    <3>4. r3 \in Record /\ r3.state = r2.state /\ r3.at = r2.at /\ r3.prc = r2.prc
      BY <3>3 DEF Record
    <3> HIDE DEF r3
    <3> QED
      BY <3>1, <3>2, <3>3, <3>4
  <2>2. CASE r.state = "RUNNABLE"
    BY <2>2 DEF Accounted, Record
  <2>3. CASE r.state = "SLEEPING"
    BY <2>3 DEF Accounted, Record
  <2>4. CASE r.state \notin {"RUNNING", "RUNNABLE", "SLEEPING"}
    BY <2>4 DEF Accounted
  <2> QED
    BY <2>1, <2>2, <2>3, <2>4
<1>2. /\ tk \in Slot /\ proc' = [proc EXCEPT ![tk] = Accounted(proc[tk])] /\ tk' = tk + 1
      /\ cpu' = cpu /\ lock' = lock /\ ticks' = ticks /\ nextpid' = nextpid
  BY DEF update_time
<1>3. /\ proc' \in [Slot -> Record]
      /\ \A q \in Slot : /\ proc'[q].state = proc[q].state
                         /\ proc'[q].at = proc[q].at /\ proc'[q].prc = proc[q].prc
  <2>1. proc \in [Slot -> Record] /\ proc[tk] \in Record
    BY <1>2 DEF SchedInv, Types
  <2> QED
    BY <1>1, <1>2, <2>1
<1>4. OnlyProcs
  BY <1>2, <1>3 DEF OnlyProcs, SchedInv, Types
<1>5. Calls'
  BY <1>3 DEF SchedInv, Calls
<1>6. Clock'
  BY <1>2, Consts DEF SchedInv, Clock, InterruptsOn
<1> QED
  BY <1>4, <1>5, <1>6, OnlyProcsStep

\* A timer interrupt on a CPU that holds no lock: its process, if any, will yield.
LEMMA TimerTaken ==
    ASSUME SchedInv, NEW c \in CPU, InterruptsOn(c), cpu' = AfterTimer(c), proc' = proc,
           lock' = lock, ticks' = ticks, nextpid' = nextpid, tk' = tk \/ tk' = 0
    PROVE  SchedInv'
<1>1. cpu \in [CPU -> CpuRecord] /\ cpu[c] \in CpuRecord
  BY DEF SchedInv, Types
<1>2. /\ cpu' \in [CPU -> CpuRecord]
      /\ \A d \in CPU : /\ cpu'[d].proc = cpu[d].proc /\ cpu'[d].pri_pro = cpu[d].pri_pro
                        /\ cpu'[d].idx = cpu[d].idx /\ (d # c => cpu'[d].pc = cpu[d].pc)
      /\ cpu'[c].pc = IF cpu[c].pc = "run" THEN "yield" ELSE cpu[c].pc
  BY <1>1 DEF AfterTimer, CpuRecord
<1>3. Types'
  BY <1>2 DEF SchedInv, Types
<1>4. Cpus'
  BY <1>2 DEF SchedInv, Cpus, CpuOK
<1>5. Alone' /\ Calls'
  BY <1>2 DEF SchedInv, Alone, Calls
<1>6. Changes' /\ Locks'
  BY <1>2 DEF SchedInv, Changes, Locks, InterruptsOn
<1>7. Clock'
  BY DEF SchedInv, Clock, InterruptsOn
<1> QED
  BY <1>3, <1>4, <1>5, <1>6, <1>7 DEF SchedInv

\* The interrupts: the timer of another hart, and the three parts of hart 0's.
LEMMA InterruptStep ==
    ASSUME SchedInv, TimerPeriod \/ clockintr \/ ClockDone \/ \E c \in CPU : devintr(c)
    PROVE  SchedInv'
<1>1. CASE TimerPeriod
  BY <1>1 DEF TimerPeriod, SchedInv, Types, Cpus, CpuOK, Alone, Calls, Changes, Locks, Clock,
              InterruptsOn
<1>2. CASE clockintr
  <2>1. OnlyProcs
    BY <1>2 DEF clockintr, OnlyProcs, SchedInv, Types
  <2>2. Calls' /\ Clock'
    BY <1>2 DEF clockintr, SchedInv, Calls, Clock, InterruptsOn
  <2> QED
    BY <2>1, <2>2, OnlyProcsStep
<1>3. CASE ClockDone
  <2>1. InterruptsOn(0)
    BY <1>3, Consts DEF ClockDone, SchedInv, Clock
  <2> QED
    BY <1>3, <2>1, Consts, TimerTaken DEF ClockDone
<1>4. ASSUME NEW c \in CPU, devintr(c) PROVE SchedInv'
  BY <1>4, TimerTaken DEF devintr
<1> QED
  BY <1>1, <1>2, <1>3, <1>4

\* What a system call of the process of c starts from.
LEMMA InCall ==
    ASSUME SchedInv, NEW c \in CPU, NEW l, Running(c, l)
    PROVE  /\ cpu[c].proc \in Slot /\ proc[cpu[c].proc].state = "RUNNING"
           /\ proc[cpu[c].proc].at = l /\ cpu[c].pc = "run" /\ cpu[c].pri_pro = 0
           /\ \A d \in CPU : cpu[d].proc = cpu[c].proc => d = c
           /\ c = 0 => tk = 0
<1>1. cpu[c].pc = "run" /\ proc[cpu[c].proc].at = l /\ (c = 0 => tk = 0)
  BY DEF Running, Ready
<1>2. cpu[c].proc \in Slot /\ proc[cpu[c].proc].state = "RUNNING" /\ cpu[c].pri_pro = 0
  BY <1>1, CpuFacts
<1> QED
  BY <1>1, <1>2, Consts DEF SchedInv, Alone

\* fork() allocates a slot nobody else's fork() can have.
LEMMA ForkStep == ASSUME SchedInv, NEW c \in CPU, fork(c) PROVE SchedInv'
<1> DEFINE p == cpu[c].proc
<1>1. p \in Slot /\ proc[p].state = "RUNNING" /\ proc[p].at = "user"
  BY InCall DEF fork
<1>2. PICK np \in Slot :
        /\ proc[np].state = "UNUSED"
        /\ proc' = [proc EXCEPT ![np] = allocproc(nextpid), ![p].at = "forked", ![p].prc = np]
  BY Zenon DEF fork
<1>3. /\ cpu' = cpu /\ lock' = lock /\ tk' = tk /\ ticks' = ticks /\ nextpid' = nextpid + 1
  BY DEF fork
<1>4. nextpid \in Int /\ ticks \in Int /\ tk \in Int /\ proc \in [Slot -> Record]
  BY DEF SchedInv, Types
<1> HIDE DEF p
<1>5. /\ allocproc(nextpid) \in Record
      /\ allocproc(nextpid).state = "USED" /\ allocproc(nextpid).at = "user"
  <2> DEFINE r1 == [Unused EXCEPT !.state = "USED"]
             r2 == [r1 EXCEPT !.pid = nextpid]
             r3 == [r2 EXCEPT !.ctime = ticks]
             r4 == [r3 EXCEPT !.st_priority = 50]
             r5 == [r4 EXCEPT !.rbi = 25]
  <2>1. allocproc(nextpid) = r5
    BY DEF allocproc
  <2>2. r1 \in Record /\ r1.state = "USED" /\ r1.at = "user"
    BY UnusedRecord DEF Record, State
  <2> HIDE DEF r1
  <2>3. r2 \in Record /\ r2.state = r1.state /\ r2.at = r1.at
    BY <1>4, <2>2 DEF Record
  <2> HIDE DEF r2
  <2>4. r3 \in Record /\ r3.state = r2.state /\ r3.at = r2.at
    BY <1>4, <2>3 DEF Record
  <2> HIDE DEF r3
  <2>5. r4 \in Record /\ r4.state = r3.state /\ r4.at = r3.at
    BY <2>4 DEF Record
  <2> HIDE DEF r4
  <2>6. r5 \in Record /\ r5.state = r4.state /\ r5.at = r4.at
    BY <2>5 DEF Record
  <2> HIDE DEF r5
  <2> QED
    BY <2>1, <2>2, <2>3, <2>4, <2>5, <2>6
<1>6. /\ proc' \in [Slot -> Record]
      /\ \A q \in Slot \ {p, np} : proc'[q] = proc[q]
      /\ proc'[np].state = "USED" /\ proc'[np].at = "user"
      /\ proc'[p].state = "RUNNING" /\ proc'[p].at = "forked" /\ proc'[p].prc = np
  <2> DEFINE t1 == [proc EXCEPT ![np] = allocproc(nextpid)]
             t2 == [t1 EXCEPT ![p].at = "forked"]
             t3 == [t2 EXCEPT ![p].prc = np]
  <2>1. proc' = t3
    BY <1>2
  <2>2. np # p /\ np \in 0 .. NPROC
    BY <1>1, <1>2, Consts DEF Slot
  <2>3. t1 \in [Slot -> Record] /\ \A q \in Slot : t1[q] = IF q = np THEN allocproc(nextpid) ELSE proc[q]
    BY <1>4, <1>5
  <2> HIDE DEF t1
  <2>4. /\ t2 \in [Slot -> Record] /\ \A q \in Slot : q # p => t2[q] = t1[q]
        /\ t2[p].state = t1[p].state /\ t2[p].at = "forked"
    BY <1>1, <2>3 DEF Record, Positions
  <2> HIDE DEF t2
  <2>5. /\ t3 \in [Slot -> Record] /\ \A q \in Slot : q # p => t3[q] = t2[q]
        /\ t3[p].state = t2[p].state /\ t3[p].at = t2[p].at /\ t3[p].prc = np
    BY <1>1, <2>2, <2>4 DEF Record
  <2> HIDE DEF t3
  <2> QED
    BY <1>1, <1>5, <2>1, <2>2, <2>3, <2>4, <2>5
<1>7. OnlyProcs
  <2>1. proc[np].at = "user" /\ np # p
    BY <1>1, <1>2 DEF SchedInv, Calls
  <2> QED
    BY <1>1, <1>2, <1>3, <1>4, <1>6, <2>1 DEF OnlyProcs
<1>8. Calls'
  BY <1>1, <1>2, <1>6 DEF SchedInv, Calls
<1> QED
  BY <1>3, <1>7, <1>8, SameClock, OnlyProcsStep

\* fork() makes its child RUNNABLE: it is still the slot it allocated.
LEMMA ForkDoneStep == ASSUME SchedInv, NEW c \in CPU, ForkDone(c) PROVE SchedInv'
<1> DEFINE p == cpu[c].proc
           np == proc[p].prc
<1>0. Running(c, "forked")
  BY Zenon DEF ForkDone
<1>1. p \in Slot /\ proc[p].state = "RUNNING" /\ proc[p].at = "forked"
  BY <1>0, InCall
<1>2. np \in Slot /\ proc[np].state = "USED" /\ proc[np].at = "user"
  BY <1>1 DEF SchedInv, Calls
<1>3. /\ cpu' = cpu /\ lock' = lock /\ tk' = tk /\ ticks' = ticks /\ nextpid' = nextpid
      /\ proc' = [proc EXCEPT ![np].state = "RUNNABLE", ![np].parent = p,
                              ![p].at = "user", ![p].prc = 0]
  BY Zenon DEF ForkDone
<1>4. \A q \in Slot : proc[q].at = "forked" /\ proc[q].prc = np => q = p
  BY <1>1 DEF SchedInv, Calls
<1> HIDE DEF p, np
<1>5. /\ proc' \in [Slot -> Record]
      /\ \A q \in Slot \ {p, np} : proc'[q] = proc[q]
      /\ proc'[np].state = "RUNNABLE" /\ proc'[np].at = proc[np].at
      /\ proc'[p].state = "RUNNING" /\ proc'[p].at = "user"
  <2> DEFINE t1 == [proc EXCEPT ![np].state = "RUNNABLE"]
             t2 == [t1 EXCEPT ![np].parent = p]
             t3 == [t2 EXCEPT ![p].at = "user"]
             t4 == [t3 EXCEPT ![p].prc = 0]
  <2>1. proc' = t4
    BY <1>3
  <2>2. np # p /\ p \in Int /\ 0 \in 0 .. NPROC /\ proc \in [Slot -> Record]
    BY <1>1, <1>2, Consts DEF SchedInv, Types
  <2>3. /\ t1 \in [Slot -> Record] /\ \A q \in Slot : q # np => t1[q] = proc[q]
        /\ t1[np].state = "RUNNABLE" /\ t1[np].at = proc[np].at
    BY <1>2, <2>2 DEF Record, State
  <2> HIDE DEF t1
  <2>4. /\ t2 \in [Slot -> Record] /\ \A q \in Slot : q # np => t2[q] = t1[q]
        /\ t2[np].state = t1[np].state /\ t2[np].at = t1[np].at
    BY <1>2, <2>2, <2>3 DEF Record
  <2> HIDE DEF t2
  <2>5. /\ t3 \in [Slot -> Record] /\ \A q \in Slot : q # p => t3[q] = t2[q]
        /\ t3[p].state = t2[p].state /\ t3[p].at = "user"
    BY <1>1, <2>4 DEF Record, Positions
  <2> HIDE DEF t3
  <2>6. /\ t4 \in [Slot -> Record] /\ \A q \in Slot : q # p => t4[q] = t3[q]
        /\ t4[p].state = t3[p].state /\ t4[p].at = t3[p].at
    BY <1>1, <2>2, <2>5 DEF Record
  <2> HIDE DEF t4
  <2> QED
    BY <1>1, <1>2, <2>1, <2>2, <2>3, <2>4, <2>5, <2>6
<1>6. OnlyProcs
  BY <1>1, <1>2, <1>3, <1>5 DEF OnlyProcs, SchedInv, Types
<1>7. Calls'
  BY <1>1, <1>2, <1>4, <1>5 DEF SchedInv, Calls
<1> QED
  BY <1>3, <1>6, <1>7, SameClock, OnlyProcsStep

\* setpriority() finds its slot without a lock.
LEMMA SetPriorityStep == ASSUME SchedInv, NEW c \in CPU, sys_setpriority(c) PROVE SchedInv'
<1> DEFINE p == cpu[c].proc
<1>1. p \in Slot /\ proc[p].state = "RUNNING" /\ proc[p].at = "user"
  BY InCall DEF sys_setpriority
<1>2. PICK prc \in Slot, new \in Priorities :
        proc' = [proc EXCEPT ![p].at = "setpriority", ![p].prc = prc,
                             ![p].arg = proc[prc].pid, ![p].new = new]
  BY Zenon DEF sys_setpriority
<1>3. cpu' = cpu /\ lock' = lock /\ tk' = tk /\ ticks' = ticks /\ nextpid' = nextpid
  BY DEF sys_setpriority
<1> HIDE DEF p
<1>4. /\ proc' \in [Slot -> Record]
      /\ \A q \in Slot \ {p} : proc'[q] = proc[q]
      /\ proc'[p].state = "RUNNING" /\ proc'[p].at = "setpriority" /\ proc'[p].prc = prc
  <2> DEFINE t1 == [proc EXCEPT ![p].at = "setpriority"]
             t2 == [t1 EXCEPT ![p].prc = prc]
             t3 == [t2 EXCEPT ![p].arg = proc[prc].pid]
             t4 == [t3 EXCEPT ![p].new = new]
  <2>1. proc' = t4
    BY <1>2
  <2>2. proc \in [Slot -> Record] /\ prc \in 0 .. NPROC /\ new \in Int /\ proc[prc].pid \in Int
    <3>1. proc \in [Slot -> Record] /\ proc[prc] \in Record
      BY DEF SchedInv, Types
    <3>2. proc[prc].pid \in Int
      BY <3>1 DEF Record
    <3>3. prc \in 0 .. NPROC /\ new \in Int
      BY PbsAssumption DEF Slot
    <3> QED
      BY <3>1, <3>2, <3>3
  <2>3. /\ t1 \in [Slot -> Record] /\ \A q \in Slot : q # p => t1[q] = proc[q]
        /\ t1[p].state = proc[p].state /\ t1[p].at = "setpriority"
    BY <1>1, <2>2 DEF Record, Positions
  <2> HIDE DEF t1
  <2>4. /\ t2 \in [Slot -> Record] /\ \A q \in Slot : q # p => t2[q] = t1[q]
        /\ t2[p].state = t1[p].state /\ t2[p].at = t1[p].at /\ t2[p].prc = prc
    BY <1>1, <2>2, <2>3 DEF Record
  <2> HIDE DEF t2
  <2>5. /\ t3 \in [Slot -> Record] /\ \A q \in Slot : q # p => t3[q] = t2[q]
        /\ t3[p].state = t2[p].state /\ t3[p].at = t2[p].at /\ t3[p].prc = t2[p].prc
    BY <1>1, <2>2, <2>4 DEF Record
  <2> HIDE DEF t3
  <2>6. /\ t4 \in [Slot -> Record] /\ \A q \in Slot : q # p => t4[q] = t3[q]
        /\ t4[p].state = t3[p].state /\ t4[p].at = t3[p].at /\ t4[p].prc = t3[p].prc
    BY <1>1, <2>2, <2>5 DEF Record
  <2> HIDE DEF t4
  <2> QED
    BY <1>1, <2>1, <2>3, <2>4, <2>5, <2>6
<1>5. OnlyProcs
  BY <1>1, <1>3, <1>4 DEF OnlyProcs, SchedInv, Types
<1>6. Calls'
  BY <1>1, <1>4 DEF SchedInv, Calls
<1> QED
  BY <1>3, <1>5, <1>6, SameClock, OnlyProcsStep

\* ... and takes the slot's lock, which nobody else then has.
LEMMA SetAcquireStep == ASSUME SchedInv, NEW c \in CPU, SetAcquire(c) PROVE SchedInv'
<1> DEFINE p == cpu[c].proc
           prc == proc[p].prc
<1>1. /\ p \in Slot /\ proc[p].state = "RUNNING" /\ proc[p].at = "setpriority"
      /\ cpu[c].pc = "run" /\ cpu[c].proc = p /\ (c = 0 => tk = 0)
  BY InCall DEF SetAcquire
<1>2. prc \in Slot /\ lock[prc] = -1 /\ proc[p].prc = prc
  BY <1>1 DEF SetAcquire, Free, SchedInv, Calls
<1>3. cpu' = cpu /\ tk' = tk /\ ticks' = ticks /\ nextpid' = nextpid
  BY DEF SetAcquire
<1>4. /\ proc' \in [Slot -> Record]
      /\ \A q \in Slot : /\ proc'[q].state = proc[q].state /\ proc'[q].prc = proc[q].prc
                         /\ proc'[q].at = IF q = p THEN "change" ELSE proc[q].at
  BY <1>1 DEF SetAcquire, SchedInv, Types, Record, Positions
<1>5. /\ lock' \in [Slot -> {-1} \cup CPU]
      /\ \A q \in Slot : lock'[q] = IF q = prc THEN c ELSE lock[q]
  BY <1>2 DEF SetAcquire, SchedInv, Types
<1> HIDE DEF p, prc
<1>6. Types'
  BY <1>3, <1>4, <1>5 DEF SchedInv, Types
<1>7. Cpus'
  <2> SUFFICES ASSUME NEW d \in CPU PROVE CpuOK(d)'
    BY DEF Cpus
  <2>1. \A q \in Slot : lock[q] = d => lock'[q] = d
    BY <1>2, <1>5, Consts
  <2> QED
    BY <2>1, <1>3, <1>4, CpuFacts DEF CpuOK
<1>8. Alone' /\ Calls'
  BY <1>1, <1>3, <1>4 DEF SchedInv, Alone, Calls
<1>9. Changes'
  <2> SUFFICES ASSUME NEW q \in Slot, proc'[q].at = "change"
               PROVE  /\ proc[q].prc \in Slot
                      /\ \E d \in CPU : cpu[d].proc = q /\ cpu[d].pc = "run"
                                       /\ lock'[proc[q].prc] = d
    BY <1>3, <1>4 DEF Changes
  <2>1. CASE q = p
    BY <2>1, <1>1, <1>2, <1>5
  <2>2. CASE q # p
    <3>1. proc[q].at = "change"
      BY <2>2, <1>4
    <3>2. proc[q].prc \in Slot
      BY <3>1 DEF SchedInv, Changes
    <3>3. PICK d \in CPU : cpu[d].proc = q /\ cpu[d].pc = "run" /\ lock[proc[q].prc] = d
      BY <3>1 DEF SchedInv, Changes
    <3>4. lock'[proc[q].prc] = d
      <4>1. d # -1
        BY Consts
      <4>2. proc[q].prc # prc
        BY <4>1, <3>3, <1>2
      <4> QED
        BY <4>2, <3>2, <3>3, <1>5
    <3> QED
      BY <3>2, <3>3, <3>4
  <2> QED
    BY <2>1, <2>2
<1>10. Locks'
  <2> SUFFICES ASSUME NEW q \in Slot, NEW d \in CPU, lock'[q] = d
               PROVE  \/ cpu[d].pri_pro = q
                      \/ /\ cpu[d].pc = "run" /\ proc'[cpu[d].proc].at = "change"
                         /\ proc'[cpu[d].proc].prc = q
    BY <1>3 DEF Locks
  <2>1. CASE q = prc
    BY <2>1, <1>1, <1>2, <1>4, <1>5
  <2>2. CASE q # prc
    <3>1. \/ cpu[d].pri_pro = q
          \/ cpu[d].pc = "run" /\ proc[cpu[d].proc].at = "change" /\ proc[cpu[d].proc].prc = q
      BY <2>2, <1>5 DEF SchedInv, Locks
    <3> QED
      BY <3>1, <1>4, CpuFacts
  <2> QED
    BY <2>1, <2>2
<1>11. Clock'
  BY <1>1, <1>3, <1>5 DEF SchedInv, Clock, InterruptsOn
<1> QED
  BY <1>6, <1>7, <1>8, <1>9, <1>10, <1>11 DEF SchedInv

\* change_priority() releases the lock it was called with.
LEMMA ChangeStep == ASSUME SchedInv, NEW c \in CPU, change_priority(c) PROVE SchedInv'
<1> DEFINE p == cpu[c].proc
           prc == proc[p].prc
           new == proc[p].new
<1>0. Running(c, "change")
  BY Zenon DEF change_priority
<1>0a. proc' = [[proc EXCEPT ![p].at = "user", ![p].prc = 0, ![p].arg = 0, ![p].new = 0]
                    EXCEPT ![prc].running_time = 0, ![prc].sleep_time = 0,
                           ![prc].st_priority = new]
  BY Zenon DEF change_priority
<1>0b. /\ lock' = [lock EXCEPT ![prc] = -1]
       /\ cpu' = [cpu EXCEPT ![c].pc = IF new < proc[prc].st_priority THEN "yield" ELSE @]
       /\ UNCHANGED <<ticks, nextpid, due, tk, calls>>
  BY Zenon DEF change_priority
<1>1. /\ p \in Slot /\ proc[p].state = "RUNNING" /\ proc[p].at = "change"
      /\ cpu[c].pc = "run" /\ cpu[c].pri_pro = 0 /\ cpu[c].proc = p
      /\ \A d \in CPU : cpu[d].proc = p => d = c
  BY <1>0, InCall
<1>2. prc \in Slot /\ lock[prc] = c /\ proc[p].prc = prc
  BY <1>1 DEF SchedInv, Changes
<1>3. tk' = tk /\ ticks' = ticks /\ nextpid' = nextpid
  BY <1>0b
<1>4. /\ lock' \in [Slot -> {-1} \cup CPU]
      /\ \A q \in Slot : lock'[q] = IF q = prc THEN -1 ELSE lock[q]
  BY <1>0b, <1>2 DEF SchedInv, Types
<1>5. /\ cpu' \in [CPU -> CpuRecord]
      /\ \A d \in CPU : /\ cpu'[d].proc = cpu[d].proc /\ cpu'[d].pri_pro = cpu[d].pri_pro
                        /\ cpu'[d].idx = cpu[d].idx /\ (d # c => cpu'[d].pc = cpu[d].pc)
      /\ cpu'[c].pc \in {"run", "yield"}
  <2> DEFINE s == IF new < proc[prc].st_priority THEN "yield" ELSE cpu[c].pc
  <2>1. cpu' = [cpu EXCEPT ![c].pc = s]
    BY <1>0b
  <2>2. s \in {"run", "yield"}
    BY <1>1
  <2> HIDE DEF s
  <2> QED
    BY <2>1, <2>2 DEF SchedInv, Types, CpuRecord
<1>6. /\ proc' \in [Slot -> Record]
      /\ \A q \in Slot : /\ proc'[q].state = proc[q].state
                         /\ proc'[q].at = IF q = p THEN "user" ELSE proc[q].at
                         /\ q # p => proc'[q].prc = proc[q].prc
  <2> DEFINE t1 == [proc EXCEPT ![p].at = "user"]
             t2 == [t1 EXCEPT ![p].prc = 0]
             t3 == [t2 EXCEPT ![p].arg = 0]
             t4 == [t3 EXCEPT ![p].new = 0]
             t5 == [t4 EXCEPT ![prc].running_time = 0]
             t6 == [t5 EXCEPT ![prc].sleep_time = 0]
             t7 == [t6 EXCEPT ![prc].st_priority = new]
  <2>1. proc' = t7
    BY <1>0a, Zenon
  <2>2. proc \in [Slot -> Record] /\ 0 \in 0 .. NPROC /\ new \in Int
    <3>1. proc \in [Slot -> Record] /\ proc[p] \in Record
      BY <1>1 DEF SchedInv, Types
    <3>2. proc[p].new \in Int
      BY <3>1 DEF Record
    <3> QED
      BY <3>1, <3>2, Consts
  <2> HIDE DEF p, prc, new
  <2>3. /\ t1 \in [Slot -> Record]
        /\ \A q \in Slot : /\ t1[q].state = proc[q].state /\ t1[q].prc = proc[q].prc
                           /\ t1[q].at = IF q = p THEN "user" ELSE proc[q].at
    BY <1>1, <2>2 DEF Record, Positions
  <2> HIDE DEF t1
  <2>4. /\ t2 \in [Slot -> Record]
        /\ \A q \in Slot : /\ t2[q].state = t1[q].state /\ t2[q].at = t1[q].at
                           /\ q # p => t2[q].prc = t1[q].prc
    BY <1>1, <2>2, <2>3 DEF Record
  <2> HIDE DEF t2
  <2>5. /\ t3 \in [Slot -> Record]
        /\ \A q \in Slot : /\ t3[q].state = t2[q].state /\ t3[q].at = t2[q].at
                           /\ t3[q].prc = t2[q].prc
    BY <1>1, <2>4 DEF Record
  <2> HIDE DEF t3
  <2>6. /\ t4 \in [Slot -> Record]
        /\ \A q \in Slot : /\ t4[q].state = t3[q].state /\ t4[q].at = t3[q].at
                           /\ t4[q].prc = t3[q].prc
    BY <1>1, <2>5 DEF Record
  <2> HIDE DEF t4
  <2>7. /\ t5 \in [Slot -> Record]
        /\ \A q \in Slot : /\ t5[q].state = t4[q].state /\ t5[q].at = t4[q].at
                           /\ t5[q].prc = t4[q].prc
    BY <1>2, <2>6 DEF Record
  <2> HIDE DEF t5
  <2>8. /\ t6 \in [Slot -> Record]
        /\ \A q \in Slot : /\ t6[q].state = t5[q].state /\ t6[q].at = t5[q].at
                           /\ t6[q].prc = t5[q].prc
    BY <1>2, <2>7 DEF Record
  <2> HIDE DEF t6
  <2>9. /\ t7 \in [Slot -> Record]
        /\ \A q \in Slot : /\ t7[q].state = t6[q].state /\ t7[q].at = t6[q].at
                           /\ t7[q].prc = t6[q].prc
    BY <1>2, <2>2, <2>8 DEF Record
  <2> HIDE DEF t7
  <2> QED
    BY <2>1, <2>3, <2>4, <2>5, <2>6, <2>7, <2>8, <2>9
<1> HIDE DEF p, prc, new
<1>7. Types'
  BY <1>3, <1>4, <1>5, <1>6 DEF SchedInv, Types
<1>8. Cpus'
  <2> SUFFICES ASSUME NEW d \in CPU PROVE CpuOK(d)'
    BY DEF Cpus
  <2>1. CASE d = c
    BY <2>1, <1>1, <1>5, <1>6 DEF CpuOK
  <2>2. CASE d # c
    <3>1. \A q \in Slot : lock[q] = d => lock'[q] = d
      BY <2>2, <1>2, <1>4
    <3> QED
      BY <2>2, <3>1, <1>5, <1>6, CpuFacts DEF CpuOK
  <2> QED
    BY <2>1, <2>2
<1>9. Alone' /\ Calls'
  BY <1>1, <1>5, <1>6 DEF SchedInv, Alone, Calls
<1>10. Changes'
  <2> SUFFICES ASSUME NEW q \in Slot, proc'[q].at = "change"
               PROVE  /\ proc'[q].prc \in Slot
                      /\ \E d \in CPU : cpu'[d].proc = q /\ cpu'[d].pc = "run"
                                       /\ lock'[proc'[q].prc] = d
    BY DEF Changes
  <2>1. q # p /\ proc[q].at = "change" /\ proc'[q].prc = proc[q].prc
    BY <1>6
  <2>2. proc[q].prc \in Slot
    BY <2>1 DEF SchedInv, Changes
  <2>3. PICK d \in CPU : cpu[d].proc = q /\ cpu[d].pc = "run" /\ lock[proc[q].prc] = d
    BY <2>1 DEF SchedInv, Changes
  <2>4. d # c
    BY <2>1, <2>3, <1>1
  <2> QED
    BY <2>1, <2>2, <2>3, <2>4, <1>2, <1>4, <1>5
<1>11. Locks'
  <2> SUFFICES ASSUME NEW q \in Slot, NEW d \in CPU, lock'[q] = d
               PROVE  \/ cpu'[d].pri_pro = q
                      \/ /\ cpu'[d].pc = "run" /\ proc'[cpu'[d].proc].at = "change"
                         /\ proc'[cpu'[d].proc].prc = q
    BY DEF Locks
  <2>1. q # prc /\ lock[q] = d
    BY <1>4, Consts
  <2>2. \/ cpu[d].pri_pro = q
        \/ cpu[d].pc = "run" /\ proc[cpu[d].proc].at = "change" /\ proc[cpu[d].proc].prc = q
    BY <2>1 DEF SchedInv, Locks
  <2>3. d # c
    BY <2>1, <2>2, <1>1, <1>2, Consts
  <2>4. cpu[d].proc # p
    BY <2>3, <1>1
  <2> QED
    BY <2>2, <2>3, <2>4, <1>5, <1>6, CpuFacts
<1>12. Clock'
  BY <1>3, <1>4, Consts DEF SchedInv, Clock, InterruptsOn
<1> QED
  BY <1>7, <1>8, <1>9, <1>10, <1>11, <1>12 DEF SchedInv

-----------------------------------------------------------------------------
\* The scheduler's invariant is inductive.
THEOREM SchedulerInvariant == Spec => []SchedInv
<1>1. SchedInv /\ [Next]_vars => SchedInv'
  <2> SUFFICES ASSUME SchedInv, [Next]_vars PROVE SchedInv'
    OBVIOUS
  <2>1. CASE UNCHANGED vars
    BY <2>1 DEF vars, SchedInv, Types, Cpus, CpuOK, Alone, Calls, Changes, Locks, Clock,
                InterruptsOn
  <2>2. CASE TimerPeriod \/ clockintr \/ ClockDone
    BY <2>2, InterruptStep
  <2>3. CASE update_time
    BY <2>3, UpdateTimeStep
  <2>4. ASSUME NEW p \in Slot, wakeup(p) PROVE SchedInv'
    BY <2>4, WakeupStep
  <2>5. ASSUME NEW c \in CPU,
               Scan(c) \/ Dispatch(c) \/ Idle(c) \/ yield(c) \/ devintr(c) PROVE SchedInv'
    BY <2>5, ScanStep, DispatchStep, IdleStep, YieldStep, InterruptStep
  <2>6. ASSUME NEW c \in CPU, sleep(c) \/ fork(c) \/ ForkDone(c) \/ exit(c) \/ wait(c)
        PROVE  SchedInv'
    BY <2>6, SleepStep, ForkStep, ForkDoneStep, ExitStep, WaitStep
  <2>7. ASSUME NEW c \in CPU, sys_setpriority(c) \/ SetAcquire(c) \/ change_priority(c)
        PROVE  SchedInv'
    BY <2>7, SetPriorityStep, SetAcquireStep, ChangeStep
  <2> QED
    BY <2>1, <2>2, <2>3, <2>4, <2>5, <2>6, <2>7 DEF Next
<1> QED
  BY <1>1, InitInv, PTL DEF Spec

\* However scans, interrupts, fork(), exit() and setpriority() interleave on any number of
\* CPUs, a process is RUNNING exactly while one CPU, and only one, runs it.
THEOREM NeverOnTwoCpus == Spec => []OneCpuPerProcess
<1>1. SchedInv => OneCpuPerProcess
  <2> SUFFICES ASSUME SchedInv, NEW p \in Slot
               PROVE  /\ proc[p].state = "RUNNING" <=> \E c \in CPU : cpu[c].proc = p
                      /\ \A c, d \in CPU : cpu[c].proc = p /\ cpu[d].proc = p => c = d
    BY DEF OneCpuPerProcess
  <2>1. ASSUME NEW c \in CPU, cpu[c].proc = p PROVE proc[p].state = "RUNNING"
    BY <2>1, CpuFacts, Consts
  <2> QED
    BY <2>1, Consts DEF SchedInv, Alone
<1> QED
  BY <1>1, SchedulerInvariant, PTL

=============================================================================
