------------------------------ MODULE CondVar ------------------------------
(***************************************************************************)
(* sleep() and wakeup() of kernel/proc.c as their callers see them: sleep  *)
(* releases the lock and sleeps in one step, and wakeup wakes all sleepers *)
(* of a channel in one step.  ProcLife takes both apart and checks that    *)
(* this is what they amount to (SleepIsAtomic).  A thread is a process or  *)
(* an interrupt handler; a critical section in which nothing else can be   *)
(* observed is one step, which the lock being free guards.                 *)
(***************************************************************************)
EXTENDS Integers, FiniteSets

CONSTANTS NPROC, Handler, Spinlock, Chan

Proc == 1 .. NPROC
Thread == Proc \cup Handler
Nobody == 0

ASSUME CondVarAssumption == NPROC \in Nat \ {0} /\ Handler \subseteq {-2, -1}

VARIABLES
    chan,    \* p->chan while p is SLEEPING, else "none"
    killed,  \* p->killed
    lock,    \* the thread that holds each spinlock
    pc,
    back     \* of a process in sleep(): the lock and where to go on

condVars == <<chan, killed, lock, pc, back>>

NotAsleep == [lk |-> "none", ret |-> "none"]

CondInit ==
    /\ chan = [p \in Proc |-> "none"]
    /\ killed = [p \in Proc |-> FALSE]
    /\ lock = [l \in Spinlock |-> Nobody]
    /\ back = [p \in Proc |-> NotAsleep]

Free(l) == lock[l] = Nobody
Acquire(t, l) == Free(l) /\ lock' = [lock EXCEPT ![l] = t]
Release(t, l) == lock' = [lock EXCEPT ![l] = Nobody]
Goto(t, label) == pc' = [pc EXCEPT ![t] = label]

\* A thread that goes on at label without sleeping, waking anybody or using a lock.
Quiet(t, label) == Goto(t, label) /\ UNCHANGED <<chan, killed, lock, back>>

sleep(p, c, l, ret) ==
    /\ chan' = [chan EXCEPT ![p] = c]
    /\ back' = [back EXCEPT ![p] = [lk |-> l, ret |-> ret]]
    /\ Release(p, l)
    /\ Goto(p, "asleep")

wakeup(c) == chan' = [p \in Proc |-> IF chan[p] = c THEN "none" ELSE chan[p]]

\* A process that was woken takes its lock again and returns from sleep().
Awakes(p) ==
    /\ pc[p] = "asleep" /\ chan[p] = "none"
    /\ Acquire(p, back[p].lk)
    /\ Goto(p, back[p].ret)
    /\ back' = [back EXCEPT ![p] = NotAsleep]
    /\ UNCHANGED <<chan, killed>>

kill(q) ==
    /\ killed' = [killed EXCEPT ![q] = TRUE]
    /\ chan' = [chan EXCEPT ![q] = "none"]
    /\ UNCHANGED <<lock, pc, back>>

CondTypeOK ==
    /\ chan \in [Proc -> Chan \cup {"none"}]
    /\ killed \in [Proc -> BOOLEAN]
    /\ lock \in [Spinlock -> Thread \cup {Nobody}]
    /\ DOMAIN pc = Thread
=============================================================================
