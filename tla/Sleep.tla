-------------------------------- MODULE Sleep --------------------------------
(***************************************************************************)
(* sleep(), wakeup() and kill() of kernel/proc.c, and the spinlocks they   *)
(* are called under.  The other kernel parts extend this module: a thread  *)
(* calls sleep() or wakeup() by Sleeping or Waking, which name the label   *)
(* to go on at.  A thread is a process or an interrupt handler that runs   *)
(* on another CPU; who runs when is not restricted.  A step ends where a   *)
(* lock is released or another thread may see what was written.            *)
(***************************************************************************)
EXTENDS Integers, FiniteSets

CONSTANTS
    NPROC,     \* proc[], slots 1 .. NPROC
    Handler,   \* interrupt handlers, negative numbers
    Spinlock,  \* the spinlocks other than p->lock
    Chan       \* wait channels

Proc == 1 .. NPROC
Thread == Proc \cup Handler
Nobody == 0

ASSUME SleepAssumption == NPROC \in Nat \ {0} /\ Handler \subseteq {-2, -1}

VARIABLES
    state,   \* p->state; RUNNABLE stands for RUNNING too
    chan,    \* p->chan, "none" for 0
    killed,  \* p->killed
    plock,   \* the thread that holds p->lock
    lock,    \* the thread that holds each other spinlock
    pc,
    fr       \* per thread, the arguments of the sleep() or wakeup() it is in

procs == <<state, chan, killed, plock>>
sleepVars == <<procs, lock, pc, fr>>

NoFrame == [chan |-> "none", lk |-> "none", ret |-> "none", next |-> 0]

SleepInit ==
    /\ chan = [p \in Proc |-> "none"]
    /\ killed = [p \in Proc |-> FALSE]
    /\ plock = [p \in Proc |-> Nobody]
    /\ lock = [l \in Spinlock |-> Nobody]
    /\ fr = [t \in Thread |-> NoFrame]

\* How the callers use it.  A step that is neither of these leaves fr alone.
Acquire(t, l) == lock[l] = Nobody /\ lock' = [lock EXCEPT ![l] = t]
Release(t, l) == lock' = [lock EXCEPT ![l] = Nobody]
Goto(t, label) == pc' = [pc EXCEPT ![t] = label]
Jump(t, label) == Goto(t, label) /\ UNCHANGED fr

Sleeping(t, c, l, ret) ==
    /\ Goto(t, "sleep")
    /\ fr' = [fr EXCEPT ![t] = [chan |-> c, lk |-> l, ret |-> ret, next |-> 0]]

Waking(t, c, ret) ==
    /\ Goto(t, "wakeup")
    /\ fr' = [fr EXCEPT ![t] = [chan |-> c, lk |-> "none", ret |-> ret, next |-> 1]]

-----------------------------------------------------------------------------
(* sleep() *)

\* Mutation: p->lock is not taken before lk is released.
sleep_no_plock(p) ==
    /\ pc[p] = "sleep"
    /\ Jump(p, "sleep_lk")
    /\ UNCHANGED <<procs, lock>>

sleep(p) ==
    /\ pc[p] = "sleep"
    /\ plock[p] = Nobody
    /\ plock' = [plock EXCEPT ![p] = p]
    /\ Jump(p, "sleep_lk")
    /\ UNCHANGED <<state, chan, killed, lock>>

sleep_release(p) ==
    /\ pc[p] = "sleep_lk"
    /\ Release(p, fr[p].lk)
    /\ Jump(p, "sleep_sched")
    /\ UNCHANGED procs

\* chan and state are set and the scheduler releases p->lock.
sleep_sched(p) ==
    /\ pc[p] = "sleep_sched"
    /\ chan' = [chan EXCEPT ![p] = fr[p].chan]
    /\ state' = [state EXCEPT ![p] = "SLEEPING"]
    /\ plock' = [plock EXCEPT ![p] = Nobody]
    /\ Jump(p, "asleep")
    /\ UNCHANGED <<killed, lock>>

\* Scheduled again: tidy up and release p->lock.
sleep_back(p) ==
    /\ pc[p] = "asleep"
    /\ state[p] = "RUNNABLE"
    /\ plock[p] = Nobody
    /\ chan' = [chan EXCEPT ![p] = "none"]
    /\ Jump(p, "sleep_lock")
    /\ UNCHANGED <<state, killed, plock, lock>>

sleep_reacquire(p) ==
    /\ pc[p] = "sleep_lock"
    /\ Acquire(p, fr[p].lk)
    /\ Goto(p, fr[p].ret)
    /\ fr' = [fr EXCEPT ![p] = NoFrame]
    /\ UNCHANGED procs

-----------------------------------------------------------------------------
(* wakeup(): one process at a time, under its lock *)

Wakes(t, q) == q # t /\ state[q] = "SLEEPING" /\ chan[q] = fr[t].chan

\* The processes the loop still has something to do for, or has to wait for.  Of the
\* others none can come to sleep on this channel: the caller holds the lock for that.
ToVisit(t) == {q \in fr[t].next .. NPROC : q # t /\ (plock[q] # Nobody \/ Wakes(t, q))}

wakeup(t) ==
    /\ pc[t] = "wakeup"
    /\ \/ \E q \in ToVisit(t) :
            /\ \A r \in ToVisit(t) : q <= r
            /\ plock[q] = Nobody
            /\ state' = [state EXCEPT ![q] = "RUNNABLE"]
            /\ fr' = [fr EXCEPT ![t].next = q + 1]
            /\ UNCHANGED pc
       \/ /\ ToVisit(t) = {}
          /\ Goto(t, fr[t].ret)
          /\ fr' = [fr EXCEPT ![t] = NoFrame]
          /\ UNCHANGED state
    /\ UNCHANGED <<chan, killed, plock, lock>>

-----------------------------------------------------------------------------
(* kill() finds the process by its pid and holds its lock. *)

kill(q) ==
    /\ plock[q] = Nobody
    /\ killed' = [killed EXCEPT ![q] = TRUE]
    /\ state' = [state EXCEPT ![q] = IF @ = "SLEEPING" THEN "RUNNABLE" ELSE @]
    /\ UNCHANGED <<chan, plock, lock>>

SleepStep(p) ==
    \/ sleep(p) \/ sleep_release(p) \/ sleep_sched(p) \/ sleep_back(p) \/ sleep_reacquire(p)

-----------------------------------------------------------------------------
\* t will still look at p in the wakeup(c) it is in.
WillWake(t, c, p) == pc[t] = "wakeup" /\ fr[t].chan = c /\ fr[t].next <= p /\ t # p

Asleep(p, c) == state[p] = "SLEEPING" /\ chan[p] = c

SleepTypeOK ==
    /\ state \in [Proc -> {"UNUSED", "USED", "SLEEPING", "RUNNABLE", "ZOMBIE"}]
    /\ chan \in [Proc -> Chan \cup {"none"}]
    /\ killed \in [Proc -> BOOLEAN]
    /\ plock \in [Proc -> Proc \cup {Nobody}]
    /\ lock \in [Spinlock -> Thread \cup {Nobody}]
    /\ DOMAIN pc = Thread
    /\ \A t \in Thread : fr[t].chan \in Chan \cup {"none"} /\ fr[t].next \in 0 .. NPROC + 1
=============================================================================
