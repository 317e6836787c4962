------------------------------ MODULE SleepLock ------------------------------
(***************************************************************************)
(* Sleep locks (kernel/sleeplock.c): long-term locks a process sleeps for. *)
(* A sleep lock l has a spinlock of the same name, lk->lk, and is its own  *)
(* wait channel.                                                           *)
(***************************************************************************)
EXTENDS CondVar

CONSTANT Slock   \* the sleep locks

ASSUME SlockAssumption == Slock \subseteq Spinlock /\ Slock \subseteq Chan

VARIABLE holder   \* lk->locked and lk->pid: the process that has the lock, or Nobody

initsleeplock == holder = [l \in Slock |-> Nobody]

\* acquiresleep(): take the lock, or sleep for it and come back to the label again,
\* with lk->lk held.
acquiresleep(p, l, first, again, ret) ==
    /\ \/ pc[p] = first /\ Free(l)
       \/ pc[p] = again
    /\ \/ /\ holder[l] = Nobody
          /\ holder' = [holder EXCEPT ![l] = p]
          /\ Release(p, l)
          /\ Goto(p, ret)
          /\ UNCHANGED <<chan, back>>
       \/ /\ holder[l] # Nobody
          /\ sleep(p, l, l, again)
          /\ UNCHANGED holder
    /\ UNCHANGED killed

releasesleep(p, l, ret) ==
    /\ Free(l)
    /\ holder' = [holder EXCEPT ![l] = Nobody]
    /\ wakeup(l)
    /\ Goto(p, ret)
    /\ UNCHANGED <<killed, lock, back>>
=============================================================================
