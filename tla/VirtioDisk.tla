----------------------------- MODULE VirtioDisk -----------------------------
(***************************************************************************)
(* The disk driver (kernel/virtio_disk.c): three descriptors per request,  *)
(* a ring of posted requests, a ring of finished ones, and the interrupt   *)
(* handler.  The device (external) finishes the posted requests in any     *)
(* order.  vdisk_lock is the spinlock "vdisk", &disk.free[0] the channel   *)
(* "free"; a process waits for its request on its buffer.                  *)
(***************************************************************************)
EXTENDS SleepLock, Sequences, FiniteSetsExt

CONSTANTS
    NUM,       \* descriptors
    IdxMod,    \* the ring indices are taken modulo this, the code's 2^16
    Buf,       \* the buffers
    Block, Value

ASSUME VirtioAssumption ==
    NUM \in Nat \ {0} /\ IdxMod % NUM = 0 /\ IdxMod > 0 /\ {"free"} \cup Buf \subseteq Chan
    /\ "vdisk" \in Spinlock

VARIABLES
    buf,     \* per buffer: blockno, valid, refcnt, data and disk (the device owns it)
    desc,    \* per descriptor: free, and the next one of its chain, or -1
    req,     \* per head of a chain: what ops and the data descriptor say, and info's b and status
    avail, used, used_idx,   \* the rings, each with its idx, and how far used has been looked at
    dev,     \* external: per block the contents, next avail entry, requests in work, irq line
    rw       \* per process, the arguments and locals of virtio_disk_rw()

Desc == 0 .. NUM - 1
NoReq == [write |-> FALSE, blockno |-> 0, b |-> "none", status |-> 0]
NoRw == [b |-> "none", write |-> FALSE, idx |-> 0, ret |-> "none"]
diskVars == <<buf, desc, req, avail, used, used_idx, dev, rw>>

\* All descriptors are free; the indices are about to wrap around.
virtio_disk_init ==
    /\ desc = [d \in Desc |-> [free |-> TRUE, next |-> -1]]
    /\ req = [d \in Desc |-> NoReq]
    /\ avail = [ring |-> [i \in Desc |-> 0], idx |-> IdxMod - 1]
    /\ used = avail
    /\ used_idx = IdxMod - 1
    /\ rw = [p \in Proc |-> NoRw]

Call_virtio_disk_rw(p, b, write, ret) ==
    /\ rw' = [rw EXCEPT ![p] = [b |-> b, write |-> write, idx |-> 0, ret |-> ret]]
    /\ Quiet(p, "rw")

-----------------------------------------------------------------------------
FreeDesc == {d \in Desc : desc[d].free}

\* alloc_desc() takes the first free descriptor, three times.
alloc3_desc == LET i == Min(FreeDesc)  j == Min(FreeDesc \ {i})
               IN  <<i, j, Min(FreeDesc \ {i, j})>>

\* The chain that starts at d, by its next links.
Chain(d) == LET e == desc[d].next IN {d, e, desc[e].next}

\* p has vdisk_lock in the loop that allocates: it comes to virtio_disk_rw(), or was woken.
Allocates(p) == (pc[p] = "rw" /\ Free("vdisk")) \/ pc[p] = "rw_alloc"

\* Three descriptors: fill them in, hand the buffer to the device, post the request and
\* wait for its end.
virtio_disk_rw(p) ==
    LET b == rw[p].b  idx == alloc3_desc IN
    /\ Allocates(p) /\ Cardinality(FreeDesc) >= 3
    /\ desc' = [desc EXCEPT ![idx[1]] = [free |-> FALSE, next |-> idx[2]],
                            ![idx[2]] = [free |-> FALSE, next |-> idx[3]],
                            ![idx[3]] = [free |-> FALSE, next |-> -1]]
    /\ req' = [req EXCEPT ![idx[1]] = [write |-> rw[p].write, blockno |-> buf[b].blockno,
                                       b |-> b, status |-> 255]]
    /\ buf' = [buf EXCEPT ![b].disk = TRUE]
    /\ avail' = [ring |-> [avail.ring EXCEPT ![avail.idx % NUM] = idx[1]],
                 idx |-> (avail.idx + 1) % IdxMod]
    /\ rw' = [rw EXCEPT ![p].idx = idx[1]]
    /\ sleep(p, b, "vdisk", "rw_wait")
    /\ UNCHANGED <<killed, used, used_idx, dev>>

\* Too few: those that were got are freed again, which wakes whoever else waits for
\* some, and the process waits for more.
alloc3_desc_fails(p) ==
    /\ Allocates(p) /\ Cardinality(FreeDesc) < 3
    /\ chan' = [q \in Proc |-> IF q = p THEN "free"
                               ELSE IF FreeDesc # {} /\ chan[q] = "free" THEN "none" ELSE chan[q]]
    /\ back' = [back EXCEPT ![p] = [lk |-> "vdisk", ret |-> "rw_alloc"]]
    /\ Release(p, "vdisk")
    /\ Goto(p, "asleep")
    /\ UNCHANGED <<killed, diskVars>>

rw_wait(p) ==
    /\ pc[p] = "rw_wait" /\ buf[rw[p].b].disk
    /\ sleep(p, rw[p].b, "vdisk", "rw_wait")
    /\ UNCHANGED <<killed, diskVars>>

\* Mutation: a killed process does not wait for the end of its request.
rw_free_killed(p) ==
    /\ pc[p] = "rw_wait" /\ (~buf[rw[p].b].disk \/ killed[p])
    /\ desc' = [d \in Desc |-> IF d \in Chain(rw[p].idx) THEN [free |-> TRUE, next |-> -1]
                                                         ELSE desc[d]]
    /\ req' = [req EXCEPT ![rw[p].idx] = NoReq]
    /\ wakeup("free")
    /\ Release(p, "vdisk")
    /\ Goto(p, rw[p].ret)
    /\ rw' = [rw EXCEPT ![p] = NoRw]
    /\ UNCHANGED <<killed, back, buf, avail, used, used_idx, dev>>

\* The request is finished: free_chain(), which wakes those short of descriptors.
rw_free(p) ==
    /\ pc[p] = "rw_wait" /\ ~buf[rw[p].b].disk
    /\ desc' = [d \in Desc |-> IF d \in Chain(rw[p].idx) THEN [free |-> TRUE, next |-> -1]
                                                         ELSE desc[d]]
    /\ req' = [req EXCEPT ![rw[p].idx] = NoReq]
    /\ wakeup("free")
    /\ Release(p, "vdisk")
    /\ Goto(p, rw[p].ret)
    /\ rw' = [rw EXCEPT ![p] = NoRw]
    /\ UNCHANGED <<killed, back, buf, avail, used, used_idx, dev>>

-----------------------------------------------------------------------------
(* The device *)

\* The entries of the avail ring from dev.next on are new to the device.
device_fetch == {avail.ring[(dev.next + k) % NUM] : k \in 0 .. ((avail.idx - dev.next) % IdxMod) - 1}

\* Take in what has been posted and finish one request: transfer the block, write the status, add the request to the used ring, interrupt.
device_finish ==
    \E h \in dev.work \cup device_fetch :
        LET r == req[h] IN
        /\ dev' = [dev EXCEPT !.work = (@ \cup device_fetch) \ {h},
                              !.next = avail.idx, !.irq = TRUE,
                              !.data[r.blockno] = IF r.write THEN buf[r.b].data ELSE @]
        /\ buf' = IF r.write THEN buf ELSE [buf EXCEPT ![r.b].data = dev.data[r.blockno]]
        /\ req' = [req EXCEPT ![h].status = 0]
        /\ used' = [ring |-> [used.ring EXCEPT ![used.idx % NUM] = h],
                    idx |-> (used.idx + 1) % IdxMod]
        /\ UNCHANGED <<condVars, holder, desc, avail, used_idx, rw>>

-----------------------------------------------------------------------------
(* virtio_disk_intr(), of handler h *)

virtio_disk_intr(h) ==
    /\ pc[h] = "idle" /\ dev.irq /\ Acquire(h, "vdisk")
    /\ dev' = [dev EXCEPT !.irq = FALSE]
    /\ Goto(h, "intr")
    /\ UNCHANGED <<chan, killed, back, buf, desc, req, avail, used, used_idx, rw>>

\* Mutation: one finished request per interrupt.
intr_next_one(h) ==
    LET id == used.ring[used_idx % NUM] IN
    /\ pc[h] = "intr" /\ used_idx # used.idx
    /\ buf' = [buf EXCEPT ![req[id].b].disk = FALSE]
    /\ used_idx' = (used_idx + 1) % IdxMod
    /\ wakeup(req[id].b)
    /\ Release(h, "vdisk")
    /\ Goto(h, "idle")
    /\ UNCHANGED <<killed, back, desc, req, avail, used, dev, rw>>

\* The next finished request: its buffer belongs to the kernel again.
intr_next(h) ==
    LET id == used.ring[used_idx % NUM] IN
    /\ pc[h] = "intr" /\ used_idx # used.idx
    /\ buf' = [buf EXCEPT ![req[id].b].disk = FALSE]
    /\ used_idx' = (used_idx + 1) % IdxMod
    /\ wakeup(req[id].b)
    /\ UNCHANGED <<killed, lock, pc, back, desc, req, avail, used, dev, rw>>

intr_done(h) ==
    /\ pc[h] = "intr" /\ used_idx = used.idx
    /\ Release(h, "vdisk")
    /\ Goto(h, "idle")
    /\ UNCHANGED <<chan, killed, back, diskVars>>

RwStep(p) == virtio_disk_rw(p) \/ alloc3_desc_fails(p) \/ rw_wait(p) \/ rw_free(p)
=============================================================================
