-------------------------------- MODULE Bio --------------------------------
(***************************************************************************)
(* The buffer cache (kernel/bio.c) over the disk driver.  A process makes  *)
(* the calls the file system and the log make: read a block, write it      *)
(* through, log it (change it, pin the buffer: log_write()), install it    *)
(* (write the pinned buffer home, unpin it: install_trans()).  bcache.lock *)
(* is held within one step.  Any process may be killed while it waits.     *)
(***************************************************************************)
EXTENDS VirtioDisk, SequencesExt

CONSTANTS
    LockOf,      \* the sleep lock of each buffer
    BootCache,   \* the block each buffer holds initially
    BootOrder,   \* the buffers, the most recently used one first
    Plan,        \* bound: per process, the calls it makes, as <<operation, block>>
    Killable,    \* bound: the processes that may be killed
    MaxPinned    \* bound: blocks logged at a time

ASSUME BioAssumption ==
    /\ Handler = {-1} /\ DOMAIN LockOf = Buf /\ Slock = Range(LockOf)
    /\ BootCache \in [Buf -> Block] /\ Range(BootOrder) = Buf
    /\ Cardinality(Buf) >= NPROC + MaxPinned   \* param.h: NBUF is 3 * MAXOPBLOCKS

VARIABLES
    lru,     \* bcache.head's list: the most recently used buffer first
    pinned,  \* the blocks the log has pinned
    call,    \* per process: the call and the buffer it is about
    todo     \* per process: the calls still to be made

bioVars == <<lru, pinned, call, todo>>
vars == <<condVars, holder, diskVars, bioVars>>

NoCall == [op |-> "none", b |-> "none"]

\* binit(), and then some blocks have been read.  A block contains its own number.
Init ==
    /\ CondInit /\ initsleeplock /\ virtio_disk_init
    /\ pc = [t \in Thread |-> IF t \in Handler THEN "idle" ELSE "user"]
    /\ dev = [data |-> [n \in Block |-> n], next |-> avail.idx, work |-> {}, irq |-> FALSE]
    /\ buf = [b \in Buf |-> [blockno |-> BootCache[b], valid |-> TRUE, refcnt |-> 0,
                             data |-> BootCache[b], disk |-> FALSE]]
    /\ lru = BootOrder
    /\ pinned = {}
    /\ call = [p \in Proc |-> NoCall]
    /\ todo \in Plan

-----------------------------------------------------------------------------

Cached(n) == {b \in Buf : buf[b].blockno = n}
Unused == {i \in DOMAIN lru : buf[lru[i]].refcnt = 0}

\* What log_write() and install_trans() allow: a logged block stays pinned until installed.
MayCall(op, n) ==
    CASE op = "log" -> n \in pinned \/ Cardinality(pinned) < MaxPinned
      [] op = "install" -> n \in pinned /\ \A q \in Proc : call[q].op # "install"
      [] op = "write" -> n \notin pinned
      [] OTHER -> TRUE

\* bget() under bcache.lock: the block's buffer, or the least recently used one that
\* nobody uses is recycled.  (Without such a buffer bget() panics: see BuffersCounted.)
bget(p) ==
    /\ pc[p] = "user" /\ todo[p] # <<>>
    /\ todo' = [todo EXCEPT ![p] = Tail(@)]
    /\ LET op == todo[p][1][1]  n == todo[p][1][2] IN
        /\ MayCall(op, n)
        /\ \/ \E b \in Cached(n) :
                /\ buf' = [buf EXCEPT ![b].refcnt = @ + 1]
                /\ call' = [call EXCEPT ![p] = [op |-> op, b |-> b]]
           \/ /\ Cached(n) = {} /\ Unused # {}
              /\ LET b == lru[Max(Unused)] IN
                 /\ buf' = [buf EXCEPT ![b] = [@ EXCEPT !.blockno = n, !.valid = FALSE, !.refcnt = 1]]
                 /\ call' = [call EXCEPT ![p] = [op |-> op, b |-> b]]
    /\ Quiet(p, "bget")
    /\ UNCHANGED <<holder, desc, req, avail, used, used_idx, dev, rw, lru, pinned>>

\* ... and then sleeps for the buffer's lock.
bget_lock(p) ==
    /\ acquiresleep(p, LockOf[call[p].b], "bget", "bget_again", "bread")
    /\ UNCHANGED <<diskVars, bioVars>>

\* Who only reads has nothing more to do with the buffer.
Use(p) == IF call[p].op = "read" THEN "brelse" ELSE "use"

bread(p) ==
    LET b == call[p].b IN
    /\ pc[p] = "bread"
    /\ IF buf[b].valid THEN Quiet(p, Use(p)) /\ UNCHANGED rw
                       ELSE Call_virtio_disk_rw(p, b, FALSE, "bread_valid")
    /\ UNCHANGED <<holder, buf, desc, req, avail, used, used_idx, dev, bioVars>>

bread_valid(p) ==
    /\ pc[p] = "bread_valid"
    /\ buf' = [buf EXCEPT ![call[p].b].valid = TRUE]
    /\ Quiet(p, Use(p))
    /\ UNCHANGED <<holder, desc, req, avail, used, used_idx, dev, rw, bioVars>>

-----------------------------------------------------------------------------
(* What the callers do with the buffer *)

\* Mutation: the log does not pin the buffer.
bpin_none(p) ==
    LET b == call[p].b IN
    /\ pc[p] = "use" /\ call[p].op = "log"
    /\ pinned' = pinned \cup {buf[b].blockno}
    /\ buf' = [buf EXCEPT ![b].data = -p]
    /\ Quiet(p, "brelse")
    /\ UNCHANGED <<holder, desc, req, avail, used, used_idx, dev, rw, lru, call, todo>>

\* The block is changed and, unless it is logged already, its buffer pinned.
bpin(p) ==
    LET b == call[p].b IN
    /\ pc[p] = "use" /\ call[p].op = "log"
    /\ pinned' = pinned \cup {buf[b].blockno}
    /\ buf' = [buf EXCEPT ![b].data = -p,
                          ![b].refcnt = IF buf[b].blockno \in pinned THEN @ ELSE @ + 1]
    /\ Quiet(p, "brelse")
    /\ UNCHANGED <<holder, desc, req, avail, used, used_idx, dev, rw, lru, call, todo>>

bunpin(p) ==
    LET b == call[p].b IN
    /\ pc[p] = "bunpin"
    /\ pinned' = pinned \ {buf[b].blockno}
    /\ buf' = [buf EXCEPT ![b].refcnt = @ - 1]
    /\ Quiet(p, "brelse")
    /\ UNCHANGED <<holder, desc, req, avail, used, used_idx, dev, rw, lru, call, todo>>

\* bwrite() after a change, or of the pinned contents.
bwrite(p) ==
    LET b == call[p].b  inst == call[p].op = "install" IN
    /\ pc[p] = "use" /\ call[p].op \in {"write", "install"}
    /\ buf' = [buf EXCEPT ![b].data = IF inst THEN @ ELSE -p]
    /\ Call_virtio_disk_rw(p, b, TRUE, IF inst THEN "bunpin" ELSE "brelse")
    /\ UNCHANGED <<holder, desc, req, avail, used, used_idx, dev, bioVars>>

-----------------------------------------------------------------------------
(* brelse() *)

brelse(p) ==
    /\ pc[p] = "brelse"
    /\ releasesleep(p, LockOf[call[p].b], "brelse_ref")
    /\ UNCHANGED <<diskVars, bioVars>>

\* Under bcache.lock: a buffer nobody uses any more is now the most recently used one.
brelse_ref(p) ==
    LET b == call[p].b IN
    /\ pc[p] = "brelse_ref"
    /\ buf' = [buf EXCEPT ![b].refcnt = @ - 1]
    /\ lru' = IF buf[b].refcnt = 1 THEN <<b>> \o SelectSeq(lru, LAMBDA x : x # b) ELSE lru
    /\ call' = [call EXCEPT ![p] = NoCall]
    /\ Quiet(p, "user")
    /\ UNCHANGED <<holder, desc, req, avail, used, used_idx, dev, rw, pinned, todo>>

sys_kill(q) ==
    /\ pc[q] = "asleep" /\ ~killed[q] /\ kill(q)
    /\ UNCHANGED <<holder, diskVars, bioVars>>

-----------------------------------------------------------------------------
Step(p) ==
    \/ Awakes(p) /\ UNCHANGED <<holder, diskVars, bioVars>>
    \/ RwStep(p) /\ UNCHANGED <<holder, bioVars>>
    \/ bget_lock(p) \/ bread(p) \/ bread_valid(p) \/ bpin(p) \/ bunpin(p) \/ bwrite(p)
    \/ brelse(p) \/ brelse_ref(p)

Interrupt(h) ==
    (virtio_disk_intr(h) \/ intr_next(h) \/ intr_done(h)) /\ UNCHANGED <<holder, bioVars>>

Next == \/ \E p \in Proc : bget(p) \/ Step(p)
        \/ \E h \in Handler : Interrupt(h)
        \/ device_finish /\ UNCHANGED bioVars
        \/ \E q \in Killable : sys_kill(q)

\* Nothing is assumed but that the system does not stop while there is something to do.
Spec == Init /\ [][Next]_vars /\ WF_vars(Next)

-----------------------------------------------------------------------------
(* Properties *)

TypeOK ==
    /\ CondTypeOK
    /\ holder \in [Slock -> Proc \cup {Nobody}]
    /\ buf \in [Buf -> [blockno : Block \cup {0}, valid : BOOLEAN, refcnt : 0 .. NPROC + 1,
                        data : Value, disk : BOOLEAN]]
    /\ desc \in [Desc -> [free : BOOLEAN, next : Desc \cup {-1}]]
    /\ {avail.idx, used.idx, used_idx, dev.next} \subseteq 0 .. IdxMod - 1
    /\ Range(lru) = Buf /\ Len(lru) = Cardinality(Buf)

Users(b) == {p \in Proc : call[p].b = b}


Posted == {h \in Desc : req[h].b # "none"}

\* A descriptor is free or in the chain of one request; the device and the interrupt
\* handler meet only requests whose descriptors are still allocated and whose buffer is
\* still the device's: the panics of free_desc() and virtio_disk_intr() do not happen.
DescriptorsAccounted ==
    /\ \A h \in Posted : \A d \in Chain(h) :
            ~desc[d].free /\ \A g \in Posted \ {h} : d \notin Chain(g)
    /\ Cardinality(FreeDesc) = NUM - 3 * Cardinality(Posted)
    /\ \A h \in dev.work : h \in Posted /\ req[h].status = 255 /\ buf[req[h].b].disk
    /\ used_idx # used.idx =>
            LET id == used.ring[used_idx % NUM] IN
            id \in Posted /\ req[id].status = 0 /\ buf[req[id].b].disk

User(n) == LET C == {b \in Cached(n) : holder[LockOf[b]] # Nobody}
           IN  IF C = {} THEN 0 ELSE holder[LockOf[CHOOSE b \in C : TRUE]]

Val(n) == LET C == {b \in Cached(n) : buf[b].valid}
          IN  IF C = {} THEN dev.data[n] ELSE buf[CHOOSE b \in C : TRUE].data

Blocks == INSTANCE BlockArray WITH user <- [n \in Block |-> User(n)],
                                  val <- [n \in Block |-> Val(n)]

\* Seen through bread() and brelse(), with buffers recycled, requests finished in any
\* order and processes killed in their sleep, the cache is an array of blocks, each
\* changed by its holder only.
ImplementsBlocks == Blocks!Spec

\* In the end every call has been made and has returned: no request is forgotten, nobody
\* sleeps for ever for a lock that is free, for a finished request or for descriptors.
CallsReturn == <>[](\A p \in Proc : pc[p] = "user" /\ todo[p] = <<>>)
=============================================================================
