------------------------------ MODULE LogProof ------------------------------
(***************************************************************************)
(* LogInv is an invariant of Log and Log implements AtomicDisk, for any    *)
(* number of processes, blocks, calls and crashes: what is on disk always  *)
(* recovers to the state after a commit, calls that have returned are on   *)
(* it, and who sleeps in begin_op() has somebody to wake it.               *)
(***************************************************************************)
EXTENDS LogSteps

USE SMTT(30)

\* Reading a block into the cache, or recycling its buffer, changes what nobody sees.
LEMMA CacheStep ==
    ASSUME LogInv, NEW b \in Block, bread(b) \/ bget(b)
    PROVE  /\ LogInv' /\ \A c \in Block : Contents(c)' = Contents(c)
<1>1. /\ mode = "up"
      /\ UNCHANGED <<home, slot, head, lh, outstanding, committing, pc, tail, mode>>
  BY DEF bread, bget, disk, log
<1>2. PICK v \in {None, home[b]} : cache' = [cache EXCEPT ![b] = v]
  BY DEF bread, bget
<1>3. home[b] \in Value /\ None \notin Value
  BY Consts DEF LogInv, Types
<1>4. /\ cache' \in [Block -> Value \cup {None}]
      /\ \A c \in Block : cache'[c] = IF c = b THEN v ELSE cache[c]
  BY <1>2, <1>3 DEF LogInv, Types
<1>5. Clean(b)
  <2>1. CASE bread(b)
    BY <2>1 DEF bread, Clean
  <2>2. CASE bget(b)
    <3>1. ~Pinned(b)
      BY <2>2 DEF bget
    <3>2. CASE ~In(lh, b)
      BY <3>2, <1>1 DEF LogInv, Running
    <3>3. CASE In(lh, b)
      <4>1. PICK i \in 1 .. Len(lh) : lh[i] = b
        BY <3>3 DEF In
      <4>2. i \in DOMAIN lh
        BY <4>1 DEF LogInv, Types
      <4>3. PICK p \in Proc : pc[p] = "install" /\ i < tail
        BY <3>1, <4>1, <4>2 DEF Pinned
      <4>4. slot[i] = Contents(b) /\ home[b] = slot[i]
        BY <1>1, <4>1, <4>3 DEF LogInv, Running
      <4> QED
        BY <4>4 DEF Contents, Clean
    <3> QED
      BY <3>2, <3>3
  <2> QED
    BY <2>1, <2>2
<1>6. \A c \in Block : /\ Contents(c)' = Contents(c)
                       /\ Clean(c) => Clean(c)'
  BY <1>1, <1>2, <1>3, <1>4, <1>5 DEF Contents, Clean
<1>7. Types' /\ Calls' /\ Recovering' /\ SleeperHasWaker'
  BY <1>1, <1>4 DEF LogInv, Types, Distinct, Calls, Ops, Committer, Recovering,
                    SleeperHasWaker, NoSpace
<1>8. Running'
  <2>1. \A c \in Block : ~In(lh, c) => Clean(c)'
    BY <1>1, <1>6 DEF LogInv, Running
  <2>2. \A i \in 1 .. Len(lh) : Contents(lh[i])' = Contents(lh[i])
    <3>1. \A i \in 1 .. Len(lh) : lh[i] \in Block
      BY DEF LogInv, Types
    <3>2. \A i \in 1 .. Len(lh) : lh'[i] = lh[i]
      BY <1>1
    <3> QED
      BY <1>1, <1>6, <3>1, <3>2 DEF Contents
  <2>3. \A c : In(lh, c)' <=> In(lh, c)
    BY <1>1 DEF In
  <2> QED
    BY <1>1, <2>1, <2>2, <2>3 DEF LogInv, Running
<1> QED
  BY <1>6, <1>7, <1>8 DEF LogInv

\* A crash loses everything but the disk.
LEMMA CrashStep == ASSUME LogInv, Crash PROVE LogInv'
<1>1. /\ mode' = "read_head" /\ cache' = [b \in Block |-> None] /\ lh' = <<>>
      /\ outstanding' = 0 /\ pc' = [p \in Proc |-> "idle"] /\ tail' = 1
      /\ UNCHANGED <<home, slot, head>>
  BY DEF Crash, disk
<1>2. committing' = FALSE
  BY DEF Crash
<1>3. ~committing' /\ committing' \in BOOLEAN
  BY <1>2, Zenon
<1>4. \A p \in Proc : pc'[p] = "idle"
  BY <1>1
<1>5. Types'
  <2>1. 0 <= nlog - 1 /\ cache' \in [Block -> Value \cup {None}]
    BY <1>1, Consts
  <2>2. Distinct(lh)' /\ Distinct(head)'
    BY <1>1, EmptyLog DEF Distinct, LogInv, Types
  <2> QED
    BY <1>1, <1>3, <2>1, <2>2, EmptyLog DEF LogInv, Types
<1>6. Ops' = {}
  BY <1>4 DEF Ops
<1>7. Calls' /\ SleeperHasWaker'
  BY <1>1, <1>3, <1>4, <1>6, FS_EmptySet DEF Calls, Committer, SleeperHasWaker
<1>8. Running' /\ Recovering'
  BY <1>1, <1>3, <1>4 DEF Running, Recovering, Clean
<1> QED
  BY <1>5, <1>7, <1>8 DEF LogInv

\* The three steps of initlog().
LEMMA RecoveryStep ==
    ASSUME LogInv, read_head \/ RecoverBlock \/ recover_from_log PROVE LogInv'
<1>1. CASE read_head
  <2>1. /\ mode = "read_head" /\ mode' = "recover" /\ lh' = head
        /\ UNCHANGED <<home, slot, head, cache, outstanding, committing, pc, tail>>
    BY <1>1 DEF read_head, disk
  <2>2. Types'
    BY <2>1 DEF LogInv, Types, Distinct
  <2>3. Calls' /\ Running' /\ SleeperHasWaker'
    BY <2>1 DEF LogInv, Calls, Ops, Committer, Running, Recovering, SleeperHasWaker
  <2>4. Recovering'
    BY <2>1 DEF LogInv, Recovering, Clean
  <2> QED
    BY <2>2, <2>3, <2>4 DEF LogInv
<1>2. CASE RecoverBlock
  <2>1. /\ mode = "recover" /\ tail <= Len(lh)
        /\ home' = [home EXCEPT ![lh[tail]] = slot[tail]]
        /\ cache' = [cache EXCEPT ![lh[tail]] = slot[tail]] /\ tail' = tail + 1
        /\ UNCHANGED <<slot, head, lh, outstanding, committing, pc, mode>>
    BY <1>2 DEF RecoverBlock, log
  <2>2. tail \in 1 .. Len(lh) /\ tail \in 1 .. nlog - 1 /\ lh[tail] \in Block /\ tail \in Nat
    BY <2>1, Consts DEF LogInv, Types
  <2>3. /\ home' \in [Block -> Value] /\ cache' \in [Block -> Value \cup {None}]
        /\ \A b \in Block : /\ home'[b] = IF b = lh[tail] THEN slot[tail] ELSE home[b]
                            /\ cache'[b] = IF b = lh[tail] THEN slot[tail] ELSE cache[b]
    BY <2>1, <2>2 DEF LogInv, Types
  <2>4. Types'
    BY <2>1, <2>2, <2>3 DEF LogInv, Types, Distinct
  <2>5. Calls' /\ Running' /\ SleeperHasWaker'
    BY <2>1 DEF LogInv, Calls, Ops, Committer, Running, Recovering, SleeperHasWaker
  <2>6. \A b \in Block : Clean(b)'
    BY <2>1, <2>3 DEF LogInv, Recovering, Clean
  <2>7. \A i \in 1 .. Len(lh) : i < tail + 1 => home'[lh[i]] = slot[i]
    <3> TAKE i \in 1 .. Len(lh)
    <3>1. lh[i] \in Block /\ (lh[i] = lh[tail] => i = tail) /\ i \in Nat
      BY <2>2 DEF LogInv, Types, Distinct
    <3>2. i < tail => home[lh[i]] = slot[i]
      BY <2>1 DEF LogInv, Recovering
    <3>3. i < tail + 1 => i < tail \/ i = tail
      BY <2>2, <3>1
    <3> QED
      BY <2>2, <2>3, <3>1, <3>2, <3>3
  <2>8. Recovering'
    BY <2>1, <2>6, <2>7 DEF LogInv, Recovering
  <2> QED
    BY <2>4, <2>5, <2>8 DEF LogInv
<1>3. CASE recover_from_log
  <2>1. /\ mode = "recover" /\ mode' = "up" /\ lh' = <<>> /\ head' = <<>>
        /\ UNCHANGED <<home, slot, cache, outstanding, committing, pc, tail>>
    BY <1>3 DEF recover_from_log
  <2>2. Types'
    <3>1. 0 <= nlog - 1
      BY Consts
    <3>2. Distinct(lh)' /\ Distinct(head)'
      BY <2>1, EmptyLog DEF Distinct
    <3> QED
      BY <2>1, <3>1, <3>2, EmptyLog DEF LogInv, Types
  <2>3. /\ (\A p \in Proc : pc[p] = "idle") /\ (\A b \in Block : Clean(b))
    BY <2>1 DEF LogInv, Recovering
  <2>4. Calls' /\ Recovering' /\ SleeperHasWaker'
    BY <2>1, <2>3 DEF LogInv, Calls, Ops, Committer, Recovering, SleeperHasWaker
  <2>5. Running'
    BY <2>1, <2>3 DEF Running, Clean
  <2> QED
    BY <2>2, <2>4, <2>5 DEF LogInv
<1> QED
  BY <1>1, <1>2, <1>3

-----------------------------------------------------------------------------
\* The invariant of the log is inductive.
THEOREM LogInvariant == Spec => []LogInv
<1>1. LogInv /\ [Next]_vars => LogInv'
  <2> SUFFICES ASSUME LogInv, [Next]_vars PROVE LogInv'
    OBVIOUS
  <2>1. CASE UNCHANGED vars
    <3>1. Types' /\ Calls'
      BY <2>1 DEF vars, LogInv, Types, Distinct, Calls, Ops, Committer
    <3>2. Running'
      BY <2>1 DEF vars, LogInv, Running, In, Clean, Contents
    <3>3. Recovering'
      BY <2>1 DEF vars, LogInv, Recovering, Clean
    <3>4. SleeperHasWaker'
      BY <2>1 DEF vars, LogInv, SleeperHasWaker, NoSpace
    <3> QED
      BY <3>1, <3>2, <3>3, <3>4 DEF LogInv
  <2>2. ASSUME NEW p \in Proc,
               Call(p) \/ begin_op(p) \/ end_op(p)
               \/ \E b \in Block, v \in Value : log_write(p, b, v)
        PROVE  LogInv'
    BY <2>2, CallStep, BeginStep, EndStep, LogWriteStep
  <2>3. ASSUME NEW p \in Proc,
               write_log(p) \/ write_head(p) \/ install_trans(p) \/ EraseLog(p) \/ Committed(p)
        PROVE  LogInv'
    BY <2>3, WriteLogStep, WriteHeadStep, InstallStep, EraseStep, CommittedStep
  <2>4. ASSUME NEW b \in Block, bread(b) \/ bget(b) PROVE LogInv'
    BY <2>4, CacheStep
  <2>5. CASE Crash \/ read_head \/ RecoverBlock \/ recover_from_log
    BY <2>5, CrashStep, RecoveryStep
  <2> QED
    BY <2>1, <2>2, <2>3, <2>4, <2>5 DEF Next
<1> QED
  BY <1>1, InitInv, PTL DEF Spec

\* Who sleeps in begin_op() has a commit or another call to wait for, with any number of
\* processes, blocks and crashes.
THEOREM SleepersAreWoken == Spec => []SleeperHasWaker
<1>1. LogInv => SleeperHasWaker
  BY DEF LogInv
<1> QED
  BY <1>1, LogInvariant, PTL

-----------------------------------------------------------------------------
(* Refinement of AtomicDisk *)

\* What recovery makes of header h, log blocks s and home blocks m.
Recovered(h, s, m) ==
    [b \in Block |-> IF b \in Range(h) THEN s[CHOOSE i \in DOMAIN h : h[i] = b] ELSE m[b]]

\* A block comes from its one log block, or from its home.
LEMMA RecoveredAt ==
    ASSUME NEW h \in Seq(Block), Distinct(h), NEW s, NEW m, NEW b \in Block
    PROVE  /\ ~In(h, b) => Recovered(h, s, m)[b] = m[b]
           /\ \A i \in 1 .. Len(h) : h[i] = b => Recovered(h, s, m)[b] = s[i]
<1>1. DOMAIN h = 1 .. Len(h)
  OBVIOUS
<1>2. ~In(h, b) => Recovered(h, s, m)[b] = m[b]
  BY RangeIn DEF Recovered
<1>3. ASSUME NEW i \in 1 .. Len(h), h[i] = b PROVE Recovered(h, s, m)[b] = s[i]
  <2>1. In(h, b)
    BY <1>3 DEF In
  <2>2. b \in Range(h)
    BY <2>1, RangeIn
  <2> DEFINE j == CHOOSE k \in DOMAIN h : h[k] = b
  <2>3. j \in DOMAIN h /\ h[j] = b
    BY <1>1, <1>3
  <2>4. j = i
    BY <1>1, <1>3, <2>3 DEF Distinct
  <2>5. Recovered(h, s, m)[b] = s[j]
    BY <2>2 DEF Recovered
  <2> HIDE DEF j
  <2> QED
    BY <2>4, <2>5
<1> QED
  BY <1>2, <1>3

\* What the disk recovers to, in terms of the invariant.
LEMMA DurableIs ==
    ASSUME LogInv
    PROVE  /\ Durable = Recovered(head, slot, home)
           /\ \A b \in Block : ~In(head, b) => Durable[b] = home[b]
           /\ \A i \in 1 .. Len(head) : Durable[head[i]] = slot[i]
<1>1. Durable = Recovered(head, slot, home)
  BY DEF Durable, Recovered
<1>2. head \in Seq(Block) /\ Distinct(head) /\ \A i \in 1 .. Len(head) : head[i] \in Block
  BY DEF LogInv, Types
<1> QED
  BY <1>1, <1>2, RecoveredAt

\* The same of the next state.
LEMMA DurableWillBe ==
    ASSUME LogInv'
    PROVE  /\ Durable' = Recovered(head', slot', home')
           /\ \A b \in Block : ~In(head', b) => Durable'[b] = home'[b]
           /\ \A i \in 1 .. Len(head') : Durable'[head'[i]] = slot'[i]
<1>1. Durable' = Recovered(head', slot', home')
  BY DEF Durable, Recovered
<1>2. head' \in Seq(Block) /\ Distinct(head') /\ \A i \in 1 .. Len(head') : head'[i] \in Block
  BY DEF LogInv, Types, Distinct
<1> QED
  BY <1>1, <1>2, RecoveredAt

\* What calls see changes with the contents only, and the disk with what recovery reads.
Seen == [b \in Block |-> Contents(b)]

\* A disk that is not written recovers to the same.
LEMMA SameDisk == ASSUME UNCHANGED <<home, slot, head>> PROVE Durable' = Durable
BY DEF Durable

\* Calls on a running machine see the cached blocks.
LEMMA SeenUp ==
    /\ mode \in {"up", "panic"} => Current = Seen
    /\ mode' \in {"up", "panic"} => Current' = Seen'
    /\ mode \in {"read_head", "recover"} => Current = Durable
    /\ mode' \in {"read_head", "recover"} => Current' = Durable'
BY DEF Current, Seen

\* The steps that neither calls nor a crash can notice.
LEMMA QuietSteps ==
    ASSUME LogInv, LogInv', NEW p \in Proc,
           Call(p) \/ write_log(p) \/ install_trans(p) \/ EraseLog(p) \/ Committed(p)
    PROVE  Current' = Current /\ Durable' = Durable /\ Ops' = Ops
<1>1. mode = "up" /\ mode' = "up"
  BY DEF Call, write_log, install_trans, EraseLog, Committed, Up
<1>2. SUFFICES Seen' = Seen /\ Durable' = Durable /\ Ops' = Ops
  BY <1>1, SeenUp
<1>3. CASE Call(p)
  BY <1>3, SameDisk DEF Call, Up, Seen, Contents, Ops, LogInv, Types, disk
<1>4. CASE Committed(p)
  <2>1. Ops' = Ops
    BY <1>4 DEF Committed, Up, Awake, Ops, LogInv, Types
  <2>2. Durable' = Durable /\ Seen' = Seen
    BY <1>4, SameDisk DEF Committed, disk, Seen, Contents
  <2> QED
    BY <2>1, <2>2
<1>5. CASE write_log(p)
  <2>1. Ops' = Ops /\ Seen' = Seen /\ head' = head /\ home' = home
    BY <1>5 DEF write_log, log, Ops, Seen, Contents
  <2>2. pc[p] = "write_log"
    BY <1>5 DEF write_log, Up
  <2>3. head = <<>>
    <3>1. \A q \in Proc : pc[q] # "install"
      BY <2>2, InCommit DEF Committer
    <3> QED
      BY <1>1, <3>1, Zenon DEF LogInv, Running
  <2>4. \A c \in Block : Durable'[c] = home[c] /\ Durable[c] = home[c]
    BY <2>1, <2>3, EmptyLog, DurableIs, DurableWillBe, Zenon
  <2>5. Durable' = Durable
    BY <2>4 DEF Durable
  <2> QED
    BY <2>1, <2>5
<1>6. CASE install_trans(p)
  <2>1. /\ pc[p] = "install" /\ tail <= Len(lh)
        /\ home' = [home EXCEPT ![lh[tail]] = slot[tail]]
        /\ cache' = [cache EXCEPT ![lh[tail]] = slot[tail]]
        /\ UNCHANGED <<slot, head, lh, pc>>
    BY <1>6 DEF install_trans, Up, log
  <2>2. /\ tail \in 1 .. Len(lh) /\ lh[tail] \in Block /\ tail \in 1 .. nlog - 1
    BY <2>1, Consts DEF LogInv, Types
  <2>3. head = lh /\ slot[tail] = Contents(lh[tail])
    BY <1>1, <2>1, <2>2 DEF LogInv, Running
  <2>4. slot[tail] \in Value /\ slot[tail] # None
    BY <2>2, Consts DEF LogInv, Types
  <2>5. \A c \in Block : /\ home'[c] = IF c = lh[tail] THEN slot[tail] ELSE home[c]
                         /\ cache'[c] = IF c = lh[tail] THEN slot[tail] ELSE cache[c]
    BY <2>1, <2>2 DEF LogInv, Types
  <2>6. \A c \in Block : Contents(c)' = Contents(c)
    BY <2>3, <2>4, <2>5 DEF Contents
  <2>7. Seen' = Seen /\ Ops' = Ops
    BY <2>1, <2>6 DEF Seen, Ops
  <2>8. \A c \in Block : c \in Range(head) \/ home'[c] = home[c]
    <3>1. In(head, lh[tail])
      BY <2>2, <2>3 DEF In
    <3>2. lh[tail] \in Range(head)
      BY <3>1, RangeIn DEF LogInv, Types
    <3> QED
      BY <2>5, <3>2
  <2>9. Durable' = Durable
    BY <2>1, <2>8 DEF Durable
  <2> QED
    BY <2>7, <2>9
<1>7. CASE EraseLog(p)
  <2>1. /\ pc[p] = "install" /\ tail = Len(lh) + 1 /\ head' = <<>>
        /\ pc' = [pc EXCEPT ![p] = "committed"] /\ UNCHANGED <<home, slot, cache>>
    BY <1>7 DEF EraseLog, Up
  <2>2. Ops' = Ops
    BY <2>1 DEF Ops, LogInv, Types
  <2>3. Seen' = Seen
    BY <2>1 DEF Seen, Contents
  <2>4. head = lh /\ \A i \in 1 .. Len(lh) : home[lh[i]] = slot[i]
    BY <1>1, <2>1 DEF LogInv, Types, Running
  <2>5. ASSUME NEW c \in Block PROVE Durable[c] = home[c]
    <3>1. CASE In(head, c)
      <4>1. PICK i \in 1 .. Len(head) : head[i] = c
        BY <3>1 DEF In
      <4> QED
        BY <4>1, <2>4, DurableIs
    <3>2. CASE ~In(head, c)
      BY <3>2, DurableIs, Zenon
    <3> QED
      BY <3>1, <3>2
  <2>6. \A c \in Block : Durable'[c] = home[c]
    BY <2>1, DurableWillBe, EmptyLog, Zenon
  <2>7. Durable' = Durable
    BY <2>5, <2>6 DEF Durable
  <2> QED
    BY <2>2, <2>3, <2>7
<1> QED
  BY <1>3, <1>4, <1>5, <1>6, <1>7

\* Recovery, interrupted and repeated as often as may be, does not change what it will
\* make of the disk, and in the end calls see just that.
LEMMA QuietRecovery ==
    ASSUME LogInv, LogInv', read_head \/ RecoverBlock \/ recover_from_log
    PROVE  Current' = Current /\ Durable' = Durable /\ Ops' = Ops
<1>1. Ops' = Ops
  BY DEF read_head, RecoverBlock, recover_from_log, Ops
<1>2. CASE read_head
  BY <1>1, <1>2, SameDisk, SeenUp DEF read_head, disk
<1>3. CASE RecoverBlock
  <2>1. /\ mode = "recover" /\ mode' = "recover" /\ tail <= Len(lh)
        /\ home' = [home EXCEPT ![lh[tail]] = slot[tail]]
        /\ UNCHANGED <<slot, head>>
    BY <1>3 DEF RecoverBlock, log
  <2>2. /\ tail \in 1 .. Len(lh) /\ lh[tail] \in Block /\ lh = head
    BY <2>1 DEF LogInv, Types, Recovering
  <2>3. In(head, lh[tail]) /\ head \in Seq(Block)
    BY <2>2 DEF In, LogInv, Types
  <2>4. lh[tail] \in Range(head)
    BY <2>3, RangeIn
  <2>5. \A c \in Block : c \in Range(head) \/ home'[c] = home[c]
    BY <2>1, <2>4 DEF LogInv, Types
  <2>6. Durable' = Durable
    BY <2>1, <2>5 DEF Durable
  <2> QED
    BY <1>1, <2>1, <2>6, SeenUp
<1>4. CASE recover_from_log
  <2>1. /\ mode = "recover" /\ mode' = "up" /\ tail = Len(lh) + 1 /\ head' = <<>>
        /\ UNCHANGED <<home, slot, cache>>
    BY <1>4 DEF recover_from_log
  <2>2. lh = head /\ (\A i \in 1 .. Len(lh) : home[lh[i]] = slot[i]) /\ \A c \in Block : Clean(c)
    BY <2>1 DEF LogInv, Types, Recovering
  <2>3. ASSUME NEW c \in Block PROVE Durable[c] = home[c]
    <3>1. CASE In(head, c)
      <4>1. PICK i \in 1 .. Len(head) : head[i] = c
        BY <3>1 DEF In
      <4> QED
        BY <4>1, <2>2, DurableIs
    <3>2. CASE ~In(head, c)
      BY <3>2, DurableIs, Zenon
    <3> QED
      BY <3>1, <3>2
  <2>4. \A c \in Block : Durable'[c] = home[c]
    BY <2>1, DurableWillBe, EmptyLog, Zenon
  <2>5. Durable' = Durable
    BY <2>3, <2>4 DEF Durable
  <2>6. \A c \in Block : Seen'[c] = home[c]
    BY <2>1, <2>2 DEF Seen, Contents, Clean
  <2>7. Seen' = Durable
    BY <2>3, <2>6 DEF Seen, Durable
  <2> QED
    BY <1>1, <2>1, <2>5, <2>7, SeenUp
<1> QED
  BY <1>2, <1>3, <1>4

\* begin_op() opens a call, or nothing changes.
LEMMA BeginRefines ==
    ASSUME LogInv, NEW p \in Proc, begin_op(p)
    PROVE  /\ Current' = Current /\ Durable' = Durable
           /\ Ops' = Ops \/ (p \notin Ops /\ Ops' = Ops \cup {p})
<1>1. /\ mode = "up" /\ mode' = "up" /\ pc[p] = "begin"
      /\ UNCHANGED <<home, slot, head, cache>>
  BY DEF begin_op, Up, disk
<1>2. Seen' = Seen /\ Durable' = Durable
  BY <1>1, SameDisk DEF Seen, Contents
<1>3. pc' = [pc EXCEPT ![p] = "asleep"] \/ pc' = [pc EXCEPT ![p] = "op"]
  BY DEF begin_op
<1>4. Ops' = Ops \/ (p \notin Ops /\ Ops' = Ops \cup {p})
  BY <1>1, <1>3 DEF Ops, LogInv, Types
<1> QED
  BY <1>1, <1>2, <1>4, SeenUp

\* end_op() closes it.
LEMMA EndRefines ==
    ASSUME LogInv, NEW p \in Proc, end_op(p)
    PROVE  Current' = Current /\ Durable' = Durable /\ p \in Ops /\ Ops' = Ops \ {p}
<1>1. /\ mode = "up" /\ mode' = "up" /\ pc[p] = "op"
      /\ UNCHANGED <<home, slot, head, cache>>
  BY DEF end_op, Up, disk
<1>2. Seen' = Seen /\ Durable' = Durable
  BY <1>1, SameDisk DEF Seen, Contents
<1>3. pc' = [pc EXCEPT ![p] = "write_log"] \/ pc' = Awake(p, "idle")
  BY DEF end_op
<1>4. p \in Ops /\ Ops' = Ops \ {p}
  BY <1>1, <1>3 DEF Ops, Awake, LogInv, Types
<1> QED
  BY <1>1, <1>2, <1>4, SeenUp

\* log_write() changes one block for calls and none for a crash, panic or not.
LEMMA WriteRefines ==
    ASSUME LogInv, NEW p \in Proc, NEW b \in Block, NEW v \in Value, log_write(p, b, v)
    PROVE  /\ p \in Ops /\ Current' = [Current EXCEPT ![b] = v]
           /\ Durable' = Durable /\ Ops' = Ops
<1>1. /\ mode = "up" /\ mode' \in {"up", "panic"} /\ pc[p] = "op"
      /\ cache' = [cache EXCEPT ![b] = v] /\ UNCHANGED <<home, slot, head, pc>>
  BY DEF log_write, Up, disk
<1>2. Durable' = Durable /\ p \in Ops /\ Ops' = Ops
  BY <1>1, SameDisk DEF Ops
<1>3. \A c \in Block : cache'[c] = IF c = b THEN v ELSE cache[c]
  BY <1>1 DEF LogInv, Types
<1>4. Seen' = [Seen EXCEPT ![b] = v]
  <2>1. v # None
    BY Consts
  <2>2. \A c \in Block : Contents(c)' = IF c = b THEN v ELSE Contents(c)
    BY <1>1, <1>3, <2>1 DEF Contents
  <2>3. Seen' = [c \in Block |-> IF c = b THEN v ELSE Contents(c)]
    BY <2>2 DEF Seen
  <2>4. /\ DOMAIN Seen = Block /\ Seen = [c \in Block |-> Seen[c]]
        /\ \A c \in Block : Seen[c] = Contents(c)
    BY DEF Seen
  <2>5. [Seen EXCEPT ![b] = v] = [c \in Block |-> IF c = b THEN v ELSE Seen[c]]
    BY <2>4
  <2> QED
    BY <2>3, <2>4, <2>5
<1> QED
  BY <1>1, <1>2, <1>4, SeenUp

\* Writing the header commits: what calls see becomes durable, all blocks at once and with
\* no call half done.
LEMMA CommitRefines ==
    ASSUME LogInv, LogInv', NEW p \in Proc, write_head(p)
    PROVE  Ops = {} /\ Durable' = Current /\ Current' = Current /\ Ops' = Ops
<1>1. /\ mode = "up" /\ mode' = "up" /\ pc[p] = "write_log" /\ tail = Len(lh) + 1 /\ head' = lh
      /\ pc' = [pc EXCEPT ![p] = "install"] /\ UNCHANGED <<home, slot, cache, lh>>
  BY DEF write_head, Up, log
<1>2. Ops = {}
  BY <1>1, InCommit DEF Committer
<1>3. Ops' = Ops /\ Seen' = Seen
  BY <1>1 DEF Ops, Seen, Contents, LogInv, Types
<1>4. \A i \in 1 .. Len(lh) : slot[i] = Contents(lh[i])
  BY <1>1 DEF LogInv, Types, Running
<1>5. ASSUME NEW c \in Block PROVE Durable'[c] = Contents(c)
  <2>1. CASE In(lh, c)
    <3>1. PICK i \in 1 .. Len(lh) : lh[i] = c
      BY <2>1 DEF In
    <3>2. Durable'[c] = slot[i]
      BY <1>1, <3>1, DurableWillBe, Zenon
    <3> QED
      BY <1>4, <3>1, <3>2
  <2>2. CASE ~In(lh, c)
    <3>1. Clean(c)
      BY <1>1, <2>2, Zenon DEF LogInv, Running
    <3>2. Durable'[c] = home[c]
      BY <1>1, <2>2, DurableWillBe, Zenon
    <3> QED
      BY <3>1, <3>2 DEF Clean, Contents
  <2> QED
    BY <2>1, <2>2
<1>6. Durable' = Seen
  BY <1>5 DEF Durable, Seen
<1> QED
  BY <1>1, <1>2, <1>3, <1>6, SeenUp

\* A crash leaves what is durable.
LEMMA CrashRefines ==
    ASSUME LogInv, Crash PROVE Current' = Durable /\ Durable' = Durable /\ Ops' = {}
<1>1. Durable' = Durable /\ mode' = "read_head" /\ pc' = [q \in Proc |-> "idle"]
  BY SameDisk DEF Crash, disk
<1>2. Ops' = {}
  BY <1>1 DEF Ops
<1> QED
  BY <1>1, <1>2, SeenUp

\* A running machine's first state, and what calls see, are blocks of values.
LEMMA InitRefines ==
    ASSUME Init PROVE Current \in [Block -> Value] /\ Durable = Current /\ Ops = {}
<1>1. /\ home \in [Block -> Value] /\ head = <<>> /\ mode = "up"
      /\ cache = [b \in Block |-> None] /\ pc = [p \in Proc |-> "idle"]
  BY DEF Init
<1>2. \A b \in Block : Contents(b) = home[b]
  BY <1>1 DEF Contents
<1>3. \A b \in Block : b \notin Range(head)
  BY <1>1 DEF Range
<1>4. Seen \in [Block -> Value] /\ Durable = Seen
  BY <1>1, <1>2, <1>3 DEF Seen, Durable
<1> QED
  BY <1>1, <1>4, SeenUp DEF Ops

\* At whichever disk write of a commit or of an earlier recovery the machine crashes, it
\* comes back in the state after some commit: the log is an atomic disk.
THEOREM LogImplementsAtomicDisk == Spec => ImplementsAtomicDisk
<1>1. Init => Disk!Init
  BY InitRefines DEF Disk!Init, Ops
<1>2. LogInv /\ LogInv' /\ [Next]_vars => [Disk!Next]_(Disk!vars)
  <2> SUFFICES ASSUME LogInv, LogInv', [Next]_vars
               PROVE  Disk!Next \/ (Current' = Current /\ Durable' = Durable /\ Ops' = Ops)
    BY DEF Disk!vars, Ops
  <2>1. CASE UNCHANGED vars
    BY <2>1 DEF vars, Current, Durable, Contents, Ops
  <2>2. ASSUME NEW p \in Proc, begin_op(p) \/ end_op(p)
        PROVE  Disk!Next \/ (Current' = Current /\ Durable' = Durable /\ Ops' = Ops)
    <3>1. /\ Current' = Current /\ Durable' = Durable
          /\ \/ Ops' = Ops \/ (p \notin Ops /\ Ops' = Ops \cup {p})
             \/ (p \in Ops /\ Ops' = Ops \ {p})
      BY <2>2, BeginRefines, EndRefines
    <3>2. p \notin Ops /\ Ops' = Ops \cup {p} => Disk!Begin(p)
      BY <3>1 DEF Disk!Begin, Ops
    <3>3. p \in Ops /\ Ops' = Ops \ {p} => Disk!End(p)
      BY <3>1 DEF Disk!End, Ops
    <3> QED
      BY <3>1, <3>2, <3>3 DEF Disk!Next
  <2>3. ASSUME NEW p \in Proc, NEW b \in Block, NEW v \in Value, log_write(p, b, v)
        PROVE  Disk!Next
    <3>1. Disk!Write(p, b, v)
      BY <2>3, WriteRefines DEF Disk!Write, Ops
    <3> QED
      BY <3>1 DEF Disk!Next
  <2>4. ASSUME NEW p \in Proc, write_head(p) PROVE Disk!Next
    <3>1. Disk!Commit
      BY <2>4, CommitRefines DEF Disk!Commit, Ops
    <3> QED
      BY <3>1 DEF Disk!Next
  <2>5. CASE Crash
    <3>1. Disk!Crash
      BY <2>5, CrashRefines DEF Disk!Crash, Ops
    <3> QED
      BY <3>1 DEF Disk!Next
  <2>6. CASE read_head \/ RecoverBlock \/ recover_from_log
    BY <2>6, QuietRecovery
  <2>7. ASSUME NEW p \in Proc,
               Call(p) \/ write_log(p) \/ install_trans(p) \/ EraseLog(p) \/ Committed(p)
        PROVE  Current' = Current /\ Durable' = Durable /\ Ops' = Ops
    BY <2>7, QuietSteps
  <2>8. ASSUME NEW b \in Block, bread(b) \/ bget(b)
        PROVE  Current' = Current /\ Durable' = Durable /\ Ops' = Ops
    <3>1. mode = "up" /\ mode' = "up" /\ Durable' = Durable /\ Ops' = Ops
      BY <2>8, SameDisk DEF bread, bget, disk, Ops
    <3>2. Seen' = Seen
      BY <2>8, CacheStep DEF Seen
    <3> QED
      BY <3>1, <3>2, SeenUp
  <2> QED
    BY <2>1, <2>2, <2>3, <2>4, <2>5, <2>6, <2>7, <2>8 DEF Next
<1> QED
  BY <1>1, <1>2, LogInvariant, PTL DEF Spec, ImplementsAtomicDisk, Disk!Spec

\* When end_op() has returned for the last call, a crash loses nothing.
THEOREM ReturnedIsDurable == Spec => []ReturnedMeansDurable
<1>1. LogInv => ReturnedMeansDurable
  <2> SUFFICES ASSUME LogInv, mode = "up", outstanding = 0, ~committing PROVE Current = Durable
    BY DEF ReturnedMeansDurable
  <2>1. lh = <<>>
    BY DEF LogInv, Running
  <2>2. head = <<>>
    BY DEF LogInv, Running, Calls, Committer
  <2>3. \A b \in Block : Clean(b)
    BY <2>1, EmptyLog DEF LogInv, Running
  <2>4. \A b \in Block : Durable[b] = home[b]
    BY <2>2, EmptyLog, DurableIs
  <2>5. \A b \in Block : Contents(b) = home[b]
    BY <2>3 DEF Clean, Contents
  <2>6. Seen = Durable
    BY <2>4, <2>5 DEF Seen, Durable
  <2> QED
    BY <2>6, SeenUp
<1> QED
  BY <1>1, LogInvariant, PTL

=============================================================================
