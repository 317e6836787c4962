------------------------------ MODULE LogSteps ------------------------------
(***************************************************************************)
(* LogInv says how far a commit or a recovery has come, and that who       *)
(* sleeps in begin_op() has somebody to wake it. It holds at first, and    *)
(* every step of a process preserves it.                                   *)
(***************************************************************************)
EXTENDS Log, FiniteSetTheorems, TLAPS

Ops == {p \in Proc : pc[p] = "op"}
Committer(p) == pc[p] \in {"write_log", "install", "committed"}

In(s, b) == \E i \in 1 .. Len(s) : s[i] = b
Distinct(s) == \A i, j \in 1 .. Len(s) : s[i] = s[j] => i = j

\* Without its buffer, b would read the same.
Clean(b) == cache[b] = None \/ cache[b] = home[b]

Types ==
    /\ home \in [Block -> Value] /\ slot \in [1 .. nlog - 1 -> Value]
    /\ cache \in [Block -> Value \cup {None}]
    /\ head \in Seq(Block) /\ Len(head) <= nlog - 1 /\ Distinct(head)
    /\ lh \in Seq(Block) /\ Len(lh) <= nlog - 1 /\ Distinct(lh)
    /\ outstanding \in Nat /\ committing \in BOOLEAN /\ tail \in Nat \ {0}
    /\ pc \in [Proc -> {"idle", "begin", "asleep", "op", "write_log", "install",
                        "committed"}]
    /\ mode \in {"up", "panic", "read_head", "recover"}

\* At most one process commits, and no call is under way while it does.
Calls ==
    /\ outstanding = Cardinality(Ops)
    /\ \A p \in Proc : Committer(p) => committing
    /\ \A p, q \in Proc : Committer(p) /\ Committer(q) => p = q
    /\ committing => outstanding = 0

\* A block that differs from its home is logged; how far the commit has come.
Running ==
    mode = "up" =>
        /\ \A b \in Block : ~In(lh, b) => Clean(b)
        /\ outstanding = 0 /\ ~committing => lh = <<>>
        /\ (\A p \in Proc : pc[p] # "install") => head = <<>>
        /\ \A p \in Proc : pc[p] = "write_log" =>
                \A i \in 1 .. Len(lh) : i < tail => slot[i] = Contents(lh[i])
        /\ \A p \in Proc : pc[p] = "install" =>
                /\ head = lh
                /\ \A i \in 1 .. Len(lh) : /\ slot[i] = Contents(lh[i])
                                           /\ i < tail => home[lh[i]] = slot[i]
        /\ \A p \in Proc : pc[p] = "committed" => lh = <<>>

\* How far recovery has come; no call has begun.
Recovering ==
    /\ mode \in {"read_head", "recover"} =>
        /\ \A p \in Proc : pc[p] = "idle"
        /\ outstanding = 0 /\ ~committing
        /\ \A b \in Block : Clean(b)
    /\ mode = "read_head" => tail = 1
    /\ mode = "recover" =>
        lh = head /\ \A i \in 1 .. Len(lh) : i < tail => home[lh[i]] = slot[i]

LogInv == Types /\ Calls /\ Running /\ Recovering /\ SleeperHasWaker

-----------------------------------------------------------------------------
USE SMTT(30)

\* The constants, for the provers.
LEMMA Consts ==
    /\ IsFiniteSet(Proc) /\ None \notin Value
    /\ LOGSIZE \in Nat /\ MAXOPBLOCKS \in Nat /\ MAXOPBLOCKS <= LOGSIZE /\ nlog \in Nat \ {0}
BY LogAssumption

\* A block is in Range(s) when some entry names it.
LEMMA RangeIn == ASSUME NEW s \in Seq(Block), NEW b PROVE b \in Range(s) <=> In(s, b)
BY DEF Range, In

\* The empty log.
LEMMA EmptyLog == <<>> \in Seq(Block) /\ Len(<<>>) = 0 /\ Distinct(<<>>) /\ \A b : ~In(<<>>, b)
BY DEF Distinct, In

\* An entry added at the end.
LEMMA AppendLog ==
    ASSUME NEW s \in Seq(Block), NEW b \in Block, Distinct(s), ~In(s, b)
    PROVE  /\ Append(s, b) \in Seq(Block) /\ Len(Append(s, b)) = Len(s) + 1
           /\ Distinct(Append(s, b)) /\ In(Append(s, b), b)
           /\ \A c : In(s, c) => In(Append(s, b), c)
<1>1. /\ Append(s, b) \in Seq(Block) /\ Len(Append(s, b)) = Len(s) + 1 /\ Len(s) \in Nat
      /\ \A i \in 1 .. Len(s) : Append(s, b)[i] = s[i]
      /\ Append(s, b)[Len(s) + 1] = b
  OBVIOUS
<1> DEFINE t == Append(s, b)
<1> HIDE DEF t
<1>2. /\ t \in Seq(Block) /\ Len(t) = Len(s) + 1 /\ Len(s) \in Nat
      /\ (\A i \in 1 .. Len(s) : t[i] = s[i]) /\ t[Len(s) + 1] = b
  BY <1>1 DEF t
<1>3. Distinct(t) /\ In(t, b) /\ \A c : In(s, c) => In(t, c)
  BY <1>2 DEF Distinct, In
<1> QED
  BY <1>2, <1>3 DEF t

\* outstanding counts the calls under way.
LEMMA NoOps == ASSUME LogInv PROVE IsFiniteSet(Ops) /\ (outstanding = 0 <=> Ops = {})
<1>1. IsFiniteSet(Ops)
  BY Consts, FS_Subset DEF Ops
<1> QED
  BY <1>1, FS_EmptySet DEF LogInv, Calls

\* While a call is under way nobody commits.
LEMMA InOp ==
    ASSUME LogInv, NEW p \in Proc, pc[p] = "op"
    PROVE  outstanding > 0 /\ ~committing /\ \A q \in Proc : ~Committer(q)
<1>1. outstanding # 0
  BY NoOps DEF Ops
<1> QED
  BY <1>1 DEF LogInv, Calls, Types

\* While somebody commits no call is under way.
LEMMA InCommit ==
    ASSUME LogInv, NEW p \in Proc, Committer(p)
    PROVE  /\ outstanding = 0 /\ committing /\ Ops = {}
           /\ \A q \in Proc : q # p => pc[q] \in {"idle", "begin", "asleep"}
<1>1. outstanding = 0 /\ committing /\ Ops = {}
  BY NoOps DEF LogInv, Calls
<1> QED
  BY <1>1 DEF LogInv, Calls, Types, Ops, Committer

\* The machine starts with an empty log.
LEMMA InitInv == Init => LogInv
<1> SUFFICES ASSUME Init PROVE LogInv
  OBVIOUS
<1>1. slot \in [1 .. nlog - 1 -> Value]
  BY LogAssumption DEF Init
<1>2. Types
  <2>1. 0 <= nlog - 1
    BY Consts
  <2>2. cache \in [Block -> Value \cup {None}]
    BY DEF Init
  <2>3. /\ pc \in [Proc -> {"idle", "begin", "asleep", "op", "write_log", "install", "committed"}]
        /\ home \in [Block -> Value] /\ mode = "up" /\ tail = 1
        /\ outstanding = 0 /\ committing = FALSE /\ head = <<>> /\ lh = <<>>
    BY DEF Init
  <2>4. /\ head \in Seq(Block) /\ Len(head) <= nlog - 1 /\ Distinct(head)
        /\ lh \in Seq(Block) /\ Len(lh) <= nlog - 1 /\ Distinct(lh)
    BY <2>1, <2>3, EmptyLog
  <2>5. home \in [Block -> Value] /\ tail \in Nat \ {0} /\ outstanding \in Nat
    BY <2>3
  <2>6. committing \in BOOLEAN /\ mode \in {"up", "panic", "read_head", "recover"}
    BY <2>3, Zenon
  <2> QED
    BY <1>1, <2>2, <2>3, <2>4, <2>5, <2>6 DEF Types
<1>3. Ops = {}
  BY DEF Init, Ops
<1>4. Calls
  BY <1>3, FS_EmptySet DEF Init, Calls, Committer
<1>5. Running /\ Recovering /\ SleeperHasWaker
  BY DEF Init, Running, Recovering, SleeperHasWaker, Clean
<1> QED
  BY <1>2, <1>4, <1>5 DEF LogInv

\* A step that only moves a process between idle, begin and asleep, or wakes others.
Idlers == {"idle", "begin", "asleep"}
OnlyIdlers ==
    /\ UNCHANGED <<home, slot, head, cache, lh, outstanding, committing, tail, mode>>
    /\ pc' \in [Proc -> {"idle", "begin", "asleep", "op", "write_log", "install", "committed"}]
    /\ \A q \in Proc : pc'[q] # pc[q] => pc[q] \in Idlers /\ pc'[q] \in Idlers

\* What such a step leaves to be shown.
LEMMA OnlyIdlersStep ==
    ASSUME LogInv, OnlyIdlers, mode = "up", SleeperHasWaker' PROVE LogInv'
<1>1. Types'
  BY DEF LogInv, Types, OnlyIdlers, Distinct
<1>2. Ops' = Ops
  BY DEF OnlyIdlers, Ops, Idlers
<1>3. Calls'
  BY <1>2 DEF LogInv, Calls, OnlyIdlers, Committer, Idlers
<1>4. Running' /\ Recovering'
  BY DEF LogInv, Running, Recovering, OnlyIdlers, Idlers, In, Clean, Contents
<1> QED
  BY <1>1, <1>3, <1>4 DEF LogInv

\* A call starts, and one that finds no room or a commit under way goes to sleep.
LEMMA CallStep == ASSUME LogInv, NEW p \in Proc, Call(p) PROVE LogInv'
<1>1. OnlyIdlers /\ mode = "up"
  BY DEF Call, Up, OnlyIdlers, Idlers, LogInv, Types, disk, log
<1>2. SleeperHasWaker'
  BY DEF Call, LogInv, Types, SleeperHasWaker, NoSpace, disk, log
<1> QED
  BY <1>1, <1>2, OnlyIdlersStep

\* begin_op(): nobody sleeps while there is room and no commit, so who is let in takes no
\* sleeper's waker away; and with no call under way the log is empty, so there is room.
LEMMA BeginStep == ASSUME LogInv, NEW p \in Proc, begin_op(p) PROVE LogInv'
<1>1. /\ mode = "up" /\ pc[p] = "begin"
      /\ UNCHANGED <<home, slot, head, cache, lh, committing, tail, mode>>
  BY DEF begin_op, Up, disk
<1>2. CASE committing \/ NoSpace
  <2>1. pc' = [pc EXCEPT ![p] = "asleep"] /\ outstanding' = outstanding
    BY <1>2 DEF begin_op
  <2>2. OnlyIdlers
    BY <1>1, <2>1 DEF OnlyIdlers, Idlers, LogInv, Types
  <2>3. committing \/ (outstanding > 0 /\ NoSpace)
    <3>1. CASE outstanding = 0 /\ ~committing
      <4>1. Len(lh) = 0
        BY <3>1, <1>1, EmptyLog DEF LogInv, Running
      <4> QED
        BY <3>1, <4>1, <1>2, Consts DEF NoSpace
    <3>2. CASE outstanding # 0
      BY <3>2, <1>2 DEF LogInv, Types
    <3> QED
      BY <3>1, <3>2
  <2>4. SleeperHasWaker'
    BY <1>1, <2>1, <2>3 DEF LogInv, Types, SleeperHasWaker, NoSpace
  <2> QED
    BY <1>1, <2>2, <2>4, OnlyIdlersStep
<1>3. CASE ~(committing \/ NoSpace)
  <2>1. pc' = [pc EXCEPT ![p] = "op"] /\ outstanding' = outstanding + 1
    BY <1>3 DEF begin_op
  <2>2. /\ pc' \in [Proc -> {"idle", "begin", "asleep", "op", "write_log", "install", "committed"}]
        /\ \A q \in Proc : pc'[q] = IF q = p THEN "op" ELSE pc[q]
    BY <2>1 DEF LogInv, Types
  <2>3. Types'
    BY <1>1, <2>1, <2>2 DEF LogInv, Types, Distinct
  <2>4. \A q \in Proc : ~Committer(q) /\ ~Committer(q)'
    BY <1>1, <1>3, <2>2 DEF LogInv, Calls, Committer
  <2>5. outstanding' = Cardinality(Ops')
    <3>1. Ops' = Ops \cup {p} /\ p \notin Ops
      BY <1>1, <2>2 DEF Ops
    <3>2. Cardinality(Ops \cup {p}) = Cardinality(Ops) + 1
      BY <3>1, NoOps, FS_AddElement
    <3> QED
      BY <2>1, <3>1, <3>2 DEF LogInv, Calls
  <2>6. Calls'
    BY <1>1, <1>3, <2>4, <2>5 DEF Calls
  <2>7. Running'
    <3>1. outstanding' # 0
      BY <2>1 DEF LogInv, Types
    <3>2. \A q \in Proc : pc[q] # "install"
      BY <2>4 DEF Committer
    <3>3. \A b \in Block : ~In(lh, b) => Clean(b)
      BY <1>1 DEF LogInv, Running
    <3>4. head = <<>>
      BY <1>1, <3>2 DEF LogInv, Running
    <3> QED
      BY <1>1, <2>4, <3>1, <3>3, <3>4 DEF Running, Committer, In, Clean
  <2>8. Recovering'
    BY <1>1 DEF Recovering
  <2>9. SleeperHasWaker'
    BY <1>1, <1>3, <2>2 DEF LogInv, SleeperHasWaker
  <2> QED
    BY <2>3, <2>6, <2>7, <2>8, <2>9 DEF LogInv
<1> QED
  BY <1>2, <1>3

\* log_write(): the block is in the log from now on, or the kernel panics.
LEMMA LogWriteStep ==
    ASSUME LogInv, NEW p \in Proc, NEW b \in Block, NEW v \in Value, log_write(p, b, v)
    PROVE  LogInv'
<1>1. /\ mode = "up" /\ pc[p] = "op" /\ cache' = [cache EXCEPT ![b] = v]
      /\ UNCHANGED <<home, slot, head, outstanding, committing, pc, tail>>
  BY DEF log_write, Up, disk
<1>2. outstanding > 0 /\ ~committing /\ \A q \in Proc : ~Committer(q)
  BY <1>1, InOp
<1>3. /\ cache' \in [Block -> Value \cup {None}]
      /\ \A c \in Block : cache'[c] = IF c = b THEN v ELSE cache[c]
  BY <1>1 DEF LogInv, Types
<1>4. Calls'
  BY <1>1 DEF LogInv, Calls, Ops, Committer
<1>5. CASE Len(lh) >= LOGSIZE \/ Len(lh) >= nlog - 1
  <2>1. mode' = "panic" /\ lh' = lh
    BY <1>5 DEF log_write
  <2>2. Types' /\ SleeperHasWaker'
    BY <1>1, <1>3, <2>1 DEF LogInv, Types, Distinct, SleeperHasWaker, NoSpace
  <2>3. Running' /\ Recovering'
    BY <2>1 DEF Running, Recovering
  <2> QED
    BY <1>4, <2>2, <2>3 DEF LogInv
<1>6. CASE ~(Len(lh) >= LOGSIZE \/ Len(lh) >= nlog - 1)
  <2>1. mode' = "up" /\ lh' = IF b \in Range(lh) THEN lh ELSE Append(lh, b)
    BY <1>1, <1>6 DEF log_write
  <2>2. lh \in Seq(Block) /\ Distinct(lh) /\ Len(lh) \in Nat /\ Len(lh) < nlog - 1
    BY <1>6, Consts DEF LogInv, Types
  <2>3. /\ lh' \in Seq(Block) /\ Distinct(lh)' /\ Len(lh') <= nlog - 1 /\ Len(lh') >= Len(lh)
        /\ Len(lh') \in Nat
        /\ In(lh', b) /\ \A c : In(lh, c) => In(lh', c)
    <3>1. CASE b \in Range(lh)
      <4>1. lh' = lh /\ In(lh, b)
        BY <3>1, <2>1, <2>2, RangeIn
      <4>2. Distinct(lh)'
        BY <4>1, <2>2 DEF Distinct
      <4> QED
        BY <4>1, <4>2, <2>2, Consts
    <3>2. CASE b \notin Range(lh)
      <4>1. ~In(lh, b) /\ lh' = Append(lh, b)
        BY <3>2, <2>1, <2>2, RangeIn
      <4>2. Distinct(Append(lh, b)) /\ In(Append(lh, b), b)
            /\ \A c : In(lh, c) => In(Append(lh, b), c)
            /\ Append(lh, b) \in Seq(Block) /\ Len(Append(lh, b)) = Len(lh) + 1
        BY <4>1, <2>2, AppendLog
      <4>3. Distinct(lh)' = Distinct(lh')
        BY DEF Distinct
      <4> QED
        BY <4>1, <4>2, <4>3, <2>2, Consts
    <3> QED
      BY <3>1, <3>2
  <2>4. Types'
    BY <1>1, <1>3, <2>1, <2>3 DEF LogInv, Types, Distinct
  <2>5. Running'
    <3>1. \A c \in Block : ~In(lh', c) => cache'[c] = None \/ cache'[c] = home[c]
      BY <1>1, <1>3, <2>3 DEF LogInv, Running, Clean
    <3>2. head = <<>>
      BY <1>1, <1>2 DEF LogInv, Running, Committer
    <3>3. outstanding # 0
      BY <1>2
    <3> QED
      BY <1>1, <1>2, <3>1, <3>2, <3>3 DEF Running, Committer, Clean, In
  <2>6. Recovering'
    BY <2>1 DEF Recovering
  <2>7. SleeperHasWaker'
    <3> DEFINE n == (outstanding + 1) * MAXOPBLOCKS
    <3>1. n \in Int
      BY Consts DEF LogInv, Types
    <3>2. NoSpace => NoSpace'
      <4>1. NoSpace <=> Len(lh) + n > LOGSIZE
        BY DEF NoSpace
      <4>2. NoSpace' <=> Len(lh') + n > LOGSIZE
        BY <1>1 DEF NoSpace
      <4> HIDE DEF n
      <4> QED
        BY <3>1, <4>1, <4>2, <2>2, <2>3, Consts
    <3> QED
      BY <1>1, <3>2 DEF LogInv, SleeperHasWaker
  <2> QED
    BY <1>4, <2>4, <2>5, <2>6, <2>7 DEF LogInv
<1> QED
  BY <1>5, <1>6

\* end_op(): the last call commits, another one wakes who waits.
LEMMA EndStep == ASSUME LogInv, NEW p \in Proc, end_op(p) PROVE LogInv'
<1>1. /\ mode = "up" /\ pc[p] = "op" /\ outstanding' = outstanding - 1 /\ tail' = 1
      /\ UNCHANGED <<home, slot, head, cache, lh, mode>>
  BY DEF end_op, Up, disk
<1>2. outstanding > 0 /\ ~committing /\ \A q \in Proc : ~Committer(q)
  BY <1>1, InOp
<1>3. outstanding' \in Nat /\ (outstanding = 1 <=> outstanding' = 0)
  BY <1>1, <1>2 DEF LogInv, Types
<1>4. Recovering'
  BY <1>1 DEF Recovering
<1>5. \A q \in Proc : pc[q] # "install"
  BY <1>2 DEF Committer
<1>6. head = <<>> /\ \A b \in Block : ~In(lh, b) => Clean(b)
  BY <1>1, <1>5 DEF LogInv, Running
<1>7. Cardinality(Ops \ {p}) = outstanding - 1
  <2>1. p \in Ops
    BY <1>1 DEF Ops
  <2>2. Cardinality(Ops \ {p}) = Cardinality(Ops) - 1
    BY <2>1, NoOps, FS_RemoveElement
  <2> QED
    BY <2>2 DEF LogInv, Calls
<1>8. CASE outstanding = 1
  <2>1. committing' = TRUE /\ pc' = [pc EXCEPT ![p] = "write_log"]
    BY <1>8 DEF end_op
  <2>2. /\ pc' \in [Proc -> {"idle", "begin", "asleep", "op", "write_log", "install", "committed"}]
        /\ \A q \in Proc : pc'[q] = IF q = p THEN "write_log" ELSE pc[q]
    BY <2>1 DEF LogInv, Types
  <2>3. Types'
    BY <1>1, <1>3, <2>1, <2>2 DEF LogInv, Types, Distinct
  <2>4. Ops' = Ops \ {p}
    BY <2>2 DEF Ops
  <2>5. Calls'
    BY <1>1, <1>2, <1>3, <1>7, <1>8, <2>1, <2>2, <2>4 DEF Calls, Committer
  <2>6. Running'
    BY <1>1, <1>2, <1>6, <2>1, <2>2 DEF Running, Committer, In, Clean
  <2>7. SleeperHasWaker'
    BY <2>1 DEF SleeperHasWaker
  <2> QED
    BY <1>4, <2>3, <2>5, <2>6, <2>7 DEF LogInv
<1>9. CASE outstanding # 1
  <2>1. committing' = committing /\ pc' = Awake(p, "idle")
    BY <1>9 DEF end_op
  <2>2. /\ pc' \in [Proc -> {"idle", "begin", "asleep", "op", "write_log", "install", "committed"}]
        /\ \A q \in Proc : pc'[q] = IF q = p THEN "idle"
                                    ELSE IF pc[q] = "asleep" THEN "begin" ELSE pc[q]
    BY <2>1 DEF Awake, LogInv, Types
  <2>3. Types'
    BY <1>1, <1>3, <2>1, <2>2 DEF LogInv, Types, Distinct
  <2>4. Ops' = Ops \ {p}
    BY <2>2 DEF Ops
  <2>5. Calls'
    BY <1>1, <1>2, <1>7, <2>1, <2>2, <2>4 DEF Calls, Committer
  <2>6. Running'
    BY <1>1, <1>2, <1>3, <1>6, <1>9, <2>1, <2>2 DEF Running, Committer, In, Clean
  <2>7. SleeperHasWaker'
    BY <2>2 DEF SleeperHasWaker
  <2> QED
    BY <1>4, <2>3, <2>5, <2>6, <2>7 DEF LogInv
<1> QED
  BY <1>8, <1>9

\* A turn of write_log(): the log block gets what calls see of the block.
LEMMA WriteLogStep == ASSUME LogInv, NEW p \in Proc, write_log(p) PROVE LogInv'
<1>1. /\ mode = "up" /\ pc[p] = "write_log" /\ tail <= Len(lh)
      /\ slot' = [slot EXCEPT ![tail] = Contents(lh[tail])] /\ tail' = tail + 1
      /\ UNCHANGED <<home, head, cache, lh, outstanding, committing, pc, mode>>
  BY DEF write_log, Up, log
<1>2. tail \in 1 .. Len(lh) /\ tail \in 1 .. nlog - 1 /\ lh[tail] \in Block /\ tail \in Nat
      /\ Len(lh) \in Nat
  BY <1>1, Consts DEF LogInv, Types
<1>3. Contents(lh[tail]) \in Value
  BY <1>2 DEF LogInv, Types, Contents
<1>4. /\ slot' \in [1 .. nlog - 1 -> Value]
      /\ \A i \in 1 .. nlog - 1 : slot'[i] = IF i = tail THEN Contents(lh[tail]) ELSE slot[i]
  BY <1>1, <1>2, <1>3 DEF LogInv, Types
<1>5. Types'
  BY <1>1, <1>2, <1>4 DEF LogInv, Types, Distinct
<1>6. Calls' /\ Recovering' /\ SleeperHasWaker'
  BY <1>1 DEF LogInv, Calls, Ops, Committer, Recovering, SleeperHasWaker, NoSpace
<1>7. Running'
  <2>1. Len(lh) <= nlog - 1
    BY DEF LogInv, Types
  <2>2. \A q \in Proc : q # p => pc[q] \in {"idle", "begin", "asleep"}
    BY <1>1, InCommit DEF Committer
  <2>3. \A i \in 1 .. Len(lh) : i < tail + 1 => slot'[i] = Contents(lh[i])
    <3>1. \A i \in 1 .. Len(lh) : i < tail => slot[i] = Contents(lh[i])
      BY <1>1 DEF LogInv, Running
    <3> QED
      BY <1>2, <1>4, <2>1, <3>1, Consts
  <2>4. head = <<>> /\ \A b \in Block : ~In(lh, b) => Clean(b)
    BY <1>1, <2>2 DEF LogInv, Running
  <2>5. committing
    BY <1>1, InCommit DEF Committer
  <2> QED
    BY <1>1, <2>2, <2>3, <2>4, <2>5 DEF Running, In, Clean, Contents
<1> QED
  BY <1>5, <1>6, <1>7 DEF LogInv

\* The header is written: the log on disk is what calls see.
LEMMA WriteHeadStep == ASSUME LogInv, NEW p \in Proc, write_head(p) PROVE LogInv'
<1>1. /\ mode = "up" /\ pc[p] = "write_log" /\ tail = Len(lh) + 1 /\ head' = lh /\ tail' = 1
      /\ pc' = [pc EXCEPT ![p] = "install"]
      /\ UNCHANGED <<home, slot, cache, lh, outstanding, committing, mode>>
  BY DEF write_head, Up, log
<1>2. /\ pc' \in [Proc -> {"idle", "begin", "asleep", "op", "write_log", "install", "committed"}]
      /\ \A q \in Proc : pc'[q] = IF q = p THEN "install" ELSE pc[q]
  BY <1>1 DEF LogInv, Types
<1>3. /\ committing /\ \A q \in Proc : q # p => pc[q] \in {"idle", "begin", "asleep"}
  BY <1>1, InCommit DEF Committer
<1>4. Types'
  BY <1>1, <1>2 DEF LogInv, Types, Distinct
<1>5. Ops' = Ops
  BY <1>1, <1>2 DEF Ops
<1>6. Calls' /\ Recovering' /\ SleeperHasWaker'
  BY <1>1, <1>2, <1>3, <1>5 DEF LogInv, Calls, Committer, Recovering, SleeperHasWaker, NoSpace
<1>7. Running'
  <2>1. \A i \in 1 .. Len(lh) : slot[i] = Contents(lh[i])
    BY <1>1 DEF LogInv, Types, Running
  <2>2. \A b \in Block : ~In(lh, b) => Clean(b)
    BY <1>1 DEF LogInv, Running
  <2> QED
    BY <1>1, <1>2, <1>3, <2>1, <2>2 DEF Running, In, Clean, Contents
<1> QED
  BY <1>4, <1>6, <1>7 DEF LogInv

\* A turn of install_trans(): the block's home and its buffer get the logged contents.
LEMMA InstallStep == ASSUME LogInv, NEW p \in Proc, install_trans(p) PROVE LogInv'
<1>1. /\ mode = "up" /\ pc[p] = "install" /\ tail <= Len(lh)
      /\ home' = [home EXCEPT ![lh[tail]] = slot[tail]]
      /\ cache' = [cache EXCEPT ![lh[tail]] = slot[tail]] /\ tail' = tail + 1
      /\ UNCHANGED <<slot, head, lh, outstanding, committing, pc, mode>>
  BY DEF install_trans, Up, log
<1>2. tail \in 1 .. Len(lh) /\ tail \in 1 .. nlog - 1 /\ lh[tail] \in Block /\ tail \in Nat
      /\ Len(lh) \in Nat
  BY <1>1, Consts DEF LogInv, Types
<1>3. slot[tail] \in Value /\ slot[tail] # None
  BY <1>2, Consts DEF LogInv, Types
<1>4. /\ home' \in [Block -> Value] /\ cache' \in [Block -> Value \cup {None}]
      /\ \A b \in Block : /\ home'[b] = IF b = lh[tail] THEN slot[tail] ELSE home[b]
                          /\ cache'[b] = IF b = lh[tail] THEN slot[tail] ELSE cache[b]
  BY <1>1, <1>2, <1>3 DEF LogInv, Types
<1>5. Types'
  BY <1>1, <1>2, <1>4 DEF LogInv, Types, Distinct
<1>6. Calls' /\ Recovering' /\ SleeperHasWaker'
  BY <1>1 DEF LogInv, Calls, Ops, Committer, Recovering, SleeperHasWaker, NoSpace
<1>7. Running'
  <2>1. committing /\ \A q \in Proc : q # p => pc[q] \in {"idle", "begin", "asleep"}
    BY <1>1, InCommit DEF Committer
  <2>2. head = lh /\ \A i \in 1 .. Len(lh) : /\ slot[i] = Contents(lh[i])
                                             /\ i < tail => home[lh[i]] = slot[i]
    BY <1>1 DEF LogInv, Running
  <2>3. \A b \in Block : ~In(lh, b) => Clean(b)'
    BY <1>1, <1>4 DEF LogInv, Running, Clean
  <2>4. ASSUME NEW i \in 1 .. Len(lh)
        PROVE  slot[i] = Contents(lh[i])' /\ (i < tail + 1 => home'[lh[i]] = slot[i])
    <3>1. lh[i] \in Block /\ (lh[i] = lh[tail] => i = tail) /\ i \in Nat
      BY <1>2 DEF LogInv, Types, Distinct
    <3>2. CASE i = tail
      BY <3>2, <1>1, <1>2, <1>3, <1>4 DEF Contents
    <3>3. CASE i # tail
      <4>1. cache'[lh[i]] = cache[lh[i]] /\ home'[lh[i]] = home[lh[i]]
        BY <3>1, <3>3, <1>4
      <4>2. Contents(lh[i])' = Contents(lh[i])
        BY <4>1, <1>1 DEF Contents
      <4>3. i < tail + 1 => i < tail
        BY <3>1, <3>3, <1>2
      <4> QED
        BY <4>1, <4>2, <4>3, <2>2
    <3> QED
      BY <3>2, <3>3
  <2> QED
    BY <1>1, <2>1, <2>2, <2>3, <2>4 DEF Running, In, Contents
<1> QED
  BY <1>5, <1>6, <1>7 DEF LogInv

\* Every logged block is home when the header is erased.
LEMMA EraseStep == ASSUME LogInv, NEW p \in Proc, EraseLog(p) PROVE LogInv'
<1>1. /\ mode = "up" /\ pc[p] = "install" /\ tail = Len(lh) + 1 /\ lh' = <<>> /\ head' = <<>>
      /\ pc' = [pc EXCEPT ![p] = "committed"]
      /\ UNCHANGED <<home, slot, cache, outstanding, committing, tail, mode>>
  BY DEF EraseLog, Up
<1>2. /\ pc' \in [Proc -> {"idle", "begin", "asleep", "op", "write_log", "install", "committed"}]
      /\ \A q \in Proc : pc'[q] = IF q = p THEN "committed" ELSE pc[q]
  BY <1>1 DEF LogInv, Types
<1>3. committing /\ \A q \in Proc : q # p => pc[q] \in {"idle", "begin", "asleep"}
  BY <1>1, InCommit DEF Committer
<1>4. Types'
  <2>1. 0 <= nlog - 1
    BY Consts
  <2>2. Distinct(lh)' /\ Distinct(head)'
    BY <1>1, EmptyLog DEF Distinct
  <2> QED
    BY <1>1, <1>2, <2>1, <2>2, EmptyLog DEF LogInv, Types
<1>5. Ops' = Ops
  BY <1>1, <1>2 DEF Ops
<1>6. Calls' /\ Recovering' /\ SleeperHasWaker'
  BY <1>1, <1>2, <1>3, <1>5 DEF LogInv, Calls, Committer, Recovering, SleeperHasWaker
<1>7. ASSUME NEW b \in Block PROVE Clean(b)
  <2>1. CASE In(lh, b)
    <3>1. PICK i \in 1 .. Len(lh) : lh[i] = b
      BY <2>1 DEF In
    <3>2. slot[i] = Contents(b) /\ home[b] = slot[i]
      BY <1>1, <3>1 DEF LogInv, Types, Running
    <3> QED
      BY <3>2 DEF Contents, Clean
  <2>2. CASE ~In(lh, b)
    BY <2>2, <1>1 DEF LogInv, Running
  <2> QED
    BY <2>1, <2>2
<1>8. Running'
  BY <1>1, <1>2, <1>3, <1>7, EmptyLog DEF Running, Clean, Contents
<1> QED
  BY <1>4, <1>6, <1>8 DEF LogInv

\* The commit is over: everybody who waits is woken.
LEMMA CommittedStep == ASSUME LogInv, NEW p \in Proc, Committed(p) PROVE LogInv'
<1>1. /\ mode = "up" /\ Committer(p) /\ pc[p] # "install"
      /\ pc' = Awake(p, "idle")
      /\ UNCHANGED <<home, slot, head, cache, lh, outstanding, tail, mode>>
  BY DEF Committed, Up, Committer, disk
<1>10. committing' = FALSE
  BY DEF Committed
<1>11. ~committing' /\ committing' \in BOOLEAN
  BY <1>10, Zenon
<1>2. lh = <<>>
  BY <1>1 DEF Committed, Up, LogInv, Running
<1>3. /\ pc' \in [Proc -> {"idle", "begin", "asleep", "op", "write_log", "install", "committed"}]
      /\ \A q \in Proc : pc'[q] = IF q = p THEN "idle"
                                  ELSE IF pc[q] = "asleep" THEN "begin" ELSE pc[q]
  BY <1>1 DEF Awake, LogInv, Types
<1>4. /\ outstanding = 0 /\ \A q \in Proc : q # p => pc[q] \in {"idle", "begin", "asleep"}
  BY <1>1, InCommit
<1>5. Types'
  BY <1>1, <1>3, <1>11 DEF LogInv, Types, Distinct
<1>6. Ops' = Ops
  BY <1>1, <1>3 DEF Ops, Committer
<1>7. Calls' /\ Recovering' /\ SleeperHasWaker'
  <2>1. \A q \in Proc : ~Committer(q)' /\ pc'[q] # "asleep"
    BY <1>3, <1>4 DEF Committer
  <2>4. outstanding' = Cardinality(Ops')
    BY <1>1, <1>6 DEF LogInv, Calls
  <2>2. Calls'
    BY <1>11, <2>1, <2>4, Zenon DEF Calls
  <2>3. Recovering' /\ SleeperHasWaker'
    BY <1>1, <2>1 DEF Recovering, SleeperHasWaker
  <2> QED
    BY <2>2, <2>3
<1>8. head = <<>> /\ \A b \in Block : ~In(lh, b) => Clean(b)
  BY <1>1, <1>4 DEF LogInv, Running
<1>9. Running'
  BY <1>1, <1>2, <1>3, <1>4, <1>8 DEF Running, In, Clean
<1> QED
  BY <1>5, <1>7, <1>9 DEF LogInv
=============================================================================
