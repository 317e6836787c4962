--------------------------- MODULE CowMemoryProof ---------------------------
(***************************************************************************)
(* ControlInv is an invariant of CowMemory, for any number of processes,   *)
(* pages, virtual pages and page-table sizes: the page tables, p->sz and   *)
(* the control state of all CPUs fit together, so none of the panics that  *)
(* check them fires.  The last steps, those of exit(), wait() and          *)
(* freeproc() and of uvmunmap(), come first, then the theorems.            *)
(***************************************************************************)
EXTENDS CowForkSteps, CowSbrkSteps

\* A leaf goes to Zenon, for ten seconds, and then to the SMT solver, for a minute.
USE ZenonT(10), SMTT(60)

-----------------------------------------------------------------------------
(* exit(), wait() and freeproc() *)

\* exit(): reparent() touches no process whose table somebody else is freeing.
LEMMA ExitStep ==
    ASSUME ControlInv, NEW p \in Proc, exit(p)
    PROVE  ControlInv'
<1>1. /\ TypeOK /\ ProcInv(p) /\ pc[p] \in {"user", "exit"} /\ Pos(p) = pc[p]
      /\ state[p] = "RUNNABLE"
  BY DEF ControlInv, At, exit, ProcInv, Calls, Pos, InCall
<1>2. lv[p].np = None /\ ptr[result(p)] = None /\ ptr[mem(p)] = None
  BY <1>1 DEF ProcInv, Works, Holds, PlainLabels, AllocLabels
<1>3. CASE p = initproc
  <2>1. panicked' = "init exiting" /\ UNCHANGED <<procVars, tableVars, pc, lv>> /\ AllocOK'
    BY <1>1, <1>3 DEF exit, Panic, procVars, allocVars, AllocOK, TypeOK
  <2> QED
    BY <2>1, PanicRule
<1>4. CASE p # initproc
  <2>1. /\ parent' = [q \in Proc |-> IF parent[q] = p THEN initproc ELSE parent[q]]
        /\ state' = [state EXCEPT ![p] = "ZOMBIE"] /\ pc' = [pc EXCEPT ![p] = "dead"]
        /\ lv' = [lv EXCEPT ![p] = Idle] /\ panicked' = panicked
        /\ sz' = sz /\ ptr' = ptr /\ perm' = perm /\ UNCHANGED allocVars
    BY <1>4 DEF exit, Goto, tableVars
  <2>2. TypeOK' /\ panicked' \notin TablePanics
    <3>1. pc' \in [Proc -> Label] /\ state' \in [Proc -> {"UNUSED", "USED", "RUNNABLE", "ZOMBIE"}]
      BY <1>1, <2>1 DEF TypeOK, Label
    <3>2. lv' \in [Proc -> LocalVars] /\ parent' \in [Proc -> Proc \cup {None}]
      BY <1>1, <2>1, IdleType, LocNone DEF TypeOK
    <3> QED
      BY <1>1, <2>1, <3>1, <3>2 DEF ControlInv, TypeOK, allocVars
  <2>3. /\ pc'[p] = "dead" /\ lv'[p] = Idle /\ state'[p] = "ZOMBIE"
        /\ \A y \in Proc \ {p} : /\ pc'[y] = pc[y] /\ lv'[y] = lv[y] /\ state'[y] = state[y]
                                 /\ (parent[y] # p => parent'[y] = parent[y])
    BY <1>1, <2>1 DEF TypeOK
  <2>4. \A r \in Proc : lv[r].np # p
    BY <1>1, <1>2, Unworked, LocNone
  <2>5. Partner(p, p)
    BY <1>2, <2>3, <2>4 DEF Partner, Idle
  <2>6. \A y \in Proc \ {p} : Untouched(y, p)
    BY <2>1, <2>3 DEF Untouched, Kept
  <2>7. Calls(p)' /\ Works(p)' /\ Bounds(p)' /\ Holds(p)' /\ Tables(p)'
    BY <1>2, <2>1, <2>3, Asleep
  <2>8. AtRest(p)'
    BY <1>1, <2>1, <2>3, <2>4 DEF ProcInv, AtRest, Mapped
  <2> QED
    BY <1>1, <2>2, <2>5, <2>6, <2>7, <2>8, StepRule DEF ProcInv
<1> QED
  BY <1>3, <1>4

\* wait(): a ZOMBIE child is freed by its parent alone, on one CPU.
LEMMA WaitStep ==
    ASSUME ControlInv, NEW p \in Proc, NEW q \in Proc, wait(p, q)
    PROVE  ControlInv'
<1> DEFINE x == [lv[p] EXCEPT !.np = q]
<1>1. /\ TypeOK /\ ProcInv(p) /\ ProcInv(q) /\ pc[p] = "user" /\ panicked = "no"
      /\ state[q] = "ZOMBIE" /\ parent[q] = p /\ p # q /\ lv[p] = Idle /\ lv[p].np = None
      /\ state[p] = "RUNNABLE"
  BY DEF ControlInv, At, wait, ProcInv, Calls, Idle
<1>2. x \in LocalVars
  BY <1>1, IdleType DEF LocalVars
<1>3. /\ x.np = q /\ x.loc = None /\ x.a = 0 /\ x.nsz = 0
  BY <1>1 DEF Idle
<1>4. /\ pc' = [pc EXCEPT ![p] = "freeproc"] /\ lv' = [lv EXCEPT ![p] = x]
      /\ state' = state /\ parent' = parent /\ sz' = sz
      /\ ptr' = ptr /\ perm' = perm /\ panicked' = panicked /\ UNCHANGED allocVars
  BY <1>1 DEF wait, Goto, tableVars, procVars, TypeOK
<1>5. TypeOK' /\ panicked' \notin TablePanics
  <2>1. pc' \in [Proc -> Label]
    BY <1>1, <1>4 DEF TypeOK, Label
  <2>2. lv' \in [Proc -> LocalVars]
    BY <1>1, <1>2, <1>4 DEF TypeOK
  <2> QED
    BY <1>1, <1>4, <2>1, <2>2 DEF ControlInv, TypeOK, allocVars
<1> HIDE DEF x
<1>6. /\ pc'[p] = "freeproc" /\ lv'[p] = x /\ Pos(p)' = "freeproc"
      /\ \A y \in Proc \ {p} : pc'[y] = pc[y] /\ lv'[y] = lv[y]
  BY <1>1, <1>3, <1>4 DEF TypeOK, Pos, InCall
<1>7. pc[q] = "dead" /\ lv[q] = Idle /\ ptr[result(q)] = None /\ ptr[mem(q)] = None
  BY <1>1, Sleeper
<1>8. \A r \in Proc : lv[r].np # q
  BY <1>1, Unworked, Sleeper, LocNone
<1>9. Partner(p, q)
  BY <1>1, <1>3, <1>6, <1>8 DEF Partner
<1>10. \A y \in Proc \ {p, q} : Untouched(y, p)
  BY <1>4, <1>6 DEF Untouched, Kept
<1>11. \A va \in VA : Mapped(q, va) <=> va < sz[q]
  BY <1>1, <1>8 DEF ProcInv, AtRest
<1>12. ProcInv(q)'
  <2>1. Calls(q)' /\ Works(q)' /\ Bounds(q)' /\ Holds(q)' /\ Tables(q)'
    BY <1>1, <1>4, <1>6, <1>7, Asleep
  <2>2. AtRest(q)'
    BY <1>1, <1>3, <1>4, <1>6 DEF ProcInv, AtRest, Mapped
  <2> QED
    BY <2>1, <2>2 DEF ProcInv
<1>13. ProcInv(p)'
  <2>1. Calls(p)' /\ Works(p)'
    BY <1>1, <1>3, <1>4, <1>6 DEF Calls, Works, Other, AllocLabels, FreeLabels, PlainLabels,
                            ForkLabels, FreeingLabels, LoopLabels, UnmapLabels
  <2>2. Bounds(p)'
    BY <1>1, <1>3, <1>4, <1>6 DEF Bounds, PlainLabels, ForkLabels, LoopLabels, UnmapLabels
  <2>3. Holds(p)'
    BY <1>1, <1>3, <1>4, <1>6 DEF ProcInv, Holds, AllocLabels, FreeLabels, Pos, InCall
  <2>4. \A va \in VA : Mapped(lv[p].np, va)' <=> Extent(p, va)'
    <3>1. \A va \in VA : Extent(p, va)' <=> va < sz[q]
      BY <1>3, <1>4, <1>6 DEF Extent, ForkLabels, LoopLabels, UnmapLabels
    <3> QED
      BY <1>3, <1>4, <1>6, <1>11, <3>1 DEF Mapped
  <2>5. Tables(p)'
    BY <1>3, <1>6, <2>4 DEF Tables, UnmapLabels
  <2>6. AtRest(p)'
    <3>1. (\A r \in Proc : lv'[r].np # p) => (\A r \in Proc : lv[r].np # p)
      BY <1>1, <1>6, LocNone
    <3> QED
      BY <1>1, <1>4, <1>6, <3>1 DEF ProcInv, AtRest, Mapped
  <2> QED
    BY <2>1, <2>2, <2>3, <2>5, <2>6 DEF ProcInv
<1> QED
  BY <1>1, <1>5, <1>9, <1>10, <1>12, <1>13, StepRule

\* freeproc() calling kfree() on the trapframe preserves the invariant.
LEMMA FreeprocStep ==
    ASSUME ControlInv, NEW p \in Proc, freeproc(p)
    PROVE  ControlInv'
<1>1. /\ TypeOK /\ ProcInv(p) /\ lv[p] \in LocalVars /\ pc[p] = "freeproc" /\ panicked = "no"
      /\ Pos(p) = pc[p] /\ Other(p) /\ lv[p].np \in Proc /\ AtRest(lv[p].np)
  BY
     DEF ControlInv, TypeOK, At, freeproc, Pos, InCall, ProcInv, Works, ForkLabels,
         FreeingLabels, Other
<1>2. CASE ptr[trapframe(lv[p].np)] = None
  <2> DEFINE x == lv[p]
  <2>1. Moves(p, "freed_tf", x)
    BY <1>1, <1>2
       DEF Moves, AllocOK, freeproc, Goto, Return, CallKalloc, CallKfree, Dealloc, TypeOK,
           allocVars
  <2>2. x \in LocalVars
    BY <1>1 DEF LocalVars
  <2>3. x.np = lv[p].np /\ x.loc = lv[p].loc /\ x.a = lv[p].a /\ x.nsz = lv[p].nsz
    BY <1>1 DEF LocalVars
  <2>4. /\ pc'[p] = "freed_tf" /\ Pos(p)' = "freed_tf" /\ lv'[p] = x
        /\ state' = state /\ parent' = parent /\ sz' = sz /\ ptr' = ptr
    BY <1>1, <2>1, <2>3, Moved
  <2>5. \A va \in VA : Mapped(lv[p].np, va)' <=> Extent(p, va)'
    BY <1>1, <1>2, <2>3, <2>4, LocNone, Locals, VAType
       DEF ProcInv, Works, Bounds, Tables, Mapped, Extent, PlainLabels, ForkLabels, FreeingLabels,
           LoopLabels, UnmapLabels
  <2>6. Calls(p)' /\ Works(p)'
    BY <1>1, <1>2, <2>3, <2>4, LocNone
       DEF ProcInv, Calls, Works, Other, AllocLabels, FreeLabels, PlainLabels, ForkLabels,
           FreeingLabels, LoopLabels, UnmapLabels
  <2>7. Bounds(p)'
    BY <1>1, <1>2, <2>3, <2>4
       DEF ProcInv, Bounds, PlainLabels, ForkLabels, FreeingLabels, LoopLabels, UnmapLabels
  <2>8. Holds(p)' /\ Tables(p)'
    BY <1>1, <1>2, <2>3, <2>4, <2>5, LocNone
       DEF ProcInv, Holds, Tables, Other, UnmapLabels, AllocLabels, FreeLabels
  <2> QED
    BY <1>1, <2>1, <2>2, <2>3, <2>6, <2>7, <2>8, MoveRule DEF Label
<1>3. CASE ptr[trapframe(lv[p].np)] # None
  <2> DEFINE x == [lv[p] EXCEPT !.ret = "freed_tf", !.loc = trapframe(lv[p].np)]
  <2>1. Moves(p, "kfree", x)
    BY <1>1, <1>3
       DEF Moves, AllocOK, freeproc, Goto, Return, CallKalloc, CallKfree, Dealloc, TypeOK,
           allocVars
  <2>2. x \in LocalVars
    BY <1>1, LocType DEF LocalVars, Label
  <2>3. x.np = lv[p].np /\ x.loc = trapframe(lv[p].np) /\ x.a = lv[p].a /\ x.nsz = lv[p].nsz /\ x.lim = lv[p].lim /\ x.cont = lv[p].cont /\ x.ret = "freed_tf"
    BY <1>1 DEF LocalVars
  <2> HIDE DEF x
  <2>4. /\ pc'[p] = "kfree" /\ Pos(p)' = "freed_tf" /\ lv'[p] = x
        /\ state' = state /\ parent' = parent /\ sz' = sz /\ ptr' = ptr
    BY <1>1, <2>1, <2>3, Moved
  <2>5. \A va \in VA : Mapped(lv[p].np, va)' <=> Extent(p, va)'
    BY <1>1, <1>3, <2>3, <2>4, LocNone, Locals, VAType
       DEF ProcInv, Works, Bounds, Tables, Mapped, Extent, PlainLabels, ForkLabels, FreeingLabels,
           LoopLabels, UnmapLabels
  <2>6. Calls(p)' /\ Works(p)'
    BY <1>1, <1>3, <2>3, <2>4, LocNone
       DEF ProcInv, Calls, Works, Other, AllocLabels, FreeLabels, PlainLabels, ForkLabels,
           FreeingLabels, LoopLabels, UnmapLabels
  <2>7. Bounds(p)'
    BY <1>1, <1>3, <2>3, <2>4
       DEF ProcInv, Bounds, PlainLabels, ForkLabels, FreeingLabels, LoopLabels, UnmapLabels
  <2>8. Holds(p)' /\ Tables(p)'
    BY <1>1, <1>3, <2>3, <2>4, <2>5, LocNone
       DEF ProcInv, Holds, Tables, Other, UnmapLabels, AllocLabels, FreeLabels
  <2> QED
    BY <1>1, <2>1, <2>2, <2>3, <2>6, <2>7, <2>8, MoveRule DEF Label
<1> QED
  BY <1>2, <1>3

\* freeproc() going on to proc_freepagetable(): uvmunmap() covers exactly sz pages.
LEMMA FreedTrapframeStep ==
    ASSUME ControlInv, NEW p \in Proc, FreedTrapframe(p)
    PROVE  ControlInv'
<1>1. /\ TypeOK /\ ProcInv(p) /\ lv[p] \in LocalVars /\ pc[p] = "freed_tf" /\ panicked = "no"
      /\ Pos(p) = pc[p]
      /\ Other(p) /\ lv[p].np \in Proc /\ lv[p].np # p /\ AtRest(lv[p].np) /\ AtRest(p)
  BY
     DEF ControlInv, TypeOK, At, FreedTrapframe, Pos, InCall, ProcInv, Works, ForkLabels,
         FreeingLabels, Other
<1>z. sz[lv[p].np] \in 0 .. NVA /\ 0 \in 0 .. NVA
  BY <1>1, CowAssumption DEF TypeOK
<1>2. CASE TRUE
  <2> DEFINE x == [lv[p] EXCEPT !.loc = None, !.a = 0, !.lim = sz[lv[p].np], !.cont = "freewalk"]
  <2>1. x \in LocalVars
    BY <1>1, <1>z DEF LocalVars, Label
  <2>2. x.np = lv[p].np /\ x.loc = None /\ x.a = 0 /\ x.nsz = lv[p].nsz /\ x.lim = sz[lv[p].np] /\ x.cont = "freewalk"
    BY <1>1 DEF LocalVars
  <2>3. /\ ptr' \in [Loc -> Page \cup {None}] /\ ptr'[trapframe(lv[p].np)] = None
        /\ \A k \in Loc : k # trapframe(lv[p].np) => ptr'[k] = ptr[k]
    <3>1. trapframe(lv[p].np) \in Loc
      BY <1>1, LocType DEF trapframe
    <3>2. None \in Page \cup {None}
      BY <1>1, <3>1 DEF TypeOK
    <3>3. ptr' = [ptr EXCEPT ![trapframe(lv[p].np)] = None]
      BY <1>1, <1>2 DEF FreedTrapframe
    <3> QED
      BY <1>1, <3>1, <3>2, <3>3, Write1
  <2>4. /\ \A y \in Proc \ {p, lv[p].np} : Kept(y)
        /\ ptr'[result(lv[p].np)] = ptr[result(lv[p].np)] /\ ptr'[mem(lv[p].np)] = ptr[mem(lv[p].np)]
    BY <1>1, <2>3, LocType DEF Kept, trapframe, pagetable, result, mem, ptpage, pte
  <2>5. \A y \in Proc, va \in VA : Mapped(y, va)' <=> Mapped(y, va)
    BY <1>1, <2>3, LocType DEF Mapped, trapframe, pagetable, result, mem, ptpage, pte
  <2>6. perm' = perm /\ perm \in [Proc -> [VA -> Perm]]
    BY <1>1, <1>2 DEF FreedTrapframe, TypeOK, tableVars
  <2>7. Shifts(p, lv[p].np, "unmap", x)
    <3>1. /\ pc' = [pc EXCEPT ![p] = "unmap"] /\ lv' = [lv EXCEPT ![p] = x]
          /\ UNCHANGED <<procVars, panicked>> /\ AllocOK'
      BY <1>1, <1>2
         DEF FreedTrapframe, Goto, Return, CallKalloc, CallKfree, Dealloc, AllocOK, allocVars, TypeOK
    <3>2. /\ \A y \in {p, lv[p].np}, va \in VA : perm'[y][va].cw => Mapped(y, va)'
          /\ lv[p].np # p => \A va \in VA : Mapped(p, va)' <=> Mapped(p, va)
      BY <1>1, <1>2, <2>5, <2>6 DEF AtRest
    <3> QED
      BY <1>1, <2>3, <2>4, <2>6, <3>1, <3>2 DEF Shifts, TypeOK
  <2> HIDE DEF x
  <2>8. /\ pc'[p] = "unmap" /\ Pos(p)' = "unmap" /\ lv'[p] = x
        /\ state' = state /\ parent' = parent /\ sz' = sz
    BY <1>1, <2>2, <2>7 DEF Shifts, TypeOK, procVars, Pos, InCall
  <2>9. Calls(p)' /\ Works(p)'
    BY <1>1, <1>2, <2>2, <2>8, LocNone
       DEF ProcInv, Calls, Works, Other, AllocLabels, FreeLabels, PlainLabels, ForkLabels,
           FreeingLabels, LoopLabels, UnmapLabels
  <2>10. Bounds(p)'
    BY <1>1, <1>2, <2>2, <2>8, Locals
       DEF ProcInv, Bounds, PlainLabels, ForkLabels, FreeingLabels, LoopLabels, UnmapLabels, Works
  <2>11. \A va \in VA : Mapped(lv[p].np, va)' <=> Extent(p, va)'
    <3>1. \A va \in VA : Mapped(lv[p].np, va) <=> va < sz[lv[p].np]
      BY <1>1, <1>2, LocNone, Locals, VAType
         DEF ProcInv, Bounds, Tables, Extent, PlainLabels, ForkLabels, FreeingLabels, LoopLabels,
             UnmapLabels, Works
    <3>2. \A va \in VA : Extent(p, va)' <=> va < sz[lv[p].np]
      BY <1>1, <1>2, <2>2, <2>8, Locals, VAType
         DEF ProcInv, Bounds, Extent, PlainLabels, ForkLabels, FreeingLabels, LoopLabels,
             UnmapLabels, Works
    <3> QED
      BY <1>1, <1>2, <2>2, <2>8, <2>5, <3>1, <3>2 DEF Mapped
  <2>12. Holds(p)'
    BY <1>1, <1>2, <2>2, <2>8, <2>3, LocType, LocNone
       DEF ProcInv, Holds, AllocLabels, FreeLabels, trapframe, result, mem, pagetable, ptpage, pte
  <2>13. Tables(p)'
    BY <1>1, <1>2, <2>2, <2>8, <2>3, <2>11, LocType, LocNone
       DEF ProcInv, Tables, UnmapLabels, trapframe, result, mem, pagetable, ptpage, pte
  <2> QED
    BY <1>1, <2>1, <2>2, <2>7, <2>9, <2>10, <2>12, <2>13, LocNone, ShiftRule DEF Label
<1> QED
  BY <1>2

\* A turn of uvmunmap() finds its page mapped, so its panic does not fire.
LEMMA UvmunmapStep ==
    ASSUME ControlInv, NEW p \in Proc, uvmunmap(p)
    PROVE  ControlInv'
<1>1. /\ TypeOK /\ ProcInv(p) /\ lv[p] \in LocalVars /\ pc[p] = "unmap" /\ panicked = "no"
      /\ Pos(p) = pc[p]
      /\ lv[p].np \in Proc /\ AtRest(lv[p].np) /\ AtRest(p)
  <2>1. TypeOK /\ ProcInv(p) /\ pc[p] = "unmap" /\ panicked = "no"
    BY DEF ControlInv, At, uvmunmap
  <2>2. lv[p] \in LocalVars
    BY <2>1 DEF TypeOK
  <2>3. Pos(p) = pc[p]
    BY <2>1 DEF Pos, InCall
  <2>4. lv[p].np \in Proc
    BY <2>1, <2>3 DEF ProcInv, Works, UnmapLabels, Other
  <2>5. AtRest(lv[p].np) /\ AtRest(p)
    BY <2>4 DEF ControlInv, ProcInv
  <2> QED
    BY <2>1, <2>2, <2>3, <2>4, <2>5
<1>n. ASSUME lv[p].a < lv[p].lim PROVE lv[p].a \in VA /\ Mapped(lv[p].np, lv[p].a)
  <2>1. lv[p].a \in VA /\ lv[p].np # None
    BY <1>1, <1>n, Locals, LocNone
  <2> QED
    BY <1>1, <1>n, <2>1, Locals DEF ProcInv, Tables, Extent, ForkLabels, LoopLabels, UnmapLabels
<1>a. ASSUME lv[p].a >= lv[p].lim
      PROVE  /\ Goto(p, lv[p].cont)
             /\ UNCHANGED <<allocVars, procVars, tableVars, lv, panicked>>
  <2>1. ~(lv[p].a < lv[p].lim)
    BY <1>1, <1>a, Locals
  <2> QED
    BY <2>1 DEF uvmunmap
<1>b. ASSUME lv[p].a < lv[p].lim
      PROVE  /\ CallKfree(p, pte(lv[p].np, lv[p].a), "unmap_pte", lv[p])
             /\ UNCHANGED <<allocVars, procVars, tableVars, panicked>>
  <2>1. ~(lv[p].a >= lv[p].lim)
    BY <1>1, <1>b, Locals
  <2> QED
    BY <1>b, <1>n, <2>1 DEF uvmunmap
<1>2. CASE lv[p].a >= lv[p].lim /\ lv[p].cont = "sbrk_done"
  <2> DEFINE x == lv[p]
  <2>1. Moves(p, "sbrk_done", x)
    BY <1>1, <1>2, <1>a
       DEF Moves, AllocOK, Goto, Return, CallKalloc, CallKfree, Dealloc, TypeOK,
           allocVars, procVars, tableVars
  <2>2. x \in LocalVars
    BY <1>1 DEF LocalVars
  <2>3. x.np = lv[p].np /\ x.loc = lv[p].loc /\ x.a = lv[p].a /\ x.nsz = lv[p].nsz
    BY <1>1 DEF LocalVars
  <2>4. /\ pc'[p] = "sbrk_done" /\ Pos(p)' = "sbrk_done" /\ lv'[p] = x
        /\ state' = state /\ parent' = parent /\ sz' = sz /\ ptr' = ptr
    BY <1>1, <2>1, <2>3, Moved
  <2>5. \A va \in VA : Mapped(lv[p].np, va)' <=> Extent(p, va)'
    <3>1. \A va \in VA : Mapped(lv[p].np, va) <=> va < lv[p].nsz \/ (lv[p].a <= va /\ va < lv[p].lim)
      BY <1>1, <1>2, LocNone
         DEF ProcInv, Bounds, Tables, Extent, PlainLabels, ForkLabels, FreeingLabels, LoopLabels,
             UnmapLabels
    <3>2. \A va \in VA : Extent(p, va)' <=> va < lv[p].nsz
      BY <1>1, <1>2, <2>3, <2>4
         DEF ProcInv, Bounds, Extent, PlainLabels, ForkLabels, FreeingLabels, LoopLabels, UnmapLabels
    <3> QED
      BY <1>1, <1>2, <2>3, <2>4, <3>1, <3>2, Locals, VAType DEF Mapped
  <2>6. Calls(p)' /\ Works(p)'
    BY <1>1, <1>2, <2>3, <2>4, LocNone
       DEF ProcInv, Calls, Works, Other, AllocLabels, FreeLabels, PlainLabels, ForkLabels,
           FreeingLabels, LoopLabels, UnmapLabels
  <2>7. Bounds(p)'
    BY <1>1, <1>2, <2>3, <2>4, Locals
       DEF ProcInv, Bounds, PlainLabels, ForkLabels, FreeingLabels, LoopLabels, UnmapLabels
  <2>8. Holds(p)'
    BY <1>1, <1>2, <2>3, <2>4, LocNone DEF ProcInv, Holds, AllocLabels, FreeLabels
  <2>9. Tables(p)'
    BY <1>1, <1>2, <2>3, <2>4, <2>5, LocNone DEF ProcInv, Tables, UnmapLabels
  <2> QED
    BY <1>1, <2>1, <2>2, <2>3, <2>6, <2>7, <2>8, <2>9, MoveRule DEF Label
<1>3. CASE lv[p].a >= lv[p].lim /\ lv[p].cont = "freewalk"
  <2>w. lv[p].nsz = 0 /\ Other(p)
    BY <1>1, <1>3 DEF ProcInv, Works, UnmapLabels
  <2> DEFINE x == lv[p]
  <2>1. Moves(p, "freewalk", x)
    BY <1>1, <1>3, <1>a
       DEF Moves, AllocOK, Goto, Return, CallKalloc, CallKfree, Dealloc, TypeOK,
           allocVars, procVars, tableVars
  <2>2. x \in LocalVars
    BY <1>1 DEF LocalVars
  <2>3. x.np = lv[p].np /\ x.loc = lv[p].loc /\ x.a = lv[p].a /\ x.nsz = lv[p].nsz
    BY <1>1 DEF LocalVars
  <2>4. /\ pc'[p] = "freewalk" /\ Pos(p)' = "freewalk" /\ lv'[p] = x
        /\ state' = state /\ parent' = parent /\ sz' = sz /\ ptr' = ptr
    BY <1>1, <2>1, <2>3, Moved
  <2>5. \A va \in VA : Mapped(lv[p].np, va)' <=> Extent(p, va)'
    <3>1. \A va \in VA : Mapped(lv[p].np, va) <=> va < lv[p].nsz \/ (lv[p].a <= va /\ va < lv[p].lim)
      BY <1>1, <1>3, LocNone
         DEF ProcInv, Bounds, Tables, Extent, PlainLabels, ForkLabels, FreeingLabels, LoopLabels,
             UnmapLabels
    <3>2. \A va \in VA : Extent(p, va)' <=> FALSE
      BY <1>1, <1>3, <2>3, <2>4
         DEF ProcInv, Bounds, Extent, PlainLabels, ForkLabels, FreeingLabels, LoopLabels, UnmapLabels
    <3> QED
      BY <1>1, <1>3, <2>3, <2>4, <3>1, <3>2, <2>w, Locals, VAType DEF Mapped
  <2>6. Calls(p)' /\ Works(p)'
    BY <1>1, <1>3, <2>3, <2>4, LocNone, <2>w
       DEF ProcInv, Calls, Works, Other, AllocLabels, FreeLabels, PlainLabels, ForkLabels,
           FreeingLabels, LoopLabels, UnmapLabels
  <2>7. Bounds(p)'
    BY <1>1, <1>3, <2>3, <2>4
       DEF ProcInv, Bounds, PlainLabels, ForkLabels, FreeingLabels, LoopLabels, UnmapLabels
  <2>8. Holds(p)'
    BY <1>1, <1>3, <2>3, <2>4, LocNone DEF ProcInv, Holds, AllocLabels, FreeLabels
  <2>9. Tables(p)'
    BY <1>1, <1>3, <2>3, <2>4, <2>5, LocNone DEF ProcInv, Tables, UnmapLabels
  <2> QED
    BY <1>1, <2>1, <2>2, <2>3, <2>6, <2>7, <2>8, <2>9, MoveRule DEF Label
<1>4. CASE lv[p].a < lv[p].lim
  <2> DEFINE x == [lv[p] EXCEPT !.ret = "unmap_pte", !.loc = pte(lv[p].np, lv[p].a)]
  <2>1. Moves(p, "kfree", x)
    BY <1>1, <1>4, <1>b
       DEF Moves, AllocOK, Goto, Return, CallKalloc, CallKfree, Dealloc, TypeOK,
           allocVars, procVars, tableVars
  <2>2. x \in LocalVars
    BY <1>1, <1>n, <1>4, LocType DEF LocalVars, Label
  <2>3. x.np = lv[p].np /\ x.loc = pte(lv[p].np, lv[p].a) /\ x.a = lv[p].a /\ x.nsz = lv[p].nsz /\ x.lim = lv[p].lim /\ x.cont = lv[p].cont /\ x.ret = "unmap_pte"
    BY <1>1 DEF LocalVars
  <2> HIDE DEF x
  <2>4. /\ pc'[p] = "kfree" /\ Pos(p)' = "unmap_pte" /\ lv'[p] = x
        /\ state' = state /\ parent' = parent /\ sz' = sz /\ ptr' = ptr
    BY <1>1, <2>1, <2>3, Moved
  <2>5. \A va \in VA : Mapped(lv[p].np, va)' <=> Extent(p, va)'
    <3>1. \A va \in VA : Mapped(lv[p].np, va) <=> va < lv[p].nsz \/ (lv[p].a <= va /\ va < lv[p].lim)
      BY <1>1, <1>4, LocNone
         DEF ProcInv, Bounds, Tables, Extent, PlainLabels, ForkLabels, FreeingLabels, LoopLabels,
             UnmapLabels
    <3>2. \A va \in VA : Extent(p, va)' <=> va < lv[p].nsz \/ (lv[p].a <= va /\ va < lv[p].lim)
      BY <1>1, <1>4, <2>3, <2>4
         DEF ProcInv, Bounds, Extent, PlainLabels, ForkLabels, FreeingLabels, LoopLabels, UnmapLabels
    <3> QED
      BY <1>1, <1>4, <2>3, <2>4, <3>1, <3>2 DEF Mapped
  <2>6. Calls(p)' /\ Works(p)'
    BY <1>1, <1>4, <2>3, <2>4, LocNone
       DEF ProcInv, Calls, Works, Other, AllocLabels, FreeLabels, PlainLabels, ForkLabels,
           FreeingLabels, LoopLabels, UnmapLabels
  <2>7. Bounds(p)'
    BY <1>1, <1>4, <2>3, <2>4
       DEF ProcInv, Bounds, PlainLabels, ForkLabels, FreeingLabels, LoopLabels, UnmapLabels
  <2>8. Holds(p)'
    BY <1>1, <1>4, <2>3, <2>4, LocNone, <1>n
       DEF ProcInv, Holds, AllocLabels, FreeLabels, Mapped
  <2>9. Tables(p)'
    BY <1>1, <1>4, <2>3, <2>4, <2>5, LocNone DEF ProcInv, Tables, UnmapLabels
  <2> QED
    BY <1>1, <2>1, <2>2, <2>3, <2>6, <2>7, <2>8, <2>9, MoveRule DEF Label
<1> QED
  BY <1>1, <1>2, <1>3, <1>4, Locals DEF ProcInv, Works, UnmapLabels

\* *pte = 0 in uvmunmap(): one page less is mapped, and PTE_CW is cleared with it.
LEMMA UnmapPteStep ==
    ASSUME ControlInv, NEW p \in Proc, UnmapPte(p)
    PROVE  ControlInv'
<1>1. /\ TypeOK /\ ProcInv(p) /\ lv[p] \in LocalVars /\ pc[p] = "unmap_pte" /\ panicked = "no"
      /\ Pos(p) = pc[p]
      /\ lv[p].np \in Proc /\ AtRest(lv[p].np) /\ AtRest(p)
  <2>1. TypeOK /\ ProcInv(p) /\ pc[p] = "unmap_pte" /\ panicked = "no"
    BY DEF ControlInv, At, UnmapPte
  <2>2. lv[p] \in LocalVars
    BY <2>1 DEF TypeOK
  <2>3. Pos(p) = pc[p]
    BY <2>1 DEF Pos, InCall
  <2>4. lv[p].np \in Proc
    BY <2>1, <2>3 DEF ProcInv, Works, UnmapLabels, Other
  <2>5. AtRest(lv[p].np) /\ AtRest(p)
    BY <2>4 DEF ControlInv, ProcInv
  <2> QED
    BY <2>1, <2>2, <2>3, <2>4, <2>5
<1>v. lv[p].a \in VA /\ lv[p].a + 1 \in 0 .. NVA /\ lv[p].nsz <= lv[p].a /\ lv[p].a < lv[p].lim
  BY <1>1, Locals DEF ProcInv, Bounds, UnmapLabels
<1>2. CASE TRUE
  <2> DEFINE x == [lv[p] EXCEPT !.loc = None, !.a = @ + 1]
  <2>1. x \in LocalVars
    BY <1>1, <1>v DEF LocalVars
  <2>2. x.np = lv[p].np /\ x.loc = None /\ x.a = lv[p].a + 1 /\ x.nsz = lv[p].nsz /\ x.lim = lv[p].lim /\ x.cont = lv[p].cont
    BY <1>1 DEF LocalVars
  <2>3. /\ ptr' \in [Loc -> Page \cup {None}] /\ ptr'[pte(lv[p].np, lv[p].a)] = None
        /\ \A k \in Loc : k # pte(lv[p].np, lv[p].a) => ptr'[k] = ptr[k]
    <3>1. pte(lv[p].np, lv[p].a) \in Loc
      BY <1>1, LocType, <1>v DEF pte
    <3>2. None \in Page \cup {None}
      BY <1>1, <3>1 DEF TypeOK
    <3>3. ptr' = [ptr EXCEPT ![pte(lv[p].np, lv[p].a)] = None]
      BY <1>1, <1>2 DEF UnmapPte
    <3> QED
      BY <1>1, <3>1, <3>2, <3>3, Write1
  <2>4. /\ \A y \in Proc \ {p, lv[p].np} : Kept(y)
        /\ ptr'[result(lv[p].np)] = ptr[result(lv[p].np)] /\ ptr'[mem(lv[p].np)] = ptr[mem(lv[p].np)]
    BY <1>1, <2>3, LocType, <1>v DEF Kept, trapframe, pagetable, result, mem, ptpage, pte
  <2>5. /\ \A y \in Proc, va \in VA : (y # lv[p].np \/ va # lv[p].a) => (Mapped(y, va)' <=> Mapped(y, va))
        /\ ptr'[pte(lv[p].np, lv[p].a)] = None
    BY <1>1, <1>2, <2>3, LocType, <1>v DEF Mapped, pte, mem
  <2>6. /\ perm' \in [Proc -> [VA -> Perm]] /\ perm'[lv[p].np][lv[p].a] = NoPerm
        /\ \A y \in Proc, va \in VA : (y # lv[p].np \/ va # lv[p].a) => perm'[y][va] = perm[y][va]
        /\ \A y \in Proc : y # lv[p].np => perm'[y] = perm[y]
    <3>0. perm[lv[p].np][lv[p].a] \in Perm /\ lv[p].a \in VA
      BY <1>1, <1>2, <1>v DEF TypeOK
    <3>1. NoPerm \in Perm
      BY <3>0, FlagType
    <3>2. perm' = [perm EXCEPT ![lv[p].np][lv[p].a] = NoPerm]
      BY <1>1, <1>2, <1>v DEF UnmapPte
    <3> QED
      BY <1>1, <3>0, <3>1, <3>2, Flag1
  <2>b. perm[lv[p].np][lv[p].a] \in Perm
    BY <1>1, <1>v DEF TypeOK
  <2>c. ~perm'[lv[p].np][lv[p].a].cw
    BY <2>b, <2>6, FlagType
  <2>7. Shifts(p, lv[p].np, "unmap", x)
    <3>1. /\ pc' = [pc EXCEPT ![p] = "unmap"] /\ lv' = [lv EXCEPT ![p] = x]
          /\ UNCHANGED <<procVars, panicked>> /\ AllocOK'
      BY <1>1, <1>2
         DEF UnmapPte, Goto, Return, CallKalloc, CallKfree, Dealloc, AllocOK, allocVars, TypeOK
    <3>2. /\ \A y \in {p, lv[p].np}, va \in VA : perm'[y][va].cw => Mapped(y, va)'
          /\ lv[p].np # p => \A va \in VA : Mapped(p, va)' <=> Mapped(p, va)
      BY <1>1, <1>2, <2>5, <2>6, <1>v, <2>c DEF AtRest
    <3> QED
      BY <1>1, <2>3, <2>4, <2>6, <3>1, <3>2 DEF Shifts, TypeOK
  <2> HIDE DEF x
  <2>8. /\ pc'[p] = "unmap" /\ Pos(p)' = "unmap" /\ lv'[p] = x
        /\ state' = state /\ parent' = parent /\ sz' = sz
    BY <1>1, <2>2, <2>7 DEF Shifts, TypeOK, procVars, Pos, InCall
  <2>9. Calls(p)' /\ Works(p)'
    BY <1>1, <1>2, <2>2, <2>8, LocNone
       DEF ProcInv, Calls, Works, Other, AllocLabels, FreeLabels, PlainLabels, ForkLabels,
           FreeingLabels, LoopLabels, UnmapLabels
  <2>10. Bounds(p)'
    BY <1>1, <1>2, <2>2, <2>8, <1>v, Locals
       DEF Bounds, PlainLabels, ForkLabels, FreeingLabels, LoopLabels, UnmapLabels
  <2>11. \A va \in VA : Mapped(lv[p].np, va)' <=> Extent(p, va)'
    <3>1. \A va \in VA : Mapped(lv[p].np, va) <=> va < lv[p].nsz \/ (lv[p].a <= va /\ va < lv[p].lim)
      BY <1>1, <1>2, LocNone
         DEF ProcInv, Bounds, Tables, Extent, PlainLabels, ForkLabels, FreeingLabels, LoopLabels,
             UnmapLabels
    <3>2. \A va \in VA : Extent(p, va)' <=> va < lv[p].nsz \/ (lv[p].a + 1 <= va /\ va < lv[p].lim)
      BY <1>1, <1>2, <2>2, <2>8
         DEF ProcInv, Bounds, Extent, PlainLabels, ForkLabels, FreeingLabels, LoopLabels, UnmapLabels
    <3>3. \A va \in VA : (va < lv[p].nsz \/ (lv[p].a + 1 <= va /\ va < lv[p].lim)) <=> ((va < lv[p].nsz \/ (lv[p].a <= va /\ va < lv[p].lim)) /\ va # lv[p].a)
      BY <1>1, <1>v, Locals, VAType
    <3> QED
      BY <1>1, <1>2, <2>2, <2>8, <2>5, <3>1, <3>2, <3>3, <1>v DEF Mapped
  <2>12. Holds(p)'
    BY <1>1, <1>2, <2>2, <2>8, <2>3, LocType, LocNone, <1>v
       DEF ProcInv, Holds, AllocLabels, FreeLabels, trapframe, result, mem, pagetable, ptpage, pte
  <2>t. ptr'[trapframe(lv[p].np)] = ptr[trapframe(lv[p].np)]
    BY <1>1, <2>3, LocType, <1>v DEF trapframe, result, mem, pagetable, ptpage, pte
  <2>13. Tables(p)'
    BY <1>1, <1>2, <2>2, <2>8, <2>11, LocType, LocNone, <2>t
       DEF ProcInv, Tables, UnmapLabels
  <2> QED
    BY <1>1, <2>1, <2>2, <2>7, <2>9, <2>10, <2>12, <2>13, LocNone, ShiftRule DEF Label
<1> QED
  BY <1>2

\* freewalk() finds no leaf, and a slot that becomes UNUSED has no page left.
LEMMA FreewalkStep ==
    ASSUME ControlInv, NEW p \in Proc, freewalk(p)
    PROVE  ControlInv'
<1>1. /\ TypeOK /\ ProcInv(p) /\ lv[p] \in LocalVars /\ pc[p] = "freewalk" /\ panicked = "no"
      /\ Pos(p) = pc[p] /\ Other(p) /\ lv[p].np \in Proc /\ lv[p].np # p /\ lv[p].loc = None
      /\ state[p] = "RUNNABLE"
  <2>1. /\ TypeOK /\ ProcInv(p) /\ lv[p] \in LocalVars /\ pc[p] = "freewalk"
        /\ panicked = "no" /\ Pos(p) = pc[p]
    BY DEF ControlInv, TypeOK, At, freewalk, Pos, InCall
  <2>2. Other(p) /\ lv[p].np \in Proc /\ lv[p].np # p
    BY <2>1 DEF ProcInv, Works, FreeingLabels, Other
  <2> QED
    BY <2>1, <2>2 DEF ProcInv, Holds, FreeLabels, Calls
<1>2. \A va \in VA : ~Mapped(lv[p].np, va)
  BY <1>1, LocNone DEF ProcInv, Tables, Extent, ForkLabels, LoopLabels, UnmapLabels
<1>3. ptr[trapframe(lv[p].np)] = None /\ ptr[result(p)] = None /\ ptr[mem(p)] = None
  BY <1>1 DEF ProcInv, Tables, Holds, AllocLabels
<1>4. ASSUME NEW k \in Loc, ptr[k] # None, CallKfree(p, k, "freed_pt", lv[p]), k # None,
             k = pagetable(lv[p].np) \/ \E r \in Region : k = ptpage(lv[p].np, r),
             UNCHANGED <<allocVars, procVars, tableVars, panicked>>
      PROVE  ControlInv'
  <2> DEFINE x == [lv[p] EXCEPT !.ret = "freed_pt", !.loc = k]
  <2>1. Moves(p, "kfree", x)
    BY <1>1, <1>4
       DEF Moves, AllocOK, Goto, Return, CallKalloc, CallKfree, Dealloc, TypeOK, allocVars,
           procVars, tableVars
  <2>2. x \in LocalVars
    BY <1>1, <1>4 DEF LocalVars, Label
  <2>3. x.np = lv[p].np /\ x.loc = k /\ x.a = lv[p].a /\ x.nsz = lv[p].nsz /\ x.lim = lv[p].lim /\ x.cont = lv[p].cont /\ x.ret = "freed_pt"
    BY <1>1 DEF LocalVars
  <2> HIDE DEF x
  <2>4. /\ pc'[p] = "kfree" /\ Pos(p)' = "freed_pt" /\ lv'[p] = x
        /\ state' = state /\ parent' = parent /\ sz' = sz /\ ptr' = ptr
    BY <1>1, <2>1, <2>3, Moved
  <2>5. \A va \in VA : Mapped(lv[p].np, va)' <=> Extent(p, va)'
    <3>1. \A va \in VA : Mapped(lv[p].np, va) <=> FALSE
      BY <1>1, <1>4, LocNone
         DEF ProcInv, Bounds, Tables, Extent, PlainLabels, ForkLabels, FreeingLabels, LoopLabels,
             UnmapLabels
    <3>2. \A va \in VA : Extent(p, va)' <=> FALSE
      BY <1>1, <1>4, <2>3, <2>4
         DEF ProcInv, Bounds, Extent, PlainLabels, ForkLabels, FreeingLabels, LoopLabels, UnmapLabels
    <3> QED
      BY <1>1, <1>4, <2>3, <2>4, <3>1, <3>2 DEF Mapped
  <2>6. Calls(p)' /\ Works(p)'
    BY <1>1, <1>4, <2>3, <2>4, LocNone
       DEF ProcInv, Calls, Works, Other, AllocLabels, FreeLabels, PlainLabels, ForkLabels,
           FreeingLabels, LoopLabels, UnmapLabels
  <2>7. Bounds(p)'
    BY <1>1, <1>4, <2>3, <2>4
       DEF ProcInv, Bounds, PlainLabels, ForkLabels, FreeingLabels, LoopLabels, UnmapLabels
  <2>8. Holds(p)'
    BY <1>1, <1>4, <2>3, <2>4, LocNone DEF ProcInv, Holds, AllocLabels, FreeLabels
  <2>9. Tables(p)'
    BY <1>1, <1>4, <2>3, <2>4, <2>5, LocNone DEF ProcInv, Tables, UnmapLabels
  <2> QED
    BY <1>1, <2>1, <2>2, <2>3, <2>6, <2>7, <2>8, <2>9, MoveRule DEF Label
<1>5. CASE /\ \A r \in Region : ptr[ptpage(lv[p].np, r)] = None
           /\ ptr[pagetable(lv[p].np)] = None
           /\ state' = [state EXCEPT ![lv[p].np] = "UNUSED"]
           /\ parent' = [parent EXCEPT ![lv[p].np] = None]
           /\ sz' = [sz EXCEPT ![lv[p].np] = 0]
           /\ Return(p) /\ UNCHANGED <<allocVars, tableVars, panicked>>
  <2>1. PICK q \in Proc : q = lv[p].np
    BY <1>1
  <2>2. /\ lv[q] = Idle /\ pc[q] = "dead" /\ ptr[result(q)] = None /\ ptr[mem(q)] = None
        /\ AtRest(p) /\ AtRest(q) /\ state[q] # "RUNNABLE" /\ q # p
    BY <1>1, <2>1, Sleeper DEF ControlInv, ProcInv, Works
  <2>3. \A r \in Proc \ {p} : lv[r].np # q
    BY <1>1, <2>1, LocNone DEF ControlInv, Exclusive
  <2>4. /\ sz' = [sz EXCEPT ![q] = 0] /\ parent' = [parent EXCEPT ![q] = None]
        /\ state' = [state EXCEPT ![q] = "UNUSED"] /\ pc' = [pc EXCEPT ![p] = "user"]
        /\ lv' = [lv EXCEPT ![p] = Idle] /\ ptr' = ptr /\ perm' = perm
        /\ panicked' = panicked /\ UNCHANGED allocVars
    BY <1>5, <2>1 DEF Return, Goto, tableVars
  <2>5. TypeOK' /\ panicked' \notin TablePanics
    <3>1. /\ pc' \in [Proc -> Label]
          /\ state' \in [Proc -> {"UNUSED", "USED", "RUNNABLE", "ZOMBIE"}]
      BY <1>1, <2>4 DEF TypeOK, Label
    <3>2. lv' \in [Proc -> LocalVars] /\ parent' \in [Proc -> Proc \cup {None}]
      BY <1>1, <2>4, IdleType DEF TypeOK
    <3>3. sz' \in [Proc -> 0 .. NVA]
      BY <1>1, <2>4, CowAssumption DEF TypeOK
    <3> QED
      BY <1>1, <2>4, <3>1, <3>2, <3>3 DEF ControlInv, TypeOK, allocVars
  <2>6. /\ pc'[p] = "user" /\ lv'[p] = Idle /\ state'[p] = "RUNNABLE" /\ sz'[p] = sz[p]
        /\ pc'[q] = "dead" /\ lv'[q] = Idle /\ state'[q] = "UNUSED" /\ sz'[q] = 0
        /\ \A y \in Proc \ {p, q} : /\ pc'[y] = pc[y] /\ lv'[y] = lv[y] /\ state'[y] = state[y]
                                    /\ sz'[y] = sz[y] /\ parent'[y] = parent[y]
    BY <1>1, <2>2, <2>4 DEF TypeOK
  <2>7. Partner(p, q)
    BY <2>1, <2>2, <2>3, <2>6 DEF Partner, Idle
  <2>8. \A y \in Proc \ {p, q} : Untouched(y, p)
    BY <2>4, <2>6 DEF Untouched, Kept
  <2>9. ProcInv(q)'
    <3>1. Calls(q)' /\ Works(q)' /\ Bounds(q)' /\ Holds(q)' /\ Tables(q)'
      BY <2>2, <2>4, <2>6, Asleep
    <3>2. \A va \in VA : ~Mapped(q, va) /\ ~(va < 0)
      BY <1>2, <2>1, VAType
    <3>3. /\ ptr[trapframe(q)] = None /\ ptr[pagetable(q)] = None
          /\ \A r \in Region : ptr[ptpage(q, r)] = None
      BY <1>3, <1>5, <2>1
    <3>4. AtRest(q)'
      BY <2>2, <2>4, <2>6, <3>2, <3>3 DEF AtRest, Mapped
    <3> QED
      BY <3>1, <3>4 DEF ProcInv
  <2>10. ProcInv(p)'
    <3>1. Calls(p)' /\ Works(p)' /\ Bounds(p)' /\ Holds(p)' /\ Tables(p)'
      BY <1>3, <2>4, <2>6, Awake
    <3>2. \A va \in VA : Mapped(p, va) <=> va < sz[p]
      BY <1>1, Sized
    <3>3. AtRest(p)'
      BY <2>2, <2>4, <2>6, <3>2 DEF AtRest, Mapped
    <3> QED
      BY <3>1, <3>3 DEF ProcInv
  <2> QED
    BY <1>1, <2>5, <2>7, <2>8, <2>9, <2>10, StepRule
<1>6. \/ \E r \in Region : /\ ptr[ptpage(lv[p].np, r)] # None
                           /\ CallKfree(p, ptpage(lv[p].np, r), "freed_pt", lv[p])
                           /\ UNCHANGED <<allocVars, procVars, tableVars, panicked>>
      \/ /\ ptr[pagetable(lv[p].np)] # None
         /\ CallKfree(p, pagetable(lv[p].np), "freed_pt", lv[p])
         /\ UNCHANGED <<allocVars, procVars, tableVars, panicked>>
      \/ /\ \A r \in Region : ptr[ptpage(lv[p].np, r)] = None
         /\ ptr[pagetable(lv[p].np)] = None
         /\ state' = [state EXCEPT ![lv[p].np] = "UNUSED"]
         /\ parent' = [parent EXCEPT ![lv[p].np] = None]
         /\ sz' = [sz EXCEPT ![lv[p].np] = 0]
         /\ Return(p) /\ UNCHANGED <<allocVars, tableVars, panicked>>
  BY <1>2 DEF freewalk
<1> QED
  BY <1>1, <1>4, <1>5, <1>6, LocType, LocNone

\* freewalk() clearing the entry of a freed page-table page preserves the invariant.
LEMMA FreedPagetableStep ==
    ASSUME ControlInv, NEW p \in Proc, FreedPagetable(p)
    PROVE  ControlInv'
<1>1. /\ TypeOK /\ ProcInv(p) /\ lv[p] \in LocalVars /\ pc[p] = "freed_pt" /\ panicked = "no"
      /\ Pos(p) = pc[p]
      /\ Other(p) /\ lv[p].np \in Proc /\ lv[p].np # p /\ AtRest(lv[p].np) /\ AtRest(p)
  BY
     DEF ControlInv, TypeOK, At, FreedPagetable, Pos, InCall, ProcInv, Works, ForkLabels,
         FreeingLabels, Other
<1>k. /\ lv[p].loc \in Loc
      /\ \A y \in Proc : lv[p].loc \notin {trapframe(y), result(y), mem(y)}
      /\ \A y \in Proc, va \in VA : lv[p].loc # pte(y, va)
      /\ \A y \in Proc \ {lv[p].np} : lv[p].loc # pagetable(y)
      /\ \A y \in Proc \ {lv[p].np}, r \in Region : lv[p].loc # ptpage(y, r)
  <2>1. lv[p].loc = pagetable(lv[p].np) \/ \E r \in Region : lv[p].loc = ptpage(lv[p].np, r)
    BY <1>1 DEF ProcInv, Holds
  <2>2. lv[p].loc \in Loc
    BY <1>1, <2>1, LocType
  <2> QED
    BY <2>1, <2>2 DEF trapframe, pagetable, result, mem, ptpage, pte
<1>2. CASE TRUE
  <2> DEFINE x == [lv[p] EXCEPT !.loc = None]
  <2>1. x \in LocalVars
    BY <1>1 DEF LocalVars
  <2>2. x.np = lv[p].np /\ x.loc = None /\ x.a = lv[p].a /\ x.nsz = lv[p].nsz /\ x.lim = lv[p].lim /\ x.cont = lv[p].cont
    BY <1>1 DEF LocalVars
  <2>3. /\ ptr' \in [Loc -> Page \cup {None}] /\ ptr'[lv[p].loc] = None
        /\ \A k \in Loc : k # lv[p].loc => ptr'[k] = ptr[k]
    <3>1. lv[p].loc \in Loc
      BY <1>1, LocType, <1>k
    <3>2. None \in Page \cup {None}
      BY <1>1, <3>1 DEF TypeOK
    <3>3. ptr' = [ptr EXCEPT ![lv[p].loc] = None]
      BY <1>1, <1>2 DEF FreedPagetable
    <3> QED
      BY <1>1, <3>1, <3>2, <3>3, Write1
  <2>4. /\ \A y \in Proc \ {p, lv[p].np} : Kept(y)
        /\ ptr'[result(lv[p].np)] = ptr[result(lv[p].np)] /\ ptr'[mem(lv[p].np)] = ptr[mem(lv[p].np)]
    BY <1>1, <2>3, LocType, <1>k DEF Kept
  <2>5. \A y \in Proc, va \in VA : Mapped(y, va)' <=> Mapped(y, va)
    BY <1>1, <1>k, <2>3, LocType DEF Mapped
  <2>6. perm' = perm /\ perm \in [Proc -> [VA -> Perm]]
    BY <1>1, <1>2 DEF FreedPagetable, TypeOK, tableVars
  <2>7. Shifts(p, lv[p].np, "freewalk", x)
    <3>1. /\ pc' = [pc EXCEPT ![p] = "freewalk"] /\ lv' = [lv EXCEPT ![p] = x]
          /\ UNCHANGED <<procVars, panicked>> /\ AllocOK'
      BY <1>1, <1>2
         DEF FreedPagetable, Goto, Return, CallKalloc, CallKfree, Dealloc, AllocOK, allocVars, TypeOK
    <3>2. /\ \A y \in {p, lv[p].np}, va \in VA : perm'[y][va].cw => Mapped(y, va)'
          /\ lv[p].np # p => \A va \in VA : Mapped(p, va)' <=> Mapped(p, va)
      BY <1>1, <1>2, <2>5, <2>6 DEF AtRest
    <3> QED
      BY <1>1, <2>3, <2>4, <2>6, <3>1, <3>2 DEF Shifts, TypeOK
  <2> HIDE DEF x
  <2>8. /\ pc'[p] = "freewalk" /\ Pos(p)' = "freewalk" /\ lv'[p] = x
        /\ state' = state /\ parent' = parent /\ sz' = sz
    BY <1>1, <2>2, <2>7 DEF Shifts, TypeOK, procVars, Pos, InCall
  <2>9. Calls(p)' /\ Works(p)'
    BY <1>1, <1>2, <2>2, <2>8, LocNone
       DEF ProcInv, Calls, Works, Other, AllocLabels, FreeLabels, PlainLabels, ForkLabels,
           FreeingLabels, LoopLabels, UnmapLabels
  <2>10. Bounds(p)'
    BY <1>1, <1>2, <2>2, <2>8
       DEF ProcInv, Bounds, PlainLabels, ForkLabels, FreeingLabels, LoopLabels, UnmapLabels
  <2>11. \A va \in VA : Mapped(lv[p].np, va)' <=> Extent(p, va)'
    <3>1. \A va \in VA : Mapped(lv[p].np, va) <=> FALSE
      BY <1>1, <1>2, LocNone
         DEF ProcInv, Bounds, Tables, Extent, PlainLabels, ForkLabels, FreeingLabels, LoopLabels,
             UnmapLabels
    <3>2. \A va \in VA : Extent(p, va)' <=> FALSE
      BY <1>1, <1>2, <2>2, <2>8
         DEF ProcInv, Bounds, Extent, PlainLabels, ForkLabels, FreeingLabels, LoopLabels, UnmapLabels
    <3> QED
      BY <1>1, <1>2, <2>2, <2>8, <2>5, <3>1, <3>2 DEF Mapped
  <2>12. Holds(p)'
    BY <1>1, <1>2, <2>2, <2>8, <2>3, LocType, LocNone, <1>k
       DEF ProcInv, Holds, AllocLabels, FreeLabels, trapframe, result, mem, pagetable, ptpage, pte
  <2>t. ptr'[trapframe(lv[p].np)] = ptr[trapframe(lv[p].np)]
    BY <1>1, <2>3, LocType, <1>k
  <2>13. Tables(p)'
    BY <1>1, <1>2, <2>2, <2>8, <2>11, LocType, LocNone, <2>t
       DEF ProcInv, Tables, UnmapLabels
  <2> QED
    BY <1>1, <2>1, <2>2, <2>7, <2>9, <2>10, <2>12, <2>13, LocNone, ShiftRule DEF Label
<1> QED
  BY <1>2

-----------------------------------------------------------------------------
(* All steps together *)

\* A step that the program of p asks for preserves the invariant.
LEMMA UserPreserves ==
    ASSUME ControlInv, NEW p \in Proc, UserStep(p)
    PROVE  ControlInv'
<1>1. ASSUME NEW va \in VA, NEW v \in Value, BeginStore(p, va, v) PROVE ControlInv'
  BY <1>1, BeginStoreStep
<1>2. ASSUME NEW va \in VA, NEW v \in Value, copyout(p, va, v) PROVE ControlInv'
  BY <1>2, CopyoutStep
<1>3. ASSUME NEW q \in Proc, fork(p, q) PROVE ControlInv'
  BY <1>3, ForkStep
<1>4. ASSUME NEW q \in Proc, wait(p, q) PROVE ControlInv'
  BY <1>4, WaitStep
<1>5. ASSUME NEW n \in (-MaxGrow) .. MaxGrow, sbrk(p, n) PROVE ControlInv'
  <2>1. n \in Int
    BY CowAssumption
  <2> QED
    BY <1>5, <2>1, SbrkStep
<1>6. CASE exit(p)
  BY <1>6, ExitStep
<1> QED
  BY <1>1, <1>2, <1>3, <1>4, <1>5, <1>6 DEF UserStep

\* A step of p inside the kernel preserves the invariant.
LEMMA KernelPreserves ==
    ASSUME ControlInv, NEW p \in Proc, KernelStep(p)
    PROVE  ControlInv'
<1>1. CASE Kalloc(p) \/ KallocRef(p) \/ Kfree(p) \/ KfreePush(p)
  BY <1>1, KallocStep, KallocRefStep, KfreeStep, KfreePushStep
<1>2. CASE Store(p) \/ write_trap(p) \/ CowCopy(p) \/ CowPte(p) \/ CopyoutWrite(p)
  BY <1>2, StoreStep, WriteTrapStep, CowCopyStep, CowPteStep, CopyoutWriteStep
<1>3. CASE AllocTrapframe(p) \/ AllocPagetable(p) \/ uvmcopy(p) \/ CopyWalk(p)
  BY <1>3, AllocTrapframeStep, AllocPagetableStep, UvmcopyStep, CopyWalkStep
<1>4. CASE map_new_to_old(p) \/ CopyInc(p) \/ ForkDone(p)
  BY <1>4, MapNewToOldStep, CopyIncStep, ForkDoneStep
<1>5. CASE freeproc(p) \/ FreedTrapframe(p) \/ freewalk(p) \/ FreedPagetable(p)
  BY <1>5, FreeprocStep, FreedTrapframeStep, FreewalkStep, FreedPagetableStep
<1>6. CASE uvmunmap(p) \/ UnmapPte(p)
  BY <1>6, UvmunmapStep, UnmapPteStep
<1>7. CASE uvmalloc(p) \/ GrowMem(p) \/ GrowWalk(p) \/ GrowFail(p) \/ GrowMap(p) \/ SbrkDone(p)
  BY <1>7, UvmallocStep, GrowMemStep, GrowWalkStep, GrowFailStep, GrowMapStep, SbrkDoneStep
<1> QED
  BY <1>1, <1>2, <1>3, <1>4, <1>5, <1>6, <1>7 DEF KernelStep

\* A step that changes nothing, a halted machine included, preserves the invariant.
LEMMA StutterPreserves ==
    ASSUME ControlInv, UNCHANGED vars
    PROVE  ControlInv'
<1>1. UNCHANGED <<procVars, tableVars, pc, lv>> /\ AllocOK' /\ TypeOK
  BY DEF vars, procVars, tableVars, ControlInv, TypeOK, AllocOK
<1>2. panicked' \in {"no", "kerneltrap", "init exiting"}
  BY <1>1 DEF vars, ControlInv, TypeOK
<1> QED
  BY <1>1, <1>2, PanicRule

\* The control state, page tables and p->sz fit together in every reachable state.
THEOREM ControlInvariant == Spec => []ControlInv
<1>1. ControlInv /\ [Next]_vars => ControlInv'
  BY UserPreserves, KernelPreserves, StutterPreserves DEF Next, Halted
<1> QED
  BY InitControl, <1>1, PTL DEF Spec

\* Every kernel variable and every process's local variables keep their types; in
\* particular kfree(), increase_no_of_ref() and the memmove()s are given real pages.
THEOREM TypeCorrect == Spec => []TypeOK
<1>1. ControlInv => TypeOK
  BY DEF ControlInv
<1> QED
  BY ControlInvariant, <1>1, PTL

\* The panics of uvmcopy(), uvmunmap(), freewalk() and mappages() never fire, also when
\* fork() or sbrk() runs out of memory half way, and however the CPUs interleave.
THEOREM TablesAreConsistent == Spec => []TablesConsistent
<1>1. ControlInv => TablesConsistent
  BY DEF ControlInv, TablesConsistent
<1> QED
  BY ControlInvariant, <1>1, PTL
=============================================================================
