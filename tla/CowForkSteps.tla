---------------------------- MODULE CowForkSteps ----------------------------
(***************************************************************************)
(* Every step of fork() preserves ControlInv.                              *)
(***************************************************************************)
EXTENDS CowStoreSteps

\* A leaf goes to Zenon, for ten seconds, and then to the SMT solver, for a minute.
USE ZenonT(10), SMTT(60)

-----------------------------------------------------------------------------
(* fork() *)

\* allocproc() claiming an UNUSED slot: the slot has no pages, and nobody works on it.
LEMMA ForkStep ==
    ASSUME ControlInv, NEW p \in Proc, NEW q \in Proc, fork(p, q)
    PROVE  ControlInv'
<1> DEFINE x == [Idle EXCEPT !.np = q, !.ret = "alloc_tf"]
<1>1. /\ TypeOK /\ ProcInv(p) /\ ProcInv(q) /\ pc[p] = "user" /\ panicked = "no"
      /\ state[q] = "UNUSED" /\ p # q /\ lv[p] = Idle /\ lv[p].np = None /\ state[p] = "RUNNABLE"
  BY DEF ControlInv, At, fork, ProcInv, Calls, Idle
<1>2. x \in LocalVars
  BY IdleType DEF LocalVars, Label
<1>3. /\ x.np = q /\ x.loc = None /\ x.a = 0 /\ x.nsz = 0 /\ x.ret = "alloc_tf"
  BY DEF Idle
<1>4. /\ pc' = [pc EXCEPT ![p] = "kalloc"] /\ lv' = [lv EXCEPT ![p] = x]
      /\ state' = [state EXCEPT ![q] = "USED"] /\ parent' = parent /\ sz' = sz
      /\ ptr' = ptr /\ perm' = perm /\ panicked' = panicked /\ UNCHANGED allocVars
  BY DEF fork, CallKalloc, Goto, tableVars
<1>5. TypeOK' /\ panicked' \notin TablePanics
  <2>1. pc' \in [Proc -> Label] /\ state' \in [Proc -> {"UNUSED", "USED", "RUNNABLE", "ZOMBIE"}]
    BY <1>1, <1>4 DEF TypeOK, Label
  <2>2. lv' \in [Proc -> LocalVars]
    BY <1>1, <1>2, <1>4 DEF TypeOK
  <2> QED
    BY <1>1, <1>4, <2>1, <2>2 DEF ControlInv, TypeOK, allocVars
<1> HIDE DEF x
<1>6. /\ pc'[p] = "kalloc" /\ lv'[p] = x /\ state'[q] = "USED" /\ Pos(p)' = "alloc_tf"
      /\ \A y \in Proc \ {p} : pc'[y] = pc[y] /\ lv'[y] = lv[y]
      /\ \A y \in Proc \ {q} : state'[y] = state[y]
  BY <1>1, <1>3, <1>4 DEF TypeOK, Pos, InCall
<1>7. pc[q] = "dead" /\ lv[q] = Idle /\ ptr[result(q)] = None /\ ptr[mem(q)] = None
  BY <1>1, Sleeper
<1>8. \A r \in Proc : lv[r].np # q
  BY <1>1, Unworked, Sleeper, LocNone
<1>9. Partner(p, q)
  BY <1>1, <1>3, <1>6, <1>8 DEF Partner
<1>10. \A y \in Proc \ {p, q} : Untouched(y, p)
  BY <1>4, <1>6 DEF Untouched, Kept
<1>11. sz[q] = 0 /\ \A va \in VA : ~Mapped(q, va)
  BY <1>1, <1>8, VAType DEF ProcInv, AtRest
<1>12. ProcInv(q)'
  <2>1. Calls(q)' /\ Works(q)' /\ Bounds(q)' /\ Holds(q)' /\ Tables(q)'
    BY <1>1, <1>4, <1>6, <1>7, Asleep
  <2>2. AtRest(q)'
    BY <1>1, <1>3, <1>4, <1>6 DEF ProcInv, AtRest, Mapped
  <2> QED
    BY <2>1, <2>2 DEF ProcInv
<1>13. ProcInv(p)'
  <2>1. Calls(p)' /\ Works(p)'
    BY <1>1, <1>3, <1>6 DEF Calls, Works, Other, AllocLabels, FreeLabels, PlainLabels,
                            ForkLabels, FreeingLabels, LoopLabels, UnmapLabels
  <2>2. Bounds(p)'
    BY <1>1, <1>3, <1>4, <1>6, Locals DEF Bounds, PlainLabels, ForkLabels, LoopLabels, UnmapLabels
  <2>3. Holds(p)'
    BY <1>1, <1>3, <1>4, <1>6 DEF ProcInv, Holds, AllocLabels, FreeLabels, Pos, InCall
  <2>4. \A va \in VA : ~Extent(p, va)' /\ ~Mapped(lv[p].np, va)'
    <3>1. \A va \in VA : ~Extent(p, va)'
      BY <1>3, <1>6, VAType DEF Extent, ForkLabels, LoopLabels, UnmapLabels
    <3> QED
      BY <1>3, <1>4, <1>6, <1>11, <3>1 DEF Mapped
  <2>5. Tables(p)'
    BY <1>1, <1>3, <1>4, <1>6, <2>4 DEF ProcInv, AtRest, Tables, UnmapLabels
  <2>6. AtRest(p)'
    <3>1. (\A r \in Proc : lv'[r].np # p) => (\A r \in Proc : lv[r].np # p)
      BY <1>1, <1>6, LocNone
    <3> QED
      BY <1>1, <1>4, <1>6, <3>1 DEF ProcInv, AtRest, Mapped
  <2> QED
    BY <2>1, <2>2, <2>3, <2>5, <2>6 DEF ProcInv
<1> QED
  BY <1>1, <1>5, <1>9, <1>10, <1>12, <1>13, StepRule

\* allocproc() storing p->trapframe, or giving up, preserves the invariant.
LEMMA AllocTrapframeStep ==
    ASSUME ControlInv, NEW p \in Proc, AllocTrapframe(p)
    PROVE  ControlInv'
<1>1. /\ TypeOK /\ ProcInv(p) /\ lv[p] \in LocalVars /\ pc[p] = "alloc_tf" /\ panicked = "no"
      /\ Pos(p) = pc[p]
      /\ Other(p) /\ lv[p].np \in Proc /\ lv[p].np # p /\ AtRest(lv[p].np) /\ AtRest(p)
  BY
     DEF ControlInv, TypeOK, At, AllocTrapframe, Pos, InCall, ProcInv, Works, ForkLabels,
         FreeingLabels, Other
<1>s. sz[lv[p].np] = 0 /\ lv[p].a = 0
  BY <1>1 DEF ProcInv, Works, Bounds, ForkLabels, AtRest
<1>2. CASE ptr[result(p)] = None
  <2> DEFINE x == lv[p]
  <2>1. Moves(p, "freeproc", x)
    BY <1>1, <1>2
       DEF Moves, AllocOK, AllocTrapframe, Goto, Return, CallKalloc, CallKfree, Dealloc, TypeOK,
           allocVars, procVars, tableVars
  <2>2. x \in LocalVars
    BY <1>1 DEF LocalVars
  <2>3. x.np = lv[p].np /\ x.loc = lv[p].loc /\ x.a = lv[p].a /\ x.nsz = lv[p].nsz
    BY <1>1 DEF LocalVars
  <2>4. /\ pc'[p] = "freeproc" /\ Pos(p)' = "freeproc" /\ lv'[p] = x
        /\ state' = state /\ parent' = parent /\ sz' = sz /\ ptr' = ptr
    BY <1>1, <2>1, <2>3, Moved
  <2>5. \A va \in VA : Mapped(lv[p].np, va)' <=> Extent(p, va)'
    <3>1. \A va \in VA : Mapped(lv[p].np, va) <=> FALSE
      BY <1>1, <1>2, LocNone, <1>s, VAType
         DEF ProcInv, Bounds, Tables, Extent, PlainLabels, ForkLabels, FreeingLabels, LoopLabels,
             UnmapLabels, AtRest
    <3>2. \A va \in VA : Extent(p, va)' <=> FALSE
      BY <1>1, <1>2, <2>3, <2>4, <1>s, VAType
         DEF ProcInv, Bounds, Extent, PlainLabels, ForkLabels, FreeingLabels, LoopLabels,
             UnmapLabels, AtRest
    <3> QED
      BY <1>1, <1>2, <2>3, <2>4, <3>1, <3>2 DEF Mapped
  <2>6. Calls(p)' /\ Works(p)'
    BY <1>1, <1>2, <2>3, <2>4, LocNone
       DEF ProcInv, Calls, Works, Other, AllocLabels, FreeLabels, PlainLabels, ForkLabels,
           FreeingLabels, LoopLabels, UnmapLabels, Bounds
  <2>7. Bounds(p)'
    BY <1>1, <1>2, <2>3, <2>4
       DEF ProcInv, Bounds, PlainLabels, ForkLabels, FreeingLabels, LoopLabels, UnmapLabels
  <2>8. Holds(p)'
    BY <1>1, <1>2, <2>3, <2>4, LocNone DEF ProcInv, Holds, AllocLabels, FreeLabels
  <2>9. Tables(p)'
    BY <1>1, <1>2, <2>3, <2>4, <2>5, LocNone DEF ProcInv, Tables, UnmapLabels
  <2> QED
    BY <1>1, <2>1, <2>2, <2>3, <2>6, <2>7, <2>8, <2>9, MoveRule DEF Label
<1>3. CASE ptr[result(p)] # None
  <2> DEFINE x == [lv[p] EXCEPT !.ret = "alloc_pt"]
  <2>1. x \in LocalVars
    BY <1>1 DEF LocalVars, Label
  <2>2. x.np = lv[p].np /\ x.loc = lv[p].loc /\ x.a = lv[p].a /\ x.nsz = lv[p].nsz /\ x.lim = lv[p].lim /\ x.cont = lv[p].cont /\ x.ret = "alloc_pt"
    BY <1>1 DEF LocalVars
  <2>3. /\ ptr' \in [Loc -> Page \cup {None}] /\ ptr'[trapframe(lv[p].np)] = ptr[result(p)] /\ ptr'[result(p)] = None
        /\ \A k \in Loc : k # trapframe(lv[p].np) /\ k # result(p) => ptr'[k] = ptr[k]
    <3>1. trapframe(lv[p].np) \in Loc /\ result(p) \in Loc /\ trapframe(lv[p].np) # result(p)
      BY <1>1, LocType DEF trapframe, result
    <3>2. ptr[result(p)] \in Page \cup {None}
      BY <1>1, <3>1 DEF TypeOK
    <3>3. ptr' = [ptr EXCEPT ![trapframe(lv[p].np)] = ptr[result(p)], ![result(p)] = None]
      BY <1>1, <1>3 DEF AllocTrapframe
    <3> QED
      BY <1>1, <3>1, <3>2, <3>3, Write2
  <2>4. /\ \A y \in Proc \ {p, lv[p].np} : Kept(y)
        /\ ptr'[result(lv[p].np)] = ptr[result(lv[p].np)] /\ ptr'[mem(lv[p].np)] = ptr[mem(lv[p].np)]
    BY <1>1, <2>3, LocType DEF Kept, trapframe, pagetable, result, mem, ptpage, pte
  <2>5. \A y \in Proc, va \in VA : Mapped(y, va)' <=> Mapped(y, va)
    BY <1>1, <2>3, LocType DEF Mapped, trapframe, pagetable, result, mem, ptpage, pte
  <2>6. perm' = perm /\ perm \in [Proc -> [VA -> Perm]]
    BY <1>1, <1>3 DEF AllocTrapframe, TypeOK, tableVars
  <2>7. Shifts(p, lv[p].np, "kalloc", x)
    <3>1. /\ pc' = [pc EXCEPT ![p] = "kalloc"] /\ lv' = [lv EXCEPT ![p] = x]
          /\ UNCHANGED <<procVars, panicked>> /\ AllocOK'
      BY <1>1, <1>3
         DEF AllocTrapframe, Goto, Return, CallKalloc, CallKfree, Dealloc, AllocOK, allocVars, TypeOK
    <3>2. /\ \A y \in {p, lv[p].np}, va \in VA : perm'[y][va].cw => Mapped(y, va)'
          /\ lv[p].np # p => \A va \in VA : Mapped(p, va)' <=> Mapped(p, va)
      BY <1>1, <1>3, <2>5, <2>6 DEF AtRest
    <3> QED
      BY <1>1, <2>3, <2>4, <2>6, <3>1, <3>2 DEF Shifts, TypeOK
  <2> HIDE DEF x
  <2>8. /\ pc'[p] = "kalloc" /\ Pos(p)' = "alloc_pt" /\ lv'[p] = x
        /\ state' = state /\ parent' = parent /\ sz' = sz
    BY <1>1, <2>2, <2>7 DEF Shifts, TypeOK, procVars, Pos, InCall
  <2>9. Calls(p)' /\ Works(p)'
    BY <1>1, <1>3, <2>2, <2>8, LocNone
       DEF ProcInv, Calls, Works, Other, AllocLabels, FreeLabels, PlainLabels, ForkLabels,
           FreeingLabels, LoopLabels, UnmapLabels
  <2>10. Bounds(p)'
    BY <1>1, <1>3, <2>2, <2>8
       DEF ProcInv, Bounds, PlainLabels, ForkLabels, FreeingLabels, LoopLabels, UnmapLabels
  <2>11. \A va \in VA : Mapped(lv[p].np, va)' <=> Extent(p, va)'
    <3>1. \A va \in VA : Mapped(lv[p].np, va) <=> va < lv[p].a
      BY <1>1, <1>3, LocNone
         DEF ProcInv, Bounds, Tables, Extent, PlainLabels, ForkLabels, FreeingLabels, LoopLabels,
             UnmapLabels
    <3>2. \A va \in VA : Extent(p, va)' <=> va < lv[p].a
      BY <1>1, <1>3, <2>2, <2>8
         DEF ProcInv, Bounds, Extent, PlainLabels, ForkLabels, FreeingLabels, LoopLabels, UnmapLabels
    <3> QED
      BY <1>1, <1>3, <2>2, <2>8, <2>5, <3>1, <3>2 DEF Mapped
  <2>12. Holds(p)'
    BY <1>1, <1>3, <2>2, <2>8, <2>3, LocType, LocNone
       DEF ProcInv, Holds, AllocLabels, FreeLabels, trapframe, result, mem, pagetable, ptpage, pte
  <2>t. ptr'[pagetable(lv[p].np)] = ptr[pagetable(lv[p].np)]
    BY <1>1, <2>3, LocType DEF trapframe, result, mem, pagetable, ptpage, pte
  <2>13. Tables(p)'
    BY <1>1, <1>3, <2>2, <2>8, <2>11, LocType, LocNone, <2>t
       DEF ProcInv, Tables, UnmapLabels
  <2> QED
    BY <1>1, <2>1, <2>2, <2>7, <2>9, <2>10, <2>12, <2>13, LocNone, ShiftRule DEF Label
<1> QED
  BY <1>2, <1>3

\* proc_pagetable() storing p->pagetable, or giving up, preserves the invariant.
LEMMA AllocPagetableStep ==
    ASSUME ControlInv, NEW p \in Proc, AllocPagetable(p)
    PROVE  ControlInv'
<1>1. /\ TypeOK /\ ProcInv(p) /\ lv[p] \in LocalVars /\ pc[p] = "alloc_pt" /\ panicked = "no"
      /\ Pos(p) = pc[p]
      /\ Other(p) /\ lv[p].np \in Proc /\ lv[p].np # p /\ AtRest(lv[p].np) /\ AtRest(p)
  BY
     DEF ControlInv, TypeOK, At, AllocPagetable, Pos, InCall, ProcInv, Works, ForkLabels,
         FreeingLabels, Other
<1>s. sz[lv[p].np] = 0 /\ lv[p].a = 0
  BY <1>1 DEF ProcInv, Works, Bounds, ForkLabels, AtRest
<1>2. CASE ptr[result(p)] = None
  <2> DEFINE x == lv[p]
  <2>1. Moves(p, "freeproc", x)
    BY <1>1, <1>2
       DEF Moves, AllocOK, AllocPagetable, Goto, Return, CallKalloc, CallKfree, Dealloc, TypeOK,
           allocVars, procVars, tableVars
  <2>2. x \in LocalVars
    BY <1>1 DEF LocalVars
  <2>3. x.np = lv[p].np /\ x.loc = lv[p].loc /\ x.a = lv[p].a /\ x.nsz = lv[p].nsz
    BY <1>1 DEF LocalVars
  <2>4. /\ pc'[p] = "freeproc" /\ Pos(p)' = "freeproc" /\ lv'[p] = x
        /\ state' = state /\ parent' = parent /\ sz' = sz /\ ptr' = ptr
    BY <1>1, <2>1, <2>3, Moved
  <2>5. \A va \in VA : Mapped(lv[p].np, va)' <=> Extent(p, va)'
    <3>1. \A va \in VA : Mapped(lv[p].np, va) <=> FALSE
      BY <1>1, <1>2, LocNone, <1>s, VAType
         DEF ProcInv, Bounds, Tables, Extent, PlainLabels, ForkLabels, FreeingLabels, LoopLabels,
             UnmapLabels, AtRest
    <3>2. \A va \in VA : Extent(p, va)' <=> FALSE
      BY <1>1, <1>2, <2>3, <2>4, <1>s, VAType
         DEF ProcInv, Bounds, Extent, PlainLabels, ForkLabels, FreeingLabels, LoopLabels,
             UnmapLabels, AtRest
    <3> QED
      BY <1>1, <1>2, <2>3, <2>4, <3>1, <3>2 DEF Mapped
  <2>6. Calls(p)' /\ Works(p)'
    BY <1>1, <1>2, <2>3, <2>4, LocNone
       DEF ProcInv, Calls, Works, Other, AllocLabels, FreeLabels, PlainLabels, ForkLabels,
           FreeingLabels, LoopLabels, UnmapLabels, Bounds
  <2>7. Bounds(p)'
    BY <1>1, <1>2, <2>3, <2>4
       DEF ProcInv, Bounds, PlainLabels, ForkLabels, FreeingLabels, LoopLabels, UnmapLabels
  <2>8. Holds(p)'
    BY <1>1, <1>2, <2>3, <2>4, LocNone DEF ProcInv, Holds, AllocLabels, FreeLabels
  <2>9. Tables(p)'
    BY <1>1, <1>2, <2>3, <2>4, <2>5, LocNone DEF ProcInv, Tables, UnmapLabels
  <2> QED
    BY <1>1, <2>1, <2>2, <2>3, <2>6, <2>7, <2>8, <2>9, MoveRule DEF Label
<1>3. CASE ptr[result(p)] # None
  <2> DEFINE x == lv[p]
  <2>1. x \in LocalVars
    BY <1>1 DEF LocalVars
  <2>2. x.np = lv[p].np /\ x.loc = lv[p].loc /\ x.a = lv[p].a /\ x.nsz = lv[p].nsz /\ x.lim = lv[p].lim /\ x.cont = lv[p].cont
    BY <1>1 DEF LocalVars
  <2>3. /\ ptr' \in [Loc -> Page \cup {None}] /\ ptr'[pagetable(lv[p].np)] = ptr[result(p)] /\ ptr'[result(p)] = None
        /\ \A k \in Loc : k # pagetable(lv[p].np) /\ k # result(p) => ptr'[k] = ptr[k]
    <3>1. pagetable(lv[p].np) \in Loc /\ result(p) \in Loc /\ pagetable(lv[p].np) # result(p)
      BY <1>1, LocType DEF pagetable, result
    <3>2. ptr[result(p)] \in Page \cup {None}
      BY <1>1, <3>1 DEF TypeOK
    <3>3. ptr' = [ptr EXCEPT ![pagetable(lv[p].np)] = ptr[result(p)], ![result(p)] = None]
      BY <1>1, <1>3 DEF AllocPagetable
    <3> QED
      BY <1>1, <3>1, <3>2, <3>3, Write2
  <2>4. /\ \A y \in Proc \ {p, lv[p].np} : Kept(y)
        /\ ptr'[result(lv[p].np)] = ptr[result(lv[p].np)] /\ ptr'[mem(lv[p].np)] = ptr[mem(lv[p].np)]
    BY <1>1, <2>3, LocType DEF Kept, trapframe, pagetable, result, mem, ptpage, pte
  <2>5. \A y \in Proc, va \in VA : Mapped(y, va)' <=> Mapped(y, va)
    BY <1>1, <2>3, LocType DEF Mapped, trapframe, pagetable, result, mem, ptpage, pte
  <2>6. perm' = perm /\ perm \in [Proc -> [VA -> Perm]]
    BY <1>1, <1>3 DEF AllocPagetable, TypeOK, tableVars
  <2>7. Shifts(p, lv[p].np, "uvmcopy", x)
    <3>1. /\ pc' = [pc EXCEPT ![p] = "uvmcopy"] /\ lv' = [lv EXCEPT ![p] = x]
          /\ UNCHANGED <<procVars, panicked>> /\ AllocOK'
      BY <1>1, <1>3
         DEF AllocPagetable, Goto, Return, CallKalloc, CallKfree, Dealloc, AllocOK, allocVars, TypeOK
    <3>2. /\ \A y \in {p, lv[p].np}, va \in VA : perm'[y][va].cw => Mapped(y, va)'
          /\ lv[p].np # p => \A va \in VA : Mapped(p, va)' <=> Mapped(p, va)
      BY <1>1, <1>3, <2>5, <2>6 DEF AtRest
    <3> QED
      BY <1>1, <2>3, <2>4, <2>6, <3>1, <3>2 DEF Shifts, TypeOK
  <2>8. /\ pc'[p] = "uvmcopy" /\ Pos(p)' = "uvmcopy" /\ lv'[p] = x
        /\ state' = state /\ parent' = parent /\ sz' = sz
    BY <1>1, <2>2, <2>7 DEF Shifts, TypeOK, procVars, Pos, InCall
  <2>9. Calls(p)' /\ Works(p)'
    BY <1>1, <1>3, <2>2, <2>8, LocNone
       DEF ProcInv, Calls, Works, Other, AllocLabels, FreeLabels, PlainLabels, ForkLabels,
           FreeingLabels, LoopLabels, UnmapLabels
  <2>10. Bounds(p)'
    BY <1>1, <1>3, <2>2, <2>8, Locals
       DEF ProcInv, Bounds, PlainLabels, ForkLabels, FreeingLabels, LoopLabels, UnmapLabels
  <2>11. \A va \in VA : Mapped(lv[p].np, va)' <=> Extent(p, va)'
    <3>1. \A va \in VA : Mapped(lv[p].np, va) <=> va < lv[p].a
      BY <1>1, <1>3, LocNone
         DEF ProcInv, Bounds, Tables, Extent, PlainLabels, ForkLabels, FreeingLabels, LoopLabels,
             UnmapLabels
    <3>2. \A va \in VA : Extent(p, va)' <=> va < lv[p].a
      BY <1>1, <1>3, <2>2, <2>8
         DEF ProcInv, Bounds, Extent, PlainLabels, ForkLabels, FreeingLabels, LoopLabels, UnmapLabels
    <3> QED
      BY <1>1, <1>3, <2>2, <2>8, <2>5, <3>1, <3>2 DEF Mapped
  <2>12. Holds(p)'
    BY <1>1, <1>3, <2>2, <2>8, <2>3, LocType, LocNone
       DEF ProcInv, Holds, AllocLabels, FreeLabels, trapframe, result, mem, pagetable, ptpage, pte
  <2>13. Tables(p)'
    BY <1>1, <1>3, <2>2, <2>8, <2>3, <2>11, LocType, LocNone
       DEF ProcInv, Tables, UnmapLabels, trapframe, result, mem, pagetable, ptpage, pte
  <2> QED
    BY <1>1, <2>1, <2>2, <2>7, <2>9, <2>10, <2>12, <2>13, LocNone, ShiftRule DEF Label
<1> QED
  BY <1>2, <1>3

\* A turn of uvmcopy() finds the parent's page present, so neither of its panics fires.
LEMMA UvmcopyStep ==
    ASSUME ControlInv, NEW p \in Proc, uvmcopy(p)
    PROVE  ControlInv'
<1>1. /\ TypeOK /\ ProcInv(p) /\ lv[p] \in LocalVars /\ pc[p] = "uvmcopy" /\ panicked = "no"
      /\ Pos(p) = pc[p]
      /\ Other(p) /\ lv[p].np \in Proc /\ lv[p].np # p /\ AtRest(lv[p].np) /\ AtRest(p)
  BY
     DEF ControlInv, TypeOK, At, uvmcopy, Pos, InCall, ProcInv, Works, ForkLabels, FreeingLabels,
         Other
<1>n. ASSUME lv[p].a < sz[p] PROVE lv[p].a \in VA /\ Mapped(p, lv[p].a)
  BY <1>1, <1>n, Locals, Sized
<1>a. ASSUME lv[p].a = sz[p]
      PROVE  Goto(p, "fork_done") /\ UNCHANGED <<allocVars, procVars, tableVars, lv, panicked>>
  <2>1. ~(lv[p].a < sz[p])
    BY <1>1, <1>a, Locals
  <2> QED
    BY <1>a, <2>1 DEF uvmcopy, tableVars
<1>b. ASSUME lv[p].a < sz[p]
      PROVE  /\ perm' = [perm EXCEPT ![p][lv[p].a] =
                            change_flag_from_write_to_cow(perm[p][lv[p].a])]
             /\ IF ptr[ptpage(lv[p].np, region(lv[p].a))] = None
                THEN CallKalloc(p, "copy_walk", lv[p])
                ELSE Goto(p, "copy_map") /\ UNCHANGED lv
             /\ UNCHANGED <<allocVars, procVars, ptr, panicked>>
  <2>1. lv[p].a # sz[p]
    BY <1>1, <1>b, Locals
  <2> QED
    BY <1>b, <1>n, <2>1 DEF uvmcopy
<1>2. CASE lv[p].a = sz[p]
  <2> DEFINE x == lv[p]
  <2>1. Moves(p, "fork_done", x)
    BY <1>1, <1>2, <1>a
       DEF Moves, AllocOK, Goto, Return, CallKalloc, CallKfree, Dealloc, TypeOK,
           allocVars, procVars, tableVars
  <2>2. x \in LocalVars
    BY <1>1 DEF LocalVars
  <2>3. x.np = lv[p].np /\ x.loc = lv[p].loc /\ x.a = lv[p].a /\ x.nsz = lv[p].nsz
    BY <1>1 DEF LocalVars
  <2>4. /\ pc'[p] = "fork_done" /\ Pos(p)' = "fork_done" /\ lv'[p] = x
        /\ state' = state /\ parent' = parent /\ sz' = sz /\ ptr' = ptr
    BY <1>1, <2>1, <2>3, Moved
  <2>5. \A va \in VA : Mapped(lv[p].np, va)' <=> Extent(p, va)'
    <3>1. \A va \in VA : Mapped(lv[p].np, va) <=> va < lv[p].a
      BY <1>1, <1>2, LocNone
         DEF ProcInv, Bounds, Tables, Extent, PlainLabels, ForkLabels, FreeingLabels, LoopLabels,
             UnmapLabels
    <3>2. \A va \in VA : Extent(p, va)' <=> va < lv[p].a
      BY <1>1, <1>2, <2>3, <2>4
         DEF ProcInv, Bounds, Extent, PlainLabels, ForkLabels, FreeingLabels, LoopLabels, UnmapLabels
    <3> QED
      BY <1>1, <1>2, <2>3, <2>4, <3>1, <3>2 DEF Mapped
  <2>6. Calls(p)' /\ Works(p)'
    BY <1>1, <1>2, <2>3, <2>4, LocNone
       DEF ProcInv, Calls, Works, Other, AllocLabels, FreeLabels, PlainLabels, ForkLabels,
           FreeingLabels, LoopLabels, UnmapLabels
  <2>7. Bounds(p)'
    BY <1>1, <1>2, <2>3, <2>4
       DEF ProcInv, Bounds, PlainLabels, ForkLabels, FreeingLabels, LoopLabels, UnmapLabels
  <2>8. Holds(p)'
    BY <1>1, <1>2, <2>3, <2>4, LocNone DEF ProcInv, Holds, AllocLabels, FreeLabels
  <2>9. Tables(p)'
    BY <1>1, <1>2, <2>3, <2>4, <2>5, LocNone DEF ProcInv, Tables, UnmapLabels
  <2> QED
    BY <1>1, <2>1, <2>2, <2>3, <2>6, <2>7, <2>8, <2>9, MoveRule DEF Label
<1>3. CASE lv[p].a < sz[p] /\ ptr[ptpage(lv[p].np, region(lv[p].a))] = None
  <2> DEFINE x == [lv[p] EXCEPT !.ret = "copy_walk"]
  <2>1. x \in LocalVars
    BY <1>1 DEF LocalVars, Label
  <2>2. x.np = lv[p].np /\ x.loc = lv[p].loc /\ x.a = lv[p].a /\ x.nsz = lv[p].nsz /\ x.lim = lv[p].lim /\ x.cont = lv[p].cont /\ x.ret = "copy_walk"
    BY <1>1 DEF LocalVars
  <2>4. ptr' = ptr /\ \A y \in Proc : Kept(y)
    BY <1>1, <1>3, <1>b DEF Kept
  <2>5. \A y \in Proc, va \in VA : Mapped(y, va)' <=> Mapped(y, va)
    BY <2>4 DEF Mapped
  <2>6. /\ perm' \in [Proc -> [VA -> Perm]] /\ perm'[p][lv[p].a] = change_flag_from_write_to_cow(perm[p][lv[p].a])
        /\ \A y \in Proc, va \in VA : (y # p \/ va # lv[p].a) => perm'[y][va] = perm[y][va]
        /\ \A y \in Proc : y # p => perm'[y] = perm[y]
    <3>0. perm[p][lv[p].a] \in Perm /\ lv[p].a \in VA
      BY <1>1, <1>3, <1>n, <1>b DEF TypeOK
    <3>1. change_flag_from_write_to_cow(perm[p][lv[p].a]) \in Perm
      BY <3>0, FlagType
    <3>2. perm' = [perm EXCEPT ![p][lv[p].a] = change_flag_from_write_to_cow(perm[p][lv[p].a])]
      BY <1>1, <1>3, <1>n, <1>b
    <3> QED
      BY <1>1, <3>0, <3>1, <3>2, Flag1
  <2>7. Shifts(p, p, "kalloc", x)
    <3>1. /\ pc' = [pc EXCEPT ![p] = "kalloc"] /\ lv' = [lv EXCEPT ![p] = x]
          /\ UNCHANGED <<procVars, panicked>> /\ AllocOK'
      BY <1>1, <1>3, <1>b
         DEF Goto, Return, CallKalloc, CallKfree, Dealloc, AllocOK, allocVars, TypeOK
    <3>2. /\ \A y \in {p, p}, va \in VA : perm'[y][va].cw => Mapped(y, va)'
          /\ lv[p].np # p => \A va \in VA : Mapped(p, va)' <=> Mapped(p, va)
      BY <1>1, <1>3, <2>5, <2>6, <1>n DEF AtRest
    <3> QED
      BY <1>1, <2>4, <2>6, <3>1, <3>2 DEF Shifts, TypeOK
  <2> HIDE DEF x
  <2>8. /\ pc'[p] = "kalloc" /\ Pos(p)' = "copy_walk" /\ lv'[p] = x
        /\ state' = state /\ parent' = parent /\ sz' = sz
    BY <1>1, <2>2, <2>7 DEF Shifts, TypeOK, procVars, Pos, InCall
  <2>9. Calls(p)' /\ Works(p)'
    BY <1>1, <1>3, <2>2, <2>8, LocNone
       DEF ProcInv, Calls, Works, Other, AllocLabels, FreeLabels, PlainLabels, ForkLabels,
           FreeingLabels, LoopLabels, UnmapLabels
  <2>10. Bounds(p)'
    BY <1>1, <1>3, <2>2, <2>8
       DEF ProcInv, Bounds, PlainLabels, ForkLabels, FreeingLabels, LoopLabels, UnmapLabels
  <2>11. \A va \in VA : Mapped(lv[p].np, va)' <=> Extent(p, va)'
    <3>1. \A va \in VA : Mapped(lv[p].np, va) <=> va < lv[p].a
      BY <1>1, <1>3, LocNone
         DEF ProcInv, Bounds, Tables, Extent, PlainLabels, ForkLabels, FreeingLabels, LoopLabels,
             UnmapLabels
    <3>2. \A va \in VA : Extent(p, va)' <=> va < lv[p].a
      BY <1>1, <1>3, <2>2, <2>8
         DEF ProcInv, Bounds, Extent, PlainLabels, ForkLabels, FreeingLabels, LoopLabels, UnmapLabels
    <3> QED
      BY <1>1, <1>3, <2>2, <2>8, <2>5, <3>1, <3>2 DEF Mapped
  <2>12. Holds(p)'
    BY <1>1, <1>3, <2>2, <2>8, <2>4, LocType, LocNone
       DEF ProcInv, Holds, AllocLabels, FreeLabels, trapframe, result, mem, pagetable, ptpage, pte
  <2>13. Tables(p)'
    BY <1>1, <1>3, <2>2, <2>8, <2>4, <2>11, LocType, LocNone
       DEF ProcInv, Tables, UnmapLabels, trapframe, result, mem, pagetable, ptpage, pte
  <2> QED
    BY <1>1, <2>1, <2>2, <2>7, <2>9, <2>10, <2>12, <2>13, LocNone, ShiftRule DEF Label
<1>4. CASE lv[p].a < sz[p] /\ ptr[ptpage(lv[p].np, region(lv[p].a))] # None
  <2> DEFINE x == lv[p]
  <2>1. x \in LocalVars
    BY <1>1 DEF LocalVars
  <2>2. x.np = lv[p].np /\ x.loc = lv[p].loc /\ x.a = lv[p].a /\ x.nsz = lv[p].nsz /\ x.lim = lv[p].lim /\ x.cont = lv[p].cont
    BY <1>1 DEF LocalVars
  <2>4. ptr' = ptr /\ \A y \in Proc : Kept(y)
    BY <1>1, <1>4, <1>b DEF Kept
  <2>5. \A y \in Proc, va \in VA : Mapped(y, va)' <=> Mapped(y, va)
    BY <2>4 DEF Mapped
  <2>6. /\ perm' \in [Proc -> [VA -> Perm]] /\ perm'[p][lv[p].a] = change_flag_from_write_to_cow(perm[p][lv[p].a])
        /\ \A y \in Proc, va \in VA : (y # p \/ va # lv[p].a) => perm'[y][va] = perm[y][va]
        /\ \A y \in Proc : y # p => perm'[y] = perm[y]
    <3>0. perm[p][lv[p].a] \in Perm /\ lv[p].a \in VA
      BY <1>1, <1>4, <1>n, <1>b DEF TypeOK
    <3>1. change_flag_from_write_to_cow(perm[p][lv[p].a]) \in Perm
      BY <3>0, FlagType
    <3>2. perm' = [perm EXCEPT ![p][lv[p].a] = change_flag_from_write_to_cow(perm[p][lv[p].a])]
      BY <1>1, <1>4, <1>n, <1>b
    <3> QED
      BY <1>1, <3>0, <3>1, <3>2, Flag1
  <2>7. Shifts(p, p, "copy_map", x)
    <3>1. /\ pc' = [pc EXCEPT ![p] = "copy_map"] /\ lv' = [lv EXCEPT ![p] = x]
          /\ UNCHANGED <<procVars, panicked>> /\ AllocOK'
      BY <1>1, <1>4, <1>b
         DEF Goto, Return, CallKalloc, CallKfree, Dealloc, AllocOK, allocVars, TypeOK
    <3>2. /\ \A y \in {p, p}, va \in VA : perm'[y][va].cw => Mapped(y, va)'
          /\ lv[p].np # p => \A va \in VA : Mapped(p, va)' <=> Mapped(p, va)
      BY <1>1, <1>4, <2>5, <2>6, <1>n DEF AtRest
    <3> QED
      BY <1>1, <2>4, <2>6, <3>1, <3>2 DEF Shifts, TypeOK
  <2>8. /\ pc'[p] = "copy_map" /\ Pos(p)' = "copy_map" /\ lv'[p] = x
        /\ state' = state /\ parent' = parent /\ sz' = sz
    BY <1>1, <2>2, <2>7 DEF Shifts, TypeOK, procVars, Pos, InCall
  <2>9. Calls(p)' /\ Works(p)'
    BY <1>1, <1>4, <2>2, <2>8, LocNone
       DEF ProcInv, Calls, Works, Other, AllocLabels, FreeLabels, PlainLabels, ForkLabels,
           FreeingLabels, LoopLabels, UnmapLabels
  <2>10. Bounds(p)'
    BY <1>1, <1>4, <2>2, <2>8
       DEF ProcInv, Bounds, PlainLabels, ForkLabels, FreeingLabels, LoopLabels, UnmapLabels
  <2>11. \A va \in VA : Mapped(lv[p].np, va)' <=> Extent(p, va)'
    <3>1. \A va \in VA : Mapped(lv[p].np, va) <=> va < lv[p].a
      BY <1>1, <1>4, LocNone
         DEF ProcInv, Bounds, Tables, Extent, PlainLabels, ForkLabels, FreeingLabels, LoopLabels,
             UnmapLabels
    <3>2. \A va \in VA : Extent(p, va)' <=> va < lv[p].a
      BY <1>1, <1>4, <2>2, <2>8
         DEF ProcInv, Bounds, Extent, PlainLabels, ForkLabels, FreeingLabels, LoopLabels, UnmapLabels
    <3> QED
      BY <1>1, <1>4, <2>2, <2>8, <2>5, <3>1, <3>2 DEF Mapped
  <2>12. Holds(p)'
    BY <1>1, <1>4, <2>2, <2>8, <2>4, LocType, LocNone
       DEF ProcInv, Holds, AllocLabels, FreeLabels, trapframe, result, mem, pagetable, ptpage, pte
  <2>13. Tables(p)'
    BY <1>1, <1>4, <2>2, <2>8, <2>4, <2>11, LocType, LocNone
       DEF ProcInv, Tables, UnmapLabels, trapframe, result, mem, pagetable, ptpage, pte
  <2> QED
    BY <1>1, <2>1, <2>2, <2>7, <2>9, <2>10, <2>12, <2>13, LocNone, ShiftRule DEF Label
<1> QED
  BY <1>1, <1>2, <1>3, <1>4, Locals DEF ProcInv, Bounds, ForkLabels

\* walk(new, i, 1) adding a page-table page preserves the invariant.
LEMMA CopyWalkStep ==
    ASSUME ControlInv, NEW p \in Proc, CopyWalk(p)
    PROVE  ControlInv'
<1>1. /\ TypeOK /\ ProcInv(p) /\ lv[p] \in LocalVars /\ pc[p] = "copy_walk" /\ panicked = "no"
      /\ Pos(p) = pc[p]
      /\ Other(p) /\ lv[p].np \in Proc /\ lv[p].np # p /\ AtRest(lv[p].np) /\ AtRest(p)
  BY
     DEF ControlInv, TypeOK, At, CopyWalk, Pos, InCall, ProcInv, Works, ForkLabels,
         FreeingLabels, Other
<1>r. lv[p].a \in VA /\ region(lv[p].a) \in Region
  BY <1>1, Locals DEF ProcInv, Bounds, Region, region
<1>2. CASE ptr[result(p)] = None
  <2>1. panicked' = "kerneltrap" /\ UNCHANGED <<procVars, tableVars, pc, lv>> /\ AllocOK'
    BY <1>1, <1>2 DEF CopyWalk, Panic, tableVars, allocVars, AllocOK, TypeOK
  <2> QED
    BY <2>1, PanicRule
<1>3. CASE ptr[result(p)] # None
  <2> DEFINE x == lv[p]
  <2>1. x \in LocalVars
    BY <1>1 DEF LocalVars
  <2>2. x.np = lv[p].np /\ x.loc = lv[p].loc /\ x.a = lv[p].a /\ x.nsz = lv[p].nsz /\ x.lim = lv[p].lim /\ x.cont = lv[p].cont
    BY <1>1 DEF LocalVars
  <2>3. /\ ptr' \in [Loc -> Page \cup {None}] /\ ptr'[ptpage(lv[p].np, region(lv[p].a))] = ptr[result(p)] /\ ptr'[result(p)] = None
        /\ \A k \in Loc : k # ptpage(lv[p].np, region(lv[p].a)) /\ k # result(p) => ptr'[k] = ptr[k]
    <3>1. ptpage(lv[p].np, region(lv[p].a)) \in Loc /\ result(p) \in Loc /\ ptpage(lv[p].np, region(lv[p].a)) # result(p)
      BY <1>1, LocType, <1>r DEF ptpage, result
    <3>2. ptr[result(p)] \in Page \cup {None}
      BY <1>1, <3>1 DEF TypeOK
    <3>3. ptr' = [ptr EXCEPT ![ptpage(lv[p].np, region(lv[p].a))] = ptr[result(p)], ![result(p)] = None]
      BY <1>1, <1>3 DEF CopyWalk
    <3> QED
      BY <1>1, <3>1, <3>2, <3>3, Write2
  <2>4. /\ \A y \in Proc \ {p, lv[p].np} : Kept(y)
        /\ ptr'[result(lv[p].np)] = ptr[result(lv[p].np)] /\ ptr'[mem(lv[p].np)] = ptr[mem(lv[p].np)]
    BY <1>1, <2>3, LocType, <1>r DEF Kept, trapframe, pagetable, result, mem, ptpage, pte
  <2>5. \A y \in Proc, va \in VA : Mapped(y, va)' <=> Mapped(y, va)
    BY <1>1, <2>3, LocType DEF Mapped, trapframe, pagetable, result, mem, ptpage, pte
  <2>6. perm' = perm /\ perm \in [Proc -> [VA -> Perm]]
    BY <1>1, <1>3 DEF CopyWalk, TypeOK, tableVars
  <2>7. Shifts(p, lv[p].np, "copy_map", x)
    <3>1. /\ pc' = [pc EXCEPT ![p] = "copy_map"] /\ lv' = [lv EXCEPT ![p] = x]
          /\ UNCHANGED <<procVars, panicked>> /\ AllocOK'
      BY <1>1, <1>3
         DEF CopyWalk, Goto, Return, CallKalloc, CallKfree, Dealloc, AllocOK, allocVars, TypeOK
    <3>2. /\ \A y \in {p, lv[p].np}, va \in VA : perm'[y][va].cw => Mapped(y, va)'
          /\ lv[p].np # p => \A va \in VA : Mapped(p, va)' <=> Mapped(p, va)
      BY <1>1, <1>3, <2>5, <2>6 DEF AtRest
    <3> QED
      BY <1>1, <2>3, <2>4, <2>6, <3>1, <3>2 DEF Shifts, TypeOK
  <2>8. /\ pc'[p] = "copy_map" /\ Pos(p)' = "copy_map" /\ lv'[p] = x
        /\ state' = state /\ parent' = parent /\ sz' = sz
    BY <1>1, <2>2, <2>7 DEF Shifts, TypeOK, procVars, Pos, InCall
  <2>9. Calls(p)' /\ Works(p)'
    BY <1>1, <1>3, <2>2, <2>8, LocNone
       DEF ProcInv, Calls, Works, Other, AllocLabels, FreeLabels, PlainLabels, ForkLabels,
           FreeingLabels, LoopLabels, UnmapLabels
  <2>10. Bounds(p)'
    BY <1>1, <1>3, <2>2, <2>8
       DEF ProcInv, Bounds, PlainLabels, ForkLabels, FreeingLabels, LoopLabels, UnmapLabels
  <2>11. \A va \in VA : Mapped(lv[p].np, va)' <=> Extent(p, va)'
    <3>1. \A va \in VA : Mapped(lv[p].np, va) <=> va < lv[p].a
      BY <1>1, <1>3, LocNone
         DEF ProcInv, Bounds, Tables, Extent, PlainLabels, ForkLabels, FreeingLabels, LoopLabels,
             UnmapLabels
    <3>2. \A va \in VA : Extent(p, va)' <=> va < lv[p].a
      BY <1>1, <1>3, <2>2, <2>8
         DEF ProcInv, Bounds, Extent, PlainLabels, ForkLabels, FreeingLabels, LoopLabels, UnmapLabels
    <3> QED
      BY <1>1, <1>3, <2>2, <2>8, <2>5, <3>1, <3>2 DEF Mapped
  <2>12. Holds(p)'
    BY <1>1, <1>3, <2>2, <2>8, <2>3, LocType, LocNone
       DEF ProcInv, Holds, AllocLabels, FreeLabels, trapframe, result, mem, pagetable, ptpage, pte
  <2>13. Tables(p)'
    BY <1>1, <1>3, <2>2, <2>8, <2>3, <2>11, LocType, LocNone
       DEF ProcInv, Tables, UnmapLabels, trapframe, result, mem, pagetable, ptpage, pte
  <2> QED
    BY <1>1, <2>1, <2>2, <2>7, <2>9, <2>10, <2>12, <2>13, LocNone, ShiftRule DEF Label
<1> QED
  BY <1>2, <1>3

\* map_new_to_old() maps one more page of the child, at the loop index.
LEMMA MapNewToOldStep ==
    ASSUME ControlInv, NEW p \in Proc, map_new_to_old(p)
    PROVE  ControlInv'
<1>1. /\ TypeOK /\ ProcInv(p) /\ lv[p] \in LocalVars /\ pc[p] = "copy_map" /\ panicked = "no"
      /\ Pos(p) = pc[p]
      /\ Other(p) /\ lv[p].np \in Proc /\ lv[p].np # p /\ AtRest(lv[p].np) /\ AtRest(p)
  BY
     DEF ControlInv, TypeOK, At, map_new_to_old, Pos, InCall, ProcInv, Works, ForkLabels,
         FreeingLabels, Other
<1>v. lv[p].a \in VA /\ lv[p].a < sz[p] /\ Mapped(p, lv[p].a)
  BY <1>1, Locals, LocNone, Sized DEF ProcInv, Bounds
<1>2. CASE TRUE
  <2> DEFINE x == lv[p]
  <2>1. x \in LocalVars
    BY <1>1 DEF LocalVars
  <2>2. x.np = lv[p].np /\ x.loc = lv[p].loc /\ x.a = lv[p].a /\ x.nsz = lv[p].nsz /\ x.lim = lv[p].lim /\ x.cont = lv[p].cont
    BY <1>1 DEF LocalVars
  <2>3. /\ ptr' \in [Loc -> Page \cup {None}] /\ ptr'[pte(lv[p].np, lv[p].a)] = ptr[pte(p, lv[p].a)]
        /\ \A k \in Loc : k # pte(lv[p].np, lv[p].a) => ptr'[k] = ptr[k]
    <3>1. pte(lv[p].np, lv[p].a) \in Loc
      BY <1>1, LocType, <1>v DEF pte
    <3>2. ptr[pte(p, lv[p].a)] \in Page \cup {None}
      BY <1>1, <3>1, LocType, <1>v DEF TypeOK
    <3>3. ptr' = [ptr EXCEPT ![pte(lv[p].np, lv[p].a)] = ptr[pte(p, lv[p].a)]]
      BY <1>1, <1>2 DEF map_new_to_old
    <3> QED
      BY <1>1, <3>1, <3>2, <3>3, Write1
  <2>4. /\ \A y \in Proc \ {p, lv[p].np} : Kept(y)
        /\ ptr'[result(lv[p].np)] = ptr[result(lv[p].np)] /\ ptr'[mem(lv[p].np)] = ptr[mem(lv[p].np)]
    BY <1>1, <2>3, LocType, <1>v DEF Kept, trapframe, pagetable, result, mem, ptpage, pte
  <2>5. /\ \A y \in Proc, va \in VA : (y # lv[p].np \/ va # lv[p].a) => (Mapped(y, va)' <=> Mapped(y, va))
        /\ ptr'[pte(lv[p].np, lv[p].a)] # None
    BY <1>1, <1>2, <2>3, LocType, <1>v DEF Mapped, pte, mem
  <2>6. /\ perm' \in [Proc -> [VA -> Perm]] /\ perm'[lv[p].np][lv[p].a] = perm[p][lv[p].a]
        /\ \A y \in Proc, va \in VA : (y # lv[p].np \/ va # lv[p].a) => perm'[y][va] = perm[y][va]
        /\ \A y \in Proc : y # lv[p].np => perm'[y] = perm[y]
    <3>0. perm[p][lv[p].a] \in Perm /\ lv[p].a \in VA
      BY <1>1, <1>2, <1>v DEF TypeOK
    <3>1. perm[p][lv[p].a] \in Perm
      BY <3>0, FlagType
    <3>2. perm' = [perm EXCEPT ![lv[p].np][lv[p].a] = perm[p][lv[p].a]]
      BY <1>1, <1>2, <1>v DEF map_new_to_old
    <3> QED
      BY <1>1, <3>0, <3>1, <3>2, Flag1
  <2>7. Shifts(p, lv[p].np, "copy_inc", x)
    <3>1. /\ pc' = [pc EXCEPT ![p] = "copy_inc"] /\ lv' = [lv EXCEPT ![p] = x]
          /\ UNCHANGED <<procVars, panicked>> /\ AllocOK'
      BY <1>1, <1>2
         DEF map_new_to_old, Goto, Return, CallKalloc, CallKfree, Dealloc, AllocOK, allocVars, TypeOK
    <3>2. /\ \A y \in {p, lv[p].np}, va \in VA : perm'[y][va].cw => Mapped(y, va)'
          /\ lv[p].np # p => \A va \in VA : Mapped(p, va)' <=> Mapped(p, va)
      BY <1>1, <1>2, <2>5, <2>6, <1>v DEF AtRest, Mapped
    <3> QED
      BY <1>1, <2>3, <2>4, <2>6, <3>1, <3>2 DEF Shifts, TypeOK
  <2>8. /\ pc'[p] = "copy_inc" /\ Pos(p)' = "copy_inc" /\ lv'[p] = x
        /\ state' = state /\ parent' = parent /\ sz' = sz
    BY <1>1, <2>2, <2>7 DEF Shifts, TypeOK, procVars, Pos, InCall
  <2>9. Calls(p)' /\ Works(p)'
    BY <1>1, <1>2, <2>2, <2>8, LocNone
       DEF ProcInv, Calls, Works, Other, AllocLabels, FreeLabels, PlainLabels, ForkLabels,
           FreeingLabels, LoopLabels, UnmapLabels
  <2>10. Bounds(p)'
    BY <1>1, <1>2, <2>2, <2>8
       DEF ProcInv, Bounds, PlainLabels, ForkLabels, FreeingLabels, LoopLabels, UnmapLabels
  <2>11. \A va \in VA : Mapped(lv[p].np, va)' <=> Extent(p, va)'
    <3>1. \A va \in VA : Mapped(lv[p].np, va) <=> va < lv[p].a
      BY <1>1, <1>2, LocNone
         DEF ProcInv, Bounds, Tables, Extent, PlainLabels, ForkLabels, FreeingLabels, LoopLabels,
             UnmapLabels
    <3>2. \A va \in VA : Extent(p, va)' <=> va <= lv[p].a
      BY <1>1, <1>2, <2>2, <2>8
         DEF ProcInv, Bounds, Extent, PlainLabels, ForkLabels, FreeingLabels, LoopLabels, UnmapLabels
    <3> QED
      BY <1>1, <1>2, <2>2, <2>8, <2>5, <3>1, <3>2, <1>v, Locals, VAType DEF Mapped
  <2>12. Holds(p)'
    BY <1>1, <1>2, <2>2, <2>8, <2>3, LocType, LocNone, <1>v
       DEF ProcInv, Holds, AllocLabels, FreeLabels, trapframe, result, mem, pagetable, ptpage, pte
  <2>13. Tables(p)'
    BY <1>1, <1>2, <2>2, <2>8, <2>3, <2>11, LocType, LocNone, <1>v
       DEF ProcInv, Tables, UnmapLabels, trapframe, result, mem, pagetable, ptpage, pte
  <2> QED
    BY <1>1, <2>1, <2>2, <2>7, <2>9, <2>10, <2>12, <2>13, LocNone, ShiftRule DEF Label
<1> QED
  BY <1>2

\* increase_no_of_ref() and the next turn of the loop preserve the invariant.
LEMMA CopyIncStep ==
    ASSUME ControlInv, NEW p \in Proc, CopyInc(p)
    PROVE  ControlInv'
<1>1. /\ TypeOK /\ ProcInv(p) /\ lv[p] \in LocalVars /\ pc[p] = "copy_inc" /\ panicked = "no"
      /\ Pos(p) = pc[p] /\ Other(p) /\ lv[p].np \in Proc /\ AtRest(lv[p].np)
  BY
     DEF ControlInv, TypeOK, At, CopyInc, Pos, InCall, ProcInv, Works, ForkLabels, FreeingLabels,
         Other
<1>i. \A pg \in Page : (ref[pg] + 1) % RefMod \in Count
  BY <1>1, CountType DEF TypeOK, Count
<1>n. lv[p].a + 1 \in 0 .. NVA /\ lv[p].a < sz[p]
  BY <1>1, Locals DEF ProcInv, Bounds
<1>2. CASE TRUE
  <2> DEFINE x == [lv[p] EXCEPT !.a = @ + 1]
  <2>1. Moves(p, "uvmcopy", x)
    BY <1>1, <1>2, <1>i
       DEF Moves, AllocOK, CopyInc, Goto, Return, CallKalloc, CallKfree, Dealloc, TypeOK,
           allocVars, increase_no_of_ref
  <2>2. x \in LocalVars
    BY <1>1, <1>n DEF LocalVars
  <2>3. x.np = lv[p].np /\ x.loc = lv[p].loc /\ x.a = lv[p].a + 1 /\ x.nsz = lv[p].nsz /\ x.lim = lv[p].lim /\ x.cont = lv[p].cont
    BY <1>1 DEF LocalVars
  <2> HIDE DEF x
  <2>4. /\ pc'[p] = "uvmcopy" /\ Pos(p)' = "uvmcopy" /\ lv'[p] = x
        /\ state' = state /\ parent' = parent /\ sz' = sz /\ ptr' = ptr
    BY <1>1, <2>1, <2>3, Moved
  <2>5. \A va \in VA : Mapped(lv[p].np, va)' <=> Extent(p, va)'
    BY <1>1, <1>2, <2>3, <2>4, LocNone, Locals, VAType
       DEF ProcInv, Works, Bounds, Tables, Mapped, Extent, PlainLabels, ForkLabels, FreeingLabels,
           LoopLabels, UnmapLabels
  <2>6. Calls(p)' /\ Works(p)'
    BY <1>1, <1>2, <2>3, <2>4, LocNone
       DEF ProcInv, Calls, Works, Other, AllocLabels, FreeLabels, PlainLabels, ForkLabels,
           FreeingLabels, LoopLabels, UnmapLabels
  <2>7. Bounds(p)'
    BY <1>1, <1>2, <2>3, <2>4, Locals
       DEF ProcInv, Bounds, PlainLabels, ForkLabels, FreeingLabels, LoopLabels, UnmapLabels
  <2>8. Holds(p)' /\ Tables(p)'
    BY <1>1, <1>2, <2>3, <2>4, <2>5, LocNone
       DEF ProcInv, Holds, Tables, Other, UnmapLabels, AllocLabels, FreeLabels
  <2> QED
    BY <1>1, <2>1, <2>2, <2>3, <2>6, <2>7, <2>8, MoveRule DEF Label
<1> QED
  BY <1>2

\* The end of fork(): the child has the parent's size and exactly that many pages.
LEMMA ForkDoneStep ==
    ASSUME ControlInv, NEW p \in Proc, ForkDone(p)
    PROVE  ControlInv'
<1>a. lv[p].np \in Proc
  BY DEF ControlInv, ForkDone, At, ProcInv, Works, Other, ForkLabels, Pos, InCall
<1>b. PICK q \in Proc : q = lv[p].np
  BY <1>a
<1>1. /\ TypeOK /\ ProcInv(p) /\ pc[p] = "fork_done" /\ Pos(p) = "fork_done" /\ panicked = "no"
      /\ q # p /\ state[q] = "USED" /\ lv[p].a = sz[p] /\ state[p] = "RUNNABLE"
  BY <1>b DEF ControlInv, ForkDone, At, ProcInv, Works, Bounds, Calls, Other, ForkLabels, Pos,
              InCall
<1>2. /\ lv[q] = Idle /\ ptr[result(q)] = None /\ ptr[mem(q)] = None
      /\ ptr[result(p)] = None /\ ptr[mem(p)] = None /\ AtRest(p) /\ AtRest(q)
  BY <1>1, Sleeper DEF ControlInv, ProcInv, Holds, AllocLabels
<1>3. \A va \in VA : Mapped(q, va) <=> va < sz[p]
  BY <1>1, <1>b, LocNone DEF ProcInv, Tables, Extent, ForkLabels, LoopLabels, UnmapLabels
<1>4. \A r \in Proc \ {p} : lv[r].np # q
  BY <1>1, <1>b, LocNone DEF ControlInv, Exclusive
<1>5. /\ sz' = [sz EXCEPT ![q] = sz[p]] /\ parent' = [parent EXCEPT ![q] = p]
      /\ state' = [state EXCEPT ![q] = "RUNNABLE"]
      /\ pc' = [pc EXCEPT ![p] = "user", ![q] = "user"] /\ lv' = [lv EXCEPT ![p] = Idle]
      /\ ptr' = ptr /\ perm' = perm /\ panicked' = panicked /\ UNCHANGED allocVars
  BY <1>b DEF ForkDone, tableVars
<1>6. TypeOK' /\ panicked' \notin TablePanics
  <2>1. pc' \in [Proc -> Label] /\ state' \in [Proc -> {"UNUSED", "USED", "RUNNABLE", "ZOMBIE"}]
    BY <1>1, <1>5 DEF TypeOK, Label
  <2>2. /\ lv' \in [Proc -> LocalVars] /\ parent' \in [Proc -> Proc \cup {None}]
        /\ sz' \in [Proc -> 0 .. NVA]
    BY <1>1, <1>5, IdleType DEF TypeOK
  <2> QED
    BY <1>1, <1>5, <2>1, <2>2 DEF ControlInv, TypeOK, allocVars
<1>7. /\ pc'[p] = "user" /\ lv'[p] = Idle /\ state'[p] = "RUNNABLE" /\ sz'[p] = sz[p]
      /\ pc'[q] = "user" /\ lv'[q] = Idle /\ state'[q] = "RUNNABLE" /\ sz'[q] = sz[p]
      /\ \A y \in Proc \ {p, q} : /\ pc'[y] = pc[y] /\ lv'[y] = lv[y] /\ state'[y] = state[y]
                                  /\ sz'[y] = sz[y] /\ parent'[y] = parent[y]
  BY <1>1, <1>2, <1>5 DEF TypeOK
<1>8. Partner(p, q)
  BY <1>1, <1>2, <1>4, <1>7, <1>b DEF Partner, Idle
<1>9. \A y \in Proc \ {p, q} : Untouched(y, p)
  BY <1>5, <1>7 DEF Untouched, Kept
<1>10. ProcInv(q)'
  <2>1. Calls(q)' /\ Works(q)' /\ Bounds(q)' /\ Holds(q)' /\ Tables(q)'
    BY <1>1, <1>2, <1>5, <1>7, Awake
  <2>2. AtRest(q)'
    BY <1>2, <1>3, <1>5, <1>7 DEF AtRest, Mapped
  <2> QED
    BY <2>1, <2>2 DEF ProcInv
<1>11. ProcInv(p)'
  <2>1. Calls(p)' /\ Works(p)' /\ Bounds(p)' /\ Holds(p)' /\ Tables(p)'
    BY <1>2, <1>5, <1>7, Awake
  <2>2. \A va \in VA : Mapped(p, va) <=> va < sz[p]
    BY <1>1, <1>b, Sized
  <2>3. AtRest(p)'
    BY <1>2, <1>5, <1>7, <2>2 DEF AtRest, Mapped
  <2> QED
    BY <2>1, <2>3 DEF ProcInv
<1> QED
  BY <1>1, <1>6, <1>8, <1>9, <1>10, <1>11, StepRule
=============================================================================
