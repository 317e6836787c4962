---------------------------- MODULE CowSbrkSteps ----------------------------
(***************************************************************************)
(* Every step of sbrk() preserves ControlInv.                              *)
(***************************************************************************)
EXTENDS CowStoreSteps

\* A leaf goes to Zenon, for ten seconds, and then to the SMT solver, for a minute.
USE ZenonT(10), SMTT(60)

-----------------------------------------------------------------------------
(* sbrk() *)

\* growproc(): the range to map or to unmap starts at p->sz.
LEMMA SbrkStep ==
    ASSUME ControlInv, NEW p \in Proc, NEW n \in Int, sbrk(p, n)
    PROVE  ControlInv'
<1>1. /\ TypeOK /\ ProcInv(p) /\ pc[p] = "user" /\ panicked = "no" /\ lv[p] = Idle
      /\ lv[p].np = None /\ state[p] = "RUNNABLE" /\ Pos(p) = "user"
  BY DEF ControlInv, At, sbrk, ProcInv, Calls, Idle, Pos, InCall
<1>2. ptr[result(p)] = None /\ ptr[mem(p)] = None /\ AtRest(p)
  BY <1>1 DEF ProcInv, Holds, AllocLabels
<1>3. \A va \in VA : Mapped(p, va) <=> va < sz[p]
  BY <1>1, Sized, LocNone
<1>4. \A r \in Proc : lv[r].np # p
  BY <1>1, Unworked, LocNone
<1>5. sz[p] \in Nat /\ sz[p] <= NVA /\ NVA \in Nat /\ sz[p] + n \in 1 .. NVA
  BY <1>1, Locals DEF sbrk
<1>6. ASSUME NEW l \in {"uvmalloc", "unmap"}, NEW x \in LocalVars,
             Goto(p, l), lv' = [lv EXCEPT ![p] = x], x.np = p, x.loc = None,
             l = "uvmalloc" => x.a = sz[p] /\ sz[p] <= x.nsz,
             l = "unmap" => /\ x.a = x.nsz /\ x.nsz <= sz[p] /\ x.lim = sz[p] /\ x.nsz \in Nat
                            /\ x.cont = "sbrk_done"
      PROVE  ControlInv'
  <2>1. /\ pc' = [pc EXCEPT ![p] = l] /\ state' = state /\ parent' = parent /\ sz' = sz
        /\ ptr' = ptr /\ perm' = perm /\ panicked' = panicked /\ UNCHANGED allocVars
    BY <1>6 DEF sbrk, Goto, procVars, tableVars
  <2>2. TypeOK' /\ panicked' \notin TablePanics
    <3>1. pc' \in [Proc -> Label] /\ lv' \in [Proc -> LocalVars]
      BY <1>1, <1>6, <2>1 DEF TypeOK, Label
    <3> QED
      BY <1>1, <2>1, <3>1 DEF ControlInv, TypeOK, allocVars
  <2>3. /\ pc'[p] = l /\ lv'[p] = x /\ Pos(p)' = l
        /\ \A y \in Proc \ {p} : pc'[y] = pc[y] /\ lv'[y] = lv[y]
    BY <1>1, <1>6, <2>1 DEF TypeOK, Pos, InCall
  <2>4. Partner(p, p)
    BY <1>1, <1>4, <1>6, <2>3 DEF Partner
  <2>5. \A y \in Proc \ {p} : Untouched(y, p)
    BY <2>1, <2>3 DEF Untouched, Kept
  <2>6. Calls(p)' /\ Works(p)'
    BY <1>1, <1>6, <2>1, <2>3 DEF Calls, Works, Other, AllocLabels, FreeLabels, PlainLabels,
                                  ForkLabels, FreeingLabels, LoopLabels, UnmapLabels
  <2>7. Bounds(p)'
    BY <1>5, <1>6, <2>1, <2>3 DEF Bounds, PlainLabels, ForkLabels, LoopLabels, UnmapLabels
  <2>8. Holds(p)'
    BY <1>2, <1>6, <2>1, <2>3 DEF Holds, AllocLabels, FreeLabels
  <2>9. \A va \in VA : Mapped(p, va)' <=> Extent(p, va)'
    <3>1. \A va \in VA : Extent(p, va)' <=> va < sz[p]
      <4>1. CASE l = "uvmalloc"
        BY <1>6, <2>3, <4>1 DEF Extent, ForkLabels, LoopLabels, UnmapLabels
      <4>2. CASE l = "unmap"
        <5>1. \A va \in VA : Extent(p, va)' <=> va < x.nsz \/ (x.a <= va /\ va < x.lim)
          BY <2>3, <4>2 DEF Extent, ForkLabels, LoopLabels, UnmapLabels
        <5> QED
          BY <1>5, <1>6, <4>2, <5>1, VAType
      <4> QED
        BY <1>6, <4>1, <4>2
    <3> QED
      BY <1>3, <2>1, <3>1 DEF Mapped
  <2>10. Tables(p)'
    BY <1>6, <2>3, <2>9 DEF Tables, UnmapLabels
  <2>11. AtRest(p)'
    BY <1>2, <1>6, <2>1, <2>3 DEF AtRest, Mapped
  <2> QED
    BY <1>1, <2>2, <2>4, <2>5, <2>6, <2>7, <2>8, <2>10, <2>11, StepRule DEF ProcInv
<1>7. CASE n > 0
  <2> DEFINE x == [Idle EXCEPT !.np = p, !.a = sz[p], !.nsz = sz[p] + n]
  <2>1. sz[p] \in 0 .. NVA /\ sz[p] + n \in 0 .. NVA /\ sz[p] <= sz[p] + n
    BY <1>5, <1>7
  <2>2. x \in LocalVars
    BY <2>1, IdleType DEF LocalVars
  <2>3. x.np = p /\ x.loc = None /\ x.a = sz[p] /\ x.nsz = sz[p] + n
    BY DEF Idle
  <2>4. Goto(p, "uvmalloc") /\ lv' = [lv EXCEPT ![p] = x]
    <3>1. ~(n < 0)
      BY <1>7
    <3> QED
      BY <3>1 DEF sbrk
  <2> HIDE DEF x
  <2> QED
    BY <1>6, <2>1, <2>2, <2>3, <2>4
<1>8. CASE n < 0
  <2> DEFINE x == [Idle EXCEPT !.np = p, !.a = sz[p] + n, !.lim = sz[p], !.nsz = sz[p] + n,
                               !.cont = "sbrk_done"]
  <2>1. /\ sz[p] \in 0 .. NVA /\ sz[p] + n \in 0 .. NVA /\ sz[p] + n <= sz[p]
        /\ sz[p] + n \in Nat
    BY <1>5, <1>8
  <2>2. x \in LocalVars
    BY <2>1, IdleType DEF LocalVars, Label
  <2>3. /\ x.np = p /\ x.loc = None /\ x.a = sz[p] + n /\ x.nsz = sz[p] + n /\ x.lim = sz[p]
        /\ x.cont = "sbrk_done"
    BY DEF Idle
  <2>4. Goto(p, "unmap") /\ lv' = [lv EXCEPT ![p] = x]
    <3>1. ~(n > 0)
      BY <1>8
    <3> QED
      BY <3>1 DEF sbrk
  <2> HIDE DEF x
  <2> QED
    BY <1>6, <2>1, <2>2, <2>3, <2>4
<1> QED
  BY <1>7, <1>8 DEF sbrk

\* A turn of uvmalloc()'s loop, or its end at the new size, preserves the invariant.
LEMMA UvmallocStep ==
    ASSUME ControlInv, NEW p \in Proc, uvmalloc(p)
    PROVE  ControlInv'
<1>1. /\ TypeOK /\ ProcInv(p) /\ lv[p] \in LocalVars /\ pc[p] = "uvmalloc" /\ panicked = "no"
      /\ Pos(p) = pc[p] /\ lv[p].np = p
  BY DEF ControlInv, TypeOK, At, uvmalloc, Pos, InCall, ProcInv, Works, LoopLabels
<1>2. CASE lv[p].a < lv[p].nsz
  <2> DEFINE x == [lv[p] EXCEPT !.ret = "grow_mem"]
  <2>1. Moves(p, "kalloc", x)
    BY <1>1, <1>2
       DEF Moves, AllocOK, uvmalloc, Goto, Return, CallKalloc, CallKfree, Dealloc, TypeOK,
           allocVars
  <2>2. x \in LocalVars
    BY <1>1 DEF LocalVars, Label
  <2>3. x.np = lv[p].np /\ x.loc = lv[p].loc /\ x.a = lv[p].a /\ x.nsz = lv[p].nsz /\ x.lim = lv[p].lim /\ x.cont = lv[p].cont /\ x.ret = "grow_mem"
    BY <1>1 DEF LocalVars
  <2> HIDE DEF x
  <2>4. /\ pc'[p] = "kalloc" /\ Pos(p)' = "grow_mem" /\ lv'[p] = x
        /\ state' = state /\ parent' = parent /\ sz' = sz /\ ptr' = ptr
    BY <1>1, <2>1, <2>3, Moved
  <2>5. \A va \in VA : Mapped(lv[p].np, va)' <=> Extent(p, va)'
    BY <1>1, <1>2, <2>3, <2>4, LocNone, Locals, VAType
       DEF ProcInv, Works, Bounds, Tables, Mapped, Extent, PlainLabels, ForkLabels, FreeingLabels,
           LoopLabels, UnmapLabels
  <2>6. Calls(p)' /\ Works(p)'
    BY <1>1, <1>2, <2>3, <2>4, LocNone
       DEF ProcInv, Calls, Works, Other, AllocLabels, FreeLabels, PlainLabels, ForkLabels,
           FreeingLabels, LoopLabels, UnmapLabels
  <2>7. Bounds(p)'
    BY <1>1, <1>2, <2>3, <2>4
       DEF ProcInv, Bounds, PlainLabels, ForkLabels, FreeingLabels, LoopLabels, UnmapLabels
  <2>8. Holds(p)' /\ Tables(p)'
    BY <1>1, <1>2, <2>3, <2>4, <2>5, LocNone
       DEF ProcInv, Holds, Tables, Other, UnmapLabels, AllocLabels, FreeLabels
  <2> QED
    BY <1>1, <2>1, <2>2, <2>3, <2>6, <2>7, <2>8, MoveRule DEF Label
<1>3. CASE ~(lv[p].a < lv[p].nsz)
  <2> DEFINE x == lv[p]
  <2>1. Moves(p, "sbrk_done", x)
    BY <1>1, <1>3
       DEF Moves, AllocOK, uvmalloc, Goto, Return, CallKalloc, CallKfree, Dealloc, TypeOK,
           allocVars
  <2>2. x \in LocalVars
    BY <1>1 DEF LocalVars
  <2>3. x.np = lv[p].np /\ x.loc = lv[p].loc /\ x.a = lv[p].a /\ x.nsz = lv[p].nsz
    BY <1>1 DEF LocalVars
  <2>4. /\ pc'[p] = "sbrk_done" /\ Pos(p)' = "sbrk_done" /\ lv'[p] = x
        /\ state' = state /\ parent' = parent /\ sz' = sz /\ ptr' = ptr
    BY <1>1, <2>1, <2>3, Moved
  <2>5. \A va \in VA : Mapped(lv[p].np, va)' <=> Extent(p, va)'
    BY <1>1, <1>3, <2>3, <2>4, LocNone, Locals, VAType
       DEF ProcInv, Works, Bounds, Tables, Mapped, Extent, PlainLabels, ForkLabels, FreeingLabels,
           LoopLabels, UnmapLabels
  <2>6. Calls(p)' /\ Works(p)'
    BY <1>1, <1>3, <2>3, <2>4, LocNone
       DEF ProcInv, Calls, Works, Other, AllocLabels, FreeLabels, PlainLabels, ForkLabels,
           FreeingLabels, LoopLabels, UnmapLabels
  <2>7. Bounds(p)'
    BY <1>1, <1>3, <2>3, <2>4, Locals
       DEF ProcInv, Bounds, PlainLabels, ForkLabels, FreeingLabels, LoopLabels, UnmapLabels
  <2>8. Holds(p)' /\ Tables(p)'
    BY <1>1, <1>3, <2>3, <2>4, <2>5, LocNone
       DEF ProcInv, Holds, Tables, Other, UnmapLabels, AllocLabels, FreeLabels
  <2> QED
    BY <1>1, <2>1, <2>2, <2>3, <2>6, <2>7, <2>8, MoveRule DEF Label
<1> QED
  BY <1>2, <1>3

\* uvmalloc() with the new page, or backing out by uvmdealloc(), preserves the invariant.
LEMMA GrowMemStep ==
    ASSUME ControlInv, NEW p \in Proc, GrowMem(p)
    PROVE  ControlInv'
<1>1. /\ TypeOK /\ ProcInv(p) /\ lv[p] \in LocalVars /\ pc[p] = "grow_mem" /\ panicked = "no"
      /\ Pos(p) = pc[p] /\ lv[p].np = p /\ AtRest(p)
  BY DEF ControlInv, TypeOK, At, GrowMem, Pos, InCall, ProcInv, Works, LoopLabels
<1>v. /\ lv[p].a \in VA /\ region(lv[p].a) \in Region /\ lv[p].a + 1 \in 0 .. NVA
      /\ sz[p] <= lv[p].a /\ lv[p].a < lv[p].nsz /\ sz[p] \in 0 .. NVA
  BY <1>1, Locals DEF ProcInv, Bounds, LoopLabels, Region, region
<1>2. CASE ptr[result(p)] = None
  <2> DEFINE x == [lv[p] EXCEPT !.a = sz[p], !.lim = lv[p].a, !.loc = None, !.nsz = sz[p], !.cont = "sbrk_done"]
  <2>1. Moves(p, "unmap", x)
    BY <1>1, <1>2
       DEF Moves, AllocOK, GrowMem, Goto, Return, CallKalloc, CallKfree, Dealloc, TypeOK,
           allocVars, procVars, tableVars
  <2>2. x \in LocalVars
    BY <1>1, <1>v DEF LocalVars, Label
  <2>3. x.np = lv[p].np /\ x.loc = None /\ x.a = sz[p] /\ x.lim = lv[p].a /\ x.nsz = sz[p] /\ x.cont = "sbrk_done"
    BY <1>1 DEF LocalVars
  <2> HIDE DEF x
  <2>4. /\ pc'[p] = "unmap" /\ Pos(p)' = "unmap" /\ lv'[p] = x
        /\ state' = state /\ parent' = parent /\ sz' = sz /\ ptr' = ptr
    BY <1>1, <2>1, <2>3, Moved
  <2>5. \A va \in VA : Mapped(lv[p].np, va)' <=> Extent(p, va)'
    <3>1. \A va \in VA : Mapped(lv[p].np, va) <=> va < lv[p].a
      BY <1>1, <1>2, LocNone
         DEF ProcInv, Bounds, Tables, Extent, PlainLabels, ForkLabels, FreeingLabels, LoopLabels,
             UnmapLabels
    <3>2. \A va \in VA : Extent(p, va)' <=> va < sz[p] \/ (sz[p] <= va /\ va < lv[p].a)
      BY <1>1, <1>2, <2>3, <2>4
         DEF ProcInv, Bounds, Extent, PlainLabels, ForkLabels, FreeingLabels, LoopLabels, UnmapLabels
    <3> QED
      BY <1>1, <1>2, <2>3, <2>4, <3>1, <3>2, <1>v, Locals, VAType DEF Mapped
  <2>6. Calls(p)' /\ Works(p)'
    BY <1>1, <1>2, <2>3, <2>4, LocNone
       DEF ProcInv, Calls, Works, Other, AllocLabels, FreeLabels, PlainLabels, ForkLabels,
           FreeingLabels, LoopLabels, UnmapLabels
  <2>7. Bounds(p)'
    BY <1>1, <1>2, <2>3, <2>4, Locals
       DEF ProcInv, Bounds, PlainLabels, ForkLabels, FreeingLabels, LoopLabels, UnmapLabels
  <2>8. Holds(p)'
    BY <1>1, <1>2, <2>3, <2>4, LocNone DEF ProcInv, Holds, AllocLabels, FreeLabels
  <2>9. Tables(p)'
    BY <1>1, <1>2, <2>3, <2>4, <2>5, LocNone DEF ProcInv, Tables, UnmapLabels
  <2> QED
    BY <1>1, <2>1, <2>2, <2>3, <2>6, <2>7, <2>8, <2>9, MoveRule DEF Label
<1>3. CASE ptr[result(p)] # None /\ ptr[ptpage(p, region(lv[p].a))] = None
  <2> DEFINE x == [lv[p] EXCEPT !.ret = "grow_walk"]
  <2>1. x \in LocalVars
    BY <1>1 DEF LocalVars, Label
  <2>2. x.np = lv[p].np /\ x.loc = lv[p].loc /\ x.a = lv[p].a /\ x.nsz = lv[p].nsz /\ x.lim = lv[p].lim /\ x.cont = lv[p].cont /\ x.ret = "grow_walk"
    BY <1>1 DEF LocalVars
  <2>3. /\ ptr' \in [Loc -> Page \cup {None}] /\ ptr'[mem(p)] = ptr[result(p)] /\ ptr'[result(p)] = None
        /\ \A k \in Loc : k # mem(p) /\ k # result(p) => ptr'[k] = ptr[k]
    <3>1. mem(p) \in Loc /\ result(p) \in Loc /\ mem(p) # result(p)
      BY <1>1, LocType, <1>v DEF mem, result
    <3>2. ptr[result(p)] \in Page \cup {None}
      BY <1>1, <3>1 DEF TypeOK
    <3>3. ptr' = [ptr EXCEPT ![mem(p)] = ptr[result(p)], ![result(p)] = None]
      BY <1>1, <1>3 DEF GrowMem
    <3> QED
      BY <1>1, <3>1, <3>2, <3>3, Write2
  <2>4. \A y \in Proc \ {p} : Kept(y)
    BY <1>1, <2>3, LocType, <1>v DEF Kept, trapframe, pagetable, result, mem, ptpage, pte
  <2>5. \A y \in Proc, va \in VA : Mapped(y, va)' <=> Mapped(y, va)
    BY <1>1, <2>3, LocType DEF Mapped, trapframe, pagetable, result, mem, ptpage, pte
  <2>6. perm' = perm /\ perm \in [Proc -> [VA -> Perm]]
    BY <1>1, <1>3 DEF GrowMem, TypeOK, tableVars
  <2>7. Shifts(p, p, "kalloc", x)
    <3>0. AllocOK'
      BY <1>1, <1>3, KallocAssumption DEF GrowMem, AllocOK, TypeOK
    <3>1. /\ pc' = [pc EXCEPT ![p] = "kalloc"] /\ lv' = [lv EXCEPT ![p] = x]
          /\ UNCHANGED <<procVars, panicked>> /\ AllocOK'
      BY <1>1, <1>3, <3>0
         DEF GrowMem, Goto, Return, CallKalloc, CallKfree, Dealloc, allocVars, TypeOK
    <3>2. /\ \A y \in {p, p}, va \in VA : perm'[y][va].cw => Mapped(y, va)'
          /\ lv[p].np # p => \A va \in VA : Mapped(p, va)' <=> Mapped(p, va)
      BY <1>1, <1>3, <2>5, <2>6 DEF AtRest
    <3> QED
      BY <1>1, <2>3, <2>4, <2>6, <3>1, <3>2 DEF Shifts, TypeOK
  <2> HIDE DEF x
  <2>8. /\ pc'[p] = "kalloc" /\ Pos(p)' = "grow_walk" /\ lv'[p] = x
        /\ state' = state /\ parent' = parent /\ sz' = sz
    BY <1>1, <2>2, <2>7 DEF Shifts, TypeOK, procVars, Pos, InCall
  <2>9. Calls(p)' /\ Works(p)'
    BY <1>1, <1>3, <2>2, <2>8, LocNone
       DEF ProcInv, Calls, Works, Other, AllocLabels, FreeLabels, PlainLabels, ForkLabels,
           FreeingLabels, LoopLabels, UnmapLabels
  <2>10. Bounds(p)'
    BY <1>1, <1>3, <2>2, <2>8
       DEF ProcInv, Bounds, PlainLabels, ForkLabels, FreeingLabels, LoopLabels, UnmapLabels
  <2>11. \A va \in VA : Mapped(lv[p].np, va)' <=> Extent(p, va)'
    <3>1. \A va \in VA : Mapped(lv[p].np, va) <=> va < lv[p].a
      BY <1>1, <1>3, LocNone
         DEF ProcInv, Bounds, Tables, Extent, PlainLabels, ForkLabels, FreeingLabels, LoopLabels,
             UnmapLabels
    <3>2. \A va \in VA : Extent(p, va)' <=> va < lv[p].a
      BY <1>1, <1>3, <2>2, <2>8
         DEF ProcInv, Bounds, Extent, PlainLabels, ForkLabels, FreeingLabels, LoopLabels, UnmapLabels
    <3> QED
      BY <1>1, <1>3, <2>2, <2>8, <2>5, <3>1, <3>2 DEF Mapped
  <2>12. Holds(p)'
    BY <1>1, <1>3, <2>2, <2>8, <2>3, LocType, LocNone
       DEF ProcInv, Holds, AllocLabels, FreeLabels, trapframe, result, mem, pagetable, ptpage, pte
  <2>t. ptr'[ptpage(p, region(lv[p].a))] = ptr[ptpage(p, region(lv[p].a))]
    BY <1>1, <2>3, LocType, <1>v DEF trapframe, result, mem, pagetable, ptpage, pte
  <2>13. Tables(p)'
    BY <1>1, <1>3, <2>2, <2>8, <2>11, LocType, LocNone, <2>t
       DEF ProcInv, Tables, UnmapLabels
  <2> QED
    BY <1>1, <2>1, <2>2, <2>7, <2>9, <2>10, <2>12, <2>13, LocNone, ShiftRule DEF Label
<1>4. CASE ptr[result(p)] # None /\ ptr[ptpage(p, region(lv[p].a))] # None
  <2> DEFINE x == lv[p]
  <2>1. x \in LocalVars
    BY <1>1 DEF LocalVars
  <2>2. x.np = lv[p].np /\ x.loc = lv[p].loc /\ x.a = lv[p].a /\ x.nsz = lv[p].nsz /\ x.lim = lv[p].lim /\ x.cont = lv[p].cont
    BY <1>1 DEF LocalVars
  <2>3. /\ ptr' \in [Loc -> Page \cup {None}] /\ ptr'[mem(p)] = ptr[result(p)] /\ ptr'[result(p)] = None
        /\ \A k \in Loc : k # mem(p) /\ k # result(p) => ptr'[k] = ptr[k]
    <3>1. mem(p) \in Loc /\ result(p) \in Loc /\ mem(p) # result(p)
      BY <1>1, LocType DEF mem, result
    <3>2. ptr[result(p)] \in Page \cup {None}
      BY <1>1, <3>1 DEF TypeOK
    <3>3. ptr' = [ptr EXCEPT ![mem(p)] = ptr[result(p)], ![result(p)] = None]
      BY <1>1, <1>4 DEF GrowMem
    <3> QED
      BY <1>1, <3>1, <3>2, <3>3, Write2
  <2>4. \A y \in Proc \ {p} : Kept(y)
    BY <1>1, <2>3, LocType DEF Kept, trapframe, pagetable, result, mem, ptpage, pte
  <2>5. \A y \in Proc, va \in VA : Mapped(y, va)' <=> Mapped(y, va)
    BY <1>1, <2>3, LocType DEF Mapped, trapframe, pagetable, result, mem, ptpage, pte
  <2>6. perm' = perm /\ perm \in [Proc -> [VA -> Perm]]
    BY <1>1, <1>4 DEF GrowMem, TypeOK, tableVars
  <2>7. Shifts(p, p, "grow_map", x)
    <3>0. AllocOK'
      BY <1>1, <1>4, KallocAssumption DEF GrowMem, AllocOK, TypeOK
    <3>1. /\ pc' = [pc EXCEPT ![p] = "grow_map"] /\ lv' = [lv EXCEPT ![p] = x]
          /\ UNCHANGED <<procVars, panicked>> /\ AllocOK'
      BY <1>1, <1>4, <3>0
         DEF GrowMem, Goto, Return, CallKalloc, CallKfree, Dealloc, allocVars, TypeOK
    <3>2. /\ \A y \in {p, p}, va \in VA : perm'[y][va].cw => Mapped(y, va)'
          /\ lv[p].np # p => \A va \in VA : Mapped(p, va)' <=> Mapped(p, va)
      BY <1>1, <1>4, <2>5, <2>6 DEF AtRest
    <3> QED
      BY <1>1, <2>3, <2>4, <2>6, <3>1, <3>2 DEF Shifts, TypeOK
  <2>8. /\ pc'[p] = "grow_map" /\ Pos(p)' = "grow_map" /\ lv'[p] = x
        /\ state' = state /\ parent' = parent /\ sz' = sz
    BY <1>1, <2>2, <2>7 DEF Shifts, TypeOK, procVars, Pos, InCall
  <2>9. Calls(p)' /\ Works(p)'
    BY <1>1, <1>4, <2>2, <2>8, LocNone
       DEF ProcInv, Calls, Works, Other, AllocLabels, FreeLabels, PlainLabels, ForkLabels,
           FreeingLabels, LoopLabels, UnmapLabels
  <2>10. Bounds(p)'
    BY <1>1, <1>4, <2>2, <2>8
       DEF ProcInv, Bounds, PlainLabels, ForkLabels, FreeingLabels, LoopLabels, UnmapLabels
  <2>11. \A va \in VA : Mapped(lv[p].np, va)' <=> Extent(p, va)'
    <3>1. \A va \in VA : Mapped(lv[p].np, va) <=> va < lv[p].a
      BY <1>1, <1>4, LocNone
         DEF ProcInv, Bounds, Tables, Extent, PlainLabels, ForkLabels, FreeingLabels, LoopLabels,
             UnmapLabels
    <3>2. \A va \in VA : Extent(p, va)' <=> va < lv[p].a
      BY <1>1, <1>4, <2>2, <2>8
         DEF ProcInv, Bounds, Extent, PlainLabels, ForkLabels, FreeingLabels, LoopLabels, UnmapLabels
    <3> QED
      BY <1>1, <1>4, <2>2, <2>8, <2>5, <3>1, <3>2 DEF Mapped
  <2>12. Holds(p)'
    BY <1>1, <1>4, <2>2, <2>8, <2>3, LocType, LocNone
       DEF ProcInv, Holds, AllocLabels, FreeLabels, trapframe, result, mem, pagetable, ptpage, pte
  <2>13. Tables(p)'
    BY <1>1, <1>4, <2>2, <2>8, <2>3, <2>11, LocType, LocNone
       DEF ProcInv, Tables, UnmapLabels, trapframe, result, mem, pagetable, ptpage, pte
  <2> QED
    BY <1>1, <2>1, <2>2, <2>7, <2>9, <2>10, <2>12, <2>13, LocNone, ShiftRule DEF Label
<1> QED
  BY <1>2, <1>3, <1>4

\* The walk() of mappages(), or its failure, preserves the invariant.
LEMMA GrowWalkStep ==
    ASSUME ControlInv, NEW p \in Proc, GrowWalk(p)
    PROVE  ControlInv'
<1>1. /\ TypeOK /\ ProcInv(p) /\ lv[p] \in LocalVars /\ pc[p] = "grow_walk" /\ panicked = "no"
      /\ Pos(p) = pc[p] /\ lv[p].np = p /\ AtRest(p)
  BY DEF ControlInv, TypeOK, At, GrowWalk, Pos, InCall, ProcInv, Works, LoopLabels
<1>v. /\ lv[p].a \in VA /\ region(lv[p].a) \in Region /\ lv[p].a + 1 \in 0 .. NVA
      /\ sz[p] <= lv[p].a /\ lv[p].a < lv[p].nsz /\ sz[p] \in 0 .. NVA
  BY <1>1, Locals DEF ProcInv, Bounds, LoopLabels, Region, region
<1>2. CASE ptr[result(p)] = None
  <2> DEFINE x == [lv[p] EXCEPT !.ret = "grow_fail", !.loc = mem(p)]
  <2>1. Moves(p, "kfree", x)
    BY <1>1, <1>2
       DEF Moves, AllocOK, GrowWalk, Goto, Return, CallKalloc, CallKfree, Dealloc, TypeOK,
           allocVars, procVars, tableVars
  <2>2. x \in LocalVars
    BY <1>1, LocType DEF LocalVars, Label
  <2>3. x.np = lv[p].np /\ x.loc = mem(p) /\ x.a = lv[p].a /\ x.nsz = lv[p].nsz /\ x.lim = lv[p].lim /\ x.cont = lv[p].cont /\ x.ret = "grow_fail"
    BY <1>1 DEF LocalVars
  <2> HIDE DEF x
  <2>4. /\ pc'[p] = "kfree" /\ Pos(p)' = "grow_fail" /\ lv'[p] = x
        /\ state' = state /\ parent' = parent /\ sz' = sz /\ ptr' = ptr
    BY <1>1, <2>1, <2>3, Moved
  <2>5. \A va \in VA : Mapped(lv[p].np, va)' <=> Extent(p, va)'
    <3>1. \A va \in VA : Mapped(lv[p].np, va) <=> va < lv[p].a
      BY <1>1, <1>2, LocNone
         DEF ProcInv, Bounds, Tables, Extent, PlainLabels, ForkLabels, FreeingLabels, LoopLabels,
             UnmapLabels
    <3>2. \A va \in VA : Extent(p, va)' <=> va < lv[p].a
      BY <1>1, <1>2, <2>3, <2>4
         DEF ProcInv, Bounds, Extent, PlainLabels, ForkLabels, FreeingLabels, LoopLabels, UnmapLabels
    <3> QED
      BY <1>1, <1>2, <2>3, <2>4, <3>1, <3>2 DEF Mapped
  <2>6. Calls(p)' /\ Works(p)'
    BY <1>1, <1>2, <2>3, <2>4, LocNone
       DEF ProcInv, Calls, Works, Other, AllocLabels, FreeLabels, PlainLabels, ForkLabels,
           FreeingLabels, LoopLabels, UnmapLabels
  <2>7. Bounds(p)'
    BY <1>1, <1>2, <2>3, <2>4
       DEF ProcInv, Bounds, PlainLabels, ForkLabels, FreeingLabels, LoopLabels, UnmapLabels
  <2>8. Holds(p)'
    BY <1>1, <1>2, <2>3, <2>4, LocNone DEF ProcInv, Holds, AllocLabels, FreeLabels
  <2>9. Tables(p)'
    BY <1>1, <1>2, <2>3, <2>4, <2>5, LocNone DEF ProcInv, Tables, UnmapLabels
  <2> QED
    BY <1>1, <2>1, <2>2, <2>3, <2>6, <2>7, <2>8, <2>9, MoveRule DEF Label
<1>3. CASE ptr[result(p)] # None
  <2> DEFINE x == lv[p]
  <2>1. x \in LocalVars
    BY <1>1 DEF LocalVars
  <2>2. x.np = lv[p].np /\ x.loc = lv[p].loc /\ x.a = lv[p].a /\ x.nsz = lv[p].nsz /\ x.lim = lv[p].lim /\ x.cont = lv[p].cont
    BY <1>1 DEF LocalVars
  <2>3. /\ ptr' \in [Loc -> Page \cup {None}] /\ ptr'[ptpage(p, region(lv[p].a))] = ptr[result(p)] /\ ptr'[result(p)] = None
        /\ \A k \in Loc : k # ptpage(p, region(lv[p].a)) /\ k # result(p) => ptr'[k] = ptr[k]
    <3>1. ptpage(p, region(lv[p].a)) \in Loc /\ result(p) \in Loc /\ ptpage(p, region(lv[p].a)) # result(p)
      BY <1>1, LocType, <1>v DEF ptpage, result
    <3>2. ptr[result(p)] \in Page \cup {None}
      BY <1>1, <3>1 DEF TypeOK
    <3>3. ptr' = [ptr EXCEPT ![ptpage(p, region(lv[p].a))] = ptr[result(p)], ![result(p)] = None]
      BY <1>1, <1>3 DEF GrowWalk
    <3> QED
      BY <1>1, <3>1, <3>2, <3>3, Write2
  <2>4. \A y \in Proc \ {p} : Kept(y)
    BY <1>1, <2>3, LocType, <1>v DEF Kept, trapframe, pagetable, result, mem, ptpage, pte
  <2>5. \A y \in Proc, va \in VA : Mapped(y, va)' <=> Mapped(y, va)
    BY <1>1, <2>3, LocType DEF Mapped, trapframe, pagetable, result, mem, ptpage, pte
  <2>6. perm' = perm /\ perm \in [Proc -> [VA -> Perm]]
    BY <1>1, <1>3 DEF GrowWalk, TypeOK, tableVars
  <2>7. Shifts(p, p, "grow_map", x)
    <3>1. /\ pc' = [pc EXCEPT ![p] = "grow_map"] /\ lv' = [lv EXCEPT ![p] = x]
          /\ UNCHANGED <<procVars, panicked>> /\ AllocOK'
      BY <1>1, <1>3
         DEF GrowWalk, Goto, Return, CallKalloc, CallKfree, Dealloc, AllocOK, allocVars, TypeOK
    <3>2. /\ \A y \in {p, p}, va \in VA : perm'[y][va].cw => Mapped(y, va)'
          /\ lv[p].np # p => \A va \in VA : Mapped(p, va)' <=> Mapped(p, va)
      BY <1>1, <1>3, <2>5, <2>6 DEF AtRest
    <3> QED
      BY <1>1, <2>3, <2>4, <2>6, <3>1, <3>2 DEF Shifts, TypeOK
  <2>8. /\ pc'[p] = "grow_map" /\ Pos(p)' = "grow_map" /\ lv'[p] = x
        /\ state' = state /\ parent' = parent /\ sz' = sz
    BY <1>1, <2>2, <2>7 DEF Shifts, TypeOK, procVars, Pos, InCall
  <2>9. Calls(p)' /\ Works(p)'
    BY <1>1, <1>3, <2>2, <2>8, LocNone
       DEF ProcInv, Calls, Works, Other, AllocLabels, FreeLabels, PlainLabels, ForkLabels,
           FreeingLabels, LoopLabels, UnmapLabels
  <2>10. Bounds(p)'
    BY <1>1, <1>3, <2>2, <2>8
       DEF ProcInv, Bounds, PlainLabels, ForkLabels, FreeingLabels, LoopLabels, UnmapLabels
  <2>11. \A va \in VA : Mapped(lv[p].np, va)' <=> Extent(p, va)'
    <3>1. \A va \in VA : Mapped(lv[p].np, va) <=> va < lv[p].a
      BY <1>1, <1>3, LocNone
         DEF ProcInv, Bounds, Tables, Extent, PlainLabels, ForkLabels, FreeingLabels, LoopLabels,
             UnmapLabels
    <3>2. \A va \in VA : Extent(p, va)' <=> va < lv[p].a
      BY <1>1, <1>3, <2>2, <2>8
         DEF ProcInv, Bounds, Extent, PlainLabels, ForkLabels, FreeingLabels, LoopLabels, UnmapLabels
    <3> QED
      BY <1>1, <1>3, <2>2, <2>8, <2>5, <3>1, <3>2 DEF Mapped
  <2>12. Holds(p)'
    BY <1>1, <1>3, <2>2, <2>8, <2>3, LocType, LocNone
       DEF ProcInv, Holds, AllocLabels, FreeLabels, trapframe, result, mem, pagetable, ptpage, pte
  <2>13. Tables(p)'
    BY <1>1, <1>3, <2>2, <2>8, <2>3, <2>11, LocType, LocNone
       DEF ProcInv, Tables, UnmapLabels, trapframe, result, mem, pagetable, ptpage, pte
  <2> QED
    BY <1>1, <2>1, <2>2, <2>7, <2>9, <2>10, <2>12, <2>13, LocNone, ShiftRule DEF Label
<1> QED
  BY <1>2, <1>3

\* uvmalloc() after kfree(mem): uvmdealloc() is given the pages mapped so far.
LEMMA GrowFailStep ==
    ASSUME ControlInv, NEW p \in Proc, GrowFail(p)
    PROVE  ControlInv'
<1>1. /\ TypeOK /\ ProcInv(p) /\ lv[p] \in LocalVars /\ pc[p] = "grow_fail" /\ panicked = "no"
      /\ Pos(p) = pc[p] /\ lv[p].np = p /\ AtRest(p)
  BY DEF ControlInv, TypeOK, At, GrowFail, Pos, InCall, ProcInv, Works, LoopLabels
<1>v. /\ lv[p].a \in VA /\ region(lv[p].a) \in Region /\ lv[p].a + 1 \in 0 .. NVA
      /\ sz[p] <= lv[p].a /\ lv[p].a < lv[p].nsz /\ sz[p] \in 0 .. NVA
  BY <1>1, Locals DEF ProcInv, Bounds, LoopLabels, Region, region
<1>2. CASE TRUE
  <2> DEFINE x == [lv[p] EXCEPT !.a = sz[p], !.lim = lv[p].a, !.loc = None, !.nsz = sz[p], !.cont = "sbrk_done"]
  <2>1. x \in LocalVars
    BY <1>1, <1>v DEF LocalVars, Label
  <2>2. x.np = lv[p].np /\ x.loc = None /\ x.a = sz[p] /\ x.lim = lv[p].a /\ x.nsz = sz[p] /\ x.cont = "sbrk_done"
    BY <1>1 DEF LocalVars
  <2>3. /\ ptr' \in [Loc -> Page \cup {None}] /\ ptr'[mem(p)] = None
        /\ \A k \in Loc : k # mem(p) => ptr'[k] = ptr[k]
    <3>1. mem(p) \in Loc
      BY <1>1, LocType DEF mem
    <3>2. None \in Page \cup {None}
      BY <1>1, <3>1 DEF TypeOK
    <3>3. ptr' = [ptr EXCEPT ![mem(p)] = None]
      BY <1>1, <1>2 DEF GrowFail
    <3> QED
      BY <1>1, <3>1, <3>2, <3>3, Write1
  <2>4. \A y \in Proc \ {p} : Kept(y)
    BY <1>1, <2>3, LocType DEF Kept, trapframe, pagetable, result, mem, ptpage, pte
  <2>5. \A y \in Proc, va \in VA : Mapped(y, va)' <=> Mapped(y, va)
    BY <1>1, <2>3, LocType DEF Mapped, trapframe, pagetable, result, mem, ptpage, pte
  <2>6. perm' = perm /\ perm \in [Proc -> [VA -> Perm]]
    BY <1>1, <1>2 DEF GrowFail, TypeOK, tableVars
  <2>7. Shifts(p, p, "unmap", x)
    <3>1. /\ pc' = [pc EXCEPT ![p] = "unmap"] /\ lv' = [lv EXCEPT ![p] = x]
          /\ UNCHANGED <<procVars, panicked>> /\ AllocOK'
      BY <1>1, <1>2
         DEF GrowFail, Goto, Return, CallKalloc, CallKfree, Dealloc, AllocOK, allocVars, TypeOK
    <3>2. /\ \A y \in {p, p}, va \in VA : perm'[y][va].cw => Mapped(y, va)'
          /\ lv[p].np # p => \A va \in VA : Mapped(p, va)' <=> Mapped(p, va)
      BY <1>1, <1>2, <2>5, <2>6 DEF AtRest
    <3> QED
      BY <1>1, <2>3, <2>4, <2>6, <3>1, <3>2 DEF Shifts, TypeOK
  <2> HIDE DEF x
  <2>8. /\ pc'[p] = "unmap" /\ Pos(p)' = "unmap" /\ lv'[p] = x
        /\ state' = state /\ parent' = parent /\ sz' = sz
    BY <1>1, <2>2, <2>7 DEF Shifts, TypeOK, procVars, Pos, InCall
  <2>9. Calls(p)' /\ Works(p)'
    BY <1>1, <1>2, <2>2, <2>8, LocNone
       DEF ProcInv, Calls, Works, Other, AllocLabels, FreeLabels, PlainLabels, ForkLabels,
           FreeingLabels, LoopLabels, UnmapLabels
  <2>10. Bounds(p)'
    BY <1>1, <1>2, <2>2, <2>8, <1>v, Locals
       DEF Bounds, PlainLabels, ForkLabels, FreeingLabels, LoopLabels, UnmapLabels
  <2>11. \A va \in VA : Mapped(lv[p].np, va)' <=> Extent(p, va)'
    <3>1. \A va \in VA : Mapped(lv[p].np, va) <=> va < lv[p].a
      BY <1>1, <1>2, LocNone
         DEF ProcInv, Bounds, Tables, Extent, PlainLabels, ForkLabels, FreeingLabels, LoopLabels,
             UnmapLabels
    <3>2. \A va \in VA : Extent(p, va)' <=> va < sz[p] \/ (sz[p] <= va /\ va < lv[p].a)
      BY <1>1, <1>2, <2>2, <2>8
         DEF ProcInv, Bounds, Extent, PlainLabels, ForkLabels, FreeingLabels, LoopLabels, UnmapLabels
    <3>3. \A va \in VA : (va < sz[p] \/ (sz[p] <= va /\ va < lv[p].a)) <=> (va < lv[p].a)
      BY <1>1, <1>v, Locals, VAType
    <3> QED
      BY <1>1, <1>2, <2>2, <2>8, <2>5, <3>1, <3>2, <3>3 DEF Mapped
  <2>12. Holds(p)'
    BY <1>1, <1>2, <2>2, <2>8, <2>3, LocType, LocNone
       DEF ProcInv, Holds, AllocLabels, FreeLabels, trapframe, result, mem, pagetable, ptpage, pte
  <2>13. Tables(p)'
    BY <1>1, <1>2, <2>2, <2>8, <2>3, <2>11, LocType, LocNone
       DEF ProcInv, Tables, UnmapLabels, trapframe, result, mem, pagetable, ptpage, pte
  <2> QED
    BY <1>1, <2>1, <2>2, <2>7, <2>9, <2>10, <2>12, <2>13, LocNone, ShiftRule DEF Label
<1> QED
  BY <1>2

\* mappages() finds the page unmapped, so its panic does not fire.
LEMMA GrowMapStep ==
    ASSUME ControlInv, NEW p \in Proc, GrowMap(p)
    PROVE  ControlInv'
<1>1. /\ TypeOK /\ ProcInv(p) /\ lv[p] \in LocalVars /\ pc[p] = "grow_map" /\ panicked = "no"
      /\ Pos(p) = pc[p] /\ lv[p].np = p /\ AtRest(p)
  BY DEF ControlInv, TypeOK, At, GrowMap, Pos, InCall, ProcInv, Works, LoopLabels
<1>v. /\ lv[p].a \in VA /\ region(lv[p].a) \in Region /\ lv[p].a + 1 \in 0 .. NVA
      /\ sz[p] <= lv[p].a /\ lv[p].a < lv[p].nsz /\ sz[p] \in 0 .. NVA
  BY <1>1, Locals DEF ProcInv, Bounds, LoopLabels, Region, region
<1>m. ~Mapped(p, lv[p].a)
  <2>1. Mapped(p, lv[p].a) <=> Extent(p, lv[p].a)
    BY <1>1, <1>v, LocNone DEF ProcInv, Tables
  <2>2. Extent(p, lv[p].a) <=> lv[p].a < lv[p].a
    BY <1>1 DEF Extent, ForkLabels, LoopLabels, UnmapLabels
  <2> QED
    BY <1>1, <2>1, <2>2, Locals
<1>b. /\ ptr' = [ptr EXCEPT ![pte(p, lv[p].a)] = ptr[mem(p)], ![mem(p)] = None]
      /\ perm' = [perm EXCEPT ![p][lv[p].a] = RWPerm]
      /\ Goto(p, "uvmalloc") /\ lv' = [lv EXCEPT ![p].a = @ + 1]
      /\ UNCHANGED <<allocVars, procVars, panicked>>
  BY <1>m DEF GrowMap
<1>2. CASE TRUE
  <2> DEFINE x == [lv[p] EXCEPT !.a = @ + 1]
  <2>1. x \in LocalVars
    BY <1>1, <1>v DEF LocalVars
  <2>2. x.np = lv[p].np /\ x.loc = lv[p].loc /\ x.a = lv[p].a + 1 /\ x.nsz = lv[p].nsz /\ x.lim = lv[p].lim /\ x.cont = lv[p].cont
    BY <1>1 DEF LocalVars
  <2>3. /\ ptr' \in [Loc -> Page \cup {None}] /\ ptr'[pte(p, lv[p].a)] = ptr[mem(p)] /\ ptr'[mem(p)] = None
        /\ \A k \in Loc : k # pte(p, lv[p].a) /\ k # mem(p) => ptr'[k] = ptr[k]
    <3>1. pte(p, lv[p].a) \in Loc /\ mem(p) \in Loc /\ pte(p, lv[p].a) # mem(p)
      BY <1>1, LocType, <1>v DEF pte, mem
    <3>2. ptr[mem(p)] \in Page \cup {None}
      BY <1>1, <3>1 DEF TypeOK
    <3>3. ptr' = [ptr EXCEPT ![pte(p, lv[p].a)] = ptr[mem(p)], ![mem(p)] = None]
      BY <1>b
    <3> QED
      BY <1>1, <3>1, <3>2, <3>3, Write2
  <2>4. \A y \in Proc \ {p} : Kept(y)
    BY <1>1, <2>3, LocType, <1>v DEF Kept, trapframe, pagetable, result, mem, ptpage, pte
  <2>5. /\ \A y \in Proc, va \in VA : (y # p \/ va # lv[p].a) => (Mapped(y, va)' <=> Mapped(y, va))
        /\ ptr'[pte(p, lv[p].a)] # None
    BY <1>1, <1>2, <2>3, LocType, <1>v DEF Mapped, pte, mem, ProcInv, Holds
  <2>6. /\ perm' \in [Proc -> [VA -> Perm]] /\ perm'[p][lv[p].a] = RWPerm
        /\ \A y \in Proc, va \in VA : (y # p \/ va # lv[p].a) => perm'[y][va] = perm[y][va]
        /\ \A y \in Proc : y # p => perm'[y] = perm[y]
    <3>0. perm[p][lv[p].a] \in Perm /\ lv[p].a \in VA
      BY <1>1, <1>2, <1>v, <1>b DEF TypeOK
    <3>1. RWPerm \in Perm
      BY <3>0, FlagType
    <3>2. perm' = [perm EXCEPT ![p][lv[p].a] = RWPerm]
      BY <1>1, <1>2, <1>v, <1>b
    <3> QED
      BY <1>1, <3>0, <3>1, <3>2, Flag1
  <2>b. perm[p][lv[p].a] \in Perm
    BY <1>1, <1>v DEF TypeOK
  <2>c. ~perm'[p][lv[p].a].cw
    BY <2>b, <2>6, FlagType
  <2>7. Shifts(p, p, "uvmalloc", x)
    <3>1. /\ pc' = [pc EXCEPT ![p] = "uvmalloc"] /\ lv' = [lv EXCEPT ![p] = x]
          /\ UNCHANGED <<procVars, panicked>> /\ AllocOK'
      BY <1>1, <1>2, <1>b
         DEF Goto, Return, CallKalloc, CallKfree, Dealloc, AllocOK, allocVars, TypeOK
    <3>2. /\ \A y \in {p, p}, va \in VA : perm'[y][va].cw => Mapped(y, va)'
          /\ lv[p].np # p => \A va \in VA : Mapped(p, va)' <=> Mapped(p, va)
      BY <1>1, <1>2, <2>5, <2>6, <1>v, <2>c DEF AtRest
    <3> QED
      BY <1>1, <2>3, <2>4, <2>6, <3>1, <3>2 DEF Shifts, TypeOK
  <2> HIDE DEF x
  <2>8. /\ pc'[p] = "uvmalloc" /\ Pos(p)' = "uvmalloc" /\ lv'[p] = x
        /\ state' = state /\ parent' = parent /\ sz' = sz
    BY <1>1, <2>2, <2>7 DEF Shifts, TypeOK, procVars, Pos, InCall
  <2>9. Calls(p)' /\ Works(p)'
    BY <1>1, <1>2, <2>2, <2>8, LocNone
       DEF ProcInv, Calls, Works, Other, AllocLabels, FreeLabels, PlainLabels, ForkLabels,
           FreeingLabels, LoopLabels, UnmapLabels
  <2>10. Bounds(p)'
    BY <1>1, <1>2, <2>2, <2>8, <1>v, Locals
       DEF Bounds, PlainLabels, ForkLabels, FreeingLabels, LoopLabels, UnmapLabels
  <2>11. \A va \in VA : Mapped(lv[p].np, va)' <=> Extent(p, va)'
    <3>1. \A va \in VA : Mapped(lv[p].np, va) <=> va < lv[p].a
      BY <1>1, <1>2, LocNone
         DEF ProcInv, Bounds, Tables, Extent, PlainLabels, ForkLabels, FreeingLabels, LoopLabels,
             UnmapLabels
    <3>2. \A va \in VA : Extent(p, va)' <=> va < lv[p].a + 1
      BY <1>1, <1>2, <2>2, <2>8
         DEF ProcInv, Bounds, Extent, PlainLabels, ForkLabels, FreeingLabels, LoopLabels, UnmapLabels
    <3>3. \A va \in VA : (va < lv[p].a + 1) <=> (va < lv[p].a \/ va = lv[p].a)
      BY <1>1, <1>v, Locals, VAType
    <3> QED
      BY <1>1, <1>2, <2>2, <2>8, <2>5, <3>1, <3>2, <3>3, <1>v DEF Mapped
  <2>12. Holds(p)'
    BY <1>1, <1>2, <2>2, <2>8, <2>3, LocType, LocNone
       DEF ProcInv, Holds, AllocLabels, FreeLabels, trapframe, result, mem, pagetable, ptpage, pte
  <2>13. Tables(p)'
    BY <1>1, <1>2, <2>2, <2>8, <2>3, <2>11, LocType, LocNone
       DEF ProcInv, Tables, UnmapLabels, trapframe, result, mem, pagetable, ptpage, pte
  <2> QED
    BY <1>1, <2>1, <2>2, <2>7, <2>9, <2>10, <2>12, <2>13, LocNone, ShiftRule DEF Label
<1> QED
  BY <1>2

\* p->sz = sz in growproc(): exactly that many pages are mapped.
LEMMA SbrkDoneStep ==
    ASSUME ControlInv, NEW p \in Proc, SbrkDone(p)
    PROVE  ControlInv'
<1>1. /\ TypeOK /\ ProcInv(p) /\ pc[p] = "sbrk_done" /\ Pos(p) = "sbrk_done" /\ panicked = "no"
      /\ lv[p].np = p /\ state[p] = "RUNNABLE" /\ lv[p].nsz \in 0 .. NVA
  BY DEF ControlInv, SbrkDone, At, ProcInv, Works, Bounds, Calls, Pos, InCall
<1>2. ptr[result(p)] = None /\ ptr[mem(p)] = None /\ AtRest(p)
  BY <1>1 DEF ProcInv, Holds, AllocLabels
<1>3. \A va \in VA : Mapped(p, va) <=> va < lv[p].nsz
  BY <1>1, LocNone DEF ProcInv, Tables, Extent, ForkLabels, LoopLabels, UnmapLabels
<1>4. \A r \in Proc \ {p} : lv[r].np # p
  BY <1>1, LocNone DEF ControlInv, Exclusive
<1>5. /\ sz' = [sz EXCEPT ![p] = lv[p].nsz] /\ pc' = [pc EXCEPT ![p] = "user"]
      /\ lv' = [lv EXCEPT ![p] = Idle] /\ state' = state /\ parent' = parent
      /\ ptr' = ptr /\ perm' = perm /\ panicked' = panicked /\ UNCHANGED allocVars
  BY DEF SbrkDone, Return, Goto, tableVars
<1>6. TypeOK' /\ panicked' \notin TablePanics
  <2>1. pc' \in [Proc -> Label]
    BY <1>1, <1>5 DEF TypeOK, Label
  <2>2. lv' \in [Proc -> LocalVars] /\ sz' \in [Proc -> 0 .. NVA]
    BY <1>1, <1>5, IdleType DEF TypeOK
  <2> QED
    BY <1>1, <1>5, <2>1, <2>2 DEF ControlInv, TypeOK, allocVars
<1>7. /\ pc'[p] = "user" /\ lv'[p] = Idle /\ state'[p] = "RUNNABLE" /\ sz'[p] = lv[p].nsz
      /\ \A y \in Proc \ {p} : pc'[y] = pc[y] /\ lv'[y] = lv[y] /\ sz'[y] = sz[y]
  BY <1>1, <1>5 DEF TypeOK
<1>8. Partner(p, p)
  BY <1>1, <1>4, <1>7 DEF Partner, Idle
<1>9. \A y \in Proc \ {p} : Untouched(y, p)
  BY <1>5, <1>7 DEF Untouched, Kept
<1>10. Calls(p)' /\ Works(p)' /\ Bounds(p)' /\ Holds(p)' /\ Tables(p)'
  BY <1>2, <1>5, <1>7, Awake
<1>11. AtRest(p)'
  BY <1>2, <1>3, <1>5, <1>7 DEF AtRest, Mapped
<1> QED
  BY <1>1, <1>6, <1>8, <1>9, <1>10, <1>11, StepRule DEF ProcInv
=============================================================================
