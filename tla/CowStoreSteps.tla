--------------------------- MODULE CowStoreSteps ----------------------------
(***************************************************************************)
(* What the proof that ControlInv is inductive rests on: the locations are *)
(* distinct, the initial state satisfies it, and rules that reduce a step  *)
(* of process p to what it does to p and to the one process whose page     *)
(* table p works on.  Then the first steps: those of the allocator, of a   *)
(* store and its page fault, and of copyout() preserve ControlInv.         *)
(***************************************************************************)
EXTENDS CowInvariant, TLAPS

\* A leaf goes to Zenon, for ten seconds, and then to the SMT solver, for a minute.
USE ZenonT(10), SMTT(60)

-----------------------------------------------------------------------------
(* Locations *)

\* Every field a pointer to a page is kept in is a location.
LEMMA LocType ==
    ASSUME NEW p \in Proc
    PROVE  /\ trapframe(p) \in Loc /\ pagetable(p) \in Loc
           /\ result(p) \in Loc /\ mem(p) \in Loc
           /\ \A r \in Region : ptpage(p, r) \in Loc
           /\ \A va \in VA : pte(p, va) \in Loc /\ ptpage(p, region(va)) \in Loc
BY DEF trapframe, pagetable, result, mem, ptpage, pte, Loc, Region, region

\* None is neither a location nor a process nor a page, and initproc is a process.
LEMMA LocNone == None \notin Loc /\ None \notin Proc /\ None \notin Page /\ initproc \in Proc
BY CowAssumption

\* Different fields, of the same or of different processes, are different locations.
LEMMA Locations ==
    ASSUME NEW p, NEW q, NEW a, NEW b
    PROVE  /\ trapframe(p) = trapframe(q) => p = q
           /\ pagetable(p) = pagetable(q) => p = q
           /\ result(p) = result(q) => p = q
           /\ mem(p) = mem(q) => p = q
           /\ ptpage(p, a) = ptpage(q, b) => p = q /\ a = b
           /\ pte(p, a) = pte(q, b) => p = q /\ a = b
           /\ trapframe(p) # pagetable(q) /\ trapframe(p) # result(q)
           /\ trapframe(p) # mem(q) /\ trapframe(p) # ptpage(q, b) /\ trapframe(p) # pte(q, b)
           /\ pagetable(p) # result(q) /\ pagetable(p) # mem(q)
           /\ pagetable(p) # ptpage(q, b) /\ pagetable(p) # pte(q, b)
           /\ result(p) # mem(q) /\ result(p) # ptpage(q, b) /\ result(p) # pte(q, b)
           /\ mem(p) # ptpage(q, b) /\ mem(p) # pte(q, b)
           /\ ptpage(p, a) # pte(q, b)
BY DEF trapframe, pagetable, result, mem, ptpage, pte

\* The local variables of a process in user mode are well typed.
LEMMA IdleType == Idle \in LocalVars
BY CowAssumption, KallocAssumption DEF Idle, LocalVars, Label

\* The ranges of the loop indices and sizes of a process.
LEMMA Locals ==
    ASSUME TypeOK, NEW p \in Proc
    PROVE  /\ lv[p].a \in Nat /\ lv[p].lim \in Nat /\ lv[p].nsz \in Nat /\ sz[p] \in Nat
           /\ lv[p].a <= NVA /\ lv[p].lim <= NVA /\ lv[p].nsz <= NVA /\ sz[p] <= NVA
           /\ lv[p].np # None => lv[p].np \in Proc
           /\ lv[p].loc # None => lv[p].loc \in Loc
           /\ NVA \in Nat /\ VA = {va \in Nat : va < NVA}
  <1>1. lv[p] \in LocalVars /\ sz[p] \in 0 .. NVA
    BY DEF TypeOK
  <1> QED
    BY <1>1, CowAssumption DEF LocalVars, VA

\* 1, and any number modulo 2^32, is a value of no_of_ref_array.
LEMMA CountType ==
    /\ 1 \in Count
    /\ \A n \in Int : n % RefMod \in Count
BY KallocAssumption DEF Count

\* There is a page at virtual address 0.
LEMMA ZeroVA == 0 \in VA
BY CowAssumption DEF VA

\* Virtual page numbers are natural numbers below the limit.
LEMMA VAType == \A va \in VA : va \in 0 .. NVA /\ va \in Nat /\ va < NVA
BY CowAssumption DEF VA

\* After userinit() only the first process holds pages, and exactly BootSz user pages.
LEMMA BootLocations ==
    /\ \A p \in Proc : (trapframe(p) \in BootLoc <=> p = initproc)
    /\ \A p \in Proc : (pagetable(p) \in BootLoc <=> p = initproc)
    /\ \A p \in Proc : result(p) \notin BootLoc /\ mem(p) \notin BootLoc
    /\ \A p \in Proc : p # initproc => \A r \in Region : ptpage(p, r) \notin BootLoc
    /\ \A p \in Proc, va \in VA :
            pte(p, va) \in BootLoc <=> p = initproc /\ va < BootSz
BY CowAssumption DEF BootLoc, trapframe, pagetable, result, mem, ptpage, pte, VA

\* The state that userinit() leaves satisfies the invariant.
LEMMA InitControl == Init => ControlInv
<1> SUFFICES ASSUME Init PROVE ControlInv
    OBVIOUS
<1>1. TypeOK
  BY IdleType, CowAssumption, KallocAssumption
     DEF Init, TypeOK, Count, VA, Perm, NoPerm, Label, TablePanics
<1>2. panicked \notin TablePanics
  BY DEF Init, TablePanics
<1>3. Exclusive
  BY DEF Init, Exclusive, Idle
<1>4. ASSUME NEW p \in Proc PROVE ProcInv(p)
  <2> USE LocNone, LocType, BootLocations DEF Init
  <2>1. Calls(p)
    BY DEF Calls
  <2>2. Pos(p) \in {"user", "dead"} /\ ~InCall(p) /\ lv[p].np = None /\ ~Other(p)
    BY DEF Pos, InCall, Idle, Other
  <2>3. Works(p)
    BY <2>2 DEF Works, PlainLabels, ForkLabels, FreeingLabels, LoopLabels, UnmapLabels
  <2>4. Bounds(p)
    BY <2>2, CowAssumption
       DEF Bounds, PlainLabels, ForkLabels, LoopLabels, UnmapLabels, Idle, VA
  <2>5. Holds(p)
    BY <2>2 DEF Holds, FreeLabels, AllocLabels, Idle
  <2>6. Tables(p)
    BY <2>2 DEF Tables, UnmapLabels
  <2>7. AtRest(p)
    BY CowAssumption DEF AtRest, Mapped, NoPerm, VA
  <2> QED
    BY <2>1, <2>3, <2>4, <2>5, <2>6, <2>7 DEF ProcInv
<1> QED
  BY <1>1, <1>2, <1>3, <1>4 DEF ControlInv

-----------------------------------------------------------------------------
(* A step of process p leaves everybody alone except p and the process w     *)
(* whose page table it works on.                                             *)

Kept(x) ==
    /\ ptr'[trapframe(x)] = ptr[trapframe(x)] /\ ptr'[pagetable(x)] = ptr[pagetable(x)]
    /\ ptr'[result(x)] = ptr[result(x)] /\ ptr'[mem(x)] = ptr[mem(x)]
    /\ \A r \in Region : ptr'[ptpage(x, r)] = ptr[ptpage(x, r)]
    /\ \A va \in VA : ptr'[pte(x, va)] = ptr[pte(x, va)]

Untouched(x, p) ==
    /\ pc'[x] = pc[x] /\ lv'[x] = lv[x] /\ state'[x] = state[x] /\ sz'[x] = sz[x]
    /\ perm'[x] = perm[x] /\ (parent[x] # p => parent'[x] = parent[x])
    /\ Kept(x)

\* What only p works on, in a step of p.
Partner(p, w) ==
    /\ w \in Proc /\ (w = p \/ state[w] # "RUNNABLE")
    /\ \A r \in Proc \ {p} : lv[r].np # w
    /\ \/ lv'[p].np = lv[p].np
       \/ lv[p].np \in {w, p, None} /\ lv'[p].np \in {w, p, None}
    /\ lv'[w] = lv[w] \/ w = p

\* A process that is neither the one that steps nor the one whose table it works on keeps
\* its part of the invariant.
LEMMA OtherProcess ==
    ASSUME ControlInv, NEW p \in Proc, pc[p] # "dead", NEW w \in Proc, Partner(p, w),
           \A x \in Proc \ {p, w} : Untouched(x, p),
           NEW r \in Proc \ {p, w}
    PROVE  ProcInv(r)'
<1>1. ProcInv(r) /\ Untouched(r, p) /\ TypeOK
  BY DEF ControlInv
<1>2. ASSUME Other(r)
      PROVE  /\ Untouched(lv[r].np, p) /\ lv[r].np \in Proc
             /\ state[lv[r].np] = "ZOMBIE" => parent'[lv[r].np] = parent[lv[r].np]
  <2>1. lv[r].np \in Proc /\ lv[r].np # w /\ state[lv[r].np] # "RUNNABLE"
    BY <1>1, <1>2 DEF ProcInv, Works, Other, Partner
  <2>2. state[p] = "RUNNABLE"
    BY DEF ControlInv, ProcInv, Calls
  <2>3. Untouched(lv[r].np, p)
    BY <2>1, <2>2
  <2>4. state[lv[r].np] = "ZOMBIE" => parent[lv[r].np] = r
    BY <1>1, <1>2 DEF ProcInv, Works
  <2> QED
    BY <2>1, <2>3, <2>4 DEF Untouched
<1>3. Pos(r)' = Pos(r) /\ (Other(r)' <=> Other(r))
  BY <1>1 DEF Untouched, Pos, InCall, Other
<1>4. Calls(r)'
  BY <1>1 DEF ProcInv, Calls, Untouched
<1>5. Works(r)'
  BY <1>1, <1>2, <1>3 DEF ProcInv, Works, Untouched
<1>6. Bounds(r)'
  BY <1>1, <1>3 DEF ProcInv, Bounds, Untouched
<1>7. lv[r].np # None => lv[r].np \in Proc /\ (lv[r].np = r \/ Other(r))
  BY <1>1 DEF TypeOK, LocalVars, Other
<1>8. lv[r].np # None => Kept(lv[r].np) /\ sz'[lv[r].np] = sz[lv[r].np]
  BY <1>1, <1>2, <1>7 DEF Untouched
<1>9. lv[r].loc # None => ptr'[lv[r].loc] = ptr[lv[r].loc]
  <2>1. lv[r].loc # None => Pos(r) \in FreeLabels
    BY <1>1 DEF ProcInv, Holds
  <2>2. Pos(r) = "cow_pte" => lv[r].a \in VA /\ lv[r].loc = pte(r, lv[r].a)
    BY <1>1, Locals DEF ProcInv, Holds, Bounds
  <2>3. Pos(r) = "unmap_pte" => lv[r].a \in VA /\ lv[r].loc = pte(lv[r].np, lv[r].a)
    BY <1>1, Locals DEF ProcInv, Holds, Bounds
  <2>4. Pos(r) \in {"unmap_pte", "freed_tf", "freed_pt"} => lv[r].np # None
    BY <1>1, LocNone DEF ProcInv, Works, UnmapLabels, FreeingLabels, Other
  <2>5. Holds(r) /\ Kept(r)
    BY <1>1 DEF ProcInv, Untouched
  <2> QED
    BY <1>8, <2>1, <2>2, <2>3, <2>4, <2>5 DEF Holds, FreeLabels, Kept
<1>10. Holds(r)'
  <2>1. Pos(r) = "freed_tf" => Kept(lv[r].np)
    BY <1>1, <1>8, LocNone DEF ProcInv, Works, FreeingLabels, Other
  <2>2. Holds(r) /\ pc'[r] = pc[r] /\ lv'[r] = lv[r] /\ Kept(r)
    BY <1>1 DEF ProcInv, Untouched
  <2> QED
    BY <1>3, <1>9, <2>1, <2>2 DEF Holds, Kept
<1>11. Tables(r)'
  <2>1. ASSUME NEW va \in VA PROVE Extent(r, va)' <=> Extent(r, va)
    BY <1>1, <1>3, <1>8 DEF Extent, Untouched
  <2>2. lv'[r].np # None => \A va \in VA : Mapped(lv[r].np, va)' <=> Extent(r, va)'
    BY <1>1, <1>8, <2>1 DEF ProcInv, Tables, Mapped, Kept, Untouched
  <2>3. Pos(r) \in ForkLabels \cup FreeingLabels \cup LoopLabels \cup UnmapLabels =>
            lv[r].np # None
    BY <1>1, LocNone DEF ProcInv, Works, ForkLabels, FreeingLabels, LoopLabels,
                         UnmapLabels, Other
  <2>4. Pos(r) \in {"copy_walk", "copy_inc", "grow_walk"} =>
            lv[r].a \in VA /\ region(lv[r].a) \in Region
    BY <1>1, Locals DEF ProcInv, Bounds, LoopLabels, Region, region
  <2>5. Tables(r) /\ lv'[r] = lv[r] /\ Kept(r)
    BY <1>1 DEF ProcInv, Untouched
  <2> QED
    BY <1>3, <1>8, <2>2, <2>3, <2>4, <2>5
       DEF Tables, Kept, UnmapLabels, ForkLabels, FreeingLabels, LoopLabels
<1>12. AtRest(r)'
  <2>1. (\A x \in Proc : lv'[x].np # r) => (\A x \in Proc : lv[x].np # r)
    BY <1>1, LocNone DEF Partner, Untouched
  <2>2. \A va \in VA : Mapped(r, va)' <=> Mapped(r, va)
    BY <1>1 DEF Untouched, Kept, Mapped
  <2> QED
    BY <1>1, <2>1, <2>2 DEF ProcInv, AtRest, Untouched, Kept
<1> QED
  BY <1>4, <1>5, <1>6, <1>10, <1>11, <1>12 DEF ProcInv

\* Nobody else works on the page table of a process that runs.
LEMMA OwnTable ==
    ASSUME ControlInv, NEW p \in Proc, pc[p] # "dead"
    PROVE  \A r \in Proc \ {p} : lv[r].np # p
<1> SUFFICES ASSUME NEW r \in Proc \ {p}, lv[r].np = p PROVE FALSE
    OBVIOUS
<1>1. state[p] = "RUNNABLE"
  BY DEF ControlInv, ProcInv, Calls
<1>2. Works(r)
  BY DEF ControlInv, ProcInv
<1>3. Other(r)
  BY DEF Other
<1> QED
  BY <1>1, <1>2, <1>3 DEF Works

\* A step of p preserves the invariant when it does so for p and for the process w whose
\* table p works on.
LEMMA StepRule ==
    ASSUME ControlInv, NEW p \in Proc, pc[p] # "dead", NEW w \in Proc, Partner(p, w),
           \A x \in Proc \ {p, w} : Untouched(x, p),
           TypeOK', panicked' \notin TablePanics, ProcInv(p)', ProcInv(w)'
    PROVE  ControlInv'
<1>1. \A r \in Proc : ProcInv(r)'
  BY OtherProcess
<1>2. Exclusive'
  <2> SUFFICES ASSUME NEW x \in Proc, NEW y \in Proc, x # y, lv'[x].np = lv'[y].np,
                      lv'[x].np # None
               PROVE  FALSE
      BY DEF Exclusive
  <2>1. \A r \in Proc \ {p} : lv[r].np # p
    BY OwnTable
  <2>2. \A r \in Proc \ {p} : lv'[r] = lv[r]
    BY DEF Partner, Untouched
  <2>3. Exclusive
    BY DEF ControlInv
  <2> QED
    BY <2>1, <2>2, <2>3 DEF Exclusive, Partner
<1> QED
  BY <1>1, <1>2 DEF ControlInv

\* A step that changes nothing but the control state and the local variables of p.
QuietStep(p) ==
    /\ UNCHANGED <<procVars, tableVars>>
    /\ \A x \in Proc \ {p} : pc'[x] = pc[x] /\ lv'[x] = lv[x]
    /\ lv'[p].np = lv[p].np

\* A step that changes only the control state of p preserves the invariant when it does so
\* for p's control state.
LEMMA QuietRule ==
    ASSUME ControlInv, NEW p \in Proc, pc[p] # "dead", QuietStep(p),
           TypeOK', panicked' \notin TablePanics,
           Calls(p)', Works(p)', Bounds(p)', Holds(p)', Tables(p)'
    PROVE  ControlInv'
<1>1. \A x \in Proc : lv'[x].np = lv[x].np
  BY DEF QuietStep
<1>2. AtRest(p)'
  BY <1>1 DEF ControlInv, ProcInv, AtRest, Mapped, QuietStep, procVars, tableVars
<1>3. \A x \in Proc \ {p} : Untouched(x, p)
  BY DEF QuietStep, procVars, tableVars, Untouched, Kept
<1>4. Partner(p, p)
  <2>1. \A r \in Proc \ {p} : lv[r].np # p
    BY OwnTable
  <2> QED
    BY <2>1 DEF Partner, QuietStep
<1> QED
  BY <1>2, <1>3, <1>4, StepRule DEF ProcInv

\* The types of the allocator's variables.
AllocOK ==
    /\ freelist \in SUBSET Page
    /\ ref \in [Page -> Count]
    /\ data \in [Page -> Value \cup {Junk}]

\* p goes to label l with local variables x, and only the allocator changes otherwise.
Moves(p, l, x) ==
    /\ pc' = [pc EXCEPT ![p] = l] /\ lv' = [lv EXCEPT ![p] = x]
    /\ UNCHANGED <<procVars, tableVars, panicked>>
    /\ AllocOK'

\* What such a step leaves behind.
LEMMA Moved ==
    ASSUME TypeOK, NEW p \in Proc, NEW l, NEW x, Moves(p, l, x)
    PROVE  /\ pc'[p] = l /\ lv'[p] = x /\ state' = state /\ parent' = parent /\ sz' = sz
           /\ ptr' = ptr /\ perm' = perm
           /\ Pos(p)' = IF l \in {"kalloc", "kalloc_ref", "kfree", "kfree_push"}
                        THEN x.ret ELSE l
BY DEF Moves, TypeOK, procVars, tableVars, Pos, InCall

\* A step that moves p to another label preserves the invariant when it does so for p.
LEMMA MoveRule ==
    ASSUME ControlInv, NEW p \in Proc, pc[p] # "dead", NEW l \in Label, NEW x \in LocalVars,
           Moves(p, l, x), x.np = lv[p].np,
           Calls(p)' /\ Works(p)' /\ Bounds(p)' /\ Holds(p)' /\ Tables(p)'
    PROVE  ControlInv'
<1>1. TypeOK'
  BY DEF ControlInv, TypeOK, Moves, AllocOK, procVars, tableVars
<1>2. QuietStep(p)
  BY DEF ControlInv, TypeOK, Moves, QuietStep
<1>3. panicked' \notin TablePanics
  BY DEF ControlInv, Moves
<1> QED
  BY <1>1, <1>2, <1>3, QuietRule

\* A running process that is not in sbrk() has exactly the pages below p->sz, and only
\* those may be copy-on-write.
LEMMA Sized ==
    ASSUME ControlInv, NEW p \in Proc, pc[p] # "dead", lv[p].np # p
    PROVE  /\ \A va \in VA : Mapped(p, va) <=> va < sz[p]
           /\ \A va \in VA : perm[p][va].cw => va < sz[p]
<1>1. state[p] = "RUNNABLE"
  BY DEF ControlInv, ProcInv, Calls
<1>2. \A r \in Proc : lv[r].np # p
  BY <1>1, LocNone DEF ControlInv, ProcInv, Works, Other
<1> QED
  BY <1>2 DEF ControlInv, ProcInv, AtRest

\* kfree() is always called on a location that holds a page.
LEMMA FreedPage ==
    ASSUME ControlInv, NEW p \in Proc, pc[p] \in {"kfree", "kfree_push"}
    PROVE  lv[p].loc \in Loc /\ ptr[lv[p].loc] \in Page
<1>1. TypeOK /\ ProcInv(p) /\ Pos(p) \in FreeLabels /\ Pos(p) = lv[p].ret
  BY DEF ControlInv, ProcInv, Calls, Pos, InCall
<1>2. lv[p].loc # None
  <2>1. CASE Pos(p) = "cow_pte"
    BY <1>1, <2>1, Locals, LocType, LocNone DEF ProcInv, Holds, Bounds
  <2>2. CASE Pos(p) = "unmap_pte"
    BY <1>1, <2>2, Locals, LocType, LocNone
       DEF ProcInv, Holds, Bounds, Works, UnmapLabels, Other
  <2>3. CASE Pos(p) \in {"freed_tf", "freed_pt"}
    BY <1>1, <2>3, LocType, LocNone DEF ProcInv, Holds, Works, FreeingLabels, Other
  <2>4. CASE Pos(p) = "grow_fail"
    BY <1>1, <2>4, LocType, LocNone DEF ProcInv, Holds
  <2> QED
    BY <1>1, <2>1, <2>2, <2>3, <2>4 DEF FreeLabels
<1> QED
  BY <1>1, <1>2, Locals DEF ProcInv, Holds, TypeOK

\* A step that at most stops the machine preserves the invariant.
LEMMA PanicRule ==
    ASSUME ControlInv, UNCHANGED <<procVars, tableVars, pc, lv>>, AllocOK',
           panicked' \in {"no", "kerneltrap", "init exiting"}
    PROVE  ControlInv'
<1>1. TypeOK' /\ panicked' \notin TablePanics
  BY DEF ControlInv, TypeOK, AllocOK, procVars, tableVars, TablePanics
<1>2. ASSUME NEW p \in Proc PROVE ProcInv(p)'
  <2>1. Pos(p)' = Pos(p) /\ (Other(p)' <=> Other(p)) /\ ProcInv(p)
    BY DEF ControlInv, Pos, InCall, Other
  <2>2. Calls(p)'
    BY <2>1 DEF ProcInv, Calls, procVars
  <2>6. Works(p)'
    BY <2>1 DEF ProcInv, Works, procVars
  <2>7. Bounds(p)'
    BY <2>1 DEF ProcInv, Bounds, procVars
  <2>3. Holds(p)'
    BY <2>1 DEF ProcInv, Holds, tableVars
  <2>4. Tables(p)'
    BY <2>1 DEF ProcInv, Tables, Extent, Mapped, procVars, tableVars
  <2>5. AtRest(p)'
    BY <2>1 DEF ProcInv, AtRest, Mapped, procVars, tableVars
  <2> QED
    BY <2>2, <2>3, <2>4, <2>5, <2>6, <2>7 DEF ProcInv
<1>3. Exclusive'
  BY DEF ControlInv, Exclusive
<1> QED
  BY <1>1, <1>2, <1>3 DEF ControlInv

\* A process that is not RUNNABLE has no control state of its own.
LEMMA Asleep ==
    ASSUME NEW w \in Proc, pc'[w] = "dead", lv'[w] = Idle, state'[w] # "RUNNABLE",
           ptr'[result(w)] = None, ptr'[mem(w)] = None
    PROVE  Calls(w)' /\ Works(w)' /\ Bounds(w)' /\ Holds(w)' /\ Tables(w)'
<1>1. Pos(w)' = "dead" /\ ~Other(w)' /\ lv'[w].np = None /\ lv'[w].loc = None /\ lv'[w].a = 0
  BY LocNone DEF Pos, InCall, Other, Idle
<1>2. Calls(w)'
  BY DEF Calls
<1>3. Works(w)'
  BY <1>1 DEF Works, PlainLabels, ForkLabels, FreeingLabels, LoopLabels, UnmapLabels
<1>4. Bounds(w)'
  BY <1>1, ZeroVA DEF Bounds, PlainLabels, ForkLabels, LoopLabels, UnmapLabels
<1>5. Holds(w)'
  BY <1>1 DEF Holds, FreeLabels
<1>6. Tables(w)'
  BY <1>1 DEF Tables, UnmapLabels
<1> QED
  BY <1>2, <1>3, <1>4, <1>5, <1>6

\* p goes to label l with local variables x and changes locations and flags of p and w only.
Shifts(p, w, l, x) ==
    /\ pc' = [pc EXCEPT ![p] = l] /\ lv' = [lv EXCEPT ![p] = x]
    /\ UNCHANGED <<procVars, panicked>>
    /\ AllocOK'
    /\ ptr' \in [Loc -> Page \cup {None}] /\ perm' \in [Proc -> [VA -> Perm]]
    /\ \A y \in Proc \ {p, w} : Kept(y) /\ perm'[y] = perm[y]
    /\ w # p => ptr'[result(w)] = ptr[result(w)] /\ ptr'[mem(w)] = ptr[mem(w)]
    /\ \A y \in {p, w}, va \in VA : perm'[y][va].cw => Mapped(y, va)'
    /\ lv[p].np # p => \A va \in VA : Mapped(p, va)' <=> Mapped(p, va)

\* A step of p that changes pointers and flags of p and of w preserves the invariant when it
\* does so for p's control state.
LEMMA ShiftRule ==
    ASSUME ControlInv, NEW p \in Proc, pc[p] # "dead", NEW w \in {p, lv[p].np}, w # None,
           NEW l \in Label, NEW x \in LocalVars, Shifts(p, w, l, x), x.np = lv[p].np,
           Calls(p)' /\ Works(p)' /\ Bounds(p)' /\ Holds(p)' /\ Tables(p)'
    PROVE  ControlInv'
<1>1. TypeOK' /\ panicked' \notin TablePanics
  BY DEF ControlInv, TypeOK, Shifts, AllocOK, procVars
<1>2. TypeOK /\ w \in Proc /\ state[p] = "RUNNABLE" /\ \A y \in Proc : ProcInv(y)
  BY Locals DEF ControlInv, ProcInv, Calls
<1>3. /\ state' = state /\ parent' = parent /\ sz' = sz
      /\ \A y \in Proc : lv'[y].np = lv[y].np
      /\ \A y \in Proc \ {p} : lv'[y] = lv[y] /\ pc'[y] = pc[y]
  BY <1>2 DEF Shifts, TypeOK, procVars
<1>4. \A y \in Proc \ {p} : lv[y].np # p
  BY <1>2 DEF ProcInv, Works, Other
<1>5. Partner(p, w)
  <2>1. w # p => state[w] # "RUNNABLE"
    BY <1>2 DEF ProcInv, Works, Other
  <2>2. \A y \in Proc \ {p} : lv[y].np # w
    BY <1>2, <1>4 DEF ControlInv, Exclusive
  <2> QED
    BY <1>2, <1>3, <2>1, <2>2 DEF Partner
<1>6. \A y \in Proc \ {p, w} : Untouched(y, p)
  BY <1>3 DEF Shifts, Untouched
<1>7. AtRest(p)'
  <2>1. (\A y \in Proc : lv'[y].np # p) => \A va \in VA : Mapped(p, va)' <=> va < sz[p]
    BY <1>2, <1>3 DEF Shifts, ProcInv, AtRest
  <2> QED
    BY <1>2, <1>3, <2>1 DEF AtRest, Shifts
<1>8. ASSUME w # p PROVE ProcInv(w)'
  <2>1. lv[p].np = w /\ state[w] \in {"USED", "ZOMBIE"}
    BY <1>2, <1>8 DEF ProcInv, Works, Other
  <2>2. pc[w] = "dead" /\ lv[w] = Idle /\ ptr[result(w)] = None /\ ptr[mem(w)] = None
    BY <1>2, <2>1 DEF ProcInv, Calls, Holds, Pos, InCall, AllocLabels
  <2>3. Calls(w)' /\ Works(w)' /\ Bounds(w)' /\ Holds(w)' /\ Tables(w)'
    BY <1>2, <1>3, <1>8, <2>1, <2>2, Asleep DEF Shifts
  <2>4. AtRest(w)'
    BY <1>2, <1>3, <2>1 DEF ProcInv, AtRest, Shifts
  <2> QED
    BY <2>3, <2>4 DEF ProcInv
<1>9. ProcInv(p)'
  BY <1>7 DEF ProcInv
<1> QED
  BY <1>1, <1>2, <1>5, <1>6, <1>8, <1>9, StepRule

\* Writing one pointer.
LEMMA Write1 ==
    ASSUME TypeOK, NEW k \in Loc, NEW pg \in Page \cup {None}, ptr' = [ptr EXCEPT ![k] = pg]
    PROVE  /\ ptr' \in [Loc -> Page \cup {None}] /\ ptr'[k] = pg
           /\ \A m \in Loc : m # k => ptr'[m] = ptr[m]
BY DEF TypeOK

\* Moving a pointer from one location to another.
LEMMA Write2 ==
    ASSUME TypeOK, NEW k \in Loc, NEW l \in Loc, k # l, NEW pg \in Page \cup {None},
           ptr' = [ptr EXCEPT ![k] = pg, ![l] = None]
    PROVE  /\ ptr' \in [Loc -> Page \cup {None}] /\ ptr'[k] = pg /\ ptr'[l] = None
           /\ \A m \in Loc : m # k /\ m # l => ptr'[m] = ptr[m]
<1>1. ptr \in [Loc -> Page \cup {None}]
  BY DEF TypeOK
<1> QED
  BY <1>1

\* Writing the flags of one PTE.
LEMMA Flag1 ==
    ASSUME TypeOK, NEW q \in Proc, NEW a \in VA, NEW fl \in Perm,
           perm' = [perm EXCEPT ![q][a] = fl]
    PROVE  /\ perm' \in [Proc -> [VA -> Perm]] /\ perm'[q][a] = fl
           /\ \A y \in Proc, va \in VA : (y # q \/ va # a) => perm'[y][va] = perm[y][va]
           /\ \A y \in Proc : y # q => perm'[y] = perm[y]
<1>1. perm \in [Proc -> [VA -> Perm]]
  BY DEF TypeOK
<1> QED
  BY <1>1

\* The flags that fork(), write_trap(), mappages() and uvmunmap() write; the last three
\* clear PTE_CW.
LEMMA FlagType ==
    /\ NoPerm \in Perm /\ RWPerm \in Perm /\ ~NoPerm.cw /\ ~RWPerm.cw
    /\ \A fl \in Perm : /\ change_flag_from_write_to_cow(fl) \in Perm
                        /\ [fl EXCEPT !.w = TRUE, !.cw = FALSE] \in Perm
                        /\ ~[fl EXCEPT !.w = TRUE, !.cw = FALSE].cw
BY DEF NoPerm, RWPerm, Perm, change_flag_from_write_to_cow

\* A process back in user mode, or first entering it, has an empty control state.
LEMMA Awake ==
    ASSUME NEW w \in Proc, pc'[w] = "user", lv'[w] = Idle, state'[w] = "RUNNABLE",
           ptr'[result(w)] = None, ptr'[mem(w)] = None
    PROVE  Calls(w)' /\ Works(w)' /\ Bounds(w)' /\ Holds(w)' /\ Tables(w)'
<1>1. Pos(w)' = "user" /\ ~Other(w)' /\ lv'[w].np = None /\ lv'[w].loc = None /\ lv'[w].a = 0
  BY LocNone DEF Pos, InCall, Other, Idle
<1>2. Calls(w)'
  BY DEF Calls
<1>3. Works(w)'
  BY <1>1 DEF Works, PlainLabels, ForkLabels, FreeingLabels, LoopLabels, UnmapLabels
<1>4. Bounds(w)'
  BY <1>1, ZeroVA DEF Bounds, PlainLabels, ForkLabels, LoopLabels, UnmapLabels
<1>5. Holds(w)'
  BY <1>1 DEF Holds, FreeLabels
<1>6. Tables(w)'
  BY <1>1 DEF Tables, UnmapLabels
<1> QED
  BY <1>2, <1>3, <1>4, <1>5, <1>6

\* Nobody works on the table of a process that is running, unused or another's child.
LEMMA Unworked ==
    ASSUME ControlInv, NEW p \in Proc, NEW q \in Proc,
           state[q] \in {"RUNNABLE", "UNUSED"} \/ (state[q] = "ZOMBIE" /\ parent[q] = p)
    PROVE  \A r \in Proc : r # p /\ r # q => lv[r].np # q
BY LocNone DEF ControlInv, ProcInv, Works, Other

\* The process whose table another one works on is asleep and holds no page by itself.
LEMMA Sleeper ==
    ASSUME ControlInv, NEW q \in Proc, state[q] # "RUNNABLE"
    PROVE  /\ pc[q] = "dead" /\ lv[q] = Idle /\ ptr[result(q)] = None /\ ptr[mem(q)] = None
           /\ lv[q].np = None
<1>1. ProcInv(q) /\ pc[q] = "dead" /\ Pos(q) = "dead"
  BY DEF ControlInv, ProcInv, Calls, Pos, InCall
<1> QED
  BY <1>1 DEF ProcInv, Calls, Holds, AllocLabels, Idle

-----------------------------------------------------------------------------
(* kalloc() and kfree() *)

\* Returning from kalloc() or kfree(), or going on from kfree()'s decrement to its push,
\* preserves the invariant, whichever caller the label belongs to.
LEMMA CallRule ==
    ASSUME ControlInv, NEW p \in Proc, InCall(p), NEW l, Moves(p, l, lv[p]),
           l = lv[p].ret \/ (l = "kfree_push" /\ pc[p] = "kfree"),
           ptr[result(p)] = None \/ pc[p] = "kalloc_ref"
    PROVE  ControlInv'
<1>1. /\ TypeOK /\ ProcInv(p) /\ lv[p] \in LocalVars /\ pc[p] # "dead" /\ Pos(p) = lv[p].ret
  BY DEF ControlInv, TypeOK, InCall, Pos
<1>2. /\ pc[p] \in {"kalloc", "kalloc_ref"} => lv[p].ret \in AllocLabels
      /\ pc[p] \in {"kfree", "kfree_push"} => lv[p].ret \in FreeLabels
  BY <1>1 DEF ProcInv, Calls
<1>3. l \in Label
  BY <1>2 DEF InCall, Label, AllocLabels, FreeLabels
<1>4. /\ pc'[p] = l /\ lv'[p] = lv[p] /\ state' = state /\ parent' = parent /\ sz' = sz
      /\ ptr' = ptr
  BY <1>1, Moved
<1>5. Pos(p)' = Pos(p)
  BY <1>1, <1>2, Moved DEF AllocLabels, FreeLabels, InCall
<1>6. Calls(p)'
  BY <1>1, <1>2, <1>4 DEF ProcInv, Calls, AllocLabels, FreeLabels, InCall
<1>7. Works(p)'
  BY <1>1, <1>4, <1>5 DEF ProcInv, Works, Other
<1>8. Bounds(p)'
  BY <1>1, <1>4, <1>5 DEF ProcInv, Bounds
<1>9. Holds(p)'
  BY <1>1, <1>2, <1>4, <1>5 DEF ProcInv, Holds, AllocLabels, FreeLabels, InCall
<1>10. Tables(p)'
  BY <1>1, <1>4, <1>5 DEF ProcInv, Tables, Extent, Mapped
<1> QED
  BY <1>1, <1>3, <1>4, <1>6, <1>7, <1>8, <1>9, <1>10, MoveRule DEF LocalVars

\* kalloc() taking a page off the free list, or finding none, preserves the invariant.
LEMMA KallocStep ==
    ASSUME ControlInv, NEW p \in Proc, Kalloc(p)
    PROVE  ControlInv'
<1>1. /\ TypeOK /\ ProcInv(p) /\ InCall(p) /\ pc[p] = "kalloc" /\ ptr[result(p)] = None
      /\ lv[p] \in LocalVars /\ Pos(p) = lv[p].ret /\ lv[p].ret \in AllocLabels /\ result(p) \in Loc
  BY LocType DEF ControlInv, Kalloc, At, InCall, ProcInv, Holds, AllocLabels, Pos, Calls, TypeOK
<1>2. CASE freelist = {} /\ Goto(p, lv[p].ret) /\ UNCHANGED <<ptr, allocVars>>
  <2>1. Moves(p, lv[p].ret, lv[p])
    BY <1>1, <1>2 DEF Kalloc, Moves, AllocOK, allocVars, Goto, TypeOK, tableVars
  <2> QED
    BY <1>1, <2>1, CallRule
<1>3. ASSUME NEW pg \in Page, kalloc_pop(pg), ptr' = [ptr EXCEPT ![result(p)] = pg],
             Goto(p, "kalloc_ref")
      PROVE  ControlInv'
  <2>1. /\ ptr' \in [Loc -> Page \cup {None}] /\ ptr'[result(p)] = pg
        /\ \A k \in Loc : k # result(p) => ptr'[k] = ptr[k]
    BY <1>1, <1>3, Write1
  <2>2. \A y \in Proc \ {p} : Kept(y)
    BY <2>1, LocType DEF Kept, trapframe, pagetable, result, mem, ptpage, pte
  <2>3. /\ \A y \in Proc, va \in VA : ptr'[pte(y, va)] = ptr[pte(y, va)]
        /\ \A y \in Proc : /\ ptr'[trapframe(y)] = ptr[trapframe(y)]
                           /\ ptr'[pagetable(y)] = ptr[pagetable(y)]
                           /\ ptr'[mem(y)] = ptr[mem(y)]
        /\ \A y \in Proc, r \in Region : ptr'[ptpage(y, r)] = ptr[ptpage(y, r)]
    BY <2>1, LocType DEF trapframe, pagetable, result, mem, ptpage, pte
  <2>4. Shifts(p, p, "kalloc_ref", lv[p])
    <3>1. /\ pc' = [pc EXCEPT ![p] = "kalloc_ref"] /\ lv' = [lv EXCEPT ![p] = lv[p]]
          /\ UNCHANGED <<procVars, panicked>> /\ AllocOK' /\ perm' = perm
      BY <1>1, <1>3 DEF Kalloc, kalloc_pop, Goto, AllocOK, TypeOK
    <3>2. \A va \in VA : perm[p][va].cw => Mapped(p, va)
      BY <1>1 DEF ProcInv, AtRest
    <3> QED
      BY <1>1, <2>1, <2>2, <2>3, <3>1, <3>2 DEF Shifts, TypeOK, Mapped
  <2>5. /\ pc'[p] = "kalloc_ref" /\ Pos(p)' = Pos(p) /\ lv'[p] = lv[p]
        /\ state' = state /\ parent' = parent /\ sz' = sz
    BY <1>1, <2>4 DEF Shifts, TypeOK, procVars, Pos, InCall
  <2>6. Calls(p)' /\ Works(p)'
    BY <1>1, <2>5 DEF ProcInv, Calls, Works, Other
  <2>7. Bounds(p)'
    BY <1>1, <2>5 DEF ProcInv, Bounds
  <2>8. Holds(p)'
    <3>1. lv[p].loc = None /\ Pos(p) \in AllocLabels /\ Pos(p) \notin FreeLabels
      BY <1>1 DEF ProcInv, Holds, AllocLabels, FreeLabels
    <3>2. ptr'[mem(p)] # None <=> Pos(p) \in {"cow_pte", "grow_walk", "grow_map", "grow_fail"}
      BY <1>1, <2>3 DEF ProcInv, Holds
    <3>3. ptr'[result(p)] # None
      BY <2>1, LocNone
    <3> QED
      BY <2>5, <3>1, <3>2, <3>3 DEF Holds, AllocLabels
  <2>9. Tables(p)'
    <3>1. \A y \in Proc, va \in VA : Mapped(y, va)' <=> Mapped(y, va)
      BY <2>3 DEF Mapped
    <3>2. \A va \in VA : Extent(p, va)' <=> Extent(p, va)
      BY <2>5 DEF Extent
    <3>3. lv[p].np # None => lv[p].np \in Proc /\ \A va \in VA : Mapped(lv[p].np, va)' <=> Extent(p, va)'
      <4>1. lv[p].np # None => lv[p].np \in Proc /\ \A va \in VA : Mapped(lv[p].np, va) <=> Extent(p, va)
        BY <1>1, Locals DEF ProcInv, Tables
      <4> QED
        BY <2>3, <2>5, <3>2, <4>1 DEF Mapped
    <3>4. Pos(p) # "copy_inc" /\ Pos(p) \notin UnmapLabels \cup {"freewalk", "freed_pt"}
      BY <1>1 DEF AllocLabels, UnmapLabels
    <3>5. /\ Pos(p) \in {"alloc_tf", "alloc_pt", "copy_walk", "grow_walk"} => lv[p].np \in Proc
          /\ Pos(p) \in {"copy_walk", "grow_walk"} => lv[p].a \in VA
      <4>1. Pos(p) \in {"alloc_tf", "alloc_pt", "copy_walk", "grow_walk"} => lv[p].np \in Proc
        BY <1>1 DEF ProcInv, Works, Other, ForkLabels, LoopLabels
      <4>2. Pos(p) \in {"copy_walk", "grow_walk"} => lv[p].a < sz[p] \/ lv[p].a < lv[p].nsz
        BY <1>1 DEF ProcInv, Bounds, ForkLabels, LoopLabels
      <4>3. lv[p].a < sz[p] \/ lv[p].a < lv[p].nsz => lv[p].a \in VA
        BY <1>1, Locals
      <4> QED
        BY <4>1, <4>2, <4>3
    <3>6. \A va \in VA : region(va) \in Region
      BY DEF Region, region
    <3> QED
      BY <1>1, <2>3, <2>5, <3>3, <3>4, <3>5, <3>6 DEF ProcInv, Tables
  <2> QED
    BY <1>1, <2>4, <2>6, <2>7, <2>8, <2>9, LocNone, ShiftRule DEF Label
<1> QED
  BY <1>1, <1>2, <1>3 DEF Kalloc

\* kalloc() setting the page's count to 1 preserves the invariant.
LEMMA KallocRefStep ==
    ASSUME ControlInv, NEW p \in Proc, KallocRef(p)
    PROVE  ControlInv'
<1>1. TypeOK /\ InCall(p) /\ pc[p] = "kalloc_ref"
  BY DEF ControlInv, KallocRef, At, InCall
<1>2. AllocOK'
  BY <1>1, CountType DEF KallocRef, kalloc_ref, TypeOK, AllocOK
<1>3. Moves(p, lv[p].ret, lv[p])
  BY <1>1, <1>2 DEF KallocRef, Moves, Goto, TypeOK
<1> QED
  BY <1>1, <1>3, CallRule

\* kfree()'s decrement preserves the invariant: the location it was called on holds a page.
LEMMA KfreeStep ==
    ASSUME ControlInv, NEW p \in Proc, Kfree(p)
    PROVE  ControlInv'
<1>1. TypeOK /\ InCall(p) /\ pc[p] = "kfree" /\ ptr[result(p)] = None
  BY DEF ControlInv, Kfree, At, InCall, ProcInv, Holds, AllocLabels
<1>2. ptr[lv[p].loc] \in Page /\ Dec(ptr[lv[p].loc]) \in Count
  <2>1. ptr[lv[p].loc] \in Page
    BY <1>1, FreedPage
  <2>2. ref[ptr[lv[p].loc]] - 1 + RefMod \in Int
    <3>1. ref[ptr[lv[p].loc]] \in Count
      BY <1>1, <2>1 DEF TypeOK
    <3> QED
      BY <3>1, KallocAssumption DEF Count
  <2> QED
    BY <2>1, <2>2, CountType DEF Dec
<1>3. AllocOK'
  BY <1>1, <1>2 DEF Kfree, kfree_dec, TypeOK, AllocOK
<1>4. PICK l : Moves(p, l, lv[p]) /\ l \in {lv[p].ret, "kfree_push"}
  BY <1>1, <1>3 DEF Kfree, Moves, Goto, TypeOK
<1> QED
  BY <1>1, <1>4, CallRule

\* kfree()'s push onto the free list preserves the invariant.
LEMMA KfreePushStep ==
    ASSUME ControlInv, NEW p \in Proc, KfreePush(p)
    PROVE  ControlInv'
<1>1. TypeOK /\ InCall(p) /\ pc[p] = "kfree_push" /\ ptr[result(p)] = None
  BY DEF ControlInv, KfreePush, At, InCall, ProcInv, Holds, AllocLabels
<1>2. ptr[lv[p].loc] \in Page
  BY <1>1, FreedPage
<1>3. AllocOK'
  BY <1>1, <1>2 DEF KfreePush, kfree_push, TypeOK, AllocOK
<1>4. Moves(p, lv[p].ret, lv[p])
  BY <1>1, <1>3 DEF KfreePush, Moves, Goto, TypeOK
<1> QED
  BY <1>1, <1>4, CallRule

-----------------------------------------------------------------------------
(* A store, write_trap() and copyout() *)

\* A program reaching a store instruction preserves the invariant.
LEMMA BeginStoreStep ==
    ASSUME ControlInv, NEW p \in Proc, NEW va \in VA, NEW v \in Value, BeginStore(p, va, v)
    PROVE  ControlInv'
<1>1. /\ TypeOK /\ ProcInv(p) /\ lv[p] \in LocalVars /\ pc[p] = "user" /\ panicked = "no"
      /\ Pos(p) = pc[p] /\ lv[p] = Idle /\ lv[p].np = None
  BY DEF ControlInv, TypeOK, At, BeginStore, Pos, InCall, ProcInv, Calls, Works, PlainLabels
<1>2. CASE TRUE
  <2> DEFINE x == [lv[p] EXCEPT !.a = va, !.val = v]
  <2>1. Moves(p, "store", x)
    BY <1>1, <1>2
       DEF Moves, AllocOK, BeginStore, Goto, Return, CallKalloc, CallKfree, Dealloc, TypeOK,
           allocVars
  <2>2. x \in LocalVars
    BY <1>1, VAType DEF LocalVars
  <2>3. x.np = lv[p].np /\ x.loc = None /\ x.a = va
    BY <1>1 DEF LocalVars, Idle
  <2> HIDE DEF x
  <2>4. /\ pc'[p] = "store" /\ Pos(p)' = "store" /\ lv'[p] = x
        /\ state' = state /\ parent' = parent /\ sz' = sz /\ ptr' = ptr
    BY <1>1, <2>1, <2>3, Moved
  <2>6. Calls(p)' /\ Works(p)'
    BY <1>1, <1>2, <2>3, <2>4, LocNone
       DEF ProcInv, Calls, Works, Other, AllocLabels, FreeLabels, PlainLabels, ForkLabels,
           FreeingLabels, LoopLabels, UnmapLabels
  <2>7. Bounds(p)'
    BY <1>1, <1>2, <2>3, <2>4
       DEF ProcInv, Bounds, PlainLabels, ForkLabels, FreeingLabels, LoopLabels, UnmapLabels
  <2>8. Holds(p)' /\ Tables(p)'
    BY <1>1, <1>2, <2>3, <2>4, LocNone
       DEF ProcInv, Holds, Tables, Other, UnmapLabels, AllocLabels, FreeLabels
  <2> QED
    BY <1>1, <2>1, <2>2, <2>3, <2>6, <2>7, <2>8, MoveRule DEF Label
<1> QED
  BY <1>2

\* The store itself, or the fault it raises (scause 15), preserves the invariant.
LEMMA StoreStep ==
    ASSUME ControlInv, NEW p \in Proc, Store(p)
    PROVE  ControlInv'
<1>1. /\ TypeOK /\ ProcInv(p) /\ lv[p] \in LocalVars /\ pc[p] = "store" /\ panicked = "no"
      /\ Pos(p) = pc[p] /\ lv[p].np = None
  BY DEF ControlInv, TypeOK, At, Store, Pos, InCall, ProcInv, Works, PlainLabels
<1>2. CASE Writable(p, lv[p].a)
  <2> DEFINE x == Idle
  <2>1. Moves(p, "user", x)
    BY <1>1, <1>2
       DEF Moves, AllocOK, Store, Goto, Return, CallKalloc, CallKfree, Dealloc, TypeOK, allocVars,
           LocalVars
  <2>2. x \in LocalVars
    BY <1>1, IdleType DEF LocalVars
  <2>3. x.np = lv[p].np /\ x.loc = None /\ x.a = 0
    BY <1>1 DEF LocalVars, ProcInv, Works, PlainLabels, Idle
  <2>4. /\ pc'[p] = "user" /\ Pos(p)' = "user" /\ lv'[p] = x
        /\ state' = state /\ parent' = parent /\ sz' = sz /\ ptr' = ptr
    BY <1>1, <2>1, <2>3, Moved
  <2>6. Calls(p)' /\ Works(p)'
    BY <1>1, <1>2, <2>3, <2>4, LocNone
       DEF ProcInv, Calls, Works, Other, AllocLabels, FreeLabels, PlainLabels, ForkLabels,
           FreeingLabels, LoopLabels, UnmapLabels
  <2>7. Bounds(p)'
    BY <1>1, <1>2, <2>3, <2>4, ZeroVA
       DEF ProcInv, Bounds, PlainLabels, ForkLabels, FreeingLabels, LoopLabels, UnmapLabels
  <2>8. Holds(p)' /\ Tables(p)'
    BY <1>1, <1>2, <2>3, <2>4, LocNone
       DEF ProcInv, Holds, Tables, Other, UnmapLabels, AllocLabels, FreeLabels
  <2> QED
    BY <1>1, <2>1, <2>2, <2>3, <2>6, <2>7, <2>8, MoveRule DEF Label
<1>3. CASE ~Writable(p, lv[p].a)
  <2> DEFINE x == lv[p]
  <2>1. Moves(p, "write_trap", x)
    BY <1>1, <1>3
       DEF Moves, AllocOK, Store, Goto, Return, CallKalloc, CallKfree, Dealloc, TypeOK, allocVars
  <2>2. x \in LocalVars
    BY <1>1 DEF LocalVars
  <2>3. x.np = lv[p].np /\ x.loc = lv[p].loc /\ x.a = lv[p].a /\ x.nsz = lv[p].nsz
    BY <1>1 DEF LocalVars
  <2>4. /\ pc'[p] = "write_trap" /\ Pos(p)' = "write_trap" /\ lv'[p] = x
        /\ state' = state /\ parent' = parent /\ sz' = sz /\ ptr' = ptr
    BY <1>1, <2>1, <2>3, Moved
  <2>6. Calls(p)' /\ Works(p)'
    BY <1>1, <1>3, <2>3, <2>4, LocNone
       DEF ProcInv, Calls, Works, Other, AllocLabels, FreeLabels, PlainLabels, ForkLabels,
           FreeingLabels, LoopLabels, UnmapLabels
  <2>7. Bounds(p)'
    BY <1>1, <1>3, <2>3, <2>4
       DEF ProcInv, Bounds, PlainLabels, ForkLabels, FreeingLabels, LoopLabels, UnmapLabels
  <2>8. Holds(p)' /\ Tables(p)'
    BY <1>1, <1>3, <2>3, <2>4, LocNone
       DEF ProcInv, Holds, Tables, Other, UnmapLabels, AllocLabels, FreeLabels
  <2> QED
    BY <1>1, <2>1, <2>2, <2>3, <2>6, <2>7, <2>8, MoveRule DEF Label
<1> QED
  BY <1>2, <1>3

\* write_trap(): a page it decides to copy, by PTE_CW, lies below p->sz.
LEMMA WriteTrapStep ==
    ASSUME ControlInv, NEW p \in Proc, write_trap(p)
    PROVE  ControlInv'
<1>1. /\ TypeOK /\ ProcInv(p) /\ lv[p] \in LocalVars /\ pc[p] = "write_trap" /\ panicked = "no"
      /\ Pos(p) = pc[p] /\ lv[p].np = None
  BY DEF ControlInv, TypeOK, At, write_trap, Pos, InCall, ProcInv, Works, PlainLabels
<1>2. CASE pc' = [pc EXCEPT ![p] = "exit"]
  <2> DEFINE x == lv[p]
  <2>1. Moves(p, "exit", x)
    BY <1>1, <1>2
       DEF Moves, AllocOK, write_trap, Goto, Return, CallKalloc, CallKfree, Dealloc, TypeOK,
           allocVars
  <2>2. x \in LocalVars
    BY <1>1 DEF LocalVars
  <2>3. x.np = lv[p].np /\ x.loc = lv[p].loc /\ x.a = lv[p].a /\ x.nsz = lv[p].nsz
    BY <1>1 DEF LocalVars
  <2>4. /\ pc'[p] = "exit" /\ Pos(p)' = "exit" /\ lv'[p] = x
        /\ state' = state /\ parent' = parent /\ sz' = sz /\ ptr' = ptr
    BY <1>1, <2>1, <2>3, Moved
  <2>6. Calls(p)' /\ Works(p)'
    BY <1>1, <1>2, <2>3, <2>4, LocNone
       DEF ProcInv, Calls, Works, Other, AllocLabels, FreeLabels, PlainLabels, ForkLabels,
           FreeingLabels, LoopLabels, UnmapLabels
  <2>7. Bounds(p)'
    BY <1>1, <1>2, <2>3, <2>4
       DEF ProcInv, Bounds, PlainLabels, ForkLabels, FreeingLabels, LoopLabels, UnmapLabels
  <2>8. Holds(p)' /\ Tables(p)'
    BY <1>1, <1>2, <2>3, <2>4, LocNone
       DEF ProcInv, Holds, Tables, Other, UnmapLabels, AllocLabels, FreeLabels
  <2> QED
    BY <1>1, <2>1, <2>2, <2>3, <2>6, <2>7, <2>8, MoveRule DEF Label
<1>3. CASE perm[p][lv[p].a].cw /\ pc' = [pc EXCEPT ![p] = "kalloc"]
  <2> DEFINE x == [lv[p] EXCEPT !.cont = "store", !.ret = "cow_copy"]
  <2>1. Moves(p, "kalloc", x)
    BY <1>1, <1>3
       DEF Moves, AllocOK, write_trap, Goto, Return, CallKalloc, CallKfree, Dealloc, TypeOK,
           allocVars
  <2>2. x \in LocalVars
    BY <1>1 DEF LocalVars, Label
  <2>3. x.np = lv[p].np /\ x.ret = "cow_copy" /\ x.loc = None /\ x.a = lv[p].a /\ x.cont = "store" /\ x.nsz = lv[p].nsz
    BY <1>1 DEF LocalVars, ProcInv, Holds, FreeLabels
  <2> HIDE DEF x
  <2>4. /\ pc'[p] = "kalloc" /\ Pos(p)' = "cow_copy" /\ lv'[p] = x
        /\ state' = state /\ parent' = parent /\ sz' = sz /\ ptr' = ptr
    BY <1>1, <2>1, <2>3, Moved
  <2>6. Calls(p)' /\ Works(p)'
    BY <1>1, <1>3, <2>3, <2>4, LocNone
       DEF ProcInv, Calls, Works, Other, AllocLabels, FreeLabels, PlainLabels, ForkLabels,
           FreeingLabels, LoopLabels, UnmapLabels
  <2>7. Bounds(p)'
    BY <1>1, <1>3, <2>3, <2>4, Sized, LocNone
       DEF ProcInv, Bounds, PlainLabels, ForkLabels, FreeingLabels, LoopLabels, UnmapLabels
  <2>8. Holds(p)' /\ Tables(p)'
    BY <1>1, <1>3, <2>3, <2>4, LocNone
       DEF ProcInv, Holds, Tables, Other, UnmapLabels, AllocLabels, FreeLabels
  <2> QED
    BY <1>1, <2>1, <2>2, <2>3, <2>6, <2>7, <2>8, MoveRule DEF Label
<1>4. CASE pc' = [pc EXCEPT ![p] = "store"]
  <2> DEFINE x == lv[p]
  <2>1. Moves(p, "store", x)
    BY <1>1, <1>4
       DEF Moves, AllocOK, write_trap, Goto, Return, CallKalloc, CallKfree, Dealloc, TypeOK,
           allocVars
  <2>2. x \in LocalVars
    BY <1>1 DEF LocalVars
  <2>3. x.np = lv[p].np /\ x.loc = lv[p].loc /\ x.a = lv[p].a /\ x.nsz = lv[p].nsz
    BY <1>1 DEF LocalVars
  <2>4. /\ pc'[p] = "store" /\ Pos(p)' = "store" /\ lv'[p] = x
        /\ state' = state /\ parent' = parent /\ sz' = sz /\ ptr' = ptr
    BY <1>1, <2>1, <2>3, Moved
  <2>6. Calls(p)' /\ Works(p)'
    BY <1>1, <1>4, <2>3, <2>4, LocNone
       DEF ProcInv, Calls, Works, Other, AllocLabels, FreeLabels, PlainLabels, ForkLabels,
           FreeingLabels, LoopLabels, UnmapLabels
  <2>7. Bounds(p)'
    BY <1>1, <1>4, <2>3, <2>4
       DEF ProcInv, Bounds, PlainLabels, ForkLabels, FreeingLabels, LoopLabels, UnmapLabels
  <2>8. Holds(p)' /\ Tables(p)'
    BY <1>1, <1>4, <2>3, <2>4, LocNone
       DEF ProcInv, Holds, Tables, Other, UnmapLabels, AllocLabels, FreeLabels
  <2> QED
    BY <1>1, <2>1, <2>2, <2>3, <2>6, <2>7, <2>8, MoveRule DEF Label
<1> QED
  BY <1>1, <1>2, <1>3, <1>4 DEF write_trap, Goto, CallKalloc

\* allocate_new_memory() calls kfree() on a PTE that is mapped.
LEMMA CowCopyStep ==
    ASSUME ControlInv, NEW p \in Proc, CowCopy(p)
    PROVE  ControlInv'
<1>1. /\ TypeOK /\ ProcInv(p) /\ lv[p] \in LocalVars /\ pc[p] = "cow_copy" /\ panicked = "no"
      /\ Pos(p) = pc[p] /\ lv[p].np = None /\ AtRest(p)
  BY DEF ControlInv, TypeOK, At, CowCopy, Pos, InCall, ProcInv, Works, PlainLabels
<1>v. lv[p].a \in VA /\ lv[p].a < sz[p] /\ Mapped(p, lv[p].a)
  BY <1>1, Locals, LocNone, Sized DEF ProcInv, Bounds
<1>o. ptr[pte(p, lv[p].a)] \in Page
  BY <1>1, <1>v, LocType DEF TypeOK, Mapped
<1>2. CASE ptr[result(p)] = None /\ lv[p].cont = "store"
  <2> DEFINE x == lv[p]
  <2>1. Moves(p, "exit", x)
    BY <1>1, <1>2
       DEF Moves, AllocOK, CowCopy, Goto, Return, CallKalloc, CallKfree, Dealloc, TypeOK,
           allocVars, procVars, tableVars
  <2>2. x \in LocalVars
    BY <1>1 DEF LocalVars
  <2>3. x.np = lv[p].np /\ x.loc = lv[p].loc /\ x.a = lv[p].a /\ x.nsz = lv[p].nsz
    BY <1>1 DEF LocalVars
  <2>4. /\ pc'[p] = "exit" /\ Pos(p)' = "exit" /\ lv'[p] = x
        /\ state' = state /\ parent' = parent /\ sz' = sz /\ ptr' = ptr
    BY <1>1, <2>1, <2>3, Moved
  <2>6. Calls(p)' /\ Works(p)'
    BY <1>1, <1>2, <2>3, <2>4, LocNone
       DEF ProcInv, Calls, Works, Other, AllocLabels, FreeLabels, PlainLabels, ForkLabels,
           FreeingLabels, LoopLabels, UnmapLabels
  <2>7. Bounds(p)'
    BY <1>1, <1>2, <2>3, <2>4
       DEF ProcInv, Bounds, PlainLabels, ForkLabels, FreeingLabels, LoopLabels, UnmapLabels
  <2>8. Holds(p)'
    BY <1>1, <1>2, <2>3, <2>4, LocNone DEF ProcInv, Holds, AllocLabels, FreeLabels
  <2>9. Tables(p)'
    BY <1>1, <1>2, <2>3, <2>4, LocNone DEF ProcInv, Tables, UnmapLabels
  <2> QED
    BY <1>1, <2>1, <2>2, <2>3, <2>6, <2>7, <2>8, <2>9, MoveRule DEF Label
<1>3. CASE ptr[result(p)] = None /\ lv[p].cont # "store"
  <2> DEFINE x == Idle
  <2>1. Moves(p, "user", x)
    BY <1>1, <1>3
       DEF Moves, AllocOK, CowCopy, Goto, Return, CallKalloc, CallKfree, Dealloc, TypeOK,
           allocVars, procVars, tableVars, LocalVars
  <2>2. x \in LocalVars
    BY <1>1, IdleType DEF LocalVars
  <2>3. x.np = lv[p].np /\ x.loc = None /\ x.a = 0
    BY <1>1 DEF LocalVars, ProcInv, Works, PlainLabels, Idle
  <2>4. /\ pc'[p] = "user" /\ Pos(p)' = "user" /\ lv'[p] = x
        /\ state' = state /\ parent' = parent /\ sz' = sz /\ ptr' = ptr
    BY <1>1, <2>1, <2>3, Moved
  <2>6. Calls(p)' /\ Works(p)'
    BY <1>1, <1>3, <2>3, <2>4, LocNone
       DEF ProcInv, Calls, Works, Other, AllocLabels, FreeLabels, PlainLabels, ForkLabels,
           FreeingLabels, LoopLabels, UnmapLabels
  <2>7. Bounds(p)'
    BY <1>1, <1>3, <2>3, <2>4, ZeroVA
       DEF ProcInv, Bounds, PlainLabels, ForkLabels, FreeingLabels, LoopLabels, UnmapLabels
  <2>8. Holds(p)'
    BY <1>1, <1>3, <2>3, <2>4, LocNone DEF ProcInv, Holds, AllocLabels, FreeLabels
  <2>9. Tables(p)'
    BY <1>1, <1>3, <2>3, <2>4, LocNone DEF ProcInv, Tables, UnmapLabels
  <2> QED
    BY <1>1, <2>1, <2>2, <2>3, <2>6, <2>7, <2>8, <2>9, MoveRule DEF Label
<1>4. CASE ptr[result(p)] # None
  <2> DEFINE x == [lv[p] EXCEPT !.ret = "cow_pte", !.loc = pte(p, lv[p].a)]
  <2>1. x \in LocalVars
    BY <1>1, LocType, <1>v DEF LocalVars, Label
  <2>2. x.np = lv[p].np /\ x.loc = pte(p, lv[p].a) /\ x.a = lv[p].a /\ x.nsz = lv[p].nsz /\ x.lim = lv[p].lim /\ x.cont = lv[p].cont /\ x.ret = "cow_pte"
    BY <1>1 DEF LocalVars
  <2>3. /\ ptr' \in [Loc -> Page \cup {None}] /\ ptr'[mem(p)] = ptr[result(p)] /\ ptr'[result(p)] = None
        /\ \A k \in Loc : k # mem(p) /\ k # result(p) => ptr'[k] = ptr[k]
    <3>1. mem(p) \in Loc /\ result(p) \in Loc /\ mem(p) # result(p)
      BY <1>1, LocType DEF mem, result
    <3>2. ptr[result(p)] \in Page \cup {None}
      BY <1>1, <3>1 DEF TypeOK
    <3>3. ptr' = [ptr EXCEPT ![mem(p)] = ptr[result(p)], ![result(p)] = None]
      BY <1>1, <1>4 DEF CowCopy
    <3> QED
      BY <1>1, <3>1, <3>2, <3>3, Write2
  <2>4. \A y \in Proc \ {p} : Kept(y)
    BY <1>1, <2>3, LocType DEF Kept, trapframe, pagetable, result, mem, ptpage, pte
  <2>5. \A y \in Proc, va \in VA : Mapped(y, va)' <=> Mapped(y, va)
    BY <1>1, <2>3, LocType DEF Mapped, trapframe, pagetable, result, mem, ptpage, pte
  <2>6. perm' = perm /\ perm \in [Proc -> [VA -> Perm]]
    BY <1>1, <1>4 DEF CowCopy, TypeOK, tableVars
  <2>7. Shifts(p, p, "kfree", x)
    <3>0. AllocOK'
      BY <1>1, <1>4, <1>o DEF CowCopy, AllocOK, TypeOK
    <3>1. /\ pc' = [pc EXCEPT ![p] = "kfree"] /\ lv' = [lv EXCEPT ![p] = x]
          /\ UNCHANGED <<procVars, panicked>> /\ AllocOK'
      BY <1>1, <1>4, <3>0
         DEF CowCopy, Goto, Return, CallKalloc, CallKfree, Dealloc, allocVars, TypeOK
    <3>2. /\ \A y \in {p, p}, va \in VA : perm'[y][va].cw => Mapped(y, va)'
          /\ lv[p].np # p => \A va \in VA : Mapped(p, va)' <=> Mapped(p, va)
      BY <1>1, <1>4, <2>5, <2>6 DEF AtRest
    <3> QED
      BY <1>1, <2>3, <2>4, <2>6, <3>1, <3>2 DEF Shifts, TypeOK
  <2> HIDE DEF x
  <2>8. /\ pc'[p] = "kfree" /\ Pos(p)' = "cow_pte" /\ lv'[p] = x
        /\ state' = state /\ parent' = parent /\ sz' = sz
    BY <1>1, <2>2, <2>7 DEF Shifts, TypeOK, procVars, Pos, InCall
  <2>9. Calls(p)' /\ Works(p)'
    BY <1>1, <1>4, <2>2, <2>8, LocNone
       DEF ProcInv, Calls, Works, Other, AllocLabels, FreeLabels, PlainLabels, ForkLabels,
           FreeingLabels, LoopLabels, UnmapLabels
  <2>10. Bounds(p)'
    BY <1>1, <1>4, <2>2, <2>8
       DEF ProcInv, Bounds, PlainLabels, ForkLabels, FreeingLabels, LoopLabels, UnmapLabels
  <2>12. Holds(p)'
    BY <1>1, <1>4, <2>2, <2>8, <2>3, LocType, LocNone, <1>v
       DEF ProcInv, Holds, AllocLabels, FreeLabels, trapframe, result, mem, pagetable, ptpage, pte,
           Mapped
  <2>13. Tables(p)'
    BY <1>1, <1>4, <2>2, <2>8, <2>3, LocType, LocNone
       DEF ProcInv, Tables, UnmapLabels, trapframe, result, mem, pagetable, ptpage, pte
  <2> QED
    BY <1>1, <2>1, <2>2, <2>7, <2>9, <2>10, <2>12, <2>13, LocNone, ShiftRule DEF Label
<1> QED
  BY <1>2, <1>3, <1>4

\* The store of the new PTE keeps exactly the same addresses mapped.
LEMMA CowPteStep ==
    ASSUME ControlInv, NEW p \in Proc, CowPte(p)
    PROVE  ControlInv'
<1>1. /\ TypeOK /\ ProcInv(p) /\ lv[p] \in LocalVars /\ pc[p] = "cow_pte" /\ panicked = "no"
      /\ Pos(p) = pc[p] /\ lv[p].np = None /\ AtRest(p)
  BY DEF ControlInv, TypeOK, At, CowPte, Pos, InCall, ProcInv, Works, PlainLabels
<1>v. lv[p].a \in VA /\ lv[p].a < sz[p] /\ Mapped(p, lv[p].a)
  BY <1>1, Locals, LocNone, Sized DEF ProcInv, Bounds
<1>2. CASE lv[p].cont = "store"
  <2> DEFINE x == [lv[p] EXCEPT !.loc = None]
  <2>1. x \in LocalVars
    BY <1>1 DEF LocalVars
  <2>2. x.np = lv[p].np /\ x.loc = None /\ x.a = lv[p].a /\ x.nsz = lv[p].nsz /\ x.lim = lv[p].lim /\ x.cont = lv[p].cont
    BY <1>1 DEF LocalVars
  <2>3. /\ ptr' \in [Loc -> Page \cup {None}] /\ ptr'[pte(p, lv[p].a)] = ptr[mem(p)] /\ ptr'[mem(p)] = None
        /\ \A k \in Loc : k # pte(p, lv[p].a) /\ k # mem(p) => ptr'[k] = ptr[k]
    <3>1. pte(p, lv[p].a) \in Loc /\ mem(p) \in Loc /\ pte(p, lv[p].a) # mem(p)
      BY <1>1, LocType, <1>v DEF pte, mem
    <3>2. ptr[mem(p)] \in Page \cup {None}
      BY <1>1, <3>1 DEF TypeOK
    <3>3. ptr' = [ptr EXCEPT ![pte(p, lv[p].a)] = ptr[mem(p)], ![mem(p)] = None]
      BY <1>1, <1>2 DEF CowPte
    <3> QED
      BY <1>1, <3>1, <3>2, <3>3, Write2
  <2>4. \A y \in Proc \ {p} : Kept(y)
    BY <1>1, <2>3, LocType, <1>v DEF Kept, trapframe, pagetable, result, mem, ptpage, pte
  <2>5. \A y \in Proc, va \in VA : Mapped(y, va)' <=> Mapped(y, va)
    BY <1>1, <1>2, <2>3, LocType, <1>v DEF Mapped, pte, mem, ProcInv, Holds
  <2>6. /\ perm' \in [Proc -> [VA -> Perm]] /\ perm'[p][lv[p].a] = [perm[p][lv[p].a] EXCEPT !.w = TRUE, !.cw = FALSE]
        /\ \A y \in Proc, va \in VA : (y # p \/ va # lv[p].a) => perm'[y][va] = perm[y][va]
        /\ \A y \in Proc : y # p => perm'[y] = perm[y]
    <3>0. perm[p][lv[p].a] \in Perm /\ lv[p].a \in VA
      BY <1>1, <1>2, <1>v DEF TypeOK
    <3>1. [perm[p][lv[p].a] EXCEPT !.w = TRUE, !.cw = FALSE] \in Perm
      BY <3>0, FlagType
    <3>2. perm' = [perm EXCEPT ![p][lv[p].a] = [perm[p][lv[p].a] EXCEPT !.w = TRUE, !.cw = FALSE]]
      BY <1>1, <1>2, <1>v DEF CowPte
    <3> QED
      BY <1>1, <3>0, <3>1, <3>2, Flag1
  <2>b. perm[p][lv[p].a] \in Perm
    BY <1>1, <1>v DEF TypeOK
  <2>c. ~perm'[p][lv[p].a].cw
    BY <2>b, <2>6, FlagType
  <2>7. Shifts(p, p, "store", x)
    <3>1. /\ pc' = [pc EXCEPT ![p] = "store"] /\ lv' = [lv EXCEPT ![p] = x]
          /\ UNCHANGED <<procVars, panicked>> /\ AllocOK'
      BY <1>1, <1>2
         DEF CowPte, Goto, Return, CallKalloc, CallKfree, Dealloc, AllocOK, allocVars, TypeOK
    <3>2. /\ \A y \in {p, p}, va \in VA : perm'[y][va].cw => Mapped(y, va)'
          /\ lv[p].np # p => \A va \in VA : Mapped(p, va)' <=> Mapped(p, va)
      BY <1>1, <1>2, <2>5, <2>6, <1>v, <2>c DEF AtRest
    <3> QED
      BY <1>1, <2>3, <2>4, <2>6, <3>1, <3>2 DEF Shifts, TypeOK
  <2> HIDE DEF x
  <2>8. /\ pc'[p] = "store" /\ Pos(p)' = "store" /\ lv'[p] = x
        /\ state' = state /\ parent' = parent /\ sz' = sz
    BY <1>1, <2>2, <2>7 DEF Shifts, TypeOK, procVars, Pos, InCall
  <2>9. Calls(p)' /\ Works(p)'
    BY <1>1, <1>2, <2>2, <2>8, LocNone
       DEF ProcInv, Calls, Works, Other, AllocLabels, FreeLabels, PlainLabels, ForkLabels,
           FreeingLabels, LoopLabels, UnmapLabels
  <2>10. Bounds(p)'
    BY <1>1, <1>2, <2>2, <2>8
       DEF ProcInv, Bounds, PlainLabels, ForkLabels, FreeingLabels, LoopLabels, UnmapLabels
  <2>12. Holds(p)'
    BY <1>1, <1>2, <2>2, <2>8, <2>3, LocType, LocNone
       DEF ProcInv, Holds, AllocLabels, FreeLabels, trapframe, result, mem, pagetable, ptpage, pte
  <2>13. Tables(p)'
    BY <1>1, <1>2, <2>2, <2>8, <2>3, LocType, LocNone
       DEF ProcInv, Tables, UnmapLabels, trapframe, result, mem, pagetable, ptpage, pte
  <2> QED
    BY <1>1, <2>1, <2>2, <2>7, <2>9, <2>10, <2>12, <2>13, LocNone, ShiftRule DEF Label
<1>3. CASE lv[p].cont = "copyout_wr"
  <2> DEFINE x == [lv[p] EXCEPT !.loc = None]
  <2>1. x \in LocalVars
    BY <1>1 DEF LocalVars
  <2>2. x.np = lv[p].np /\ x.loc = None /\ x.a = lv[p].a /\ x.nsz = lv[p].nsz /\ x.lim = lv[p].lim /\ x.cont = lv[p].cont
    BY <1>1 DEF LocalVars
  <2>3. /\ ptr' \in [Loc -> Page \cup {None}] /\ ptr'[pte(p, lv[p].a)] = ptr[mem(p)] /\ ptr'[mem(p)] = None
        /\ \A k \in Loc : k # pte(p, lv[p].a) /\ k # mem(p) => ptr'[k] = ptr[k]
    <3>1. pte(p, lv[p].a) \in Loc /\ mem(p) \in Loc /\ pte(p, lv[p].a) # mem(p)
      BY <1>1, LocType, <1>v DEF pte, mem
    <3>2. ptr[mem(p)] \in Page \cup {None}
      BY <1>1, <3>1 DEF TypeOK
    <3>3. ptr' = [ptr EXCEPT ![pte(p, lv[p].a)] = ptr[mem(p)], ![mem(p)] = None]
      BY <1>1, <1>3 DEF CowPte
    <3> QED
      BY <1>1, <3>1, <3>2, <3>3, Write2
  <2>4. \A y \in Proc \ {p} : Kept(y)
    BY <1>1, <2>3, LocType, <1>v DEF Kept, trapframe, pagetable, result, mem, ptpage, pte
  <2>5. \A y \in Proc, va \in VA : Mapped(y, va)' <=> Mapped(y, va)
    BY <1>1, <1>3, <2>3, LocType, <1>v DEF Mapped, pte, mem, ProcInv, Holds
  <2>6. /\ perm' \in [Proc -> [VA -> Perm]] /\ perm'[p][lv[p].a] = [perm[p][lv[p].a] EXCEPT !.w = TRUE, !.cw = FALSE]
        /\ \A y \in Proc, va \in VA : (y # p \/ va # lv[p].a) => perm'[y][va] = perm[y][va]
        /\ \A y \in Proc : y # p => perm'[y] = perm[y]
    <3>0. perm[p][lv[p].a] \in Perm /\ lv[p].a \in VA
      BY <1>1, <1>3, <1>v DEF TypeOK
    <3>1. [perm[p][lv[p].a] EXCEPT !.w = TRUE, !.cw = FALSE] \in Perm
      BY <3>0, FlagType
    <3>2. perm' = [perm EXCEPT ![p][lv[p].a] = [perm[p][lv[p].a] EXCEPT !.w = TRUE, !.cw = FALSE]]
      BY <1>1, <1>3, <1>v DEF CowPte
    <3> QED
      BY <1>1, <3>0, <3>1, <3>2, Flag1
  <2>b. perm[p][lv[p].a] \in Perm
    BY <1>1, <1>v DEF TypeOK
  <2>c. ~perm'[p][lv[p].a].cw
    BY <2>b, <2>6, FlagType
  <2>7. Shifts(p, p, "copyout_wr", x)
    <3>1. /\ pc' = [pc EXCEPT ![p] = "copyout_wr"] /\ lv' = [lv EXCEPT ![p] = x]
          /\ UNCHANGED <<procVars, panicked>> /\ AllocOK'
      BY <1>1, <1>3
         DEF CowPte, Goto, Return, CallKalloc, CallKfree, Dealloc, AllocOK, allocVars, TypeOK
    <3>2. /\ \A y \in {p, p}, va \in VA : perm'[y][va].cw => Mapped(y, va)'
          /\ lv[p].np # p => \A va \in VA : Mapped(p, va)' <=> Mapped(p, va)
      BY <1>1, <1>3, <2>5, <2>6, <1>v, <2>c DEF AtRest
    <3> QED
      BY <1>1, <2>3, <2>4, <2>6, <3>1, <3>2 DEF Shifts, TypeOK
  <2> HIDE DEF x
  <2>8. /\ pc'[p] = "copyout_wr" /\ Pos(p)' = "copyout_wr" /\ lv'[p] = x
        /\ state' = state /\ parent' = parent /\ sz' = sz
    BY <1>1, <2>2, <2>7 DEF Shifts, TypeOK, procVars, Pos, InCall
  <2>9. Calls(p)' /\ Works(p)'
    BY <1>1, <1>3, <2>2, <2>8, LocNone
       DEF ProcInv, Calls, Works, Other, AllocLabels, FreeLabels, PlainLabels, ForkLabels,
           FreeingLabels, LoopLabels, UnmapLabels
  <2>10. Bounds(p)'
    BY <1>1, <1>3, <2>2, <2>8
       DEF ProcInv, Bounds, PlainLabels, ForkLabels, FreeingLabels, LoopLabels, UnmapLabels
  <2>12. Holds(p)'
    BY <1>1, <1>3, <2>2, <2>8, <2>3, LocType, LocNone
       DEF ProcInv, Holds, AllocLabels, FreeLabels, trapframe, result, mem, pagetable, ptpage, pte
  <2>13. Tables(p)'
    BY <1>1, <1>3, <2>2, <2>8, <2>3, LocType, LocNone
       DEF ProcInv, Tables, UnmapLabels, trapframe, result, mem, pagetable, ptpage, pte
  <2> QED
    BY <1>1, <2>1, <2>2, <2>7, <2>9, <2>10, <2>12, <2>13, LocNone, ShiftRule DEF Label
<1> QED
  BY <1>1, <1>2, <1>3 DEF ProcInv, Bounds

\* copyout() up to the copy-on-write test preserves the invariant.
LEMMA CopyoutStep ==
    ASSUME ControlInv, NEW p \in Proc, NEW va \in VA, NEW v \in Value, copyout(p, va, v)
    PROVE  ControlInv'
<1>1. /\ TypeOK /\ ProcInv(p) /\ lv[p] \in LocalVars /\ pc[p] = "user" /\ panicked = "no"
      /\ Pos(p) = pc[p] /\ lv[p] = Idle /\ lv[p].np = None
  BY DEF ControlInv, TypeOK, At, copyout, Pos, InCall, ProcInv, Calls, Works, PlainLabels
<1>2. CASE perm[p][va].cw
  <2> DEFINE x == [Idle EXCEPT !.cont = "copyout_wr", !.a = va, !.val = v, !.ret = "cow_copy"]
  <2>1. Moves(p, "kalloc", x)
    BY <1>1, <1>2
       DEF Moves, AllocOK, copyout, Goto, Return, CallKalloc, CallKfree, Dealloc, TypeOK, allocVars
  <2>2. x \in LocalVars
    BY VAType, IdleType DEF LocalVars, Label
  <2>3. x.np = lv[p].np /\ x.ret = "cow_copy" /\ x.loc = None /\ x.a = va /\ x.cont = "copyout_wr" /\ x.nsz = 0
    BY <1>1 DEF LocalVars, Idle
  <2> HIDE DEF x
  <2>4. /\ pc'[p] = "kalloc" /\ Pos(p)' = "cow_copy" /\ lv'[p] = x
        /\ state' = state /\ parent' = parent /\ sz' = sz /\ ptr' = ptr
    BY <1>1, <2>1, <2>3, Moved
  <2>6. Calls(p)' /\ Works(p)'
    BY <1>1, <1>2, <2>3, <2>4, LocNone
       DEF ProcInv, Calls, Works, Other, AllocLabels, FreeLabels, PlainLabels, ForkLabels,
           FreeingLabels, LoopLabels, UnmapLabels
  <2>7. Bounds(p)'
    BY <1>1, <1>2, <2>3, <2>4, Sized, LocNone
       DEF ProcInv, Bounds, PlainLabels, ForkLabels, FreeingLabels, LoopLabels, UnmapLabels
  <2>8. Holds(p)' /\ Tables(p)'
    BY <1>1, <1>2, <2>3, <2>4, LocNone
       DEF ProcInv, Holds, Tables, Other, UnmapLabels, AllocLabels, FreeLabels
  <2> QED
    BY <1>1, <2>1, <2>2, <2>3, <2>6, <2>7, <2>8, MoveRule DEF Label
<1>3. CASE ~perm[p][va].cw
  <2> DEFINE x == [lv[p] EXCEPT !.a = va, !.val = v]
  <2>1. Moves(p, "copyout_wr", x)
    BY <1>1, <1>3
       DEF Moves, AllocOK, copyout, Goto, Return, CallKalloc, CallKfree, Dealloc, TypeOK, allocVars
  <2>2. x \in LocalVars
    BY <1>1, VAType DEF LocalVars
  <2>3. x.np = lv[p].np /\ x.loc = None /\ x.a = va
    BY <1>1 DEF LocalVars, Idle
  <2> HIDE DEF x
  <2>4. /\ pc'[p] = "copyout_wr" /\ Pos(p)' = "copyout_wr" /\ lv'[p] = x
        /\ state' = state /\ parent' = parent /\ sz' = sz /\ ptr' = ptr
    BY <1>1, <2>1, <2>3, Moved
  <2>6. Calls(p)' /\ Works(p)'
    BY <1>1, <1>3, <2>3, <2>4, LocNone
       DEF ProcInv, Calls, Works, Other, AllocLabels, FreeLabels, PlainLabels, ForkLabels,
           FreeingLabels, LoopLabels, UnmapLabels
  <2>7. Bounds(p)'
    BY <1>1, <1>3, <2>3, <2>4
       DEF ProcInv, Bounds, PlainLabels, ForkLabels, FreeingLabels, LoopLabels, UnmapLabels
  <2>8. Holds(p)' /\ Tables(p)'
    BY <1>1, <1>3, <2>3, <2>4, LocNone
       DEF ProcInv, Holds, Tables, Other, UnmapLabels, AllocLabels, FreeLabels
  <2> QED
    BY <1>1, <2>1, <2>2, <2>3, <2>6, <2>7, <2>8, MoveRule DEF Label
<1> QED
  BY <1>2, <1>3

\* copyout()'s memmove() into the user page preserves the invariant.
LEMMA CopyoutWriteStep ==
    ASSUME ControlInv, NEW p \in Proc, CopyoutWrite(p)
    PROVE  ControlInv'
<1>1. /\ TypeOK /\ ProcInv(p) /\ lv[p] \in LocalVars /\ pc[p] = "copyout_wr" /\ panicked = "no"
      /\ Pos(p) = pc[p] /\ lv[p].np = None
  BY DEF ControlInv, TypeOK, At, CopyoutWrite, Pos, InCall, ProcInv, Works, PlainLabels
<1>2. CASE TRUE
  <2> DEFINE x == Idle
  <2>1. Moves(p, "user", x)
    BY <1>1, <1>2
       DEF Moves, AllocOK, CopyoutWrite, Goto, Return, CallKalloc, CallKfree, Dealloc, TypeOK,
           allocVars, LocalVars
  <2>2. x \in LocalVars
    BY <1>1, IdleType DEF LocalVars
  <2>3. x.np = lv[p].np /\ x.loc = None /\ x.a = 0
    BY <1>1 DEF LocalVars, ProcInv, Works, PlainLabels, Idle
  <2>4. /\ pc'[p] = "user" /\ Pos(p)' = "user" /\ lv'[p] = x
        /\ state' = state /\ parent' = parent /\ sz' = sz /\ ptr' = ptr
    BY <1>1, <2>1, <2>3, Moved
  <2>6. Calls(p)' /\ Works(p)'
    BY <1>1, <1>2, <2>3, <2>4, LocNone
       DEF ProcInv, Calls, Works, Other, AllocLabels, FreeLabels, PlainLabels, ForkLabels,
           FreeingLabels, LoopLabels, UnmapLabels
  <2>7. Bounds(p)'
    BY <1>1, <1>2, <2>3, <2>4, ZeroVA
       DEF ProcInv, Bounds, PlainLabels, ForkLabels, FreeingLabels, LoopLabels, UnmapLabels
  <2>8. Holds(p)' /\ Tables(p)'
    BY <1>1, <1>2, <2>3, <2>4, LocNone
       DEF ProcInv, Holds, Tables, Other, UnmapLabels, AllocLabels, FreeLabels
  <2> QED
    BY <1>1, <2>1, <2>2, <2>3, <2>6, <2>7, <2>8, MoveRule DEF Label
<1> QED
  BY <1>2
=============================================================================
