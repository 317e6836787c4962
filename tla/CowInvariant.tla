---------------------------- MODULE CowInvariant ----------------------------
(***************************************************************************)
(* An inductive invariant of CowMemory: at each label, which page table a  *)
(* process works on, how much of it is mapped, and which locations hold a  *)
(* page.  CowMemoryProof shows that it is inductive and what follows.      *)
(***************************************************************************)
EXTENDS CowMemory

\* Return labels of kalloc() and of kfree().
AllocLabels == {"cow_copy", "alloc_tf", "alloc_pt", "copy_walk", "grow_mem", "grow_walk"}
FreeLabels == {"cow_pte", "freed_tf", "freed_pt", "unmap_pte", "grow_fail"}

\* Labels by the page table they work on: none, that of a new process, that of an exited
\* or unfinished process, or the process's own.
PlainLabels == {"user", "dead", "store", "write_trap", "copyout_wr", "exit", "cow_copy",
                "cow_pte"}
ForkLabels == {"alloc_tf", "alloc_pt", "uvmcopy", "copy_walk", "copy_map", "copy_inc",
               "fork_done"}
FreeingLabels == {"freeproc", "freed_tf", "freewalk", "freed_pt"}
LoopLabels == {"uvmalloc", "grow_mem", "grow_walk", "grow_map", "grow_fail"}
UnmapLabels == {"unmap", "unmap_pte"}

\* Where p is, or where it will be once kalloc() or kfree() has returned.
InCall(p) == pc[p] \in {"kalloc", "kalloc_ref", "kfree", "kfree_push"}
Pos(p) == IF InCall(p) THEN lv[p].ret ELSE pc[p]

Calls(p) ==
    /\ pc[p] \in {"kalloc", "kalloc_ref"} => lv[p].ret \in AllocLabels
    /\ pc[p] \in {"kfree", "kfree_push"} => lv[p].ret \in FreeLabels
    /\ pc[p] \in {"user", "dead"} => lv[p] = Idle
    /\ pc[p] # "copyout"
    /\ state[p] = "RUNNABLE" <=> pc[p] # "dead"

\* The other process whose page table p works on is not running, and nobody else frees it.
Other(p) == lv[p].np \in Proc /\ lv[p].np # p

Works(p) ==
    LET q == lv[p].np IN
    /\ Pos(p) \in PlainLabels => q = None
    /\ Pos(p) \in ForkLabels => Other(p) /\ state[q] = "USED"
    /\ Pos(p) \in FreeingLabels => Other(p) /\ lv[p].nsz = 0
    /\ Pos(p) \in LoopLabels \cup {"sbrk_done"} => q = p
    /\ Pos(p) \in UnmapLabels => \/ q = p /\ lv[p].cont = "sbrk_done"
                                 \/ Other(p) /\ lv[p].cont = "freewalk" /\ lv[p].nsz = 0
    /\ Other(p) => state[q] \in {"USED", "ZOMBIE"}
    /\ Other(p) /\ state[q] = "ZOMBIE" => parent[q] = p

\* The loop indices.
Bounds(p) ==
    LET a == lv[p].a IN
    /\ Pos(p) \in PlainLabels => a \in VA
    /\ Pos(p) \in {"cow_copy", "cow_pte"} =>
           a < sz[p] /\ lv[p].cont \in {"store", "copyout_wr"}
    /\ Pos(p) \in {"alloc_tf", "alloc_pt"} => a = 0 /\ lv[p].nsz = 0
    /\ Pos(p) \in ForkLabels => a <= sz[p] /\ lv[p].nsz = 0
    /\ Pos(p) \in {"copy_walk", "copy_map", "copy_inc"} => a < sz[p]
    /\ Pos(p) = "fork_done" => a = sz[p]
    /\ Pos(p) \in LoopLabels => sz[p] <= a /\ a <= lv[p].nsz
    /\ Pos(p) \in LoopLabels \ {"uvmalloc"} => a < lv[p].nsz
    /\ Pos(p) = "sbrk_done" => lv[p].nsz \in 0 .. NVA
    /\ Pos(p) \in UnmapLabels => lv[p].nsz <= a
    /\ Pos(p) = "unmap_pte" => a < lv[p].lim

\* The page kfree() was called on, and the ones kalloc() and `mem' hold.
Holds(p) ==
    LET q == lv[p].np  k == lv[p].loc IN
    /\ Pos(p) \notin FreeLabels => k = None
    /\ Pos(p) = "cow_pte" => k = pte(p, lv[p].a)
    /\ Pos(p) = "freed_tf" => k = trapframe(q) \/ (k = None /\ pc[p] = "freed_tf"
                                                  /\ ptr[trapframe(q)] = None)
    /\ Pos(p) = "freed_pt" => k = pagetable(q) \/ \E r \in Region : k = ptpage(q, r)
    /\ Pos(p) = "unmap_pte" => k = pte(q, lv[p].a)
    /\ Pos(p) = "grow_fail" => k = mem(p)
    /\ k # None => ptr[k] # None
    /\ pc[p] = "kalloc_ref" => ptr[result(p)] # None
    /\ ptr[result(p)] # None => pc[p] \in AllocLabels \cup {"kalloc_ref"}
    /\ ptr[mem(p)] # None <=> Pos(p) \in {"cow_pte", "grow_walk", "grow_map", "grow_fail"}

\* Which pages of the table p works on are mapped.
Extent(p, va) ==
    LET a == lv[p].a IN
    CASE Pos(p) \in (ForkLabels \ {"copy_inc"}) \cup LoopLabels -> va < a
      [] Pos(p) = "copy_inc"                -> va <= a
      [] Pos(p) \in {"freeproc", "freed_tf"} -> va < sz[lv[p].np]
      [] Pos(p) \in UnmapLabels             -> va < lv[p].nsz \/ (a <= va /\ va < lv[p].lim)
      [] Pos(p) = "sbrk_done"               -> va < lv[p].nsz
      [] OTHER                              -> FALSE

Tables(p) ==
    LET q == lv[p].np IN
    /\ q # None => \A va \in VA : Mapped(q, va) <=> Extent(p, va)
    /\ Pos(p) = "alloc_tf" => ptr[trapframe(q)] = None
    /\ Pos(p) \in {"alloc_tf", "alloc_pt"} => ptr[pagetable(q)] = None
    /\ Pos(p) \in {"freewalk", "freed_pt"} \cup UnmapLabels /\ q # p =>
           ptr[trapframe(q)] = None
    /\ Pos(p) \in {"copy_walk", "grow_walk"} => ptr[ptpage(q, region(lv[p].a))] = None
    /\ Pos(p) = "copy_inc" => ptr[pte(q, lv[p].a)] = ptr[pte(p, lv[p].a)]

\* A process whose table nobody works on has exactly its sz pages, and an unused one has
\* nothing at all.
AtRest(q) ==
    /\ (\A p \in Proc : lv[p].np # q) => \A va \in VA : Mapped(q, va) <=> va < sz[q]
    /\ state[q] \in {"USED", "UNUSED"} => sz[q] = 0
    /\ state[q] = "UNUSED" => /\ ptr[trapframe(q)] = None /\ ptr[pagetable(q)] = None
                              /\ \A r \in Region : ptr[ptpage(q, r)] = None
    /\ \A va \in VA : perm[q][va].cw => Mapped(q, va)

ProcInv(p) == Calls(p) /\ Works(p) /\ Bounds(p) /\ Holds(p) /\ Tables(p) /\ AtRest(p)

\* No two processes work on the same page table.
Exclusive == \A p, q \in Proc : p # q /\ lv[p].np = lv[q].np => lv[p].np = None

\* Control, page tables and p->sz fit together at every label, on all CPUs: what each step
\* of fork(), exit(), wait(), sbrk() and write_trap() relies on when it is reached.
ControlInv == TypeOK /\ panicked \notin TablePanics /\ Exclusive /\ \A p \in Proc : ProcInv(p)
=============================================================================
