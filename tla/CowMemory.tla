----------------------------- MODULE CowMemory -----------------------------
(***************************************************************************)
(* User memory of the kernel with copy-on-write fork: kernel/kalloc.c (in  *)
(* module Kalloc), the user half of kernel/vm.c, write_trap() of           *)
(* kernel/trap.c, and the parts of fork(), exit(), wait(), growproc(),     *)
(* allocproc() and freeproc() of kernel/proc.c that touch pages.           *)
(*                                                                         *)
(* Every process may be running on a CPU of its own, in user mode or in    *)
(* the kernel; a step is what the kernel does between two points where     *)
(* another CPU can observe it: one critical section of kmem.lock or of     *)
(* no_of_ref, or one access to a page or a page table.  pc[p] says where p *)
(* is; kalloc and kfree are procedures with a return label.                *)
(***************************************************************************)
EXTENDS Kalloc, FiniteSets

CONSTANTS
    Proc, initproc,  \* the process table and the first process
    None,            \* the null pointer
    NVA,             \* user pages 0 .. NVA-1 may be mapped (BOUND: code, MAXVA)
    NPTE,            \* PTEs in one page-table page (code: 512)
    MaxGrow,         \* pages one sbrk() may add or remove (BOUND)
    BootSz,          \* pages of the first process once /init is loaded
    Layout,          \* the permissions exec() gave them
    BootPtr          \* the physical pages they and its kernel data use

VA == 0 .. (NVA - 1)
Region == {va \div NPTE : va \in VA}
region(va) == va \div NPTE

\* PTE_U, PTE_W and PTE_CW; PTE_V is a non-null pointer in the PTE.
Perm == [u : BOOLEAN, w : BOOLEAN, cw : BOOLEAN]
NoPerm == [u |-> FALSE, w |-> FALSE, cw |-> FALSE]
RWPerm == [u |-> TRUE, w |-> TRUE, cw |-> FALSE]

(***************************************************************************)
(* A location is a place that holds the address of a page: p->trapframe,   *)
(* p->pagetable (standing for the root and the two pages above trampoline  *)
(* and trapframe), the page-table page of a region of user addresses, a    *)
(* user PTE, the result of a kalloc() that is not stored elsewhere yet,    *)
(* and the variable `mem' of uvmalloc() and allocate_new_memory().         *)
(***************************************************************************)
trapframe(p) == <<"trapframe", p, 0>>
pagetable(p) == <<"pagetable", p, 0>>
ptpage(p, r) == <<"ptpage", p, r>>
pte(p, va)   == <<"pte", p, va>>
result(p)    == <<"result", p, 0>>
mem(p)       == <<"mem", p, 0>>

Loc == ({"trapframe", "pagetable", "result", "mem"} \X Proc \X {0})
       \cup ({"ptpage"} \X Proc \X Region)
       \cup ({"pte"} \X Proc \X VA)

BootLoc == {trapframe(initproc), pagetable(initproc)}
           \cup {ptpage(initproc, region(va)) : va \in 0 .. (BootSz - 1)}
           \cup {pte(initproc, va) : va \in 0 .. (BootSz - 1)}

ASSUME CowAssumption ==
    /\ initproc \in Proc /\ None \notin Page /\ None \notin Proc /\ None \notin Loc
    /\ IsFiniteSet(Proc)
    /\ NVA \in Nat \ {0} /\ NPTE \in Nat \ {0} /\ MaxGrow \in Nat
    /\ BootSz \in 1 .. NVA /\ Layout \in [0 .. (BootSz - 1) -> Perm]
    /\ BootPtr \in [BootLoc -> Page]
    /\ \A k, l \in BootLoc : BootPtr[k] = BootPtr[l] => k = l
    /\ RefMod > Cardinality(Loc)   \* a uint counts every PTE there can be

VARIABLES
    state,     \* p->state; RUNNABLE stands for RUNNABLE, RUNNING and SLEEPING
    parent,    \* p->parent
    sz,        \* p->sz, in pages
    ptr,       \* the page address each location holds
    perm,      \* the flags of every user PTE
    pc, lv,    \* where each process is, and its kernel local variables
    panicked   \* the message of the first panic(), or "no"

procVars == <<state, parent, sz>>
tableVars == <<ptr, perm>>
vars == <<freelist, ref, data, state, parent, sz, ptr, perm, pc, lv, panicked>>

(***************************************************************************)
(* Local variables: the return labels of kalloc/kfree (ret) and of a       *)
(* longer subroutine (cont); the location kfree() was called on (loc);     *)
(* np / pp / the owner of the page table worked on (np); the loop index a  *)
(* and its limit lim; the new size nsz; and the value to store (val).      *)
(***************************************************************************)
Label == {"user", "dead", "store", "write_trap", "copyout", "copyout_wr",
          "kalloc", "kalloc_ref", "kfree", "kfree_push", "cow_copy", "cow_pte",
          "alloc_tf", "alloc_pt", "uvmcopy", "copy_walk", "copy_map", "copy_inc",
          "fork_done", "freeproc", "freed_tf", "freewalk", "freed_pt",
          "uvmalloc", "grow_mem", "grow_walk", "grow_map", "grow_fail",
          "unmap", "unmap_pte", "sbrk_done", "exit"}

Idle == [ret |-> "user", cont |-> "user", loc |-> None, np |-> None,
         a |-> 0, lim |-> 0, nsz |-> 0, val |-> Zero]

At(p, l) == pc[p] = l /\ panicked = "no"
Goto(p, l) == pc' = [pc EXCEPT ![p] = l]
Return(p) == Goto(p, "user") /\ lv' = [lv EXCEPT ![p] = Idle]
Panic(msg) == panicked' = msg

\* r = kalloc(), the result read at label l.
CallKalloc(p, l, locals) ==
    /\ Goto(p, "kalloc")
    /\ lv' = [lv EXCEPT ![p] = [locals EXCEPT !.ret = l]]

\* kfree(the page in location k), continuing at label l.
CallKfree(p, k, l, locals) ==
    /\ Goto(p, "kfree")
    /\ lv' = [lv EXCEPT ![p] = [locals EXCEPT !.ret = l, !.loc = k]]

Init ==
    /\ freelist = Page \ {BootPtr[l] : l \in BootLoc}
    /\ ref = [pg \in Page |-> IF pg \in freelist THEN 0 ELSE 1]
    /\ data = [pg \in Page |-> IF pg \in freelist THEN Junk ELSE Zero]
    /\ state = [p \in Proc |-> IF p = initproc THEN "RUNNABLE" ELSE "UNUSED"]
    /\ parent = [p \in Proc |-> None]
    /\ sz = [p \in Proc |-> IF p = initproc THEN BootSz ELSE 0]
    /\ ptr = [l \in Loc |-> IF l \in BootLoc THEN BootPtr[l] ELSE None]
    /\ perm = [p \in Proc |-> [va \in VA |->
                IF p = initproc /\ va < BootSz THEN Layout[va] ELSE NoPerm]]
    /\ pc = [p \in Proc |-> IF p = initproc THEN "user" ELSE "dead"]
    /\ lv = [p \in Proc |-> Idle]
    /\ panicked = "no"

-----------------------------------------------------------------------------
(* kalloc() and kfree() as procedures of process p *)

Kalloc(p) ==
    /\ At(p, "kalloc")
    /\ \/ \E pg \in Page :
             /\ kalloc_pop(pg)
             /\ ptr' = [ptr EXCEPT ![result(p)] = pg]
             /\ Goto(p, "kalloc_ref")
       \/ /\ freelist = {}                 \* r == 0: no memory
          /\ Goto(p, lv[p].ret)
          /\ UNCHANGED <<ptr, allocVars>>
    /\ UNCHANGED <<procVars, perm, lv, panicked>>

KallocRef(p) ==
    /\ At(p, "kalloc_ref")
    /\ kalloc_ref(ptr[result(p)])
    /\ Goto(p, lv[p].ret)
    /\ UNCHANGED <<procVars, tableVars, lv, panicked>>

Kfree(p) ==
    /\ At(p, "kfree")
    /\ kfree_dec(ptr[lv[p].loc])
    /\ Goto(p, IF Dec(ptr[lv[p].loc]) > 0 THEN lv[p].ret ELSE "kfree_push")
    /\ UNCHANGED <<procVars, tableVars, lv, panicked>>

KfreePush(p) ==
    /\ At(p, "kfree_push")
    /\ kfree_push(ptr[lv[p].loc])
    /\ Goto(p, lv[p].ret)
    /\ UNCHANGED <<procVars, tableVars, lv, panicked>>

-----------------------------------------------------------------------------
(* A store by user code, and the page fault it may take *)

Mapped(p, va) == ptr[pte(p, va)] # None
Writable(p, va) == Mapped(p, va) /\ perm[p][va].u /\ perm[p][va].w

\* The program of p reaches an instruction that stores v to page va.
BeginStore(p, va, v) ==
    /\ At(p, "user")
    /\ Goto(p, "store")
    /\ lv' = [lv EXCEPT ![p].a = va, ![p].val = v]
    /\ UNCHANGED <<allocVars, procVars, tableVars, panicked>>

\* The MMU performs the store or raises scause 15.
Store(p) ==
    /\ At(p, "store")
    /\ \/ /\ Writable(p, lv[p].a)
          /\ data' = [data EXCEPT ![ptr[pte(p, lv[p].a)]] = lv[p].val]
          /\ Return(p)
       \/ /\ ~Writable(p, lv[p].a)
          /\ Goto(p, "write_trap")
          /\ UNCHANGED <<data, lv>>
    /\ UNCHANGED <<freelist, ref, procVars, tableVars, panicked>>

\* check_valid_add() rejects exactly address 0, so a store to page 0 may or may
\* not be rejected; then walk() of page tables that are not there.
write_trap(p) ==
    LET va == lv[p].a IN
    /\ At(p, "write_trap")
    /\ \/ /\ va = 0 \/ ptr[ptpage(p, region(va))] = None
          /\ Goto(p, "exit")                          \* p->killed = 1
          /\ UNCHANGED lv
       \/ /\ ptr[ptpage(p, region(va))] # None
          /\ perm[p][va].cw
          /\ CallKalloc(p, "cow_copy", [lv[p] EXCEPT !.cont = "store"])
       \/ /\ ptr[ptpage(p, region(va))] # None
          /\ ~perm[p][va].cw
          /\ Goto(p, "store")                         \* return 0: sret, retry
          /\ UNCHANGED lv
    /\ UNCHANGED <<allocVars, procVars, tableVars, panicked>>

\* Mutant of CowCopy: the memmove is forgotten.
CowCopyNoMove(p) ==
    LET old == pte(p, lv[p].a) IN
    /\ At(p, "cow_copy")
    /\ \/ /\ ptr[result(p)] = None
          /\ IF lv[p].cont = "store" THEN Goto(p, "exit") /\ UNCHANGED lv
                                     ELSE Return(p)
          /\ UNCHANGED ptr
       \/ /\ ptr[result(p)] # None
          /\ ptr' = [ptr EXCEPT ![mem(p)] = ptr[result(p)], ![result(p)] = None]
          /\ CallKfree(p, old, "cow_pte", lv[p])
    /\ UNCHANGED <<freelist, ref, data, procVars, perm, panicked>>

\* allocate_new_memory(): copy the page, then kfree() the old one ...
CowCopy(p) ==
    LET old == pte(p, lv[p].a) IN
    /\ At(p, "cow_copy")
    /\ \/ /\ ptr[result(p)] = None
          /\ IF lv[p].cont = "store" THEN Goto(p, "exit") /\ UNCHANGED lv
                                     ELSE Return(p)   \* copyout() returns -1
          /\ UNCHANGED <<data, ptr>>
       \/ /\ ptr[result(p)] # None
          /\ data' = [data EXCEPT ![ptr[result(p)]] = data[ptr[old]]]
          /\ ptr' = [ptr EXCEPT ![mem(p)] = ptr[result(p)], ![result(p)] = None]
          /\ CallKfree(p, old, "cow_pte", lv[p])
    /\ UNCHANGED <<freelist, ref, procVars, perm, panicked>>

\* Mutant of CowPte: the flags lose PTE_CW but never get PTE_W.
CowPteNoWrite(p) ==
    LET va == lv[p].a IN
    /\ At(p, "cow_pte")
    /\ ptr' = [ptr EXCEPT ![pte(p, va)] = ptr[mem(p)], ![mem(p)] = None]
    /\ perm' = [perm EXCEPT ![p][va] = [@ EXCEPT !.cw = FALSE]]
    /\ Goto(p, lv[p].cont)
    /\ lv' = [lv EXCEPT ![p].loc = None]
    /\ UNCHANGED <<allocVars, procVars, panicked>>

\* ... and *pte = PA2PTE(mem) | modify_flag_cow_to_write(flags).
CowPte(p) ==
    LET va == lv[p].a IN
    /\ At(p, "cow_pte")
    /\ ptr' = [ptr EXCEPT ![pte(p, va)] = ptr[mem(p)], ![mem(p)] = None]
    /\ perm' = [perm EXCEPT ![p][va] = [@ EXCEPT !.w = TRUE, !.cw = FALSE]]
    /\ Goto(p, lv[p].cont)
    /\ lv' = [lv EXCEPT ![p].loc = None]
    /\ UNCHANGED <<allocVars, procVars, panicked>>

\* A system call of p copies v out to page va (copyout(), one page). Page 0 is
\* always rejected here, because va0 is already rounded down.
copyout(p, va, v) ==
    /\ At(p, "user")
    /\ va # 0 /\ ptr[ptpage(p, region(va))] # None
    /\ IF perm[p][va].cw
       THEN CallKalloc(p, "cow_copy",
                [Idle EXCEPT !.cont = "copyout_wr", !.a = va, !.val = v])
       ELSE /\ Goto(p, "copyout_wr")
            /\ lv' = [lv EXCEPT ![p].a = va, ![p].val = v]
    /\ UNCHANGED <<allocVars, procVars, tableVars, panicked>>

\* walkaddr() wants PTE_V and PTE_U; PTE_W is not looked at.
CopyoutWrite(p) ==
    LET va == lv[p].a IN
    /\ At(p, "copyout_wr")
    /\ data' = IF Mapped(p, va) /\ perm[p][va].u
               THEN [data EXCEPT ![ptr[pte(p, va)]] = lv[p].val] ELSE data
    /\ Return(p)
    /\ UNCHANGED <<freelist, ref, procVars, tableVars, panicked>>

-----------------------------------------------------------------------------
(* fork(): allocproc(), then uvmcopy() *)

\* allocproc() claims an UNUSED slot under its lock and asks for a trapframe.
fork(p, q) ==
    /\ At(p, "user")
    /\ state[q] = "UNUSED"
    /\ state' = [state EXCEPT ![q] = "USED"]
    /\ CallKalloc(p, "alloc_tf", [Idle EXCEPT !.np = q])
    /\ UNCHANGED <<allocVars, parent, sz, tableVars, panicked>>

AllocTrapframe(p) ==
    LET q == lv[p].np IN
    /\ At(p, "alloc_tf")
    /\ \/ /\ ptr[result(p)] = None
          /\ Goto(p, "freeproc")
          /\ UNCHANGED <<ptr, lv>>
       \/ /\ ptr[result(p)] # None
          /\ ptr' = [ptr EXCEPT ![trapframe(q)] = ptr[result(p)],
                                ![result(p)] = None]
          /\ CallKalloc(p, "alloc_pt", lv[p])
    /\ UNCHANGED <<allocVars, procVars, perm, panicked>>

\* proc_pagetable() and uvmcreate(); its interior pages come with the root.
AllocPagetable(p) ==
    LET q == lv[p].np IN
    /\ At(p, "alloc_pt")
    /\ \/ /\ ptr[result(p)] = None
          /\ Goto(p, "freeproc")
          /\ UNCHANGED ptr
       \/ /\ ptr[result(p)] # None
          /\ ptr' = [ptr EXCEPT ![pagetable(q)] = ptr[result(p)],
                                ![result(p)] = None]
          /\ Goto(p, "uvmcopy")
    /\ UNCHANGED <<allocVars, procVars, perm, lv, panicked>>

\* Mutant of change_flag_from_write_to_cow: PTE_W stays set.
KeepWrite(fl) == [fl EXCEPT !.cw = TRUE]

\* PTE_CW is set and PTE_W cleared.
change_flag_from_write_to_cow(fl) == [fl EXCEPT !.w = FALSE, !.cw = TRUE]

\* One turn of uvmcopy()'s loop up to map_new_to_old()'s walk(new, i, 1):
\* change_flag_from_write_to_cow() on the parent's PTE, whatever it allowed.
uvmcopy(p) ==
    LET va == lv[p].a  q == lv[p].np IN
    /\ At(p, "uvmcopy")
    /\ \/ /\ va = sz[p]
          /\ Goto(p, "fork_done")
          /\ UNCHANGED <<perm, lv, panicked>>
       \/ /\ va < sz[p] /\ ~Mapped(p, va)
          /\ Panic("uvmcopy: page not present")
          /\ UNCHANGED <<perm, pc, lv>>
       \/ /\ va < sz[p] /\ Mapped(p, va)
          /\ perm' = [perm EXCEPT ![p][va] = change_flag_from_write_to_cow(@)]
          /\ IF ptr[ptpage(q, region(va))] = None
             THEN CallKalloc(p, "copy_walk", lv[p])
             ELSE Goto(p, "copy_map") /\ UNCHANGED lv
          /\ UNCHANGED panicked
    /\ UNCHANGED <<allocVars, procVars, ptr>>

\* walk() without memory returns 0, and map_new_to_old() stores through it.
CopyWalk(p) ==
    LET va == lv[p].a  q == lv[p].np IN
    /\ At(p, "copy_walk")
    /\ \/ /\ ptr[result(p)] = None
          /\ Panic("kerneltrap")           \* store to address 0
          /\ UNCHANGED <<ptr, pc>>
       \/ /\ ptr[result(p)] # None
          /\ ptr' = [ptr EXCEPT ![ptpage(q, region(va))] = ptr[result(p)],
                                ![result(p)] = None]
          /\ Goto(p, "copy_map")
          /\ UNCHANGED panicked
    /\ UNCHANGED <<allocVars, procVars, perm, lv>>

\* *nw_pte = *pte: from here the page has one more PTE than references ...
map_new_to_old(p) ==
    LET va == lv[p].a  q == lv[p].np IN
    /\ At(p, "copy_map")
    /\ ptr' = [ptr EXCEPT ![pte(q, va)] = ptr[pte(p, va)]]
    /\ perm' = [perm EXCEPT ![q][va] = perm[p][va]]
    /\ Goto(p, "copy_inc")
    /\ UNCHANGED <<allocVars, procVars, lv, panicked>>

\* Mutant of CopyInc: the new reference is not counted.
CopyNoInc(p) ==
    /\ At(p, "copy_inc")
    /\ Goto(p, "uvmcopy")
    /\ lv' = [lv EXCEPT ![p].a = @ + 1]
    /\ UNCHANGED <<allocVars, procVars, tableVars, panicked>>

\* ... until increase_no_of_ref(PTE2PA(*pte)).
CopyInc(p) ==
    /\ At(p, "copy_inc")
    /\ increase_no_of_ref(ptr[pte(p, lv[p].a)])
    /\ Goto(p, "uvmcopy")
    /\ lv' = [lv EXCEPT ![p].a = @ + 1]
    /\ UNCHANGED <<procVars, tableVars, panicked>>

\* The rest of fork(): the child gets its size and its parent and may run.
ForkDone(p) ==
    LET q == lv[p].np IN
    /\ At(p, "fork_done")
    /\ sz' = [sz EXCEPT ![q] = sz[p]]
    /\ parent' = [parent EXCEPT ![q] = p]
    /\ state' = [state EXCEPT ![q] = "RUNNABLE"]
    /\ pc' = [pc EXCEPT ![p] = "user", ![q] = "user"]
    /\ lv' = [lv EXCEPT ![p] = Idle]
    /\ UNCHANGED <<allocVars, tableVars, panicked>>

-----------------------------------------------------------------------------
(* exit(), wait() and freeproc() *)

\* exit(), by the program or for a killed process: reparent() and ZOMBIE.
exit(p) ==
    /\ \/ At(p, "user") /\ p # initproc     \* /init itself never calls exit()
       \/ At(p, "exit")
    /\ \/ /\ p = initproc
          /\ Panic("init exiting")
          /\ UNCHANGED <<state, parent, pc, lv>>
       \/ /\ p # initproc
          /\ parent' = [q \in Proc |-> IF parent[q] = p THEN initproc ELSE parent[q]]
          /\ state' = [state EXCEPT ![p] = "ZOMBIE"]
          /\ Goto(p, "dead")
          /\ lv' = [lv EXCEPT ![p] = Idle]
          /\ UNCHANGED panicked
    /\ UNCHANGED <<allocVars, sz, tableVars>>

\* wait() finds an exited child and calls freeproc() on it.
wait(p, q) ==
    /\ At(p, "user")
    /\ parent[q] = p /\ state[q] = "ZOMBIE"
    /\ Goto(p, "freeproc")
    /\ lv' = [lv EXCEPT ![p].np = q]
    /\ UNCHANGED <<allocVars, procVars, tableVars, panicked>>

\* freeproc(np): the trapframe first, ...
freeproc(p) ==
    LET q == lv[p].np IN
    /\ At(p, "freeproc")
    /\ IF ptr[trapframe(q)] # None
       THEN CallKfree(p, trapframe(q), "freed_tf", lv[p])
       ELSE Goto(p, "freed_tf") /\ UNCHANGED lv
    /\ UNCHANGED <<allocVars, procVars, tableVars, panicked>>

\* ... then uvmunmap() of all user pages, if there is a page table, ...
FreedTrapframe(p) ==
    LET q == lv[p].np IN
    /\ At(p, "freed_tf")
    /\ ptr' = [ptr EXCEPT ![trapframe(q)] = None]
    /\ lv' = [lv EXCEPT ![p].loc = None, ![p].a = 0, ![p].lim = sz[q],
                        ![p].cont = "freewalk"]
    /\ Goto(p, "unmap")
    /\ UNCHANGED <<allocVars, procVars, perm, panicked>>

\* ... then freewalk(): the page-table pages below before the root; at the end
\* the slot is UNUSED, and the system call returns.
freewalk(p) ==
    LET q == lv[p].np
        Below == {r \in Region : ptr[ptpage(q, r)] # None} IN
    /\ At(p, "freewalk")
    /\ \/ /\ \E va \in VA : Mapped(q, va)
          /\ Panic("freewalk: leaf")
          /\ UNCHANGED <<procVars, pc, lv>>
       \/ /\ \A va \in VA : ~Mapped(q, va)
          /\ \E r \in Below :
                /\ \A s \in Below : r <= s
                /\ CallKfree(p, ptpage(q, r), "freed_pt", lv[p])
          /\ UNCHANGED <<procVars, panicked>>
       \/ /\ \A va \in VA : ~Mapped(q, va)
          /\ Below = {} /\ ptr[pagetable(q)] # None
          /\ CallKfree(p, pagetable(q), "freed_pt", lv[p])
          /\ UNCHANGED <<procVars, panicked>>
       \/ /\ \A va \in VA : ~Mapped(q, va)
          /\ Below = {} /\ ptr[pagetable(q)] = None
          /\ state' = [state EXCEPT ![q] = "UNUSED"]
          /\ parent' = [parent EXCEPT ![q] = None]
          /\ sz' = [sz EXCEPT ![q] = 0]
          /\ Return(p)
          /\ UNCHANGED panicked
    /\ UNCHANGED <<allocVars, tableVars>>

FreedPagetable(p) ==
    /\ At(p, "freed_pt")
    /\ ptr' = [ptr EXCEPT ![lv[p].loc] = None]
    /\ Goto(p, "freewalk")
    /\ lv' = [lv EXCEPT ![p].loc = None]
    /\ UNCHANGED <<allocVars, procVars, perm, panicked>>

\* uvmunmap(np->pagetable, a .. lim - 1, do_free = 1)
uvmunmap(p) ==
    LET va == lv[p].a  q == lv[p].np IN
    /\ At(p, "unmap")
    /\ \/ /\ va >= lv[p].lim
          /\ Goto(p, lv[p].cont)
          /\ UNCHANGED <<lv, panicked>>
       \/ /\ va < lv[p].lim /\ ~Mapped(q, va)
          /\ Panic("uvmunmap: not mapped")
          /\ UNCHANGED <<pc, lv>>
       \/ /\ va < lv[p].lim /\ Mapped(q, va)
          /\ CallKfree(p, pte(q, va), "unmap_pte", lv[p])
          /\ UNCHANGED panicked
    /\ UNCHANGED <<allocVars, procVars, tableVars>>

UnmapPte(p) ==
    LET va == lv[p].a  q == lv[p].np IN
    /\ At(p, "unmap_pte")
    /\ ptr' = [ptr EXCEPT ![pte(q, va)] = None]
    /\ perm' = [perm EXCEPT ![q][va] = NoPerm]
    /\ Goto(p, "unmap")
    /\ lv' = [lv EXCEPT ![p].loc = None, ![p].a = @ + 1]
    /\ UNCHANGED <<allocVars, procVars, panicked>>

-----------------------------------------------------------------------------
(* sbrk(): growproc(), uvmalloc() and uvmdealloc() *)

sbrk(p, n) ==
    /\ At(p, "user")
    /\ sz[p] + n \in 1 .. NVA      \* BOUND: below the trapframe, text kept
    /\ \/ /\ n > 0
          /\ Goto(p, "uvmalloc")
          /\ lv' = [lv EXCEPT ![p] = [Idle EXCEPT !.np = p, !.a = sz[p],
                                                  !.nsz = sz[p] + n]]
       \/ /\ n < 0
          /\ Goto(p, "unmap")
          /\ lv' = [lv EXCEPT ![p] = [Idle EXCEPT !.np = p, !.a = sz[p] + n,
                                !.lim = sz[p], !.nsz = sz[p] + n,
                                !.cont = "sbrk_done"]]
    /\ UNCHANGED <<allocVars, procVars, tableVars, panicked>>

\* One turn of uvmalloc()'s loop.
uvmalloc(p) ==
    /\ At(p, "uvmalloc")
    /\ IF lv[p].a < lv[p].nsz THEN CallKalloc(p, "grow_mem", lv[p])
                              ELSE Goto(p, "sbrk_done") /\ UNCHANGED lv
    /\ UNCHANGED <<allocVars, procVars, tableVars, panicked>>

\* Mutant of Dealloc: the page that could not be mapped is unmapped too.
DeallocOneMore(p) ==
    /\ Goto(p, "unmap")
    /\ lv' = [lv EXCEPT ![p].a = sz[p], ![p].lim = lv[p].a + 1, ![p].loc = None,
                        ![p].nsz = sz[p], ![p].cont = "sbrk_done"]

\* uvmdealloc(pagetable, a, oldsz), after which sbrk() returns -1.
Dealloc(p) ==
    /\ Goto(p, "unmap")
    /\ lv' = [lv EXCEPT ![p].a = sz[p], ![p].lim = lv[p].a, ![p].loc = None,
                        ![p].nsz = sz[p], ![p].cont = "sbrk_done"]

\* memset(mem, 0, PGSIZE), then the walk() of mappages().
GrowMem(p) ==
    /\ At(p, "grow_mem")
    /\ \/ /\ ptr[result(p)] = None
          /\ Dealloc(p)
          /\ UNCHANGED <<data, ptr>>
       \/ /\ ptr[result(p)] # None
          /\ data' = [data EXCEPT ![ptr[result(p)]] = Zero]
          /\ ptr' = [ptr EXCEPT ![mem(p)] = ptr[result(p)], ![result(p)] = None]
          /\ IF ptr[ptpage(p, region(lv[p].a))] = None
             THEN CallKalloc(p, "grow_walk", lv[p])
             ELSE Goto(p, "grow_map") /\ UNCHANGED lv
    /\ UNCHANGED <<freelist, ref, procVars, perm, panicked>>

\* Mutant of GrowWalk: kfree(mem) is missing when mappages() fails.
GrowWalkLeak(p) ==
    /\ At(p, "grow_walk")
    /\ \/ /\ ptr[result(p)] = None
          /\ Dealloc(p)
          /\ UNCHANGED ptr
       \/ /\ ptr[result(p)] # None
          /\ ptr' = [ptr EXCEPT ![ptpage(p, region(lv[p].a))] = ptr[result(p)],
                                ![result(p)] = None]
          /\ Goto(p, "grow_map")
          /\ UNCHANGED lv
    /\ UNCHANGED <<allocVars, procVars, perm, panicked>>

GrowWalk(p) ==
    /\ At(p, "grow_walk")
    /\ \/ /\ ptr[result(p)] = None           \* mappages() failed
          /\ CallKfree(p, mem(p), "grow_fail", lv[p])
          /\ UNCHANGED ptr
       \/ /\ ptr[result(p)] # None
          /\ ptr' = [ptr EXCEPT ![ptpage(p, region(lv[p].a))] = ptr[result(p)],
                                ![result(p)] = None]
          /\ Goto(p, "grow_map")
          /\ UNCHANGED lv
    /\ UNCHANGED <<allocVars, procVars, perm, panicked>>

GrowFail(p) ==
    /\ At(p, "grow_fail")
    /\ ptr' = [ptr EXCEPT ![mem(p)] = None]
    /\ Dealloc(p)
    /\ UNCHANGED <<allocVars, procVars, perm, panicked>>

\* mappages(): *pte = PA2PTE(pa) | perm | PTE_V
GrowMap(p) ==
    LET va == lv[p].a IN
    /\ At(p, "grow_map")
    /\ \/ /\ Mapped(p, va)
          /\ Panic("mappages: remap")
          /\ UNCHANGED <<tableVars, pc, lv>>
       \/ /\ ~Mapped(p, va)
          /\ ptr' = [ptr EXCEPT ![pte(p, va)] = ptr[mem(p)], ![mem(p)] = None]
          /\ perm' = [perm EXCEPT ![p][va] = RWPerm]
          /\ Goto(p, "uvmalloc")
          /\ lv' = [lv EXCEPT ![p].a = @ + 1]
          /\ UNCHANGED panicked
    /\ UNCHANGED <<allocVars, procVars>>

\* Mutant of SbrkDone: growproc() forgets to store the new size.
SbrkDoneStale(p) ==
    /\ At(p, "sbrk_done")
    /\ Return(p)
    /\ UNCHANGED <<allocVars, procVars, tableVars, panicked>>

\* p->sz = sz
SbrkDone(p) ==
    /\ At(p, "sbrk_done")
    /\ sz' = [sz EXCEPT ![p] = lv[p].nsz]
    /\ Return(p)
    /\ UNCHANGED <<allocVars, state, parent, tableVars, panicked>>

-----------------------------------------------------------------------------
UserStep(p) ==
    \/ \E va \in VA, v \in Value : BeginStore(p, va, v) \/ copyout(p, va, v)
    \/ \E q \in Proc : fork(p, q) \/ wait(p, q)
    \/ \E n \in (-MaxGrow) .. MaxGrow : sbrk(p, n)
    \/ exit(p)

KernelStep(p) ==
    \/ Kalloc(p) \/ KallocRef(p) \/ Kfree(p) \/ KfreePush(p)
    \/ Store(p) \/ write_trap(p) \/ CowCopy(p) \/ CowPte(p) \/ CopyoutWrite(p)
    \/ AllocTrapframe(p) \/ AllocPagetable(p) \/ uvmcopy(p) \/ CopyWalk(p)
    \/ map_new_to_old(p) \/ CopyInc(p) \/ ForkDone(p)
    \/ freeproc(p) \/ FreedTrapframe(p) \/ freewalk(p) \/ FreedPagetable(p)
    \/ uvmunmap(p) \/ UnmapPte(p)
    \/ uvmalloc(p) \/ GrowMem(p) \/ GrowWalk(p) \/ GrowFail(p) \/ GrowMap(p)
    \/ SbrkDone(p)

\* panic() spins for ever. The kernel has failed, and is followed no further.
Halted == panicked # "no" /\ UNCHANGED vars

Next ==
    \/ \E p \in Proc : UserStep(p) \/ KernelStep(p)
    \/ Halted

Spec == Init /\ [][Next]_vars

\* A process inside the kernel, or at a store instruction, keeps running: with no
\* more processes than harts, an idle hart's scheduler() picks up a RUNNABLE one.
FairSpec == Spec /\ \A p \in Proc : WF_vars(KernelStep(p) \/ (At(p, "exit") /\ exit(p)))

-----------------------------------------------------------------------------
TablePanics == {"uvmcopy: page not present", "uvmunmap: not mapped",
                "freewalk: leaf", "mappages: remap"}

LocalVars ==
    [ret : Label, cont : Label, loc : Loc \cup {None}, np : Proc \cup {None},
     a : 0 .. NVA, lim : 0 .. NVA, nsz : 0 .. NVA, val : Value]

\* Types of the kernel's data and of every process's local variables.
TypeOK ==
    /\ freelist \in SUBSET Page
    /\ ref \in [Page -> Count]
    /\ data \in [Page -> Value \cup {Junk}]
    /\ state \in [Proc -> {"UNUSED", "USED", "RUNNABLE", "ZOMBIE"}]
    /\ parent \in [Proc -> Proc \cup {None}]
    /\ sz \in [Proc -> 0 .. NVA]
    /\ ptr \in [Loc -> Page \cup {None}]
    /\ perm \in [Proc -> [VA -> Perm]]
    /\ pc \in [Proc -> Label]
    /\ lv \in [Proc -> LocalVars]
    /\ panicked \in {"no", "kerneltrap", "init exiting"} \cup TablePanics

(***************************************************************************)
(* A location that holds a page is one reference to it, except during the  *)
(* windows the code leaves open: after kalloc() popped the page and before *)
(* it set the count; after kfree() decremented the count and before the    *)
(* caller cleared the pointer; and after map_new_to_old() filled the       *)
(* child's PTE and before increase_no_of_ref().                            *)
(***************************************************************************)
Dropped == {lv[p].loc : p \in {q \in Proc : pc[q] # "kfree"}} \ {None}

Uncounted ==
    Dropped \cup {result(p) : p \in {q \in Proc : pc[q] = "kalloc_ref"}}
            \cup {pte(lv[p].np, lv[p].a) : p \in {q \in Proc : pc[q] = "copy_inc"}}

Refs(pg) == {l \in Loc \ Uncounted : ptr[l] = pg}

\* The count kept in no_of_ref_array is exactly the number of references, in
\* every interleaving of kalloc, kfree, uvmcopy and write_trap on all CPUs.
RefCountExact == \A pg \in Page : ref[pg] = Cardinality(Refs(pg))

\* kalloc has taken pg off the free list and not yet set its count, or kfree has
\* dropped its last reference and not yet pushed it.
InTransit(pg, p) ==
    \/ pc[p] = "kalloc_ref" /\ ptr[result(p)] = pg
    \/ pc[p] = "kfree_push" /\ ptr[lv[p].loc] = pg

\* No page is lost and none is in two places: a page is referenced exactly when
\* it is neither on the free list nor on its way from or to it on one CPU.
PageAccounting ==
    \A pg \in Page :
        /\ pg \in freelist => Refs(pg) = {} /\ \A p \in Proc : ~InTransit(pg, p)
        /\ \A p, q \in Proc : InTransit(pg, p) /\ InTransit(pg, q) => p = q
        /\ Refs(pg) = {} <=> (pg \in freelist \/ \E p \in Proc : InTransit(pg, p))

\* A page that some process may store to directly is reachable from nowhere
\* else: every sharer of a page has lost PTE_W, on all CPUs, before it is shared.
WritableIsPrivate ==
    \A p \in Proc, va \in VA :
        perm[p][va].w /\ pte(p, va) \notin Dropped =>
            \A l \in Loc \ {pte(p, va)} : ptr[l] = ptr[pte(p, va)] => l \in Dropped

\* What p reads at page va: while write_trap is between kfree(old) and the store
\* to the PTE, that is already the copy; a PTE whose page uvmunmap has freed is
\* already gone.
View(p, va) ==
    LET l == pte(p, va)
    IN  IF state[p] \in {"UNUSED", "USED"} \/ ptr[l] = None THEN None
        ELSE IF l \notin Dropped THEN data[ptr[l]]
        ELSE IF ptr[mem(p)] # None THEN data[ptr[mem(p)]] ELSE None

Abstract == INSTANCE PrivateMemory
    WITH Unmapped <- None, space <- [p \in Proc |-> [va \in VA |-> View(p, va)]]

\* Copy-on-write sharing is invisible: reference counts, PTE_CW and the fault
\* handler together implement private address spaces with fork as a copy.
ImplementsPrivateMemory == Abstract!Spec

\* Page tables and p->sz agree at every point where the kernel checks them, also
\* after fork() or sbrk() ran out of memory half way.
TablesConsistent == panicked \notin TablePanics

\* A store to memory the loader or sbrk() made writable completes, or its process
\* is killed: write_trap() makes progress and the fault is not taken for ever.
StoreCompletes ==
    \A p \in Proc : pc[p] = "store" ~> (pc[p] \in {"user", "dead"} \/ panicked # "no")

-----------------------------------------------------------------------------
(* What comments and tests of the repository say, and the code does not do *)

\* kernel/vm.c:314 on uvmcopy(): "returns 0 on success, -1 on failure", and
\* user/usertests.c:1956: "test that fork fails gracefully".
ForkFailsGracefully == \A p \in Proc : pc[p] = "copy_walk" => panicked = "no"

\* user/usertests.c:2424: "check that writes to text segment fault". A page the
\* loader mapped without PTE_W never becomes writable.
TextStaysReadOnly ==
    \A p \in Proc, va \in 0 .. (BootSz - 1) : ~Layout[va].w => ~perm[p][va].w

\* user/usertests.c:2398: "check that there's an invalid page beneath the user
\* stack, to catch stack overflow". A store to a page without PTE_U ends the
\* process.
OverflowIsCaught ==
    \A p \in Proc :
        (pc[p] = "store" /\ lv[p].a < BootSz /\ ~Layout[lv[p].a].u)
            ~> (pc[p] = "dead" \/ panicked # "no")
=============================================================================
