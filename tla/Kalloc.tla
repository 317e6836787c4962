------------------------------- MODULE Kalloc -------------------------------
(***************************************************************************)
(* The physical page allocator of kernel/kalloc.c: the free list under     *)
(* kmem.lock and the reference counts of shared pages under no_of_ref.     *)
(* kalloc() and kfree() each take the two locks one after the other, so    *)
(* each is two steps here, and any other CPU may run between them.         *)
(* The free list is a set: which free page kalloc() returns is its choice. *)
(***************************************************************************)
EXTENDS Integers

CONSTANTS
    Page,      \* physical pages from end[] to PHYSTOP
    Value,     \* what a user may store in a page
    Zero,      \* memset(.., 0, PGSIZE)
    Junk,      \* memset(.., 1, ..) in kfree and memset(.., 5, ..) in kalloc
    RefMod     \* 2^32: no_of_ref_array holds uint

ASSUME KallocAssumption ==
    /\ Zero \in Value
    /\ Junk \notin Value
    /\ RefMod \in Nat /\ RefMod > 1

VARIABLES
    freelist,  \* kmem.freelist
    ref,       \* no_of_ref_array
    data       \* the contents of every page

allocVars == <<freelist, ref, data>>

Count == 0 .. (RefMod - 1)

\* kalloc(), first half: unlink a page under kmem.lock.
kalloc_pop(pg) ==
    /\ pg \in freelist
    /\ freelist' = freelist \ {pg}
    /\ UNCHANGED <<ref, data>>

\* kalloc(), second half: junk the page, and its count is 1 under no_of_ref.
kalloc_ref(pg) ==
    /\ ref' = [ref EXCEPT ![pg] = 1]
    /\ data' = [data EXCEPT ![pg] = Junk]
    /\ UNCHANGED freelist

\* kfree(), first half: unsigned decrement under no_of_ref. A positive result
\* ends kfree(); otherwise kfree_push follows.
Dec(pg) == (ref[pg] - 1 + RefMod) % RefMod

kfree_dec(pg) ==
    /\ ref' = [ref EXCEPT ![pg] = Dec(pg)]
    /\ UNCHANGED <<freelist, data>>

\* kfree(), second half: junk the page and push it under kmem.lock.
kfree_push(pg) ==
    /\ data' = [data EXCEPT ![pg] = Junk]
    /\ freelist' = freelist \cup {pg}
    /\ UNCHANGED ref

\* increase_no_of_ref(pa)
increase_no_of_ref(pg) ==
    /\ ref' = [ref EXCEPT ![pg] = (@ + 1) % RefMod]
    /\ UNCHANGED <<freelist, data>>
=============================================================================
