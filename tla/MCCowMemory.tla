---------------------------- MODULE MCCowMemory ----------------------------
(***************************************************************************)
(* Instances of CowMemory for TLC.  Physical pages are numbers; the pages  *)
(* of /init are the lowest ones.                                           *)
(***************************************************************************)
EXTENDS CowInvariant
CONSTANT NPages

AllPages == 1 .. NPages

\* /init with writable pages only.
RWLayout == [va \in 0 .. (BootSz - 1) |-> RWPerm]

\* A text page, a stack guard page and the stack.
GuardLayout == [va \in 0 .. (BootSz - 1) |-> [u |-> va # 1, w |-> va > 0, cw |-> FALSE]]

\* The pages /init was given while it booted.
BootPages == [l \in BootLoc |->
    CASE l[1] = "trapframe" -> 1
      [] l[1] = "pagetable" -> 2
      [] l[1] = "ptpage"    -> 3 + l[3]
      [] l[1] = "pte"       -> 4 + region(BootSz - 1) + l[3]]

\* Physical pages are interchangeable, so it is enough to follow the executions
\* in which kalloc() finds the lowest free page at the head of its list.
LowestPageFirst ==
    \A pg \in freelist \ freelist' : \A other \in freelist : pg <= other

\* The state with the names of pages forgotten: what is kept of a page is who holds it, its
\* count and its contents.  A pointer to no page at all is kept apart.
UpToPageNames ==
    LET Holders(pg) == {k \in Loc : ptr[k] = pg}
    IN  <<state, parent, sz, perm, pc, lv, panicked, Cardinality(freelist),
          ptr \in [Loc -> Page \cup {None}],
          {<<Holders(pg), ref[pg], data[pg], pg \in freelist>> : pg \in Page}>>
=============================================================================
