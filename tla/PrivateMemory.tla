--------------------------- MODULE PrivateMemory ---------------------------
(***************************************************************************)
(* What fork() promises about memory: every process has an address space   *)
(* of its own, a child starts with a copy of its parent's, and from then   *)
(* on a store is visible to the process that made it and to no other.      *)
(* CowMemory is shown to implement this.                                   *)
(***************************************************************************)
CONSTANTS Proc, VA, Value, Zero, Unmapped

VARIABLE space    \* space[p][va]: what p reads at page va, or Unmapped

NoSpace == [va \in VA |-> Unmapped]

\* p stores v, or the kernel copies v out to p.
Write(p, va, v) ==
    /\ space[p][va] # Unmapped
    /\ space' = [space EXCEPT ![p][va] = v]

\* The child q gets everything p has, at one instant.
Fork(p, q) ==
    /\ space[q] = NoSpace
    /\ space' = [space EXCEPT ![q] = space[p]]

\* p's space grows by a page of zeros.
Grow(p, va) ==
    /\ space[p][va] = Unmapped
    /\ space' = [space EXCEPT ![p][va] = Zero]

\* A page of p is given back.
Drop(p, va) ==
    /\ space[p][va] # Unmapped
    /\ space' = [space EXCEPT ![p][va] = Unmapped]

Init == space \in [Proc -> [VA -> {Zero, Unmapped}]]

Next ==
    \E p \in Proc :
        \/ \E va \in VA : Grow(p, va) \/ Drop(p, va) \/ \E v \in Value : Write(p, va, v)
        \/ \E q \in Proc : Fork(p, q)

Spec == Init /\ [][Next]_space
=============================================================================
