----------------------------- MODULE BlockArray -----------------------------
(***************************************************************************)
(* What the buffer cache promises its callers: each block has one value    *)
(* and at most one process that holds it; only that process changes the    *)
(* value.                                                                  *)
(***************************************************************************)
CONSTANTS Block, Proc, Value

VARIABLES user, val   \* user[n] is the process that holds block n, or 0

Init == user = [n \in Block |-> 0] /\ val \in [Block -> Value]

Take(n) == user[n] = 0 /\ user'[n] \in Proc /\ val'[n] = val[n]
Change(n) == user[n] \in Proc /\ user'[n] = user[n] /\ val'[n] \in Value
Give(n) == user[n] \in Proc /\ user'[n] = 0 /\ val'[n] = val[n]
Rest(n) == user'[n] = user[n] /\ val'[n] = val[n]

Next ==
    /\ DOMAIN user' = Block /\ DOMAIN val' = Block
    /\ \A n \in Block : Take(n) \/ Change(n) \/ Give(n) \/ Rest(n)

Spec == Init /\ [][Next]_<<user, val>>
=============================================================================
