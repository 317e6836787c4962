----------------------------- MODULE ByteStream -----------------------------
(***************************************************************************)
(* What a pipe promises: the bytes written come out in their order, each   *)
(* at most once, at most Size of them are on the way, a read of an empty   *)
(* pipe ends only when nobody can write any more, and an end that is       *)
(* closed stays closed until both are and the pipe is made anew.           *)
(***************************************************************************)
EXTENDS Integers, Sequences

CONSTANTS Byte, Size

VARIABLES q, rd, wr, out   \* bytes on the way, open ends, what the last read returned

vars == <<q, rd, wr, out>>

Init == q = <<>> /\ rd \in BOOLEAN /\ wr = rd /\ out = <<>>

Open == ~rd /\ ~wr /\ q' = <<>> /\ rd' = TRUE /\ wr' = TRUE /\ UNCHANGED out

\* Any byte is put behind the others.
Put ==
    /\ rd /\ wr /\ Len(q) < Size
    /\ q' \in Seq(Byte) /\ Len(q') = Len(q) + 1 /\ SubSeq(q', 1, Len(q)) = q
    /\ UNCHANGED <<rd, wr, out>>

\* k bytes are delivered.  One more may be lost, if it cannot be copied to the reader.
Take ==
    /\ rd /\ (q # <<>> \/ ~wr)
    /\ \E k \in 0 .. Len(q), lost \in {0, 1} :
        /\ k + lost <= Len(q)
        /\ out' = SubSeq(q, 1, k)
        /\ q' = SubSeq(q, k + lost + 1, Len(q))
    /\ UNCHANGED <<rd, wr>>

Close ==
    /\ \/ rd /\ rd' = FALSE /\ wr' = wr
       \/ wr /\ wr' = FALSE /\ rd' = rd
    /\ UNCHANGED <<q, out>>

Next == Open \/ Put \/ Take \/ Close

Spec == Init /\ [][Next]_vars
=============================================================================
