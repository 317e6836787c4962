----------------------------- MODULE LineInput -----------------------------
(***************************************************************************)
(* What the console promises readers: keys edit the line being typed; a    *)
(* newline, an end of file or a full buffer makes it readable as a whole;  *)
(* what is readable is read once, in order, and can no longer be edited.   *)
(***************************************************************************)
EXTENDS Sequences, Integers, SequencesExt

CONSTANTS Size, Letter   \* Letter: the keys that are stored, newline and end of file included

VARIABLES ready, line    \* the readable characters, and the line being typed

Init == ready = <<>> /\ line = <<>>

Ends(c, n) == c \in {"nl", "eof"} \/ n = Size

Key(c) ==
    LET l == Append(line, c) IN
    /\ Len(ready) + Len(line) < Size
    /\ IF Ends(c, Len(ready) + Len(l)) THEN ready' = ready \o l /\ line' = <<>>
                                       ELSE line' = l /\ UNCHANGED ready

Erase == line # <<>> /\ line' \in {Front(line), <<>>} /\ UNCHANGED ready

Read == ready # <<>> /\ ready' = Tail(ready) /\ UNCHANGED line

Next == Erase \/ Read \/ \E c \in Letter : Key(c)

Spec == Init /\ [][Next]_<<ready, line>>
=============================================================================
