----------------------------- MODULE MCConsole -----------------------------
(* Two processes, three characters of input and two of output for TLC. *)
EXTENDS Console

Handlers == {-1}
Locks == {"cons", "tx"}
Channels == {"cons_r", "tx_r"}

Reads2 == << <<"consoleread", 2>> >>
Reads4 == << <<"consoleread", 4>> >>
Writes(n) == << <<"consolewrite", n>> >>

\* A line with erased characters; a line too long for the buffer and two readers; an end
\* of file after part of a line; two writers, echo and a full output ring.
Scripts == {
    [keys |-> <<"x", "^H", "y", "cr">>, calls |-> <<Reads2, Writes(3)>>],
    [keys |-> <<"x", "x", "y", "x", "^U", "nl">>, calls |-> <<Reads4, Reads2>>],
    [keys |-> <<"x", "eof", "^H", "^P", "y", "^U">>, calls |-> <<Reads2 \o Reads2, Writes(1)>>],
    [keys |-> <<"x", "nul">>, calls |-> <<Writes(3), Writes(1)>>] }
=============================================================================
