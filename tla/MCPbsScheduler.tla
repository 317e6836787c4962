--------------------------- MODULE MCPbsScheduler ---------------------------
(* Instances of PbsScheduler for TLC. *)
EXTENDS PbsScheduler

TwoCpus == {0, 1}

\* p->rbi is written by every comparison and read by nothing: the runs that are
\* not about it do not tell states apart by it.
WithoutRbi == <<[p \in Slot |-> [proc[p] EXCEPT !.rbi = 0]],
                lock, cpu, ticks, nextpid, calls, due, tk, fresh>>
=============================================================================
