------------------------------- MODULE MCLog -------------------------------
(* Instances of Log for TLC: constants of the model and nothing else. *)
EXTENDS Log
=============================================================================
