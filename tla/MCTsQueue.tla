------------------------------ MODULE MCTsQueue ------------------------------
(* Three threads that push, pop and stop as they like.                       *)
EXTENDS TsQueue
=============================================================================
