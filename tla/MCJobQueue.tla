------------------------------ MODULE MCJobQueue ------------------------------
(* TLC instance of JobQueue: the values are in the cfg. *)
EXTENDS JobQueue, TLC

Symmetric == Permutations(Callers)
=============================================================================
