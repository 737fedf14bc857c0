---------------------------- MODULE MCTokioEndpoint ----------------------------
(* Tokio tasks for TLC; tasks are interchangeable.                             *)
EXTENDS TokioEndpoint

Symmetry == Permutations(Task)
===============================================================================
