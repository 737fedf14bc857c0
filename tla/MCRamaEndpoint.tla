---------------------------- MODULE MCRamaEndpoint ----------------------------
(* Rama callers for TLC; tasks are interchangeable.                            *)
EXTENDS RamaEndpoint

Symmetry == Permutations(Task)
===============================================================================
