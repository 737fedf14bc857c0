------------------------------ MODULE MCSimulator ------------------------------
(* The simulator for TLC.                                                      *)
EXTENDS Simulator
===============================================================================
