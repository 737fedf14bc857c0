---------------------------- MODULE MCTowerEndpoint ----------------------------
(* Tower futures and their owner for TLC.                                      *)
EXTENDS TowerEndpoint
===============================================================================
