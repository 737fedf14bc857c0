---------------------------- MODULE MCLatencyWindow ----------------------------
(* The estimator for TLC.                                                      *)
EXTENDS LatencyWindow
===============================================================================
