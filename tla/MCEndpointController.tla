------------------------- MODULE MCEndpointController -------------------------
(* Small instances of EndpointController for TLC.                              *)
EXTENDS EndpointController
===============================================================================
