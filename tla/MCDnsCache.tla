------------------------------ MODULE MCDnsCache ------------------------------
(* The DNS connector for TLC.                                                  *)
EXTENDS DnsCache
===============================================================================
