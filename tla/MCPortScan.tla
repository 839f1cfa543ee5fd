----------------------------- MODULE MCPortScan -----------------------------
(* PortScan for TLC: two addresses and requested ports 0 to 3, of which 1    *)
(* and 2 exist: every refusal, and up to four probes on one to three slots.  *)
EXTENDS PortScan
=============================================================================
