------------------------------- MODULE MCArp -------------------------------
(* Arp with two entries for three hosts: the table is full, entries are      *)
(* replaced, and kernel timers get each other's addresses.                   *)
EXTENDS Arp
=============================================================================
