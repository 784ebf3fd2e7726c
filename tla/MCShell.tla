------------------------------ MODULE MCShell ------------------------------
(* The shell with all network devices and a short wait for the network.     *)
EXTENDS Shell

AllNets   == {"none", "eth", "wlan"}
ShortWait == 3
=============================================================================
