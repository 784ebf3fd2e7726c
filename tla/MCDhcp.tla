------------------------------- MODULE MCDhcp -------------------------------
(* Dhcp with two tries of one and two units, a lease of eight, and servers    *)
(* that leave out times, or send one that does not fit.                       *)
EXTENDS Dhcp

TwoTries == <<1, 3>>

AllTimes == {[T1 |-> 0, T2 |-> 0], [T1 |-> 0, T2 |-> 3], [T1 |-> 6, T2 |-> 0]}
=============================================================================
