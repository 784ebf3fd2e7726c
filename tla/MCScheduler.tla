---------------------------- MODULE MCScheduler ----------------------------
(* Small instances of Scheduler for TLC: the clients' roles as functions.  *)
EXTENDS Scheduler

CONSTANTS a, b, c, e1, e2

\* Task a receives on e1, as a task in CUDPConnection::Receive does; the main
\* task, if there is a second event, receives on that one.
Receivers == [e \in Events |-> IF e = e1 THEN a ELSE Main]

NobodyJoins == [t \in Tasks |-> NULL]
\* The main task waits for the end of task a.
MainJoinsA == [t \in Tasks |-> IF t = a THEN Main ELSE NULL]
=============================================================================
