------------------------- MODULE AddressResolution -------------------------
(***************************************************************************)
(* What CARPHandler promises the link layer, without table, timers and     *)
(* packets: the frames for an address that is not known are kept, and they *)
(* leave together, either to the address when it has been answered, or     *)
(* back to the senders when it has not.  An address that was answered is   *)
(* never given up.  Known addresses may be forgotten at any time.          *)
(***************************************************************************)
EXTENDS Naturals

CONSTANT Hosts

VARIABLES
    status,    \* "unknown", "asked", "answered" or "known", for every host
    waiting    \* the number of frames kept for the host

vars == <<status, waiting>>

TypeOK ==
    /\ status \in [Hosts -> {"unknown", "asked", "answered", "known"}]
    /\ waiting \in [Hosts -> Nat]

Init ==
    /\ status = [ip \in Hosts |-> "unknown"]
    /\ waiting = [ip \in Hosts |-> 0]

\* The first frame for an address; to make room a known address is forgotten.
Ask(ip) ==
    /\ status[ip] = "unknown"
    /\ \/ status' = [status EXCEPT ![ip] = "asked"]
       \/ \E old \in Hosts :
             /\ status[old] = "known"
             /\ status' = [status EXCEPT ![ip] = "asked", ![old] = "unknown"]
    /\ waiting' = [waiting EXCEPT ![ip] = 1]

Wait(ip) ==
    /\ status[ip] \in {"asked", "answered"}
    /\ waiting' = [waiting EXCEPT ![ip] = @ + 1]
    /\ UNCHANGED status

Answer(ip) ==
    /\ status[ip] = "asked"
    /\ status' = [status EXCEPT ![ip] = "answered"]
    /\ UNCHANGED waiting

Deliver(ip) ==
    /\ status[ip] = "answered"
    /\ status' = [status EXCEPT ![ip] = "known"]
    /\ waiting' = [waiting EXCEPT ![ip] = 0]

GiveUp(ip) ==
    /\ status[ip] = "asked"
    /\ status' = [status EXCEPT ![ip] = "unknown"]
    /\ waiting' = [waiting EXCEPT ![ip] = 0]

\* A host that asks for this one tells its own address.
Learn(ip) ==
    /\ status[ip] = "unknown"
    /\ status' = [status EXCEPT ![ip] = "known"]
    /\ UNCHANGED waiting

Forget(old) ==
    /\ status' = [ip \in Hosts |-> IF ip \in old THEN "unknown" ELSE status[ip]]
    /\ UNCHANGED waiting

Next ==
    \/ \E ip \in Hosts :
          Ask(ip) \/ Wait(ip) \/ Answer(ip) \/ Deliver(ip) \/ GiveUp(ip) \/ Learn(ip)
    \/ \E old \in SUBSET {ip \in Hosts : status[ip] = "known"} : Forget(old)

Spec == Init /\ [][Next]_vars
=============================================================================
