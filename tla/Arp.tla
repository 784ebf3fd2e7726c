-------------------------------- MODULE Arp --------------------------------
(***************************************************************************)
(* CARPHandler of circle/lib/net/arphandler.cpp: the table that maps IP    *)
(* addresses to MAC addresses, the frames that wait for one, the requests  *)
(* that are repeated when a kernel timer expires, and the packets that     *)
(* arrive, late, twice or never.                                           *)
(*                                                                         *)
(* Resolve is called by the tasks of the network; Process belongs to the   *)
(* task net and does not yield, so Resolve runs only between two calls of  *)
(* it.  TimerHandler is called by the timer interrupt, between any two     *)
(* steps.  The sections under m_SpinLock, which masks that interrupt, are  *)
(* one step.                                                               *)
(*                                                                         *)
(* A host is its IP address and its MAC address, so packets tell the       *)
(* truth; a frame is the host it is for.  Times are left out: a running    *)
(* timer may fire whenever it likes, and any valid entry may be the oldest *)
(* one or have reached the end of its life.  A field that is not read      *)
(* again before it is written is NULL, or 0.                               *)
(***************************************************************************)
EXTENDS Naturals, Sequences

CONSTANTS
    Hosts,
    Handles,            \* the addresses of kernel timers
    NULL,
    ARP_MAX_ENTRIES,    \* 20 in arphandler.h
    ARP_MAX_ATTEMPTS,   \* 3
    MaxQueue,           \* bound: the frames that wait for one address
    MaxRx               \* bound: the packets received between two calls of Process

ASSUME ArpAssumption ==
    /\ NULL \notin Hosts \cup Handles
    /\ ARP_MAX_ENTRIES \in Nat \ {0}
    /\ NULL \notin 0 .. ARP_MAX_ENTRIES - 1
    /\ ARP_MAX_ATTEMPTS \in Nat \ {0}
    /\ MaxQueue \in Nat \ {0} /\ MaxRx \in Nat

VARIABLES
    m_nEntries,
    State, IPAddress, MACAddress, pTxQueue,   \* m_Entry, one function per field
    hTimer, nAttempts,
    running,       \* the entry a running kernel timer is for
    m_pRxQueue,
    pc, nEntry,    \* where Process is
    timeouts,      \* history: the requests of this resolution that timed out
    stolen,        \* history: the entry's timer was cancelled for another entry
    misdirected,   \* history: a frame went to another host than the one it is for
    failed         \* the assertion on the oldest entry failed

table   == <<m_nEntries, State, IPAddress, MACAddress>>
timers  == <<hTimer, nAttempts, running, timeouts, stolen>>
process == <<m_pRxQueue, pc, nEntry>>
vars    == <<table, pTxQueue, timers, process, misdirected, failed>>

Slots  == 0 .. ARP_MAX_ENTRIES - 1
States == {"FreeSlot", "RequestSent", "RetryRequest", "SendTxQueue", "Valid"}
Packets == [nOPCode : {"request", "reply"}, sender : Hosts]

TypeOK ==
    /\ m_nEntries \in 0 .. ARP_MAX_ENTRIES
    /\ State \in [Slots -> States]
    /\ IPAddress \in [Slots -> Hosts \cup {NULL}]
    /\ MACAddress \in [Slots -> Hosts \cup {NULL}]
    /\ pTxQueue \in [Slots -> Seq(Hosts)]
    /\ hTimer \in [Slots -> Handles \cup {NULL}]
    /\ nAttempts \in [Slots -> 0 .. ARP_MAX_ATTEMPTS]
    /\ running \in [Handles -> Slots \cup {NULL}]
    /\ m_pRxQueue \in Seq(Packets)
    /\ pc \in {"idle", "packets", "entries", "cleanup"}
    /\ nEntry \in 0 .. ARP_MAX_ENTRIES
    /\ timeouts \in [Slots -> Nat]
    /\ stolen \in [Slots -> BOOLEAN]
    /\ misdirected \in BOOLEAN /\ failed \in BOOLEAN

Init ==
    /\ m_nEntries = 0
    /\ State = [n \in Slots |-> "FreeSlot"]
    /\ IPAddress = [n \in Slots |-> NULL]
    /\ MACAddress = [n \in Slots |-> NULL]
    /\ pTxQueue = [n \in Slots |-> <<>>]
    /\ hTimer = [n \in Slots |-> NULL]
    /\ nAttempts = [n \in Slots |-> 0]
    /\ running = [h \in Handles |-> NULL]
    /\ m_pRxQueue = <<>> /\ pc = "idle" /\ nEntry = 0
    /\ timeouts = [n \in Slots |-> 0]
    /\ stolen = [n \in Slots |-> FALSE]
    /\ misdirected = FALSE /\ failed = FALSE

Used == {n \in Slots : n < m_nEntries}

\* What a loop over the table finds first.
First(S) == {n \in S : \A k \in S : n <= k}

Waiting(n) == State[n] \in {"RequestSent", "RetryRequest"}
Pending(n) == Waiting(n) \/ State[n] = "SendTxQueue"

EntriesOf(ip) == {n \in Used : State[n] # "FreeSlot" /\ IPAddress[n] = ip}

\* A free slot, or one more entry: nothing when the table is full.
NewSlot ==
    LET free == {n \in Used : State[n] = "FreeSlot"}
    IN  IF free # {} THEN First(free) ELSE {m_nEntries} \cap Slots

\* A plausible slip: with no free slot any entry is taken, whatever it waits for.
SlotToResolveAny == IF NewSlot # {} THEN NewSlot ELSE Used

SlotToResolve ==
    IF NewSlot # {} THEN NewSlot ELSE {n \in Used : State[n] = "Valid"}

Occupy(n) ==
    m_nEntries' = IF n = m_nEntries THEN m_nEntries + 1 ELSE m_nEntries

StartKernelTimer(n) ==
    \E h \in Handles :
        /\ running[h] = NULL
        /\ running' = [running EXCEPT ![h] = n]
        /\ hTimer' = [hTimer EXCEPT ![n] = h]

\* A handle is looked up in the list of timers: it may belong to another entry by now.
CancelKernelTimer(n) ==
    LET h == hTimer[n]
    IN  /\ running' = [g \in Handles |-> IF g = h THEN NULL ELSE running[g]]
        /\ hTimer' = [hTimer EXCEPT ![n] = NULL]
        /\ stolen' = [k \in Slots |-> k # n /\ (stolen[k] \/ (h # NULL /\ running[h] = k))]

\* The entry does not wait any more: its count and its history are not read again.
EndAttempts(n) ==
    /\ nAttempts' = [nAttempts EXCEPT ![n] = 0]
    /\ timeouts' = [timeouts EXCEPT ![n] = 0]

-----------------------------------------------------------------------------
Enqueue(n, ip) == pTxQueue' = [pTxQueue EXCEPT ![n] = Append(@, ip)]

\* Resolve finds the address: the caller sends the frame itself.
ResolveHit(ip) ==
    \E n \in First(EntriesOf(ip)) :
        /\ State[n] = "Valid"
        /\ misdirected' = (misdirected \/ MACAddress[n] # ip)
        /\ UNCHANGED <<table, pTxQueue, timers, process, failed>>

\* Resolve finds that the address was asked for: the frame waits with the others.
ResolveWait(ip) ==
    \E n \in First(EntriesOf(ip)) :
        /\ Pending(n)
        /\ Len(pTxQueue[n]) < MaxQueue
        /\ Enqueue(n, ip)
        /\ UNCHANGED <<table, timers, process, misdirected, failed>>

RequestFor(n, ip, attempts) ==
    /\ Occupy(n)
    /\ State' = [State EXCEPT ![n] = "RequestSent"]
    /\ IPAddress' = [IPAddress EXCEPT ![n] = ip]
    /\ MACAddress' = [MACAddress EXCEPT ![n] = NULL]
    /\ Enqueue(n, ip)
    /\ nAttempts' = [nAttempts EXCEPT ![n] = attempts]
    /\ StartKernelTimer(n)
    /\ timeouts' = [timeouts EXCEPT ![n] = 0]
    /\ stolen' = [stolen EXCEPT ![n] = FALSE]

\* A plausible slip: the first request is not counted.
BeginUncounted(n, ip) == RequestFor(n, ip, 0)

\* Resolve makes an entry and broadcasts the first request.
Begin(n, ip) == RequestFor(n, ip, 1)

ResolveNew(ip) ==
    /\ EntriesOf(ip) = {}
    /\ \E n \in SlotToResolve : Begin(n, ip)
    /\ UNCHANGED <<process, misdirected, failed>>

\* No entry is free or valid: assert (nOldestEntry < m_nEntries).
ResolveFull(ip) ==
    /\ EntriesOf(ip) = {}
    /\ SlotToResolve = {}
    /\ failed' = TRUE
    /\ UNCHANGED <<table, pTxQueue, timers, process, misdirected>>

Resolve(ip) ==
    /\ pc = "idle" /\ ~failed
    /\ \/ ResolveHit(ip)
       \/ ResolveWait(ip)
       \/ ResolveNew(ip)
       \/ ResolveFull(ip)

-----------------------------------------------------------------------------
\* CLinkLayer::Process puts the ARP packets it has received into the queue,
\* before it calls Process.
Arrive(packet) ==
    /\ pc = "idle" /\ ~failed
    /\ Len(m_pRxQueue) < MaxRx
    /\ m_pRxQueue' = Append(m_pRxQueue, packet)
    /\ UNCHANGED <<table, pTxQueue, timers, pc, nEntry, misdirected, failed>>

ProcessStart ==
    /\ pc = "idle" /\ ~failed
    /\ pc' = "packets"
    /\ UNCHANGED <<table, pTxQueue, timers, m_pRxQueue, nEntry, misdirected, failed>>

Learn(host) ==
    \E n \in NewSlot :
        /\ Occupy(n)
        /\ State' = [State EXCEPT ![n] = "Valid"]
        /\ IPAddress' = [IPAddress EXCEPT ![n] = host]
        /\ MACAddress' = [MACAddress EXCEPT ![n] = host]
        /\ UNCHANGED timers

\* A plausible slip: only a valid entry of the sender is looked for.
RequestReceivedUnchecked(host) ==
    \/ /\ \A n \in EntriesOf(host) : State[n] # "Valid"
       /\ Learn(host)
    \/ /\ (\E n \in EntriesOf(host) : State[n] = "Valid") \/ NewSlot = {}
       /\ UNCHANGED <<table, timers>>

\* A request tells the address of its sender: kept if there is room and the
\* address has no entry yet.
RequestReceived(host) ==
    \/ EntriesOf(host) = {} /\ Learn(host)
    \/ EntriesOf(host) # {} /\ UNCHANGED <<table, timers>>
    \/ NewSlot = {} /\ UNCHANGED <<table, timers>>

\* A plausible slip: the reply is taken to be for the first entry that waits.
AskedFirst(host) == First({n \in Used : Waiting(n)})

\* The entry that a reply of a host is for.
Asked(host) == First({n \in Used : Waiting(n) /\ IPAddress[n] = host})

Answered(n, host) ==
    /\ MACAddress' = [MACAddress EXCEPT ![n] = host]
    /\ State' = [State EXCEPT ![n] = "SendTxQueue"]
    /\ EndAttempts(n)
    /\ UNCHANGED <<m_nEntries, IPAddress>>

\* A plausible slip: the timer is left running.
ReplyReceivedNoCancel(host) ==
    \/ \E n \in Asked(host) : Answered(n, host) /\ UNCHANGED <<hTimer, running, stolen>>
    \/ Asked(host) = {} /\ UNCHANGED <<table, timers>>

ReplyReceived(host) ==
    \/ \E n \in Asked(host) : Answered(n, host) /\ CancelKernelTimer(n)
    \/ Asked(host) = {} /\ UNCHANGED <<table, timers>>

ProcessPacket ==
    /\ pc = "packets"
    /\ \/ /\ m_pRxQueue # <<>>
          /\ LET packet == Head(m_pRxQueue)
             IN  \/ packet.nOPCode = "request" /\ RequestReceived(packet.sender)
                 \/ packet.nOPCode = "reply" /\ ReplyReceived(packet.sender)
          /\ m_pRxQueue' = Tail(m_pRxQueue)
          /\ UNCHANGED <<pc, nEntry>>
       \/ /\ m_pRxQueue = <<>>
          /\ pc' = "entries" /\ nEntry' = 0
          /\ UNCHANGED <<table, timers, m_pRxQueue>>
    /\ UNCHANGED <<pTxQueue, misdirected, failed>>

-----------------------------------------------------------------------------
RequestAgain(n) ==
    /\ nAttempts' = [nAttempts EXCEPT ![n] = @ + 1]
    /\ State' = [State EXCEPT ![n] = "RequestSent"]
    /\ StartKernelTimer(n)
    /\ UNCHANGED <<m_nEntries, IPAddress, MACAddress, pTxQueue, timeouts, stolen, misdirected>>

\* The request has timed out, and is not the last one: it is sent again.
Retry(n) ==
    State[n] = "RetryRequest" /\ nAttempts[n] < ARP_MAX_ATTEMPTS /\ RequestAgain(n)

Release(n) ==
    /\ State' = [State EXCEPT ![n] = "FreeSlot"]
    /\ IPAddress' = [IPAddress EXCEPT ![n] = NULL]
    /\ hTimer' = [hTimer EXCEPT ![n] = NULL]
    /\ EndAttempts(n)
    /\ UNCHANGED <<m_nEntries, MACAddress, running, stolen, misdirected>>

\* The last one: the frames that waited are reported (CLinkLayer::ResolveFailed).
GiveUp(n) ==
    /\ State[n] = "RetryRequest" /\ nAttempts[n] >= ARP_MAX_ATTEMPTS
    /\ pTxQueue' = [pTxQueue EXCEPT ![n] = <<>>]
    /\ Release(n)

\* The reply has come: the frames that waited go to the address it told.
SendTxQueue(n) ==
    /\ State[n] = "SendTxQueue"
    /\ misdirected' = (misdirected \/ \E i \in DOMAIN pTxQueue[n] : pTxQueue[n][i] # MACAddress[n])
    /\ pTxQueue' = [pTxQueue EXCEPT ![n] = <<>>]
    /\ State' = [State EXCEPT ![n] = "Valid"]
    /\ UNCHANGED <<m_nEntries, IPAddress, MACAddress, timers>>

ProcessEntry ==
    /\ pc = "entries"
    /\ \/ /\ nEntry < m_nEntries
          /\ \/ Retry(nEntry)
             \/ GiveUp(nEntry)
             \/ SendTxQueue(nEntry)
             \/ /\ State[nEntry] \notin {"RetryRequest", "SendTxQueue"}
                /\ UNCHANGED <<table, pTxQueue, timers, misdirected>>
          /\ nEntry' = nEntry + 1 /\ pc' = pc
       \/ /\ nEntry = m_nEntries
          /\ pc' = "cleanup" /\ nEntry' = 0
          /\ UNCHANGED <<table, pTxQueue, timers, misdirected>>
    /\ UNCHANGED <<m_pRxQueue, failed>>

\* Once a minute the valid entries that were not used for ten are dropped.
Cleanup ==
    /\ pc = "cleanup"
    /\ pc' = "idle"
    /\ \E old \in SUBSET {n \in Used : State[n] = "Valid"} :
          /\ State' = [n \in Slots |-> IF n \in old THEN "FreeSlot" ELSE State[n]]
          /\ IPAddress' = [n \in Slots |-> IF n \in old THEN NULL ELSE IPAddress[n]]
          /\ MACAddress' = [n \in Slots |-> IF n \in old THEN NULL ELSE MACAddress[n]]
    /\ UNCHANGED <<m_nEntries, pTxQueue, timers, m_pRxQueue, nEntry, misdirected, failed>>

-----------------------------------------------------------------------------
Expire(h, told) ==
    /\ running[h] # NULL /\ ~failed
    /\ LET n == running[h]
       IN  /\ State' = [State EXCEPT ![n] = IF @ = "RequestSent" /\ told THEN "RetryRequest" ELSE @]
           /\ timeouts' = [timeouts EXCEPT ![n] = @ + 1]
    /\ running' = [running EXCEPT ![h] = NULL]
    /\ UNCHANGED <<m_nEntries, IPAddress, MACAddress, pTxQueue, hTimer, nAttempts, stolen,
                   process, misdirected, failed>>

\* A plausible slip: the entry is not told when its timer expires while Process runs.
TimerHandlerMissed(h) == Expire(h, pc = "idle")

\* The timer interrupt: the timer is gone, its handle stays in the entry.
TimerHandler(h) == Expire(h, TRUE)

Process == ProcessStart \/ ProcessPacket \/ ProcessEntry \/ Cleanup

Next ==
    \/ \E ip \in Hosts : Resolve(ip)
    \/ \E packet \in Packets : Arrive(packet)
    \/ ProcessStart
    \/ ProcessPacket
    \/ ProcessEntry
    \/ Cleanup
    \/ \E h \in Handles : TimerHandler(h)

\* CNetTask calls Process and yields, for ever; the timer interrupt comes.
Fairness ==
    /\ WF_vars(Process)
    /\ \A h \in Handles : WF_vars(TimerHandler(h))

Spec == Init /\ [][Next]_vars /\ Fairness
-----------------------------------------------------------------------------
(***************************************************************************)
(* Properties                                                              *)
(***************************************************************************)

\* An address has one entry at most, so that the first one found is the one:
\* Resolve, RequestReceived and the reuse of slots never make a second.
OneEntry ==
    \A n, k \in Slots :
        State[n] # "FreeSlot" /\ State[k] # "FreeSlot" /\ IPAddress[n] = IPAddress[k] => n = k

\* Frames wait exactly with the pending entries, and each for the address its
\* entry asks for: none is left behind in a slot that is given to another address.
QueuesRight ==
    \A n \in Slots :
        /\ pTxQueue[n] # <<>> <=> Pending(n)
        /\ \A i \in DOMAIN pTxQueue[n] : pTxQueue[n][i] = IPAddress[n]

\* The two together: however a slot was reused, its address is its own, and the
\* frames in its queue are those that wait for that address.
EntriesRight == OneEntry /\ QueuesRight

\* No frame goes to another host than the one it is for, whatever slots and
\* timers were reused on its way.
RightHost == ~misdirected

\* An entry that waits for a reply has a timer of its own that runs, and no timer
\* runs for another entry: a timer that expires always has a request to repeat.
\* Left out are the entries whose timer was cancelled through a stale handle.
TimerRuns ==
    /\ \A n \in Slots : State[n] = "RequestSent" /\ ~stolen[n] => \E h \in Handles : running[h] = n
    /\ \A h \in Handles :
          running[h] # NULL => State[running[h]] = "RequestSent" /\ hTimer[running[h]] = h

\* Waiting frames are reported as undeliverable only after ARP_MAX_ATTEMPTS
\* requests, each of which was given its time: an earlier user of the slot, or a
\* timer of it, does not shorten that.
FailsAfterAllAttempts ==
    [][\A n \in Slots :
          State[n] = "RetryRequest" /\ State'[n] = "FreeSlot" => timeouts[n] = ARP_MAX_ATTEMPTS]_vars

\* A pending entry comes to an end, however packets are lost and frames added, if
\* its timer was not cancelled through a stale handle.
ResolveEnds ==
    \A n \in Slots : Pending(n) ~> (~Pending(n) \/ stolen[n] \/ failed)

\* The table and its queues keep the promise of AddressResolution.
StatusOf(ip) ==
    IF EntriesOf(ip) = {} THEN "unknown"
    ELSE LET s == State[CHOOSE n \in EntriesOf(ip) : TRUE]
         IN  IF s = "Valid" THEN "known" ELSE IF s = "SendTxQueue" THEN "answered" ELSE "asked"

WaitingFor(ip) ==
    IF EntriesOf(ip) = {} THEN 0 ELSE Len(pTxQueue[CHOOSE n \in EntriesOf(ip) : TRUE])

Status == [ip \in Hosts |-> StatusOf(ip)]
Frames == [ip \in Hosts |-> WaitingFor(ip)]

Resolution == INSTANCE AddressResolution WITH status <- Status, waiting <- Frames

\* What the link layer sees is AddressResolution: no frame is lost or left, none
\* waits for an address that is known, and no answered address is given up.
ImplementsResolution == Resolution!Spec
=============================================================================
