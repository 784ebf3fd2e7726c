----------------------------- MODULE ArpProofs -----------------------------
(***************************************************************************)
(* The safety properties of Arp for every number of entries, hosts and     *)
(* timers: one entry per address, frames where they belong, timers that    *)
(* run for the right entry, no resolution that ends too early, and the     *)
(* refinement of AddressResolution, each host for itself.                  *)
(***************************************************************************)
EXTENDS Arp, SequenceTheorems, TLAPS

LEMMA TypeInit == Init => TypeOK
<1> SUFFICES ASSUME Init PROVE TypeOK
  OBVIOUS
<1>1. 0 \in 0 .. ARP_MAX_ENTRIES /\ 0 \in 0 .. ARP_MAX_ATTEMPTS
  BY ArpAssumption
<1>2. State \in [Slots -> States] /\ IPAddress \in [Slots -> Hosts \cup {NULL}]
      /\ MACAddress \in [Slots -> Hosts \cup {NULL}]
  BY DEF Init, States
<1>3. pTxQueue \in [Slots -> Seq(Hosts)] /\ m_pRxQueue \in Seq(Packets)
  BY DEF Init
<1>4. /\ hTimer \in [Slots -> Handles \cup {NULL}]
      /\ running \in [Handles -> Slots \cup {NULL}]
  BY DEF Init
<1>5. nAttempts \in [Slots -> 0 .. ARP_MAX_ATTEMPTS] /\ timeouts \in [Slots -> Nat]
  BY <1>1 DEF Init
<1>6. stolen \in [Slots -> BOOLEAN]
  BY DEF Init
<1> QED
  BY <1>1, <1>2, <1>3, <1>4, <1>5, <1>6 DEF Init, TypeOK

\* What the loops over the table return is an entry of the table.
LEMMA EntryFacts ==
    ASSUME NEW ip, NEW n \in First(EntriesOf(ip))
    PROVE  n \in Slots /\ n < m_nEntries /\ State[n] # "FreeSlot" /\ IPAddress[n] = ip
BY DEF EntriesOf, First, Used

LEMMA NewSlotFacts ==
    ASSUME NEW n \in NewSlot
    PROVE  n \in Slots /\ (n = m_nEntries \/ (n < m_nEntries /\ State[n] = "FreeSlot"))
BY DEF NewSlot, First, Used

LEMMA SlotToResolveFacts ==
    ASSUME NEW n \in SlotToResolve
    PROVE  /\ n \in Slots
           /\ \/ n = m_nEntries
              \/ n < m_nEntries /\ State[n] \in {"FreeSlot", "Valid"}
BY NewSlotFacts DEF SlotToResolve, Used

LEMMA AskedFacts ==
    ASSUME NEW host, NEW n \in Asked(host)
    PROVE  n \in Slots /\ n < m_nEntries /\ Waiting(n) /\ IPAddress[n] = host
BY DEF Asked, First, Used

LEMMA OccupyType ==
    ASSUME TypeOK, NEW n \in Slots, Occupy(n)
    PROVE  m_nEntries' \in 0 .. ARP_MAX_ENTRIES
BY ArpAssumption DEF TypeOK, Slots, Occupy

LEMMA TypeBegin ==
    ASSUME TypeOK, NEW ip \in Hosts, NEW n \in Slots, Begin(n, ip),
           UNCHANGED <<process, misdirected, failed>>
    PROVE  TypeOK'
<1>1. m_nEntries' \in 0 .. ARP_MAX_ENTRIES
  BY OccupyType DEF Begin, RequestFor
<1>2. 1 \in 0 .. ARP_MAX_ATTEMPTS
  BY ArpAssumption
<1>3. State' \in [Slots -> States] /\ IPAddress' \in [Slots -> Hosts \cup {NULL}]
      /\ MACAddress' \in [Slots -> Hosts \cup {NULL}]
  BY DEF TypeOK, Begin, RequestFor, States
<1>4. pTxQueue' \in [Slots -> Seq(Hosts)]
  BY DEF TypeOK, Begin, RequestFor, Enqueue
<1>5. running' \in [Handles -> Slots \cup {NULL}] /\ hTimer' \in [Slots -> Handles \cup {NULL}]
  BY DEF TypeOK, Begin, RequestFor, StartKernelTimer
<1>6. nAttempts' \in [Slots -> 0 .. ARP_MAX_ATTEMPTS] /\ timeouts' \in [Slots -> Nat]
  BY <1>2 DEF TypeOK, Begin, RequestFor
<1>7. stolen' \in [Slots -> BOOLEAN]
  BY DEF TypeOK, Begin, RequestFor
<1> QED
  BY <1>1, <1>3, <1>4, <1>5, <1>6, <1>7 DEF TypeOK, process

LEMMA TypeResolve ==
    ASSUME TypeOK, NEW ip \in Hosts, Resolve(ip)
    PROVE  TypeOK'
<1>1. CASE ResolveHit(ip)
  BY <1>1 DEF TypeOK, ResolveHit, table, timers, process
<1>2. CASE ResolveWait(ip)
  <2>1. PICK n \in Slots : Enqueue(n, ip)
    BY <1>2, EntryFacts DEF ResolveWait
  <2>2. pTxQueue' \in [Slots -> Seq(Hosts)]
    BY <2>1 DEF TypeOK, Enqueue
  <2> QED
    BY <1>2, <2>2 DEF TypeOK, ResolveWait, table, timers, process
<1>3. CASE ResolveNew(ip)
  BY <1>3, TypeBegin, SlotToResolveFacts DEF ResolveNew
<1>4. CASE ResolveFull(ip)
  BY <1>4 DEF TypeOK, ResolveFull, table, timers, process
<1> QED
  BY <1>1, <1>2, <1>3, <1>4 DEF Resolve

LEMMA TypeTable ==
    ASSUME TypeOK, NEW host \in Hosts,
           RequestReceived(host) \/ ReplyReceived(host)
    PROVE  /\ m_nEntries' \in 0 .. ARP_MAX_ENTRIES
           /\ State' \in [Slots -> States]
           /\ IPAddress' \in [Slots -> Hosts \cup {NULL}]
           /\ MACAddress' \in [Slots -> Hosts \cup {NULL}]
           /\ hTimer' \in [Slots -> Handles \cup {NULL}]
           /\ nAttempts' \in [Slots -> 0 .. ARP_MAX_ATTEMPTS]
           /\ running' \in [Handles -> Slots \cup {NULL}]
           /\ timeouts' \in [Slots -> Nat]
           /\ stolen' \in [Slots -> BOOLEAN]
<1>1. CASE Learn(host)
  <2>1. PICK n \in Slots :
            /\ Occupy(n)
            /\ State' = [State EXCEPT ![n] = "Valid"]
            /\ IPAddress' = [IPAddress EXCEPT ![n] = host]
            /\ MACAddress' = [MACAddress EXCEPT ![n] = host]
    BY <1>1, NewSlotFacts DEF Learn
  <2>2. m_nEntries' \in 0 .. ARP_MAX_ENTRIES
    BY <2>1, OccupyType
  <2>3. /\ State' \in [Slots -> States]
        /\ IPAddress' \in [Slots -> Hosts \cup {NULL}]
        /\ MACAddress' \in [Slots -> Hosts \cup {NULL}]
    BY <2>1 DEF TypeOK, States
  <2>4. UNCHANGED timers
    BY <1>1 DEF Learn
  <2> QED
    BY <2>2, <2>3, <2>4 DEF TypeOK, timers
<1>2. CASE UNCHANGED <<table, timers>>
  BY <1>2 DEF TypeOK, table, timers
<1>3. CASE \E n \in Asked(host) : Answered(n, host) /\ CancelKernelTimer(n)
  <2>1. PICK n \in Slots : Answered(n, host) /\ CancelKernelTimer(n)
    BY <1>3, AskedFacts
  <2>2. State' \in [Slots -> States] /\ MACAddress' \in [Slots -> Hosts \cup {NULL}]
        /\ m_nEntries' = m_nEntries /\ IPAddress' = IPAddress
    BY <2>1 DEF Answered, TypeOK, States
  <2>3. nAttempts' \in [Slots -> 0 .. ARP_MAX_ATTEMPTS] /\ timeouts' \in [Slots -> Nat]
    BY <2>1, ArpAssumption DEF Answered, EndAttempts, TypeOK
  <2>4. hTimer' \in [Slots -> Handles \cup {NULL}] /\ running' \in [Handles -> Slots \cup {NULL}]
    BY <2>1 DEF CancelKernelTimer, TypeOK
  <2>5. stolen' \in [Slots -> BOOLEAN]
    BY <2>1 DEF CancelKernelTimer, TypeOK
  <2> QED
    BY <2>2, <2>3, <2>4, <2>5 DEF TypeOK
<1> QED
  BY <1>1, <1>2, <1>3 DEF RequestReceived, ReplyReceived

LEMMA TypePacket ==
    ASSUME TypeOK, ProcessPacket
    PROVE  TypeOK'
<1>1. CASE m_pRxQueue # <<>>
  <2>0. Head(m_pRxQueue) \in Packets /\ Tail(m_pRxQueue) \in Seq(Packets)
    BY <1>1, HeadTailProperties DEF TypeOK
  <2>1. m_pRxQueue' \in Seq(Packets)
    BY <1>1, <2>0 DEF ProcessPacket
  <2>2. PICK host \in Hosts : RequestReceived(host) \/ ReplyReceived(host)
    BY <1>1, <2>0 DEF ProcessPacket, Packets
  <2> QED
    BY <1>1, <2>1, <2>2, TypeTable DEF ProcessPacket, TypeOK
<1>2. CASE m_pRxQueue = <<>>
  BY <1>2, ArpAssumption DEF ProcessPacket, TypeOK, table, timers
<1> QED
  BY <1>1, <1>2

LEMMA TypeEntry ==
    ASSUME TypeOK, ProcessEntry
    PROVE  TypeOK'
<1> DEFINE n == nEntry
<1>1. m_pRxQueue' = m_pRxQueue /\ failed' = failed
  BY DEF ProcessEntry
<1>2. pc' \in {"idle", "packets", "entries", "cleanup"} /\ nEntry' \in 0 .. ARP_MAX_ENTRIES
  BY ArpAssumption DEF ProcessEntry, TypeOK
<1>0. <<>> \in Seq(Hosts) /\ 0 \in 0 .. ARP_MAX_ATTEMPTS
  BY ArpAssumption
<1>3. nEntry < m_nEntries => n \in Slots
  BY ArpAssumption DEF TypeOK, Slots
<1>4. CASE nEntry < m_nEntries /\ Retry(n)
  <2>1. State' \in [Slots -> States] /\ UNCHANGED <<m_nEntries, IPAddress, MACAddress, pTxQueue>>
    BY <1>4 DEF Retry, RequestAgain, TypeOK, States
  <2>2. nAttempts[n] \in 0 .. ARP_MAX_ATTEMPTS
    BY <1>3, <1>4 DEF TypeOK
  <2>3. nAttempts[n] + 1 \in 0 .. ARP_MAX_ATTEMPTS
    BY <1>4, <2>2, ArpAssumption DEF Retry
  <2>4. nAttempts' \in [Slots -> 0 .. ARP_MAX_ATTEMPTS]
    BY <1>4, <2>3 DEF Retry, RequestAgain, TypeOK
  <2>5. /\ running' \in [Handles -> Slots \cup {NULL}]
        /\ hTimer' \in [Slots -> Handles \cup {NULL}]
    BY <1>3, <1>4 DEF Retry, RequestAgain, StartKernelTimer, TypeOK
  <2> QED
    BY <1>1, <1>2, <1>4, <2>1, <2>4, <2>5 DEF Retry, RequestAgain, TypeOK
<1>5. CASE nEntry < m_nEntries /\ GiveUp(n)
  <2>1. /\ State' \in [Slots -> States] /\ IPAddress' \in [Slots -> Hosts \cup {NULL}]
        /\ UNCHANGED <<m_nEntries, MACAddress, running, stolen, misdirected>>
    BY <1>5 DEF GiveUp, Release, TypeOK, States
  <2>2. pTxQueue' \in [Slots -> Seq(Hosts)]
    BY <1>0, <1>5 DEF GiveUp, TypeOK
  <2>3. hTimer' \in [Slots -> Handles \cup {NULL}]
    BY <1>5 DEF GiveUp, Release, TypeOK
  <2>4. nAttempts' \in [Slots -> 0 .. ARP_MAX_ATTEMPTS] /\ timeouts' \in [Slots -> Nat]
    BY <1>0, <1>5 DEF GiveUp, Release, EndAttempts, TypeOK
  <2> QED
    BY <1>1, <1>2, <2>1, <2>2, <2>3, <2>4 DEF TypeOK
<1>6. CASE nEntry < m_nEntries /\ SendTxQueue(n)
  <2>1. State' \in [Slots -> States] /\ UNCHANGED <<m_nEntries, IPAddress, MACAddress, timers>>
    BY <1>6 DEF SendTxQueue, TypeOK, States
  <2>2. pTxQueue' \in [Slots -> Seq(Hosts)]
    BY <1>0, <1>6 DEF SendTxQueue, TypeOK
  <2>3. misdirected' \in BOOLEAN
    BY <1>6 DEF SendTxQueue, TypeOK
  <2> QED
    BY <1>1, <1>2, <2>1, <2>2, <2>3 DEF TypeOK, timers
<1>7. CASE UNCHANGED <<table, pTxQueue, timers, misdirected>>
  BY <1>1, <1>2, <1>7 DEF TypeOK, table, timers
<1> QED
  BY <1>4, <1>5, <1>6, <1>7 DEF ProcessEntry

LEMMA TypeStep == TypeOK /\ [Next]_vars => TypeOK'
<1> SUFFICES ASSUME TypeOK, [Next]_vars PROVE TypeOK'
  OBVIOUS
<1>1. CASE \E ip \in Hosts : Resolve(ip)
  BY <1>1, TypeResolve
<1>2. CASE \E packet \in Packets : Arrive(packet)
  BY <1>2 DEF Arrive, TypeOK, table, timers
<1>3. CASE ProcessStart
  BY <1>3 DEF ProcessStart, TypeOK, table, timers
<1>4. CASE ProcessPacket
  BY <1>4, TypePacket
<1>5. CASE ProcessEntry
  BY <1>5, TypeEntry
<1>6. CASE Cleanup
  BY <1>6 DEF Cleanup, TypeOK, States, timers
<1>7. CASE \E h \in Handles : TimerHandler(h)
  <2>1. PICK h \in Handles : TimerHandler(h)
    BY <1>7
  <2>2. State' \in [Slots -> States] /\ running' \in [Handles -> Slots \cup {NULL}]
    BY <2>1 DEF TimerHandler, Expire, TypeOK, States
  <2>3. timeouts' \in [Slots -> Nat]
    BY <2>1 DEF TimerHandler, Expire, TypeOK
  <2> QED
    BY <2>1, <2>2, <2>3 DEF TimerHandler, Expire, TypeOK, process
<1>8. CASE UNCHANGED vars
  BY <1>8 DEF vars, table, timers, process, TypeOK
<1> QED
  BY <1>1, <1>2, <1>3, <1>4, <1>5, <1>6, <1>7, <1>8 DEF Next

\* Type correctness of the table, its queues and its timers.
THEOREM TypeCorrect == Spec => []TypeOK
BY TypeInit, TypeStep, PTL DEF Spec

-----------------------------------------------------------------------------
(***************************************************************************)
(* The table.  Resolve and RequestReceived rely on finding the entry of an *)
(* address among the entries in use; the frames of an entry are for its    *)
(* address, and its MAC address, once there is one, is that of the host.   *)
(***************************************************************************)
UsedOnly == \A n \in Slots : State[n] # "FreeSlot" => n < m_nEntries

Addressed ==
    \A n \in Slots : State[n] \in {"SendTxQueue", "Valid"} => MACAddress[n] = IPAddress[n]

TableInv == TypeOK /\ UsedOnly /\ OneEntry /\ QueuesRight /\ Addressed /\ RightHost

\* An entry that is made for an address without one, in a slot that is not pending.
LEMMA OneEntryMade ==
    ASSUME TableInv, NEW ip \in Hosts, NEW n \in Slots, NEW s \in States,
           EntriesOf(ip) = {},
           n = m_nEntries \/ n < m_nEntries,
           Occupy(n),
           State' = [State EXCEPT ![n] = s],
           IPAddress' = [IPAddress EXCEPT ![n] = ip]
    PROVE  UsedOnly' /\ OneEntry'
<1>1. \A k \in Slots : State[k] # "FreeSlot" => k < m_nEntries
  BY DEF TableInv, UsedOnly
<1>2. \A k \in Slots : State[k] # "FreeSlot" => IPAddress[k] # ip
  BY <1>1 DEF EntriesOf, Used
<1>3. UsedOnly'
  <2> SUFFICES ASSUME NEW k \in Slots, State'[k] # "FreeSlot" PROVE k < m_nEntries'
    BY DEF UsedOnly
  <2>1. k = n \/ k < m_nEntries
    BY <1>1 DEF TableInv, TypeOK
  <2> QED
    BY SMTT(30), <2>1, ArpAssumption DEF Occupy, TableInv, TypeOK, Slots
<1>4. OneEntry'
  <2> SUFFICES ASSUME NEW k \in Slots, NEW l \in Slots,
                      State'[k] # "FreeSlot", State'[l] # "FreeSlot",
                      IPAddress'[k] = IPAddress'[l]
               PROVE  k = l
    BY DEF OneEntry
  <2> QED
    BY <1>2 DEF TableInv, TypeOK, OneEntry
<1> QED
  BY <1>3, <1>4

LEMMA TableBegin ==
    ASSUME TableInv, NEW ip \in Hosts, NEW n \in SlotToResolve,
           EntriesOf(ip) = {}, Begin(n, ip), UNCHANGED misdirected
    PROVE  UsedOnly' /\ OneEntry' /\ QueuesRight' /\ Addressed' /\ RightHost'
<1>1. n \in Slots /\ (n = m_nEntries \/ n < m_nEntries) /\ State[n] \in {"FreeSlot", "Valid"}
  BY SlotToResolveFacts, ArpAssumption DEF TableInv, TypeOK, UsedOnly, States, Slots
<1>2. UsedOnly' /\ OneEntry'
  BY <1>1, OneEntryMade DEF Begin, RequestFor, States
<1>3. pTxQueue[n] = <<>>
  BY <1>1 DEF TableInv, QueuesRight, Pending, Waiting
<1>4. pTxQueue'[n] = <<ip>> /\ State'[n] = "RequestSent" /\ IPAddress'[n] = ip
  BY <1>1, <1>3 DEF Begin, RequestFor, Enqueue, TableInv, TypeOK
<1>5. \A k \in Slots : k # n => /\ pTxQueue'[k] = pTxQueue[k] /\ State'[k] = State[k]
                                /\ IPAddress'[k] = IPAddress[k] /\ MACAddress'[k] = MACAddress[k]
  BY DEF Begin, RequestFor, Enqueue, TableInv, TypeOK
<1>6. QueuesRight'
  <2> SUFFICES ASSUME NEW k \in Slots
               PROVE  /\ (pTxQueue[k] # <<>> <=> Pending(k))'
                      /\ \A i \in DOMAIN pTxQueue'[k] : pTxQueue'[k][i] = IPAddress'[k]
    BY DEF QueuesRight
  <2>1. CASE k = n
    BY SMTT(30), <1>4, <2>1 DEF Pending, Waiting
  <2>2. CASE k # n
    BY <1>5, <2>2 DEF TableInv, QueuesRight, Pending, Waiting
  <2> QED
    BY <2>1, <2>2
<1>7. Addressed'
  BY <1>4, <1>5 DEF TableInv, Addressed
<1> QED
  BY <1>2, <1>6, <1>7 DEF TableInv, RightHost

LEMMA TableResolve ==
    ASSUME TableInv, NEW ip \in Hosts, Resolve(ip)
    PROVE  UsedOnly' /\ OneEntry' /\ QueuesRight' /\ Addressed' /\ RightHost'
<1>1. CASE ResolveHit(ip)
  <2>1. PICK n \in First(EntriesOf(ip)) :
            State[n] = "Valid" /\ misdirected' = (misdirected \/ MACAddress[n] # ip)
    BY <1>1 DEF ResolveHit
  <2>2. MACAddress[n] = ip
    BY <2>1, EntryFacts DEF TableInv, Addressed
  <2>3. RightHost'
    BY <2>1, <2>2 DEF TableInv, RightHost
  <2>4. UNCHANGED <<m_nEntries, State, IPAddress, MACAddress, pTxQueue>>
    BY <1>1 DEF ResolveHit, table
  <2> QED
    BY <2>3, <2>4
    DEF TableInv, UsedOnly, OneEntry, QueuesRight, Pending, Waiting, Addressed
<1>2. CASE ResolveWait(ip)
  <2>1. PICK n \in First(EntriesOf(ip)) : Pending(n) /\ Enqueue(n, ip)
    BY <1>2 DEF ResolveWait
  <2>2. UNCHANGED <<m_nEntries, State, IPAddress, MACAddress, misdirected>>
    BY <1>2 DEF ResolveWait, table
  <2>3. n \in Slots /\ IPAddress[n] = ip
    BY <2>1, EntryFacts
  <2>4. QueuesRight'
    <3> SUFFICES ASSUME NEW k \in Slots
                 PROVE  /\ (pTxQueue[k] # <<>> <=> Pending(k))'
                        /\ \A i \in DOMAIN pTxQueue'[k] : pTxQueue'[k][i] = IPAddress'[k]
      BY DEF QueuesRight
    <3>1. CASE k = n
      <4> DEFINE q == pTxQueue[n]
      <4>1. q \in Seq(Hosts) /\ pTxQueue'[n] = Append(q, ip)
        BY <2>1, <2>3 DEF Enqueue, TableInv, TypeOK
      <4>2. \A i \in 1 .. Len(q) : q[i] = ip
        BY <2>3, <4>1 DEF TableInv, QueuesRight
      <4> HIDE DEF q
      <4>3. Append(q, ip) # <<>> /\ \A i \in DOMAIN Append(q, ip) : Append(q, ip)[i] = ip
        BY <4>1, <4>2
      <4> QED
        BY <2>1, <2>2, <2>3, <3>1, <4>1, <4>3 DEF Pending, Waiting
    <3>2. CASE k # n
      BY <2>1, <2>2, <3>2 DEF Enqueue, TableInv, TypeOK, QueuesRight, Pending, Waiting
    <3> QED
      BY <3>1, <3>2
  <2> QED
    BY <2>2, <2>4 DEF TableInv, UsedOnly, OneEntry, Addressed, RightHost
<1>3. CASE ResolveNew(ip)
  BY <1>3, TableBegin DEF ResolveNew
<1>4. CASE ResolveFull(ip)
  BY <1>4 DEF ResolveFull, TableInv, UsedOnly, OneEntry, QueuesRight, Pending, Waiting, Addressed,
              RightHost, table
<1> QED
  BY <1>1, <1>2, <1>3, <1>4 DEF Resolve

LEMMA TablePacket ==
    ASSUME TableInv, ProcessPacket
    PROVE  UsedOnly' /\ OneEntry' /\ QueuesRight' /\ Addressed' /\ RightHost'
<1>1. CASE UNCHANGED <<table, timers>>
  BY <1>1 DEF ProcessPacket, TableInv, UsedOnly, OneEntry, QueuesRight, Pending, Waiting,
              Addressed, RightHost, table
<1>2. ASSUME NEW host \in Hosts, EntriesOf(host) = {}, Learn(host) PROVE UsedOnly' /\ OneEntry' /\ QueuesRight' /\ Addressed' /\ RightHost'
  <2>1. PICK n \in NewSlot :
            /\ Occupy(n)
            /\ State' = [State EXCEPT ![n] = "Valid"]
            /\ IPAddress' = [IPAddress EXCEPT ![n] = host]
            /\ MACAddress' = [MACAddress EXCEPT ![n] = host]
    BY <1>2 DEF Learn
  <2>2. n \in Slots /\ (n = m_nEntries \/ n < m_nEntries) /\ State[n] = "FreeSlot"
    BY NewSlotFacts, ArpAssumption DEF TableInv, TypeOK, UsedOnly, Slots
  <2>3. UsedOnly' /\ OneEntry'
    BY <1>2, <2>1, <2>2, OneEntryMade DEF States
  <2>4. UNCHANGED <<pTxQueue, misdirected>>
    BY DEF ProcessPacket
  <2>5. pTxQueue[n] = <<>>
    BY <2>2 DEF TableInv, QueuesRight, Pending, Waiting
  <2>6. QueuesRight'
    BY <2>1, <2>2, <2>4, <2>5 DEF TableInv, TypeOK, QueuesRight, Pending, Waiting
  <2>7. Addressed'
    BY <2>1, <2>2 DEF TableInv, TypeOK, Addressed
  <2> QED
    BY <2>3, <2>4, <2>6, <2>7 DEF TableInv, RightHost
<1>3. ASSUME NEW host \in Hosts, NEW n \in Asked(host), Answered(n, host)
      PROVE  UsedOnly' /\ OneEntry' /\ QueuesRight' /\ Addressed' /\ RightHost'
  <2>1. n \in Slots /\ n < m_nEntries /\ Waiting(n) /\ IPAddress[n] = host
    BY AskedFacts
  <2>2. UNCHANGED <<pTxQueue, misdirected>>
    BY DEF ProcessPacket
  <2>3. UsedOnly' /\ OneEntry'
    BY <1>3, <2>1 DEF Answered, TableInv, TypeOK, UsedOnly, OneEntry, Waiting
  <2>4. QueuesRight'
    BY <1>3, <2>1, <2>2 DEF Answered, TableInv, TypeOK, QueuesRight, Pending, Waiting
  <2>5. Addressed'
    BY <1>3, <2>1 DEF Answered, TableInv, TypeOK, Addressed
  <2> QED
    BY <2>2, <2>3, <2>4, <2>5 DEF TableInv, RightHost
<1>4. CASE m_pRxQueue # <<>>
  <2>1. Head(m_pRxQueue) \in Packets
    BY <1>4, HeadTailProperties DEF TableInv, TypeOK
  <2>2. PICK host \in Hosts : RequestReceived(host) \/ ReplyReceived(host)
    BY <1>4, <2>1 DEF ProcessPacket, Packets
  <2> QED
    BY <1>1, <1>2, <1>3, <2>2 DEF RequestReceived, ReplyReceived
<1>5. CASE m_pRxQueue = <<>>
  BY <1>1, <1>5 DEF ProcessPacket
<1> QED
  BY <1>4, <1>5

LEMMA TableEntry ==
    ASSUME TableInv, ProcessEntry
    PROVE  UsedOnly' /\ OneEntry' /\ QueuesRight' /\ Addressed' /\ RightHost'
<1> DEFINE n == nEntry
<1>1. nEntry < m_nEntries => n \in Slots
  BY ArpAssumption DEF TableInv, TypeOK, Slots
<1>2. CASE nEntry < m_nEntries /\ Retry(n)
  <2>1. UsedOnly' /\ OneEntry'
    BY <1>1, <1>2 DEF Retry, RequestAgain, TableInv, TypeOK, UsedOnly, OneEntry
  <2>2. QueuesRight' /\ Addressed'
    BY <1>1, <1>2 DEF Retry, RequestAgain, TableInv, TypeOK, QueuesRight, Pending, Waiting, Addressed
  <2> QED
    BY <1>2, <2>1, <2>2 DEF Retry, RequestAgain, TableInv, RightHost
<1>3. CASE nEntry < m_nEntries /\ GiveUp(n)
  <2>1. UsedOnly' /\ OneEntry'
    BY <1>1, <1>3 DEF GiveUp, Release, TableInv, TypeOK, UsedOnly, OneEntry
  <2>2. QueuesRight'
    BY <1>1, <1>3 DEF GiveUp, Release, TableInv, TypeOK, QueuesRight, Pending, Waiting
  <2>3. Addressed'
    BY <1>1, <1>3 DEF GiveUp, Release, TableInv, TypeOK, Addressed
  <2> QED
    BY <1>3, <2>1, <2>2, <2>3 DEF GiveUp, Release, TableInv, RightHost
<1>4. CASE nEntry < m_nEntries /\ SendTxQueue(n)
  <2>1. UsedOnly' /\ OneEntry'
    BY <1>1, <1>4 DEF SendTxQueue, TableInv, TypeOK, UsedOnly, OneEntry
  <2>2. QueuesRight'
    BY <1>1, <1>4 DEF SendTxQueue, TableInv, TypeOK, QueuesRight, Pending, Waiting
  <2>3. Addressed'
    BY <1>1, <1>4 DEF SendTxQueue, TableInv, TypeOK, Addressed
  <2>4. \A i \in DOMAIN pTxQueue[n] : pTxQueue[n][i] = MACAddress[n]
    BY <1>1, <1>4 DEF SendTxQueue, TableInv, QueuesRight, Addressed
  <2> QED
    BY <1>4, <2>1, <2>2, <2>3, <2>4 DEF SendTxQueue, TableInv, RightHost
<1>5. CASE UNCHANGED <<table, pTxQueue, timers, misdirected>>
  BY <1>5 DEF TableInv, UsedOnly, OneEntry, QueuesRight, Pending, Waiting, Addressed, RightHost, table
<1> QED
  BY <1>2, <1>3, <1>4, <1>5 DEF ProcessEntry

LEMMA TableStep == TableInv /\ [Next]_vars => TableInv'
<1> SUFFICES ASSUME TableInv, [Next]_vars
             PROVE  UsedOnly' /\ OneEntry' /\ QueuesRight' /\ Addressed' /\ RightHost'
  BY TypeStep DEF TableInv
<1>1. CASE \E ip \in Hosts : Resolve(ip)
  BY <1>1, TableResolve
<1>2. CASE \E packet \in Packets : Arrive(packet)
  BY <1>2 DEF Arrive, TableInv, UsedOnly, OneEntry, QueuesRight, Pending, Waiting, Addressed,
              RightHost, table
<1>3. CASE ProcessStart
  BY <1>3 DEF ProcessStart, TableInv, UsedOnly, OneEntry, QueuesRight, Pending, Waiting, Addressed,
              RightHost, table
<1>4. CASE ProcessPacket
  BY <1>4, TablePacket
<1>5. CASE ProcessEntry
  BY <1>5, TableEntry
<1>6. CASE Cleanup
  <2>1. UsedOnly' /\ OneEntry'
    BY <1>6 DEF Cleanup, TableInv, TypeOK, UsedOnly, OneEntry
  <2>2. QueuesRight'
    BY <1>6 DEF Cleanup, TableInv, TypeOK, QueuesRight, Pending, Waiting, Used
  <2>3. Addressed' /\ RightHost'
    BY <1>6 DEF Cleanup, TableInv, TypeOK, Addressed, RightHost
  <2> QED
    BY <2>1, <2>2, <2>3
<1>7. CASE \E h \in Handles : TimerHandler(h)
  <2>1. PICK h \in Handles : TimerHandler(h)
    BY <1>7
  <2>2. UsedOnly' /\ OneEntry'
    BY SMTT(30), <2>1 DEF TimerHandler, Expire, TableInv, TypeOK, UsedOnly, OneEntry
  <2>3. QueuesRight'
    BY <2>1 DEF TimerHandler, Expire, TableInv, TypeOK, QueuesRight, Pending, Waiting
  <2>4. Addressed' /\ RightHost'
    BY <2>1 DEF TimerHandler, Expire, TableInv, TypeOK, Addressed, RightHost
  <2> QED
    BY <2>2, <2>3, <2>4
<1>8. CASE UNCHANGED vars
  BY <1>8 DEF vars, table, TableInv, UsedOnly, OneEntry, QueuesRight, Pending, Waiting, Addressed,
              RightHost
<1> QED
  BY <1>1, <1>2, <1>3, <1>4, <1>5, <1>6, <1>7, <1>8 DEF Next

LEMMA TableInit == Init => TableInv
<1> SUFFICES ASSUME Init PROVE TableInv
  OBVIOUS
<1>1. TypeOK
  BY TypeInit
<1> QED
  BY <1>1 DEF Init, TableInv, UsedOnly, OneEntry, QueuesRight, Pending, Waiting, Addressed, RightHost

\* An address never has two entries, and the frames that wait are with the pending
\* entry of their address, however entries are made, given up, forgotten and
\* replaced.
THEOREM EntriesAreRight == Spec => []EntriesRight
<1>1. TableInv => EntriesRight
  BY DEF TableInv, EntriesRight
<1> QED
  BY <1>1, TableInit, TableStep, PTL DEF Spec

\* No frame is sent to another host than the one it is for.
THEOREM AlwaysRightHost == Spec => []RightHost
<1>1. TableInv => RightHost
  BY DEF TableInv
<1> QED
  BY <1>1, TableInit, TableStep, PTL DEF Spec

-----------------------------------------------------------------------------
(***************************************************************************)
(* The timers.  A timer is started for an entry that has none; a reply or  *)
(* the timer itself ends it.  The count of attempts and the time-outs of   *)
(* the entry go together.                                                  *)
(***************************************************************************)
Counted ==
    \A n \in Slots :
        /\ State[n] = "RequestSent" => timeouts[n] + 1 = nAttempts[n]
        /\ State[n] = "RetryRequest" => timeouts[n] = nAttempts[n]

TimerInv == TypeOK /\ UsedOnly /\ TimerRuns /\ Counted

\* A step of an entry that has no timer before or after it.
LEMMA TimersKept ==
    ASSUME TimerInv, NEW n \in Slots, State[n] # "RequestSent", State'[n] # "RequestSent",
           \A k \in Slots : k # n => State'[k] = State[k] /\ hTimer'[k] = hTimer[k],
           UNCHANGED <<running, stolen>>
    PROVE  TimerRuns'
<1>1. \A k \in Slots : State'[k] = "RequestSent" /\ ~stolen'[k] => \E h \in Handles : running'[h] = k
  BY DEF TimerInv, TimerRuns
<1>2. ASSUME NEW h \in Handles, running'[h] # NULL
      PROVE  State'[running'[h]] = "RequestSent" /\ hTimer'[running'[h]] = h
  <2>1. running'[h] = running[h] /\ running[h] \in Slots
    BY <1>2 DEF TimerInv, TypeOK
  <2>2. State[running[h]] = "RequestSent" /\ hTimer[running[h]] = h
    BY <1>2, <2>1 DEF TimerInv, TimerRuns
  <2>3. running[h] # n
    BY <2>2
  <2> QED
    BY <2>1, <2>2, <2>3
<1> QED
  BY <1>1, <1>2 DEF TimerRuns

LEMMA TimerResolve ==
    ASSUME TimerInv, NEW ip \in Hosts, Resolve(ip)
    PROVE  TimerRuns' /\ Counted'
<1>1. CASE UNCHANGED <<table, timers>>
  BY <1>1 DEF TimerInv, TimerRuns, Counted, table, timers
<1>2. CASE ResolveNew(ip)
  <2>1. PICK n \in SlotToResolve : Begin(n, ip)
    BY <1>2 DEF ResolveNew
  <2>2. n \in Slots
    BY SlotToResolveFacts
  <2>3. \A h \in Handles : running[h] # n
    <3>0. n = m_nEntries => State[n] = "FreeSlot"
      <4>1. n \in Nat
        BY <2>2, ArpAssumption DEF Slots
      <4> QED
        BY <2>2, <4>1 DEF TimerInv, UsedOnly
    <3>1. State[n] # "RequestSent"
      BY <3>0, SlotToResolveFacts
    <3> QED
      BY <2>2, <3>1, ArpAssumption DEF TimerInv, TimerRuns, Slots
  <2>4. PICK h \in Handles :
            /\ running[h] = NULL
            /\ running' = [running EXCEPT ![h] = n]
            /\ hTimer' = [hTimer EXCEPT ![n] = h]
    BY <2>1 DEF Begin, RequestFor, StartKernelTimer
  <2>5. State' = [State EXCEPT ![n] = "RequestSent"] /\ (\A k \in Slots : k # n => stolen'[k] = stolen[k])
    BY <2>1 DEF Begin, RequestFor, TimerInv, TypeOK
  <2>6. \A k \in Slots : State'[k] = "RequestSent" /\ ~stolen'[k] => \E g \in Handles : running'[g] = k
    <3> SUFFICES ASSUME NEW k \in Slots, State'[k] = "RequestSent", ~stolen'[k]
                 PROVE  \E g \in Handles : running'[g] = k
      OBVIOUS
    <3>1. CASE k = n
      BY <2>4, <3>1 DEF TimerInv, TypeOK
    <3>2. CASE k # n
      <4>1. PICK g \in Handles : running[g] = k
        BY <2>5, <3>2 DEF TimerInv, TypeOK, TimerRuns
      <4>2. running'[g] = k
        BY <2>4, <4>1, ArpAssumption DEF TimerInv, TypeOK, Slots
      <4> QED
        BY <4>2
    <3> QED
      BY <3>1, <3>2
  <2>7. \A g \in Handles :
            running'[g] # NULL => State'[running'[g]] = "RequestSent" /\ hTimer'[running'[g]] = g
    BY <2>2, <2>3, <2>4, <2>5 DEF TimerInv, TypeOK, TimerRuns
  <2>8. TimerRuns'
    BY <2>6, <2>7 DEF TimerRuns
  <2>9. Counted'
    BY <2>1, <2>2 DEF Begin, RequestFor, TimerInv, TypeOK, Counted
  <2> QED
    BY <2>8, <2>9
<1> QED
  BY <1>1, <1>2 DEF Resolve, ResolveHit, ResolveWait, ResolveFull

LEMMA TimerPacket ==
    ASSUME TimerInv, ProcessPacket
    PROVE  TimerRuns' /\ Counted'
<1>1. CASE UNCHANGED <<table, timers>>
  BY <1>1 DEF TimerInv, TimerRuns, Counted, table, timers
<1>2. ASSUME NEW host \in Hosts, Learn(host) PROVE TimerRuns' /\ Counted'
  <2>1. PICK n \in NewSlot : State' = [State EXCEPT ![n] = "Valid"]
    BY <1>2 DEF Learn
  <2>2. n \in Slots /\ State[n] = "FreeSlot"
    BY NewSlotFacts, ArpAssumption DEF TimerInv, TypeOK, UsedOnly, Slots
  <2>3. UNCHANGED timers
    BY <1>2 DEF Learn
  <2>4. TimerRuns'
    <3>1. State[n] # "RequestSent" /\ State'[n] # "RequestSent"
          /\ \A k \in Slots : k # n => State'[k] = State[k] /\ hTimer'[k] = hTimer[k]
      BY <2>1, <2>2, <2>3 DEF TimerInv, TypeOK, timers
    <3> QED
      BY <2>2, <2>3, <3>1, TimersKept DEF timers
  <2>5. Counted'
    BY <2>1, <2>2, <2>3 DEF TimerInv, TypeOK, Counted, timers
  <2> QED
    BY <2>4, <2>5
<1>3. ASSUME NEW host \in Hosts, NEW n \in Asked(host), Answered(n, host), CancelKernelTimer(n)
      PROVE  TimerRuns' /\ Counted'
  <2>1. n \in Slots
    BY AskedFacts
  <2>2. State' = [State EXCEPT ![n] = "SendTxQueue"]
    BY <1>3 DEF Answered
  <2>3. \A h \in Handles : running[h] = n => hTimer[n] = h
    BY <2>1, ArpAssumption DEF TimerInv, TimerRuns, TypeOK, Slots
  <2>4. \A h \in Handles : running'[h] # NULL => running'[h] = running[h] /\ running[h] # n
    BY <1>3, <2>3 DEF CancelKernelTimer, TimerInv, TypeOK
  <2>5. \A k \in Slots, h \in Handles : k # n /\ running[h] = k /\ ~stolen'[k] => running'[h] = k
    BY <1>3, ArpAssumption DEF CancelKernelTimer, TimerInv, TypeOK
  <2>6. \A k \in Slots : k # n /\ ~stolen'[k] => ~stolen[k]
    BY <1>3 DEF CancelKernelTimer
  <2>7. \A k \in Slots : k # n => hTimer'[k] = hTimer[k] /\ State'[k] = State[k]
    BY <1>3, <2>2 DEF CancelKernelTimer, TimerInv, TypeOK
  <2>8. State'[n] = "SendTxQueue"
    BY <2>1, <2>2 DEF TimerInv, TypeOK
  <2>9. \A k \in Slots : State'[k] = "RequestSent" /\ ~stolen'[k] => \E h \in Handles : running'[h] = k
    BY <2>5, <2>6, <2>7, <2>8 DEF TimerInv, TimerRuns
  <2>10. \A h \in Handles :
            running'[h] # NULL => State'[running'[h]] = "RequestSent" /\ hTimer'[running'[h]] = h
    BY <2>4, <2>7 DEF TimerInv, TimerRuns, TypeOK
  <2>11. Counted'
    BY <1>3, <2>1, <2>2 DEF Answered, EndAttempts, TimerInv, TypeOK, Counted
  <2> QED
    BY <2>9, <2>10, <2>11 DEF TimerRuns
<1>4. CASE m_pRxQueue # <<>>
  <2>1. Head(m_pRxQueue) \in Packets
    BY <1>4, HeadTailProperties DEF TimerInv, TypeOK
  <2>2. PICK host \in Hosts : RequestReceived(host) \/ ReplyReceived(host)
    BY <1>4, <2>1 DEF ProcessPacket, Packets
  <2> QED
    BY <1>1, <1>2, <1>3, <2>2 DEF RequestReceived, ReplyReceived
<1>5. CASE m_pRxQueue = <<>>
  BY <1>1, <1>5 DEF ProcessPacket
<1> QED
  BY <1>4, <1>5

LEMMA TimerEntry ==
    ASSUME TimerInv, ProcessEntry
    PROVE  TimerRuns' /\ Counted'
<1> DEFINE n == nEntry
<1>1. nEntry < m_nEntries => n \in Slots
  BY ArpAssumption DEF TimerInv, TypeOK, Slots
<1>2. CASE nEntry < m_nEntries /\ Retry(n)
  <2>1. \A h \in Handles : running[h] # n
    BY <1>1, <1>2, ArpAssumption DEF Retry, TimerInv, TimerRuns, Slots
  <2>2. PICK h \in Handles :
            /\ running[h] = NULL
            /\ running' = [running EXCEPT ![h] = n]
            /\ hTimer' = [hTimer EXCEPT ![n] = h]
    BY <1>2 DEF Retry, RequestAgain, StartKernelTimer
  <2>3. State' = [State EXCEPT ![n] = "RequestSent"] /\ (\A k \in Slots : k # n => stolen'[k] = stolen[k])
    BY <1>2 DEF Retry, RequestAgain, TimerInv, TypeOK
  <2>4. \A k \in Slots : State'[k] = "RequestSent" /\ ~stolen'[k] => \E g \in Handles : running'[g] = k
    <3> SUFFICES ASSUME NEW k \in Slots, State'[k] = "RequestSent", ~stolen'[k]
                 PROVE  \E g \in Handles : running'[g] = k
      OBVIOUS
    <3>1. CASE k = n
      BY <2>2, <3>1 DEF TimerInv, TypeOK
    <3>2. CASE k # n
      <4>1. PICK g \in Handles : running[g] = k
        BY <2>3, <3>2 DEF TimerInv, TypeOK, TimerRuns
      <4>2. running'[g] = k
        BY <2>2, <4>1, ArpAssumption DEF TimerInv, TypeOK, Slots
      <4> QED
        BY <4>2
    <3> QED
      BY <3>1, <3>2
  <2>5. \A g \in Handles :
            running'[g] # NULL => State'[running'[g]] = "RequestSent" /\ hTimer'[running'[g]] = g
    BY <1>1, <1>2, <2>1, <2>2, <2>3 DEF TimerInv, TypeOK, TimerRuns
  <2>6. TimerRuns'
    BY <2>4, <2>5 DEF TimerRuns
  <2>7. Counted'
    BY <1>1, <1>2 DEF Retry, RequestAgain, TimerInv, TypeOK, Counted
  <2> QED
    BY <2>6, <2>7
<1>3. CASE nEntry < m_nEntries /\ GiveUp(n)
  <2>1. TimerRuns'
    <3>1. State[n] # "RequestSent" /\ State'[n] # "RequestSent"
          /\ \A k \in Slots : k # n => State'[k] = State[k] /\ hTimer'[k] = hTimer[k]
      BY <1>1, <1>3 DEF GiveUp, Release, TimerInv, TypeOK
    <3>2. UNCHANGED <<running, stolen>>
      BY <1>3 DEF GiveUp, Release
    <3>3. n \in Slots
      BY <1>1, <1>3
    <3> QED
      BY <3>1, <3>2, <3>3, TimersKept
  <2>2. Counted'
    BY <1>1, <1>3 DEF GiveUp, Release, EndAttempts, TimerInv, TypeOK, Counted
  <2> QED
    BY <2>1, <2>2
<1>4. CASE nEntry < m_nEntries /\ SendTxQueue(n)
  <2>1. TimerRuns'
    <3>1. State[n] # "RequestSent" /\ State'[n] # "RequestSent"
          /\ \A k \in Slots : k # n => State'[k] = State[k] /\ hTimer'[k] = hTimer[k]
      BY <1>1, <1>4 DEF SendTxQueue, TimerInv, TypeOK, timers
    <3>2. UNCHANGED <<running, stolen>>
      BY <1>4 DEF SendTxQueue, timers
    <3>3. n \in Slots
      BY <1>1, <1>4
    <3> QED
      BY <3>1, <3>2, <3>3, TimersKept
  <2>2. Counted'
    BY <1>1, <1>4 DEF SendTxQueue, TimerInv, TypeOK, Counted, timers
  <2> QED
    BY <2>1, <2>2
<1>5. CASE UNCHANGED <<table, pTxQueue, timers, misdirected>>
  BY <1>5 DEF TimerInv, TimerRuns, Counted, table, timers
<1> QED
  BY <1>2, <1>3, <1>4, <1>5 DEF ProcessEntry

LEMMA TimerStep == TableInv /\ TimerInv /\ [Next]_vars => TimerInv'
<1> SUFFICES ASSUME TableInv, TimerInv, [Next]_vars PROVE TimerRuns' /\ Counted'
  BY TableStep DEF TableInv, TimerInv
<1>1. CASE \E ip \in Hosts : Resolve(ip)
  BY <1>1, TimerResolve
<1>2. CASE \E packet \in Packets : Arrive(packet)
  BY <1>2 DEF Arrive, TimerInv, TimerRuns, Counted, table, timers
<1>3. CASE ProcessStart
  BY <1>3 DEF ProcessStart, TimerInv, TimerRuns, Counted, table, timers
<1>4. CASE ProcessPacket
  BY <1>4, TimerPacket
<1>5. CASE ProcessEntry
  BY <1>5, TimerEntry
<1>6. CASE Cleanup
  <2>1. TimerRuns'
    BY SMTT(30), <1>6, ArpAssumption DEF Cleanup, TimerInv, TypeOK, TimerRuns, Slots, timers
  <2>2. Counted'
    BY <1>6 DEF Cleanup, TimerInv, TypeOK, Counted, timers
  <2> QED
    BY <2>1, <2>2
<1>7. CASE \E h \in Handles : TimerHandler(h)
  <2>1. PICK h \in Handles : TimerHandler(h)
    BY <1>7
  <2>2. running[h] \in Slots /\ State[running[h]] = "RequestSent" /\ hTimer[running[h]] = h
    BY <2>1 DEF TimerHandler, Expire, TimerInv, TypeOK, TimerRuns
  <2>5. \A g \in Handles : running'[g] # NULL => g # h /\ running'[g] = running[g]
    BY <2>1 DEF TimerHandler, Expire, TimerInv, TypeOK
  <2>6. \A k \in Slots : k # running[h] => State'[k] = State[k]
    BY <2>1 DEF TimerHandler, Expire, TimerInv, TypeOK
  <2>7. State'[running[h]] = "RetryRequest" /\ UNCHANGED <<hTimer, stolen>>
    BY <2>1, <2>2 DEF TimerHandler, Expire, TimerInv, TypeOK
  <2>8. \A g \in Handles : g # h /\ running[g] # NULL => running'[g] = running[g]
    BY <2>1 DEF TimerHandler, Expire, TimerInv, TypeOK
  <2>9. \A k \in Slots : State'[k] = "RequestSent" /\ ~stolen'[k] => \E g \in Handles : running'[g] = k
    <3> SUFFICES ASSUME NEW k \in Slots, State'[k] = "RequestSent", ~stolen'[k]
                 PROVE  \E g \in Handles : running'[g] = k
      OBVIOUS
    <3>1. k # running[h]
      BY <2>7
    <3>2. PICK g \in Handles : running[g] = k
      BY <2>6, <2>7, <3>1 DEF TimerInv, TimerRuns
    <3>3. k # NULL
      BY ArpAssumption DEF Slots
    <3> QED
      BY <2>8, <3>1, <3>2, <3>3
  <2>10. \A g \in Handles :
            running'[g] # NULL => State'[running'[g]] = "RequestSent" /\ hTimer'[running'[g]] = g
    BY <2>2, <2>5, <2>6, <2>7 DEF TimerInv, TypeOK, TimerRuns
  <2>3. TimerRuns'
    BY <2>9, <2>10 DEF TimerRuns
  <2>4. Counted'
    BY <2>1, <2>2 DEF TimerHandler, Expire, TimerInv, TypeOK, Counted
  <2> QED
    BY <2>3, <2>4
<1>8. CASE UNCHANGED vars
  BY <1>8 DEF vars, table, timers, TimerInv, TimerRuns, Counted
<1> QED
  BY <1>1, <1>2, <1>3, <1>4, <1>5, <1>6, <1>7, <1>8 DEF Next

LEMMA TimerInit == Init => TimerInv
<1> SUFFICES ASSUME Init PROVE TimerInv
  OBVIOUS
<1>1. TypeOK /\ UsedOnly
  BY TableInit DEF TableInv
<1> QED
  BY <1>1 DEF Init, TimerInv, TimerRuns, Counted

\* Every entry that waits has its timer, and every timer its entry, as long as no
\* timer is cancelled through a stale handle.
THEOREM TimersRun == Spec => []TimerRuns
<1>1. TimerInv => TimerRuns
  BY DEF TimerInv
<1> QED
  BY <1>1, TableInit, TableStep, TimerInit, TimerStep, PTL DEF Spec

\* A resolution is given up only after all its requests have timed out.
THEOREM FailsLate == Spec => FailsAfterAllAttempts
<1>1. ASSUME TimerInv, [Next]_vars, NEW n \in Slots,
             State[n] = "RetryRequest", State'[n] = "FreeSlot"
      PROVE  timeouts[n] = ARP_MAX_ATTEMPTS
  <2>1. CASE GiveUp(n)
    <3>1. nAttempts[n] >= ARP_MAX_ATTEMPTS
      BY <2>1 DEF GiveUp
    <3>2. nAttempts[n] \in 0 .. ARP_MAX_ATTEMPTS
      BY <1>1 DEF TimerInv, TypeOK
    <3> QED
      BY <1>1, <3>1, <3>2, ArpAssumption DEF TimerInv, Counted
  <2>2. ~(UNCHANGED State)
    BY <1>1
  <2>3. ASSUME NEW ip \in Hosts, Resolve(ip) PROVE FALSE
    <3>1. PICK k \in Slots : State' = [State EXCEPT ![k] = "RequestSent"]
      BY <2>2, <2>3, SlotToResolveFacts
      DEF Resolve, ResolveHit, ResolveWait, ResolveNew, ResolveFull, table, Begin, RequestFor
    <3> QED
      BY <1>1, <3>1 DEF TimerInv, TypeOK
  <2>4. ASSUME ProcessPacket PROVE FALSE
    <3>1. PICK k \in Slots, s \in {"Valid", "SendTxQueue"} : State' = [State EXCEPT ![k] = s]
      BY <2>2, <2>4, NewSlotFacts, AskedFacts
      DEF ProcessPacket, RequestReceived, ReplyReceived, Learn, Answered, table
    <3> QED
      BY <1>1, <3>1 DEF TimerInv, TypeOK
  <2>5. ASSUME ProcessEntry PROVE GiveUp(n)
    <3>1. GiveUp(nEntry) \/ \E k, s : s # "FreeSlot" /\ State' = [State EXCEPT ![k] = s]
      BY <2>2, <2>5 DEF ProcessEntry, Retry, RequestAgain, SendTxQueue, table
    <3>2. GiveUp(nEntry)
      BY <1>1, <3>1 DEF TimerInv, TypeOK
    <3>3. nEntry = n
      BY <1>1, <3>2 DEF GiveUp, Release, TimerInv, TypeOK
    <3> QED
      BY <3>2, <3>3
  <2>6. ASSUME Cleanup PROVE FALSE
    BY <1>1, <2>6 DEF Cleanup, TimerInv, TypeOK
  <2>7. ASSUME NEW h \in Handles, TimerHandler(h) PROVE FALSE
    BY <1>1, <2>7 DEF TimerHandler, Expire, TimerInv, TypeOK
  <2> QED
    BY <1>1, <2>1, <2>2, <2>3, <2>4, <2>5, <2>6, <2>7 DEF Next, Arrive, ProcessStart, table, vars
<1>2. TimerInv /\ [Next]_vars =>
        [\A n \in Slots : State[n] = "RetryRequest" /\ State'[n] = "FreeSlot"
            => timeouts[n] = ARP_MAX_ATTEMPTS]_vars
  BY <1>1
<1> QED
  BY <1>2, TableInit, TableStep, TimerInit, TimerStep, PTL DEF Spec, FailsAfterAllAttempts
-----------------------------------------------------------------------------
(***************************************************************************)
(* The refinement.  By TableInv an address has one entry or none, so what  *)
(* AddressResolution sees of a host is the state and the queue of that     *)
(* entry, and a step that touches one slot touches the host of the slot    *)
(* before it and the host of the slot behind it, and no other.             *)
(***************************************************************************)
Shown(s) == IF s = "Valid" THEN "known" ELSE IF s = "SendTxQueue" THEN "answered" ELSE "asked"

LEMMA StatusType == Status \in [Hosts -> {"unknown", "asked", "answered", "known"}]
BY DEF Status, StatusOf

LEMMA HasEntry ==
    ASSUME TableInv, NEW ip, NEW n \in Slots, State[n] # "FreeSlot", IPAddress[n] = ip
    PROVE  StatusOf(ip) = Shown(State[n]) /\ WaitingFor(ip) = Len(pTxQueue[n])
<1>1. EntriesOf(ip) = {n}
  BY DEF EntriesOf, Used, TableInv, UsedOnly, OneEntry
<1>2. (CHOOSE k \in EntriesOf(ip) : TRUE) = n
  BY <1>1
<1> QED
  BY <1>1, <1>2 DEF StatusOf, WaitingFor, Shown

\* The same, behind a step.
LEMMA HasEntryNext ==
    ASSUME TableInv', NEW ip, NEW n \in Slots, State'[n] # "FreeSlot", IPAddress'[n] = ip
    PROVE  StatusOf(ip)' = Shown(State'[n]) /\ WaitingFor(ip)' = Len(pTxQueue'[n])
<1>1. EntriesOf(ip)' = {n}
  BY DEF EntriesOf, Used, TableInv, UsedOnly, OneEntry
<1>2. (CHOOSE k \in EntriesOf(ip)' : TRUE) = n
  BY <1>1
<1> QED
  BY <1>1, <1>2 DEF StatusOf, WaitingFor, Shown

LEMMA HasNone ==
    ASSUME TableInv, NEW ip, \A n \in Slots : State[n] # "FreeSlot" => IPAddress[n] # ip
    PROVE  StatusOf(ip) = "unknown" /\ WaitingFor(ip) = 0
BY DEF EntriesOf, Used, StatusOf, WaitingFor

LEMMA HasNoneNext ==
    ASSUME TableInv', NEW ip, \A n \in Slots : State'[n] # "FreeSlot" => IPAddress'[n] # ip
    PROVE  StatusOf(ip)' = "unknown" /\ WaitingFor(ip)' = 0
BY DEF EntriesOf, Used, StatusOf, WaitingFor

\* An entry that frames wait for is the entry of a host.
LEMMA PendingHost ==
    ASSUME TableInv, NEW n \in Slots, Pending(n)
    PROVE  IPAddress[n] \in Hosts /\ State[n] # "FreeSlot" /\ Len(pTxQueue[n]) \in Nat
<1>1. pTxQueue[n] # <<>> /\ pTxQueue[n] \in Seq(Hosts)
  BY DEF TableInv, QueuesRight, TypeOK
<1>2. 1 \in DOMAIN pTxQueue[n] /\ pTxQueue[n][1] \in Hosts /\ Len(pTxQueue[n]) \in Nat
  BY <1>1
<1> QED
  BY <1>2 DEF TableInv, QueuesRight, Pending, Waiting

\* What a step does to one slot only.
OnlySlot(n) ==
    \A k \in Slots : k # n => /\ State'[k] = State[k] /\ IPAddress'[k] = IPAddress[k]
                              /\ pTxQueue'[k] = pTxQueue[k]

\* An address that is neither that of the slot before nor that behind the step
\* looks the same.
LEMMA Elsewhere ==
    ASSUME TableInv, TableInv', NEW ip \in Hosts, NEW n \in Slots, OnlySlot(n),
           State[n] # "FreeSlot" => IPAddress[n] # ip,
           State'[n] # "FreeSlot" => IPAddress'[n] # ip
    PROVE  StatusOf(ip)' = StatusOf(ip) /\ WaitingFor(ip)' = WaitingFor(ip)
<1>1. CASE \E k \in Slots : State[k] # "FreeSlot" /\ IPAddress[k] = ip
  <2>1. PICK k \in Slots : State[k] # "FreeSlot" /\ IPAddress[k] = ip
    BY <1>1
  <2>2. /\ k # n
        /\ State'[k] = State[k] /\ IPAddress'[k] = IPAddress[k] /\ pTxQueue'[k] = pTxQueue[k]
    BY <2>1 DEF OnlySlot
  <2>3. StatusOf(ip) = Shown(State[k]) /\ WaitingFor(ip) = Len(pTxQueue[k])
    BY <2>1, HasEntry
  <2>4. StatusOf(ip)' = Shown(State'[k]) /\ WaitingFor(ip)' = Len(pTxQueue'[k])
    BY <2>1, <2>2, HasEntryNext
  <2> QED
    BY <2>2, <2>3, <2>4
<1>2. CASE \A k \in Slots : State[k] # "FreeSlot" => IPAddress[k] # ip
  <2>1. \A k \in Slots : State'[k] # "FreeSlot" => IPAddress'[k] # ip
    BY <1>2 DEF OnlySlot
  <2>2. StatusOf(ip) = "unknown" /\ WaitingFor(ip) = 0
    BY <1>2, HasNone
  <2>3. StatusOf(ip)' = "unknown" /\ WaitingFor(ip)' = 0
    BY <2>1, HasNoneNext
  <2> QED
    BY <2>2, <2>3
<1> QED
  BY <1>1, <1>2

\* A step that changes an entry and leaves it its address.
LEMMA EntryKept ==
    ASSUME TableInv, TableInv', NEW n \in Slots, OnlySlot(n),
           State[n] # "FreeSlot", State'[n] # "FreeSlot",
           NEW ip \in Hosts, IPAddress[n] = ip, IPAddress'[n] = ip
    PROVE  /\ Status[ip] = Shown(State[n]) /\ Frames[ip] = Len(pTxQueue[n])
           /\ Status' = [Status EXCEPT ![ip] = Shown(State'[n])]
           /\ Frames' = [Frames EXCEPT ![ip] = Len(pTxQueue'[n])]
<1>1. StatusOf(ip) = Shown(State[n]) /\ WaitingFor(ip) = Len(pTxQueue[n])
  BY HasEntry
<1>2. StatusOf(ip)' = Shown(State'[n]) /\ WaitingFor(ip)' = Len(pTxQueue'[n])
  BY HasEntryNext
<1>3. \A h \in Hosts : h # ip => StatusOf(h)' = StatusOf(h) /\ WaitingFor(h)' = WaitingFor(h)
  BY Elsewhere
<1> QED
  BY <1>1, <1>2, <1>3 DEF Status, Frames

\* A step that makes an entry of a slot that had none.
LEMMA EntryMade ==
    ASSUME TableInv, TableInv', NEW n \in Slots, OnlySlot(n),
           State[n] = "FreeSlot" \/ IPAddress[n] \notin Hosts,
           NEW ip \in Hosts, EntriesOf(ip) = {}, State'[n] # "FreeSlot", IPAddress'[n] = ip
    PROVE  /\ Status[ip] = "unknown" /\ Frames[ip] = 0
           /\ Status' = [Status EXCEPT ![ip] = Shown(State'[n])]
           /\ Frames' = [Frames EXCEPT ![ip] = Len(pTxQueue'[n])]
<1>1. StatusOf(ip) = "unknown" /\ WaitingFor(ip) = 0
  BY DEF StatusOf, WaitingFor
<1>2. StatusOf(ip)' = Shown(State'[n]) /\ WaitingFor(ip)' = Len(pTxQueue'[n])
  BY HasEntryNext
<1>3. \A h \in Hosts : h # ip => StatusOf(h)' = StatusOf(h) /\ WaitingFor(h)' = WaitingFor(h)
  BY Elsewhere
<1> QED
  BY <1>1, <1>2, <1>3 DEF Status, Frames

\* A step that makes an entry of the slot of another host, whose address was known.
LEMMA EntryReplaced ==
    ASSUME TableInv, TableInv', NEW n \in Slots, OnlySlot(n),
           NEW old \in Hosts, State[n] = "Valid", IPAddress[n] = old,
           NEW ip \in Hosts, EntriesOf(ip) = {}, State'[n] # "FreeSlot", IPAddress'[n] = ip
    PROVE  /\ Status[ip] = "unknown" /\ Status[old] = "known"
           /\ Status' = [Status EXCEPT ![ip] = Shown(State'[n]), ![old] = "unknown"]
           /\ Frames' = [Frames EXCEPT ![ip] = Len(pTxQueue'[n])]
<1>1. StatusOf(ip) = "unknown" /\ WaitingFor(ip) = 0
  BY DEF StatusOf, WaitingFor
<1>2. StatusOf(ip)' = Shown(State'[n]) /\ WaitingFor(ip)' = Len(pTxQueue'[n])
  BY HasEntryNext
<1>3. pTxQueue[n] = <<>>
  BY DEF TableInv, QueuesRight, Pending, Waiting
<1>4. StatusOf(old) = "known" /\ WaitingFor(old) = 0
  BY <1>3, HasEntry DEF Shown
<1>5. old # ip
  BY DEF EntriesOf, Used, TableInv, UsedOnly
<1>6. \A k \in Slots : State'[k] # "FreeSlot" => IPAddress'[k] # old
  BY <1>5 DEF TableInv, OneEntry, OnlySlot
<1>7. StatusOf(old)' = "unknown" /\ WaitingFor(old)' = 0
  BY <1>6, HasNoneNext
<1>8. \A h \in Hosts : h # ip /\ h # old =>
                       StatusOf(h)' = StatusOf(h) /\ WaitingFor(h)' = WaitingFor(h)
  BY Elsewhere
<1> QED
  BY <1>1, <1>2, <1>4, <1>5, <1>7, <1>8 DEF Status, Frames

\* A step that touches no entry.
LEMMA NoEntry ==
    ASSUME UNCHANGED <<table, pTxQueue>>
    PROVE  Status' = Status /\ Frames' = Frames
BY DEF table, Status, Frames, StatusOf, WaitingFor, EntriesOf, Used

LEMMA ResolveRefines ==
    ASSUME TableInv, TableInv', NEW ip \in Hosts, Resolve(ip)
    PROVE  Resolution!Next \/ UNCHANGED <<Status, Frames>>
<1>1. CASE ResolveHit(ip) \/ ResolveFull(ip)
  BY <1>1, NoEntry DEF ResolveHit, ResolveFull
<1>2. CASE ResolveWait(ip)
  <2>1. PICK n \in First(EntriesOf(ip)) : Pending(n) /\ Enqueue(n, ip)
    BY <1>2 DEF ResolveWait
  <2>2. n \in Slots /\ IPAddress[n] = ip
    BY <2>1, EntryFacts
  <2>3. UNCHANGED <<State, IPAddress>>
    BY <1>2 DEF ResolveWait, table
  <2>4. OnlySlot(n) /\ Len(pTxQueue'[n]) = Len(pTxQueue[n]) + 1
    BY <2>1, <2>2, <2>3 DEF OnlySlot, Enqueue, TableInv, TypeOK
  <2>5. State[n] # "FreeSlot" /\ Shown(State[n]) \in {"asked", "answered"}
    BY <2>1 DEF Pending, Waiting, Shown
  <2>6. /\ Status[ip] = Shown(State[n]) /\ Frames[ip] = Len(pTxQueue[n])
        /\ Status' = [Status EXCEPT ![ip] = Shown(State[n])]
        /\ Frames' = [Frames EXCEPT ![ip] = Len(pTxQueue[n]) + 1]
    BY <2>2, <2>3, <2>4, <2>5, EntryKept
  <2>7. Resolution!Wait(ip)
    BY <2>5, <2>6, StatusType DEF Resolution!Wait
  <2> QED
    BY <2>7 DEF Resolution!Next
<1>3. CASE ResolveNew(ip)
  <2>1. PICK n \in SlotToResolve : EntriesOf(ip) = {} /\ Begin(n, ip)
    BY <1>3 DEF ResolveNew
  <2>2. n \in Slots /\ State[n] \in {"FreeSlot", "Valid"}
    BY SlotToResolveFacts, ArpAssumption DEF TableInv, TypeOK, UsedOnly, States, Slots
  <2>3. State'[n] = "RequestSent" /\ IPAddress'[n] = ip /\ OnlySlot(n)
    BY <2>1, <2>2 DEF Begin, RequestFor, Enqueue, OnlySlot, TableInv, TypeOK
  <2>4. Len(pTxQueue'[n]) = 1
    <3>1. pTxQueue[n] = <<>>
      BY <2>2 DEF TableInv, QueuesRight, Pending, Waiting
    <3> QED
      BY <2>1, <2>2, <3>1 DEF Begin, RequestFor, Enqueue, TableInv, TypeOK
  <2>5. Shown(State'[n]) = "asked"
    BY <2>3 DEF Shown
  <2>6. ASSUME State[n] = "FreeSlot" \/ IPAddress[n] \notin Hosts
        PROVE  Resolution!Ask(ip)
    <3>1. /\ Status[ip] = "unknown"
          /\ Status' = [Status EXCEPT ![ip] = Shown(State'[n])]
          /\ Frames' = [Frames EXCEPT ![ip] = Len(pTxQueue'[n])]
      BY <2>1, <2>2, <2>3, <2>6, EntryMade
    <3> QED
      BY <2>4, <2>5, <3>1 DEF Resolution!Ask
  <2>7. ASSUME State[n] = "Valid", IPAddress[n] \in Hosts
        PROVE  Resolution!Ask(ip)
    <3>1. PICK old \in Hosts : IPAddress[n] = old
      BY <2>7
    <3>2. /\ Status[ip] = "unknown" /\ Status[old] = "known"
          /\ Status' = [Status EXCEPT ![ip] = Shown(State'[n]), ![old] = "unknown"]
          /\ Frames' = [Frames EXCEPT ![ip] = Len(pTxQueue'[n])]
      BY <2>1, <2>2, <2>3, <2>7, <3>1, EntryReplaced
    <3> QED
      BY <2>4, <2>5, <3>2 DEF Resolution!Ask
  <2>8. Resolution!Ask(ip)
    BY <2>2, <2>6, <2>7
  <2> QED
    BY <2>8 DEF Resolution!Next
<1> QED
  BY <1>1, <1>2, <1>3 DEF Resolve

LEMMA PacketRefines ==
    ASSUME TableInv, TableInv', ProcessPacket
    PROVE  Resolution!Next \/ UNCHANGED <<Status, Frames>>
<1>0. UNCHANGED pTxQueue
  BY DEF ProcessPacket
<1>1. CASE UNCHANGED table
  BY <1>0, <1>1, NoEntry
<1>2. ASSUME NEW host \in Hosts, EntriesOf(host) = {}, Learn(host)
      PROVE  Resolution!Next
  <2>1. PICK n \in NewSlot :
            /\ State' = [State EXCEPT ![n] = "Valid"]
            /\ IPAddress' = [IPAddress EXCEPT ![n] = host]
    BY <1>2 DEF Learn
  <2>2. n \in Slots /\ State[n] = "FreeSlot"
    BY NewSlotFacts, ArpAssumption DEF TableInv, TypeOK, UsedOnly, Slots
  <2>3. State'[n] = "Valid" /\ IPAddress'[n] = host /\ OnlySlot(n)
    BY <1>0, <2>1, <2>2 DEF OnlySlot, TableInv, TypeOK
  <2>4. Shown(State'[n]) = "known" /\ Len(pTxQueue'[n]) = 0
    BY <1>0, <2>2, <2>3 DEF Shown, TableInv, QueuesRight, Pending, Waiting
  <2>5. /\ Status[host] = "unknown" /\ Frames[host] = 0
        /\ Status' = [Status EXCEPT ![host] = Shown(State'[n])]
        /\ Frames' = [Frames EXCEPT ![host] = Len(pTxQueue'[n])]
    BY <1>2, <2>2, <2>3, EntryMade
  <2>6. Frames' = Frames
    BY <2>4, <2>5 DEF Frames
  <2>7. Resolution!Learn(host)
    BY <2>4, <2>5, <2>6 DEF Resolution!Learn
  <2> QED
    BY <2>7 DEF Resolution!Next
<1>3. ASSUME NEW host \in Hosts, NEW n \in Asked(host), Answered(n, host)
      PROVE  Resolution!Next
  <2>1. n \in Slots /\ Waiting(n) /\ IPAddress[n] = host
    BY AskedFacts
  <2>2. State'[n] = "SendTxQueue" /\ IPAddress'[n] = host /\ OnlySlot(n)
    BY <1>0, <1>3, <2>1 DEF Answered, OnlySlot, TableInv, TypeOK
  <2>3. Shown(State[n]) = "asked" /\ Shown(State'[n]) = "answered" /\ State[n] # "FreeSlot"
    BY <2>1, <2>2 DEF Waiting, Shown
  <2>4. /\ Status[host] = Shown(State[n]) /\ Frames[host] = Len(pTxQueue[n])
        /\ Status' = [Status EXCEPT ![host] = Shown(State'[n])]
        /\ Frames' = [Frames EXCEPT ![host] = Len(pTxQueue'[n])]
    BY <2>1, <2>2, <2>3, EntryKept
  <2>5. Frames' = Frames
    BY <1>0, <2>4 DEF Frames
  <2>6. Resolution!Answer(host)
    BY <2>3, <2>4, <2>5 DEF Resolution!Answer
  <2> QED
    BY <2>6 DEF Resolution!Next
<1>4. CASE m_pRxQueue # <<>>
  <2>1. Head(m_pRxQueue) \in Packets
    BY <1>4, HeadTailProperties DEF TableInv, TypeOK
  <2>2. PICK host \in Hosts : RequestReceived(host) \/ ReplyReceived(host)
    BY <1>4, <2>1 DEF ProcessPacket, Packets
  <2> QED
    BY <1>1, <1>2, <1>3, <2>2 DEF RequestReceived, ReplyReceived
<1>5. CASE m_pRxQueue = <<>>
  BY <1>1, <1>5 DEF ProcessPacket
<1> QED
  BY <1>4, <1>5

LEMMA EntryRefines ==
    ASSUME TableInv, TableInv', ProcessEntry
    PROVE  Resolution!Next \/ UNCHANGED <<Status, Frames>>
<1>0. PICK n : n = nEntry
  OBVIOUS
<1>1. nEntry < m_nEntries => n \in Slots
  BY <1>0, ArpAssumption DEF TableInv, TypeOK, Slots
<1>2. CASE nEntry < m_nEntries /\ Retry(n)
  <2>1. PICK ip \in Hosts : IPAddress[n] = ip
    BY <1>1, <1>2, PendingHost DEF Retry, Pending, Waiting
  <2>2. /\ State[n] = "RetryRequest" /\ State'[n] = "RequestSent" /\ IPAddress'[n] = ip
        /\ OnlySlot(n) /\ UNCHANGED pTxQueue
    BY <1>1, <1>2, <2>1 DEF Retry, RequestAgain, OnlySlot, TableInv, TypeOK
  <2>3. Shown(State[n]) = Shown(State'[n])
    BY <2>2 DEF Shown
  <2>4. /\ Status[ip] = Shown(State[n]) /\ Frames[ip] = Len(pTxQueue[n])
        /\ Status' = [Status EXCEPT ![ip] = Shown(State'[n])]
        /\ Frames' = [Frames EXCEPT ![ip] = Len(pTxQueue'[n])]
    BY <1>1, <1>2, <2>1, <2>2, EntryKept
  <2>5. /\ Status' = [Status EXCEPT ![ip] = Status[ip]]
        /\ Frames' = [Frames EXCEPT ![ip] = Frames[ip]]
    BY <2>2, <2>3, <2>4
  <2> QED
    BY <2>5 DEF Status, Frames
<1>3. CASE nEntry < m_nEntries /\ GiveUp(n)
  <2>1. PICK ip \in Hosts : IPAddress[n] = ip
    BY <1>1, <1>3, PendingHost DEF GiveUp, Pending, Waiting
  <2>2. State[n] = "RetryRequest" /\ State'[n] = "FreeSlot" /\ OnlySlot(n)
    BY <1>1, <1>3 DEF GiveUp, Release, OnlySlot, TableInv, TypeOK
  <2>3. StatusOf(ip) = "asked"
    BY <1>1, <1>3, <2>1, <2>2, HasEntry DEF Shown
  <2>4. \A k \in Slots : State'[k] # "FreeSlot" => IPAddress'[k] # ip
    BY <1>1, <1>3, <2>1, <2>2 DEF TableInv, OneEntry, OnlySlot
  <2>5. StatusOf(ip)' = "unknown" /\ WaitingFor(ip)' = 0
    BY <2>4, HasNoneNext
  <2>6. \A h \in Hosts : h # ip => StatusOf(h)' = StatusOf(h) /\ WaitingFor(h)' = WaitingFor(h)
    BY <1>1, <1>3, <2>1, <2>2, Elsewhere
  <2>7. /\ Status[ip] = "asked"
        /\ Status' = [Status EXCEPT ![ip] = "unknown"] /\ Frames' = [Frames EXCEPT ![ip] = 0]
    BY <2>3, <2>5, <2>6 DEF Status, Frames
  <2>8. Resolution!GiveUp(ip)
    BY <2>7 DEF Resolution!GiveUp
  <2> QED
    BY <2>8 DEF Resolution!Next
<1>4. CASE nEntry < m_nEntries /\ SendTxQueue(n)
  <2>1. PICK ip \in Hosts : IPAddress[n] = ip
    BY <1>1, <1>4, PendingHost DEF SendTxQueue, Pending, Waiting
  <2>2. /\ State[n] = "SendTxQueue" /\ State'[n] = "Valid" /\ IPAddress'[n] = ip
        /\ OnlySlot(n) /\ pTxQueue'[n] = <<>>
    BY <1>1, <1>4, <2>1 DEF SendTxQueue, OnlySlot, TableInv, TypeOK
  <2>3. Shown(State[n]) = "answered" /\ Shown(State'[n]) = "known" /\ Len(pTxQueue'[n]) = 0
    BY <2>2 DEF Shown
  <2>4. /\ Status[ip] = Shown(State[n])
        /\ Status' = [Status EXCEPT ![ip] = Shown(State'[n])]
        /\ Frames' = [Frames EXCEPT ![ip] = Len(pTxQueue'[n])]
    BY <1>1, <1>4, <2>1, <2>2, EntryKept
  <2>5. Resolution!Deliver(ip)
    BY <2>3, <2>4 DEF Resolution!Deliver
  <2> QED
    BY <2>5 DEF Resolution!Next
<1>5. CASE UNCHANGED <<table, pTxQueue, timers, misdirected>>
  BY <1>5, NoEntry
<1> QED
  BY <1>0, <1>2, <1>3, <1>4, <1>5 DEF ProcessEntry

LEMMA CleanupRefines ==
    ASSUME TableInv, TableInv', Cleanup
    PROVE  Resolution!Next
<1>1. PICK old \in SUBSET {n \in Used : State[n] = "Valid"} :
          /\ State' = [n \in Slots |-> IF n \in old THEN "FreeSlot" ELSE State[n]]
          /\ IPAddress' = [n \in Slots |-> IF n \in old THEN NULL ELSE IPAddress[n]]
  BY DEF Cleanup
<1>2. UNCHANGED pTxQueue
  BY DEF Cleanup
<1> DEFINE gone == {ip \in Hosts : \E n \in old : IPAddress[n] = ip}
<1>3. ASSUME NEW ip \in gone
      PROVE  StatusOf(ip) = "known" /\ WaitingFor(ip) = 0 /\ StatusOf(ip)' = "unknown" /\ WaitingFor(ip)' = 0
  <2>1. PICK n \in old : IPAddress[n] = ip
    OBVIOUS
  <2>2. n \in Slots /\ State[n] = "Valid" /\ pTxQueue[n] = <<>>
    BY <1>1 DEF Used, TableInv, QueuesRight, Pending, Waiting
  <2>3. StatusOf(ip) = "known" /\ WaitingFor(ip) = 0
    BY <2>1, <2>2, HasEntry DEF Shown
  <2>4. \A k \in Slots : State'[k] # "FreeSlot" => IPAddress'[k] # ip
    BY <1>1, <2>1, <2>2 DEF TableInv, OneEntry
  <2> QED
    BY <2>3, <2>4, HasNoneNext
<1>4. ASSUME NEW ip \in Hosts, ip \notin gone
      PROVE  StatusOf(ip)' = StatusOf(ip) /\ WaitingFor(ip)' = WaitingFor(ip)
  <2>1. CASE \E n \in Slots : State[n] # "FreeSlot" /\ IPAddress[n] = ip
    <3>1. PICK n \in Slots : State[n] # "FreeSlot" /\ IPAddress[n] = ip
      BY <2>1
    <3>2. State'[n] = State[n] /\ IPAddress'[n] = ip
      BY <1>1, <1>4, <3>1
    <3>3. StatusOf(ip) = Shown(State[n]) /\ WaitingFor(ip) = Len(pTxQueue[n])
      BY <3>1, HasEntry
    <3>4. StatusOf(ip)' = Shown(State'[n]) /\ WaitingFor(ip)' = Len(pTxQueue'[n])
      BY <3>1, <3>2, HasEntryNext
    <3> QED
      BY <1>2, <3>2, <3>3, <3>4
  <2>2. CASE \A n \in Slots : State[n] # "FreeSlot" => IPAddress[n] # ip
    <3>1. \A n \in Slots : State'[n] # "FreeSlot" => IPAddress'[n] # ip
      BY <1>1, <2>2
    <3> QED
      BY <2>2, <3>1, HasNone, HasNoneNext
  <2> QED
    BY <2>1, <2>2
<1>5. PICK lost \in SUBSET Hosts : lost = gone
  OBVIOUS
<1>6. /\ \A ip \in lost : Status[ip] = "known"
      /\ Status' = [ip \in Hosts |-> IF ip \in lost THEN "unknown" ELSE Status[ip]]
      /\ Frames' = Frames
  <2> HIDE DEF gone
  <2> QED
    BY <1>3, <1>4, <1>5 DEF Status, Frames
<1>7. Resolution!Forget(lost)
  BY <1>6 DEF Resolution!Forget
<1> QED
  BY <1>6, <1>7 DEF Resolution!Next

LEMMA TimerRefines ==
    ASSUME TableInv, TableInv', TimerInv, NEW h \in Handles, TimerHandler(h)
    PROVE  UNCHANGED <<Status, Frames>>
<1>1. PICK n \in Slots : n = running[h] /\ State[n] = "RequestSent"
  BY DEF TimerHandler, Expire, TimerInv, TypeOK, TimerRuns
<1>2. /\ State'[n] = "RetryRequest" /\ OnlySlot(n) /\ UNCHANGED <<IPAddress, pTxQueue>>
  BY <1>1 DEF TimerHandler, Expire, OnlySlot, TableInv, TypeOK
<1>3. PICK ip \in Hosts : IPAddress[n] = ip
  BY <1>1, PendingHost DEF Pending, Waiting
<1>4. Shown(State[n]) = Shown(State'[n])
  BY <1>1, <1>2 DEF Shown
<1>5. /\ Status[ip] = Shown(State[n]) /\ Frames[ip] = Len(pTxQueue[n])
      /\ Status' = [Status EXCEPT ![ip] = Shown(State'[n])]
      /\ Frames' = [Frames EXCEPT ![ip] = Len(pTxQueue'[n])]
  BY <1>1, <1>2, <1>3, EntryKept
<1> QED
  BY <1>2, <1>4, <1>5 DEF Status, Frames

\* The table, its queues and its timers do what AddressResolution promises the
\* link layer: no frame is lost or left in an entry, none waits for an address
\* that is known, no address that was answered is given up; for any number of
\* entries, hosts, timers and attempts.
THEOREM Refines == Spec => ImplementsResolution
<1>1. ASSUME Init PROVE Resolution!Init
  <2>1. \A ip : EntriesOf(ip) = {}
    BY <1>1 DEF Init, EntriesOf, Used
  <2> QED
    BY <2>1 DEF Resolution!Init, Status, Frames, StatusOf, WaitingFor
<1>2. ASSUME TableInv, TableInv', TimerInv, [Next]_vars
      PROVE  Resolution!Next \/ UNCHANGED <<Status, Frames>>
  <2>1. CASE \E ip \in Hosts : Resolve(ip)
    BY <1>2, <2>1, ResolveRefines
  <2>2. CASE ProcessPacket
    BY <1>2, <2>2, PacketRefines
  <2>3. CASE ProcessEntry
    BY <1>2, <2>3, EntryRefines
  <2>4. CASE Cleanup
    BY <1>2, <2>4, CleanupRefines
  <2>5. CASE \E h \in Handles : TimerHandler(h)
    BY <1>2, <2>5, TimerRefines
  <2>6. CASE UNCHANGED <<table, pTxQueue>>
    BY <2>6, NoEntry
  <2> QED
    BY <1>2, <2>1, <2>2, <2>3, <2>4, <2>5, <2>6 DEF Next, Arrive, ProcessStart, vars
<1>3. TableInv /\ TableInv' /\ TimerInv /\ [Next]_vars => [Resolution!Next]_(Resolution!vars)
  BY <1>2 DEF Resolution!vars
<1> QED
  BY <1>1, <1>3, TableInit, TableStep, TimerInit, TimerStep, PTL
  DEF Spec, ImplementsResolution, Resolution!Spec
=============================================================================
