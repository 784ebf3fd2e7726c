-------------------------------- MODULE Dhcp --------------------------------
(***************************************************************************)
(* CDHCPClient of circle/lib/net/dhcpclient.cpp: the task that gets the    *)
(* address of the machine from a server, renews the lease, and gives the   *)
(* address up, over a network that loses, delays and reorders messages.    *)
(*                                                                         *)
(* A client step is what the task does between two waits.  Time passes     *)
(* only while the task waits: what it does in between, and what the        *)
(* scheduler adds to its sleeps, takes no time.  Times are kept as what is *)
(* left, or as the time since the lease began.                             *)
(*                                                                         *)
(* Each server has one address for the client, so that an address is named *)
(* by its server, and a server that is asked for it again sends it again.  *)
(* The transaction ID is taken from the clock and never comes twice: with  *)
(* a new one the answers to the old requests, which would be ignored, are  *)
(* dropped.  Messages that ReceiveMessage or SendAndReceive ignore are     *)
(* left out.                                                               *)
(***************************************************************************)
EXTENDS Integers, Sequences, FiniteSets

CONSTANTS
    Servers,
    NULL,
    TryEnds,          \* <<4, 12, 28, 60>> seconds: when the tries of s_TimeoutHZ end
    RESTART_DELAY,    \* 60 seconds
    MIN_SLEEP,        \* 60 seconds, in RenewOrRebind
    POLL,             \* 10 seconds, in the bound state
    LeaseTime,        \* what the servers grant
    RawTimes,         \* the pairs of T1 and T2 that the servers send, 0 for none
    Width,            \* 2^32
    MaxNet            \* bound: the answers on their way

MAX_TRIES == Len(TryEnds)

s_TimeoutHZ(try) == IF try = 1 THEN TryEnds[1] ELSE TryEnds[try] - TryEnds[try - 1]

\* How long all tries of SendAndReceive take.
AllTries == TryEnds[MAX_TRIES]

ASSUME DhcpAssumption ==
    /\ NULL \notin Servers
    /\ TryEnds \in Seq(Nat \ {0}) /\ TryEnds # <<>>
    /\ \A i, j \in 1 .. Len(TryEnds) : i < j => TryEnds[i] < TryEnds[j]
    /\ RESTART_DELAY \in Nat \ {0} /\ MIN_SLEEP \in Nat \ {0} /\ POLL \in 1 .. MIN_SLEEP
    /\ Width \in Nat /\ LeaseTime \in 1 .. Width - 1
    /\ RawTimes \subseteq [T1 : 0 .. Width - 1, T2 : 0 .. Width - 1]
    /\ MaxNet \in Nat

VARIABLES
    pc,            \* where Run, SelectAndRequest or RenewOrRebind waits, or goes on
    bRenew,        \* the stage: renewing, or rebinding
    nTry, timer,   \* SendAndReceive's try, and what is left of its time or of a sleep
    m_nServerIdentifier,
    m_nRenewalTimeValue, m_nRebindingTimeValue,
    since,         \* GetUptime() - m_nBoundSince
    m_bIsBound, IPAddress,           \* CNetConfig
    net,           \* answers to the current transaction, sent and not received
    leaseLeft      \* for each server, how long it still keeps the address

netConfig == <<m_bIsBound, IPAddress>>
lease     == <<m_nServerIdentifier, m_nRenewalTimeValue, m_nRebindingTimeValue, since>>
wait      == <<pc, bRenew, nTry, timer>>
vars      == <<wait, lease, netConfig, net, leaseLeft>>

Messages ==
    [type : {"OFFER", "NAK"}, server : Servers]
        \cup [type : {"ACK"}, server : Servers, times : RawTimes]

Larger(a, b) == IF a < b THEN b ELSE a

\* How long a server may have given up an address that the client still uses: the
\* ACK may have taken as long as all tries, and the client may be in a try, or in
\* its shortest sleep, when its own time has come.
Slack == AllTries + Larger(AllTries, MIN_SLEEP) - 2

\* bound: leaseLeft is not counted below this.
Floor == -(Slack + 1)

TypeOK ==
    /\ pc \in {"init", "offer", "ack", "restart", "bound", "renew", "answer", "pause"}
    /\ bRenew \in BOOLEAN
    /\ nTry \in 1 .. MAX_TRIES /\ timer \in Nat
    /\ m_nServerIdentifier \in Servers \cup {NULL}
    /\ m_nRenewalTimeValue \in 0 .. Width - 1 /\ m_nRebindingTimeValue \in 0 .. Width - 1
    /\ since \in Nat
    /\ m_bIsBound \in BOOLEAN
    /\ IPAddress \in Servers \cup {NULL}
    /\ net \subseteq Messages
    /\ leaseLeft \in [Servers -> Int]

Init ==
    /\ pc = "init" /\ bRenew = TRUE /\ nTry = 1 /\ timer = 0
    /\ m_nServerIdentifier = NULL /\ since = 0
    /\ m_nRenewalTimeValue = 0 /\ m_nRebindingTimeValue = 0
    /\ m_bIsBound = FALSE /\ IPAddress = NULL
    /\ net = {}
    /\ leaseLeft = [s \in Servers |-> Floor]

-----------------------------------------------------------------------------
(***************************************************************************)
(* CheckConfig: the times that a message leaves out, in unsigned numbers.  *)
(***************************************************************************)
T2Of(t) ==
    IF t.T2 # 0 THEN t.T2
    ELSE IF t.T1 = 0 THEN LeaseTime - LeaseTime \div 8
    ELSE (t.T1 + ((LeaseTime - t.T1) % Width) \div 2) % Width

T1Of(t) ==
    IF t.T1 # 0 THEN t.T1
    ELSE IF t.T2 = 0 THEN LeaseTime \div 2
    ELSE (t.T2 - (LeaseTime - t.T2)) % Width

CheckConfig(t) == T1Of(t) <= T2Of(t) /\ T2Of(t) <= LeaseTime

-----------------------------------------------------------------------------
Sleep(where, time) ==
    pc' = where /\ timer' = time /\ UNCHANGED <<bRenew, nTry>>

\* A message is sent, and its answer is waited for.
Sent(where, try) ==
    pc' = where /\ nTry' = try /\ timer' = s_TimeoutHZ(try) /\ UNCHANGED bRenew

HaltNetwork ==
    /\ m_bIsBound' = FALSE /\ IPAddress' = NULL
    /\ m_nServerIdentifier' = NULL /\ since' = 0
    /\ UNCHANGED <<m_nRenewalTimeValue, m_nRebindingTimeValue>>

\* A plausible slip: rebinding ends with the time at which it begins.
LimitRebinding == m_nRebindingTimeValue

\* Until when the stage may last.
Limit == IF bRenew THEN m_nRebindingTimeValue ELSE LeaseTime

\* A plausible slip: the state after the end of the lease is the bound state.
StageOverBound ==
    \/ /\ bRenew
       /\ bRenew' = FALSE /\ pc' = "renew" /\ timer' = 0
       /\ UNCHANGED <<nTry, lease, netConfig>>
    \/ /\ ~bRenew
       /\ HaltNetwork
       /\ Sleep("bound", 0)

\* DHCPStatusTimeout: rebinding follows renewing, and the lease has then expired.
StageOver ==
    \/ /\ bRenew
       /\ bRenew' = FALSE /\ pc' = "renew" /\ timer' = 0
       /\ UNCHANGED <<nTry, lease, netConfig>>
    \/ /\ ~bRenew
       /\ HaltNetwork
       /\ Sleep("init", 0)

Pause == Larger((Limit - since) \div 2, MIN_SLEEP)

\* SendAndReceive returns FALSE: nothing was received, or a message could not be sent.
NoAnswer ==
    \/ /\ pc \in {"init", "offer", "ack"}
       /\ Sleep("restart", RESTART_DELAY)
       /\ UNCHANGED <<lease, netConfig>>
    \/ /\ pc \in {"renew", "answer"} /\ Limit <= since
       /\ StageOver
    \/ /\ pc \in {"renew", "answer"} /\ Limit > since
       /\ Sleep("pause", Pause)
       /\ UNCHANGED <<lease, netConfig>>

\* SelectAndRequest takes a new transaction ID and sends DISCOVER.
SelectSent ==
    /\ pc = "init"
    /\ net' = {}
    /\ Sent("offer", 1)
    /\ UNCHANGED <<lease, netConfig, leaseLeft>>

SelectNotSent ==
    /\ pc = "init"
    /\ net' = {}
    /\ NoAnswer
    /\ UNCHANGED leaseLeft

\* The time of a try is over.
TryAgain ==
    /\ pc \in {"offer", "ack", "answer"} /\ timer = 0
    /\ \/ /\ nTry < MAX_TRIES
          /\ Sent(pc, nTry + 1)
          /\ UNCHANGED <<lease, netConfig>>
       \/ NoAnswer
    /\ UNCHANGED <<net, leaseLeft>>

\* The first OFFER is taken; REQUEST is sent with the same transaction ID.
ReceiveOffer(m, sent) ==
    /\ pc = "offer" /\ timer > 0
    /\ m \in net /\ m.type = "OFFER"
    /\ net' = net \ {m}
    /\ m_nServerIdentifier' = m.server
    /\ IF sent THEN Sent("ack", 1) ELSE Sleep("restart", RESTART_DELAY)
    /\ UNCHANGED <<m_nRenewalTimeValue, m_nRebindingTimeValue, since, netConfig, leaseLeft>>

\* The times that count from now on (BoundState).
Bind(m) ==
    /\ Sleep("bound", 0)
    /\ since' = 0
    /\ m_nRenewalTimeValue' = T1Of(m.times) /\ m_nRebindingTimeValue' = T2Of(m.times)

\* SelectAndRequest receives an ACK that fits its REQUEST.
ReceiveAck(m) ==
    /\ pc = "ack" /\ timer > 0
    /\ m \in net /\ m.type = "ACK"
    /\ CheckConfig(m.times) /\ m.server = m_nServerIdentifier
    /\ Bind(m)
    /\ m_bIsBound' = TRUE /\ IPAddress' = m.server
    /\ net' = net \ {m}
    /\ UNCHANGED <<m_nServerIdentifier, leaseLeft>>

\* Or one that does not, or a NAK.
ReceiveRefusal(m) ==
    /\ pc = "ack" /\ timer > 0
    /\ m \in net
    /\ m.type = "NAK" \/ (m.type = "ACK" /\ ~(CheckConfig(m.times) /\ m.server = m_nServerIdentifier))
    /\ Sleep("restart", RESTART_DELAY)
    /\ net' = net \ {m}
    /\ UNCHANGED <<lease, netConfig, leaseLeft>>

Restart ==
    /\ pc = "restart" /\ timer = 0
    /\ Sleep("init", 0)
    /\ UNCHANGED <<lease, netConfig, net, leaseLeft>>

\* The bound state: messages are discarded now and then, until T1.
BoundLoop ==
    /\ pc = "bound" /\ timer = 0
    /\ \/ /\ since < m_nRenewalTimeValue
          /\ net' = {}
          /\ Sleep("bound", POLL)
       \/ /\ since >= m_nRenewalTimeValue
          /\ pc' = "renew" /\ bRenew' = TRUE
          /\ UNCHANGED <<net, nTry, timer>>
    /\ UNCHANGED <<lease, netConfig, leaseLeft>>

\* A plausible slip: the transaction ID of the last request is used again.
RenewSameXID ==
    /\ pc = "renew"
    /\ \/ /\ since >= Limit
          /\ StageOver
       \/ /\ since < Limit
          /\ (Sent("answer", 1) /\ UNCHANGED <<lease, netConfig>>) \/ NoAnswer
    /\ UNCHANGED <<net, leaseLeft>>

\* The head of the loop of RenewOrRebind, and the way to it.
Renew ==
    /\ pc = "renew"
    /\ \/ /\ since >= Limit
          /\ StageOver
          /\ UNCHANGED net
       \/ /\ since < Limit
          /\ net' = {}
          /\ (Sent("answer", 1) /\ UNCHANGED <<lease, netConfig>>) \/ NoAnswer
    /\ UNCHANGED leaseLeft

WakeUp ==
    /\ pc = "pause" /\ timer = 0
    /\ Sleep("renew", 0)
    /\ UNCHANGED <<lease, netConfig, net, leaseLeft>>

\* An ACK renews the lease.  The address, netmask, router and DNS server are looked
\* at, but only a message in which all of them differ is refused: the address never
\* does, so that the others are ignored.
ReceiveRenewal(m) ==
    /\ pc = "answer" /\ timer > 0
    /\ m \in net /\ m.type = "ACK" /\ CheckConfig(m.times)
    /\ Bind(m)
    /\ m_nServerIdentifier' = m.server
    /\ net' = net \ {m}
    /\ UNCHANGED <<netConfig, leaseLeft>>

\* A NAK, or a message with times that do not fit.
ReceiveEnd(m) ==
    /\ pc = "answer" /\ timer > 0
    /\ m \in net
    /\ m.type = "NAK" \/ (m.type = "ACK" /\ ~CheckConfig(m.times))
    /\ HaltNetwork
    /\ Sleep("init", 0)
    /\ net' = net \ {m}
    /\ UNCHANGED leaseLeft

-----------------------------------------------------------------------------
(***************************************************************************)
(* The servers.  A request may reach them at any time after it was sent,   *)
(* also when the client does not wait for an answer any more.              *)
(***************************************************************************)
Answer(m) ==
    /\ Cardinality(net \cup {m}) <= MaxNet
    /\ net' = net \cup {m}
    /\ UNCHANGED <<wait, lease, netConfig>>

Offer(s) ==
    /\ pc = "offer"
    /\ Answer([type |-> "OFFER", server |-> s])
    /\ UNCHANGED leaseLeft

Renewing == pc \in {"answer", "pause"}

\* The server that was asked for its address grants it, from now on.
Ack(s, times) ==
    /\ \/ pc = "ack" /\ s = m_nServerIdentifier
       \/ Renewing /\ s = IPAddress
    /\ Answer([type |-> "ACK", server |-> s, times |-> times])
    /\ leaseLeft' = [leaseLeft EXCEPT ![s] = LeaseTime]

\* A server refuses: the one that is asked, or any one when all are.
Nak(s) ==
    /\ \/ pc = "ack" /\ s = m_nServerIdentifier
       \/ Renewing /\ (bRenew => s = m_nServerIdentifier)
    /\ Answer([type |-> "NAK", server |-> s])
    /\ UNCHANGED leaseLeft

Tick ==
    /\ timer > 0
    /\ timer' = timer - 1
    /\ since' = IF m_bIsBound THEN since + 1 ELSE since
    /\ leaseLeft' = [s \in Servers |-> Larger(leaseLeft[s] - 1, Floor)]
    /\ UNCHANGED <<pc, bRenew, nTry, m_nServerIdentifier, m_nRenewalTimeValue,
                   m_nRebindingTimeValue, netConfig, net>>

-----------------------------------------------------------------------------
Step == SelectSent \/ SelectNotSent \/ TryAgain \/ Restart \/ BoundLoop \/ Renew \/ WakeUp

Next ==
    \/ SelectSent \/ SelectNotSent \/ TryAgain \/ Restart
    \/ BoundLoop \/ Renew \/ WakeUp
    \/ \E m \in net :
          \/ \E sent \in BOOLEAN : ReceiveOffer(m, sent)
          \/ ReceiveAck(m) \/ ReceiveRefusal(m)
          \/ ReceiveRenewal(m) \/ ReceiveEnd(m)
    \/ \E s \in Servers :
          \/ Offer(s)
          \/ \E t \in RawTimes : Ack(s, t)
          \/ Nak(s)
    \/ Tick

\* The task runs on and time passes.  Again and again the network lets something
\* through: a DISCOVER, an OFFER and a REQUEST, an ACK with times that fit.
Fairness ==
    /\ WF_vars(Step)
    /\ WF_vars(Tick)
    /\ SF_vars(SelectSent)
    /\ SF_vars(timer > 0 /\ \E s \in Servers : Offer(s))
    /\ SF_vars(\E m \in net : ReceiveOffer(m, TRUE))
    /\ SF_vars(pc = "ack" /\ timer > 0 /\ \E s \in Servers :
                  \E t \in {r \in RawTimes : CheckConfig(r)} : Ack(s, t))
    /\ SF_vars(\E m \in net : ReceiveAck(m))

Spec == Init /\ [][Next]_vars /\ Fairness
-----------------------------------------------------------------------------
(***************************************************************************)
(* Properties                                                              *)
(***************************************************************************)

\* The machine uses an address only while the server keeps it, or not longer than
\* Slack after that: whatever ACKs are delayed, lost or repeated, and however the
\* tries and the sleeps of the two stages fall.
LeaseHeld == IPAddress # NULL => leaseLeft[IPAddress] >= -Slack

\* The address is given up within a try, or a shortest sleep, after the end of the
\* lease, as the client counts it.
GivenUpInTime == IPAddress # NULL => since < LeaseTime + Larger(AllTries, MIN_SLEEP)

\* Renewing begins before rebinding and rebinding before the end, so that the times
\* of a lease are in order, whichever of them the server has left out.
TimesInOrder ==
    m_bIsBound => m_nRenewalTimeValue <= m_nRebindingTimeValue /\ m_nRebindingTimeValue <= LeaseTime

\* An address that is in use is given up only when the lease is over or an answer to
\* the current request says so.
HaltJustified ==
    [][IPAddress # NULL /\ IPAddress' = NULL =>
          \/ since >= LeaseTime
          \/ \E m \in net : m.type = "NAK" \/ (m.type = "ACK" /\ ~CheckConfig(m.times))]_vars

\* A machine without an address gets one, if the network lets messages through
\* again and again: no way through the states ends before that.
GetsAddress == []<>(IPAddress # NULL)
=============================================================================
