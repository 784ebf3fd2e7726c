----------------------------- MODULE DhcpProofs -----------------------------
(***************************************************************************)
(* The safety properties of Dhcp for every number of servers and tries,    *)
(* every lease and every choice of the times that a server sends.          *)
(***************************************************************************)
EXTENDS Dhcp, TLAPS

LEMMA TriesFacts ==
    /\ MAX_TRIES \in Nat \ {0}
    /\ AllTries \in Nat \ {0}
    /\ \A n \in 1 .. MAX_TRIES :
          /\ TryEnds[n] \in Nat \ {0} /\ TryEnds[n] <= AllTries
          /\ s_TimeoutHZ(n) \in Nat \ {0} /\ s_TimeoutHZ(n) <= TryEnds[n]
          /\ n + 1 \in 1 .. MAX_TRIES => s_TimeoutHZ(n + 1) = TryEnds[n + 1] - TryEnds[n]
    /\ s_TimeoutHZ(1) = TryEnds[1]
<1>1. MAX_TRIES \in Nat \ {0} /\ \A n \in 1 .. MAX_TRIES : TryEnds[n] \in Nat \ {0}
  BY DhcpAssumption DEF MAX_TRIES
<1>2. \A n \in 1 .. MAX_TRIES : n = MAX_TRIES \/ TryEnds[n] < TryEnds[MAX_TRIES]
  BY <1>1, DhcpAssumption DEF MAX_TRIES
<1>3. \A n \in 2 .. MAX_TRIES : n - 1 \in 1 .. MAX_TRIES /\ TryEnds[n - 1] < TryEnds[n]
  BY SMTT(30), <1>1, DhcpAssumption DEF MAX_TRIES
<1>4. ASSUME NEW n \in 1 .. MAX_TRIES
      PROVE  s_TimeoutHZ(n) \in Nat \ {0} /\ s_TimeoutHZ(n) <= TryEnds[n]
  <2>1. CASE n = 1
    BY <2>1, <1>1 DEF s_TimeoutHZ
  <2>2. CASE n \in 2 .. MAX_TRIES
    BY <2>2, <1>1, <1>3 DEF s_TimeoutHZ
  <2> QED
    BY <2>1, <2>2, <1>1
<1>5. \A n \in 1 .. MAX_TRIES : s_TimeoutHZ(n + 1) = TryEnds[n + 1] - TryEnds[n]
  BY DEF s_TimeoutHZ
<1> QED
  BY <1>1, <1>2, <1>4, <1>5 DEF AllTries, s_TimeoutHZ

LEMMA LargerFacts ==
    ASSUME NEW a \in Int, NEW b \in Int
    PROVE  Larger(a, b) \in Int /\ a <= Larger(a, b) /\ b <= Larger(a, b) /\ Larger(a, b) \in {a, b}
BY DEF Larger

LEMMA SlackFacts ==
    /\ Larger(AllTries, MIN_SLEEP) \in Nat
    /\ AllTries <= Larger(AllTries, MIN_SLEEP) /\ MIN_SLEEP <= Larger(AllTries, MIN_SLEEP)
    /\ Slack \in Int /\ Floor \in Int /\ Floor = -(Slack + 1)
<1>1. AllTries \in Nat \ {0} /\ MIN_SLEEP \in Nat \ {0}
  BY TriesFacts, DhcpAssumption
<1>2. Larger(AllTries, MIN_SLEEP) \in {AllTries, MIN_SLEEP}
      /\ AllTries <= Larger(AllTries, MIN_SLEEP) /\ MIN_SLEEP <= Larger(AllTries, MIN_SLEEP)
  BY <1>1, LargerFacts
<1> QED
  BY <1>1, <1>2 DEF Slack, Floor

LEMMA TimesFacts ==
    ASSUME NEW t \in RawTimes
    PROVE  T1Of(t) \in 0 .. Width - 1 /\ T2Of(t) \in 0 .. Width - 1
<1>1. Width \in Nat \ {0} /\ LeaseTime \in 0 .. Width - 1 /\ t.T1 \in 0 .. Width - 1 /\ t.T2 \in 0 .. Width - 1
  BY DhcpAssumption
<1>2. \A x \in Int : x % Width \in 0 .. Width - 1
  BY <1>1
<1>3. T1Of(t) \in 0 .. Width - 1
  BY <1>1, <1>2 DEF T1Of
<1>4. LeaseTime - t.T1 \in Int
  BY <1>1
<1>5. (LeaseTime - t.T1) % Width \in 0 .. Width - 1
  BY <1>2, <1>4
<1>6. t.T1 + ((LeaseTime - t.T1) % Width) \div 2 \in Int
  BY <1>1, <1>5
<1>7. (t.T1 + ((LeaseTime - t.T1) % Width) \div 2) % Width \in 0 .. Width - 1
  BY <1>2, <1>6
<1>8. LeaseTime - LeaseTime \div 8 \in 0 .. Width - 1
  BY <1>1
<1> QED
  BY <1>1, <1>3, <1>7, <1>8 DEF T2Of

LEMMA MessageFacts ==
    ASSUME TypeOK, NEW m \in net
    PROVE  m.server \in Servers /\ (m.type = "ACK" => m.times \in RawTimes)
BY DEF TypeOK, Messages

-----------------------------------------------------------------------------
LEMMA TypeInit == Init => TypeOK
<1> SUFFICES ASSUME Init PROVE TypeOK
  OBVIOUS
<1>1. 0 \in 0 .. Width - 1 /\ 1 \in 1 .. MAX_TRIES /\ Floor \in Int
  BY DhcpAssumption, TriesFacts, SlackFacts
<1> QED
  BY <1>1 DEF Init, TypeOK

LEMMA PauseFacts ==
    ASSUME TypeOK
    PROVE  /\ Limit \in 0 .. Width - 1 /\ Pause \in Nat
           /\ Limit > since => since + Pause < Limit + MIN_SLEEP
<1>1. Limit \in 0 .. Width - 1
  BY DhcpAssumption DEF TypeOK, Limit
<1>2. (Limit - since) \div 2 \in Int /\ MIN_SLEEP \in Nat \ {0} /\ since \in Nat
  BY <1>1, DhcpAssumption DEF TypeOK
<1>3. Limit > since => (Limit - since) \div 2 < Limit - since + MIN_SLEEP
  BY <1>1, <1>2
<1>4. Pause \in {(Limit - since) \div 2, MIN_SLEEP} /\ MIN_SLEEP <= Pause
  BY <1>2 DEF Pause, Larger
<1>5. Pause \in Nat
  BY <1>2, <1>4
<1> QED
  BY <1>1, <1>2, <1>3, <1>4, <1>5

LEMMA TypeStageOver ==
    ASSUME TypeOK, StageOver
    PROVE  /\ pc' \in {"init", "renew"}
           /\ bRenew' \in BOOLEAN /\ nTry' = nTry /\ timer' \in Nat
           /\ m_nServerIdentifier' \in Servers \cup {NULL}
           /\ m_nRenewalTimeValue' = m_nRenewalTimeValue
           /\ m_nRebindingTimeValue' = m_nRebindingTimeValue
           /\ since' \in Nat
           /\ m_bIsBound' \in BOOLEAN
           /\ IPAddress' \in Servers \cup {NULL}
<1>1. CASE /\ bRenew' = FALSE /\ pc' = "renew" /\ timer' = 0
           /\ UNCHANGED <<nTry, lease, netConfig>>
  BY <1>1 DEF TypeOK, lease, netConfig
<1>2. CASE HaltNetwork /\ Sleep("init", 0)
  BY <1>2 DEF TypeOK, HaltNetwork, Sleep
<1> QED
  BY <1>1, <1>2 DEF StageOver

LEMMA TypeNoAnswer ==
    ASSUME TypeOK, NoAnswer
    PROVE  /\ pc' \in {"init", "restart", "renew", "pause"}
           /\ bRenew' \in BOOLEAN /\ nTry' = nTry /\ timer' \in Nat
           /\ m_nServerIdentifier' \in Servers \cup {NULL}
           /\ m_nRenewalTimeValue' = m_nRenewalTimeValue
           /\ m_nRebindingTimeValue' = m_nRebindingTimeValue
           /\ since' \in Nat
           /\ m_bIsBound' \in BOOLEAN
           /\ IPAddress' \in Servers \cup {NULL}
<1>1. CASE Sleep("restart", RESTART_DELAY) /\ UNCHANGED <<lease, netConfig>>
  BY <1>1, DhcpAssumption DEF TypeOK, Sleep, lease, netConfig
<1>2. CASE StageOver
  BY <1>2, TypeStageOver
<1>3. CASE Sleep("pause", Pause) /\ UNCHANGED <<lease, netConfig>>
  BY <1>3, PauseFacts DEF TypeOK, Sleep, lease, netConfig
<1> QED
  BY <1>1, <1>2, <1>3 DEF NoAnswer

LEMMA TypeStep ==
    ASSUME TypeOK, Step
    PROVE  TypeOK'
<1>0. 1 \in 1 .. MAX_TRIES /\ s_TimeoutHZ(1) \in Nat
  BY TriesFacts
<1>1. CASE SelectSent
  BY <1>0, <1>1 DEF SelectSent, Sent, TypeOK, lease, netConfig
<1>2. CASE SelectNotSent
  <2>1. net' \subseteq Messages /\ leaseLeft' = leaseLeft /\ NoAnswer
    BY <1>2 DEF SelectNotSent
  <2> QED
    BY <2>1, TypeNoAnswer DEF TypeOK
<1>3. CASE TryAgain
  <2>1. CASE nTry < MAX_TRIES /\ Sent(pc, nTry + 1) /\ UNCHANGED <<lease, netConfig>>
    <3>1. nTry + 1 \in 1 .. MAX_TRIES
      BY <2>1, TriesFacts DEF TypeOK
    <3>2. s_TimeoutHZ(nTry + 1) \in Nat
      BY <3>1, TriesFacts
    <3> QED
      BY <1>3, <2>1, <3>1, <3>2 DEF TryAgain, Sent, TypeOK, lease, netConfig
  <2>2. CASE NoAnswer
    BY <1>3, <2>2, TypeNoAnswer DEF TryAgain, TypeOK
  <2> QED
    BY <1>3, <2>1, <2>2 DEF TryAgain
<1>4. CASE Restart
  BY <1>4 DEF Restart, Sleep, TypeOK, lease, netConfig
<1>5. CASE BoundLoop
  <2>1. CASE net' = {} /\ Sleep("bound", POLL) /\ UNCHANGED <<lease, netConfig, leaseLeft>>
    <3>1. POLL \in Nat
      BY DhcpAssumption
    <3> QED
      BY <2>1, <3>1 DEF Sleep, TypeOK, lease, netConfig
  <2>2. CASE /\ pc' = "renew" /\ bRenew' = TRUE
             /\ UNCHANGED <<net, nTry, timer, lease, netConfig, leaseLeft>>
    BY <2>2 DEF TypeOK, lease, netConfig
  <2> QED
    BY <1>5, <2>1, <2>2 DEF BoundLoop
<1>6. CASE Renew
  <2>1. CASE StageOver /\ UNCHANGED <<net, leaseLeft>>
    BY <2>1, TypeStageOver DEF TypeOK
  <2>2. CASE /\ Sent("answer", 1) /\ UNCHANGED <<lease, netConfig>>
             /\ net' = {} /\ leaseLeft' = leaseLeft
    BY <1>0, <2>2 DEF Sent, TypeOK, lease, netConfig
  <2>3. CASE NoAnswer /\ net' = {} /\ leaseLeft' = leaseLeft
    BY <2>3, TypeNoAnswer DEF TypeOK
  <2> QED
    BY <1>6, <2>1, <2>2, <2>3 DEF Renew
<1>7. CASE WakeUp
  BY <1>7 DEF WakeUp, Sleep, TypeOK, lease, netConfig
<1> QED
  BY <1>1, <1>2, <1>3, <1>4, <1>5, <1>6, <1>7 DEF Step

LEMMA TypeReceive ==
    ASSUME TypeOK, NEW m \in net,
           \/ \E sent \in BOOLEAN : ReceiveOffer(m, sent)
           \/ ReceiveAck(m) \/ ReceiveRefusal(m) \/ ReceiveRenewal(m) \/ ReceiveEnd(m)
    PROVE  TypeOK'
<1>0. 1 \in 1 .. MAX_TRIES /\ s_TimeoutHZ(1) \in Nat /\ m.server \in Servers /\ RESTART_DELAY \in Nat
  BY TriesFacts, MessageFacts, DhcpAssumption
<1>1. net \ {m} \subseteq Messages
  BY DEF TypeOK
<1>2. ASSUME NEW sent \in BOOLEAN, ReceiveOffer(m, sent)
      PROVE  TypeOK'
  BY <1>0, <1>1, <1>2 DEF ReceiveOffer, Sent, Sleep, TypeOK, netConfig
<1>3. CASE ReceiveAck(m)
  <2>1. m.times \in RawTimes
    BY <1>3, MessageFacts DEF ReceiveAck
  <2> QED
    BY <1>0, <1>1, <1>3, <2>1, TimesFacts DEF ReceiveAck, Bind, Sleep, TypeOK
<1>4. CASE ReceiveRefusal(m)
  BY <1>0, <1>1, <1>4 DEF ReceiveRefusal, Sleep, TypeOK, lease, netConfig
<1>5. CASE ReceiveRenewal(m)
  <2>1. m.times \in RawTimes
    BY <1>5, MessageFacts DEF ReceiveRenewal
  <2> QED
    BY <1>0, <1>1, <1>5, <2>1, TimesFacts DEF ReceiveRenewal, Bind, Sleep, TypeOK, netConfig
<1>6. CASE ReceiveEnd(m)
  BY <1>1, <1>6 DEF ReceiveEnd, HaltNetwork, Sleep, TypeOK
<1> QED
  BY <1>2, <1>3, <1>4, <1>5, <1>6

LEMMA TypeServer ==
    ASSUME TypeOK, NEW s \in Servers,
           Offer(s) \/ (\E t \in RawTimes : Ack(s, t)) \/ Nak(s)
    PROVE  TypeOK'
<1>1. CASE Offer(s)
  BY <1>1 DEF Offer, Answer, Messages, TypeOK, wait, lease, netConfig
<1>2. ASSUME NEW t \in RawTimes, Ack(s, t)
      PROVE  TypeOK'
  BY <1>2, DhcpAssumption DEF Ack, Answer, Messages, TypeOK, wait, lease, netConfig
<1>3. CASE Nak(s)
  BY <1>3 DEF Nak, Answer, Messages, TypeOK, wait, lease, netConfig
<1> QED
  BY <1>1, <1>2, <1>3

LEMMA TypeTick ==
    ASSUME TypeOK, Tick
    PROVE  TypeOK'
<1>1. Floor \in Int
  BY SlackFacts
<1>2. leaseLeft' \in [Servers -> Int]
  BY <1>1, LargerFacts DEF Tick, TypeOK
<1> QED
  BY <1>2 DEF Tick, TypeOK, netConfig

LEMMA TypeNext == TypeOK /\ [Next]_vars => TypeOK'
<1> SUFFICES ASSUME TypeOK, [Next]_vars PROVE TypeOK'
  OBVIOUS
<1>1. CASE Step
  BY <1>1, TypeStep
<1>2. CASE UNCHANGED vars
  BY <1>2 DEF vars, wait, lease, netConfig, TypeOK
<1> QED
  BY <1>1, <1>2, TypeReceive, TypeServer, TypeTick DEF Next, Step

\* Every variable keeps its type; the times of a lease stay unsigned numbers of 32 bits.
THEOREM TypeCorrect == Spec => []TypeOK
  BY TypeInit, TypeNext, PTL DEF Spec

-----------------------------------------------------------------------------
(***************************************************************************)
(* The client's own clock: an address is in use in the states in which the *)
(* lease counts, and every wait ends soon enough.                          *)
(***************************************************************************)
Using == {"bound", "renew", "answer", "pause"}

InUse ==
    /\ m_bIsBound <=> pc \in Using
    /\ IPAddress # NULL <=> pc \in Using

Ordered ==
    pc \in Using => m_nRenewalTimeValue <= m_nRebindingTimeValue /\ m_nRebindingTimeValue <= LeaseTime

\* When the wait is over.
WaitEnds ==
    /\ pc = "bound" => since + timer < LeaseTime + POLL
    /\ pc = "renew" => timer = 0 /\ since < LeaseTime + Larger(AllTries, MIN_SLEEP)
    /\ pc = "answer" => since + timer < LeaseTime + TryEnds[nTry]
    /\ pc = "pause" => since + timer < LeaseTime + MIN_SLEEP

LEMMA InUseInit == Init => InUse /\ Ordered /\ WaitEnds
BY DEF Init, InUse, Ordered, WaitEnds, Using

LEMMA InUseStep ==
    ASSUME TypeOK, InUse, Ordered, Step
    PROVE  InUse' /\ Ordered'
<1> USE DEF InUse, Ordered, Using
<1>1. ASSUME NoAnswer
      PROVE  InUse' /\ Ordered'
  BY <1>1 DEF NoAnswer, StageOver, HaltNetwork, Sleep, lease, netConfig
<1>2. CASE SelectSent
  BY <1>2 DEF SelectSent, Sent, lease, netConfig
<1>3. CASE SelectNotSent
  BY <1>1, <1>3 DEF SelectNotSent
<1>4. CASE TryAgain
  BY <1>1, <1>4 DEF TryAgain, Sent, lease, netConfig
<1>5. CASE Restart
  BY <1>5 DEF Restart, Sleep, lease, netConfig
<1>6. CASE BoundLoop
  BY <1>6 DEF BoundLoop, Sleep, lease, netConfig
<1>7. CASE Renew
  <2>1. ASSUME StageOver
        PROVE  InUse' /\ Ordered'
    BY <1>7, <2>1 DEF Renew, StageOver, HaltNetwork, Sleep, lease, netConfig
  <2> QED
    BY <1>1, <1>7, <2>1 DEF Renew, Sent, lease, netConfig
<1>8. CASE WakeUp
  BY <1>8 DEF WakeUp, Sleep, lease, netConfig
<1> QED
  BY <1>2, <1>3, <1>4, <1>5, <1>6, <1>7, <1>8 DEF Step

LEMMA InUseReceive ==
    ASSUME TypeOK, InUse, Ordered, NEW m \in net,
           \/ \E sent \in BOOLEAN : ReceiveOffer(m, sent)
           \/ ReceiveAck(m) \/ ReceiveRefusal(m) \/ ReceiveRenewal(m) \/ ReceiveEnd(m)
    PROVE  InUse' /\ Ordered'
<1> USE DEF InUse, Ordered, Using
<1>1. m.server # NULL
  BY MessageFacts, DhcpAssumption
<1>2. ASSUME NEW sent \in BOOLEAN, ReceiveOffer(m, sent)
      PROVE  InUse' /\ Ordered'
  BY <1>2 DEF ReceiveOffer, Sent, Sleep, netConfig
<1>3. CASE ReceiveAck(m)
  BY <1>1, <1>3 DEF ReceiveAck, Bind, Sleep, CheckConfig
<1>4. CASE ReceiveRefusal(m)
  BY <1>4 DEF ReceiveRefusal, Sleep, lease, netConfig
<1>5. CASE ReceiveRenewal(m)
  BY <1>5 DEF ReceiveRenewal, Bind, Sleep, CheckConfig, netConfig
<1>6. CASE ReceiveEnd(m)
  BY <1>6 DEF ReceiveEnd, HaltNetwork, Sleep
<1> QED
  BY <1>2, <1>3, <1>4, <1>5, <1>6

LEMMA InUseNext == TypeOK /\ InUse /\ Ordered /\ [Next]_vars => InUse' /\ Ordered'
<1> SUFFICES ASSUME TypeOK, InUse, Ordered, [Next]_vars PROVE InUse' /\ Ordered'
  OBVIOUS
<1>1. CASE Step
  BY <1>1, InUseStep
<1>2. ASSUME NEW s \in Servers, Offer(s) \/ (\E t \in RawTimes : Ack(s, t)) \/ Nak(s)
      PROVE  InUse' /\ Ordered'
  <2>1. UNCHANGED <<wait, lease, netConfig>>
    BY <1>2 DEF Offer, Ack, Nak, Answer
  <2> QED
    BY <2>1 DEF InUse, Ordered, Using, wait, lease, netConfig
<1>3. CASE Tick
  BY <1>3 DEF Tick, InUse, Ordered, Using, netConfig
<1>4. CASE UNCHANGED vars
  BY <1>4 DEF vars, InUse, Ordered, Using, wait, lease, netConfig
<1> QED
  BY <1>1, <1>2, <1>3, <1>4, InUseReceive DEF Next, Step

LEMMA InUseAlways == Spec => [](InUse /\ Ordered)
  BY TypeCorrect, InUseInit, InUseNext, PTL DEF Spec

\* The times of a lease in use are in order.
THEOREM TimesOrdered == Spec => []TimesInOrder
<1>1. InUse /\ Ordered => TimesInOrder
  BY DEF InUse, Ordered, TimesInOrder
<1> QED
  BY <1>1, InUseAlways, PTL

\* An address is given up only when the lease is over, or when an answer says so.
THEOREM HaltsJustified == Spec => HaltJustified
<1>1. ASSUME TypeOK, [Next]_vars, IPAddress # NULL, IPAddress' = NULL
      PROVE  since >= LeaseTime \/ \E m \in net : m.type = "NAK" \/ (m.type = "ACK" /\ ~CheckConfig(m.times))
  <2>1. ASSUME StageOver
        PROVE  ~bRenew
    BY <1>1, <2>1 DEF StageOver, netConfig
  <2>2. ASSUME NoAnswer
        PROVE  since >= LeaseTime
    BY <1>1, <2>1, <2>2 DEF NoAnswer, Limit, netConfig
  <2>3. CASE Step
    BY <1>1, <2>1, <2>2, <2>3 DEF Step, SelectSent, SelectNotSent, TryAgain, Restart, BoundLoop, Renew, WakeUp, Limit, netConfig
  <2>4. ASSUME NEW m \in net, ReceiveEnd(m)
        PROVE  m.type = "NAK" \/ (m.type = "ACK" /\ ~CheckConfig(m.times))
    BY <2>4 DEF ReceiveEnd
  <2>5. ASSUME NEW m \in net, ReceiveAck(m)
        PROVE  FALSE
    BY <1>1, <2>5, MessageFacts, DhcpAssumption DEF ReceiveAck
  <2>6. ASSUME NEW m \in net, \/ \E sent \in BOOLEAN : ReceiveOffer(m, sent)
                              \/ ReceiveRefusal(m) \/ ReceiveRenewal(m)
        PROVE  FALSE
    BY <1>1, <2>6 DEF ReceiveOffer, ReceiveRefusal, ReceiveRenewal, netConfig
  <2>7. ASSUME NEW s \in Servers, Offer(s) \/ (\E t \in RawTimes : Ack(s, t)) \/ Nak(s)
        PROVE  FALSE
    BY <1>1, <2>7 DEF Offer, Ack, Nak, Answer, netConfig
  <2>8. CASE Tick \/ UNCHANGED vars
    BY <1>1, <2>8 DEF Tick, vars, netConfig
  <2> QED
    BY <1>1, <2>3, <2>4, <2>5, <2>6, <2>7, <2>8 DEF Next, Step
<1> QED
  BY <1>1, TypeCorrect, PTL DEF Spec, HaltJustified

-----------------------------------------------------------------------------
LEMMA WaitNoAnswer ==
    ASSUME TypeOK, Ordered, WaitEnds, NoAnswer, (pc = "answer" => timer = 0)
    PROVE  WaitEnds'
<1>0. /\ since \in Nat /\ LeaseTime \in Nat /\ AllTries \in Nat /\ TryEnds[nTry] \in Nat
      /\ TryEnds[nTry] <= AllTries
  BY TriesFacts, DhcpAssumption DEF TypeOK
<1>1. CASE Sleep("restart", RESTART_DELAY)
  BY <1>1 DEF Sleep, WaitEnds
<1>2. CASE pc \in {"renew", "answer"} /\ StageOver
  <2>1. pc' = "init" \/ (pc' = "renew" /\ timer' = 0 /\ since' = since)
    BY <1>2 DEF StageOver, Sleep, lease
  <2>2. CASE pc = "renew"
    BY <2>1, <2>2 DEF WaitEnds
  <2>3. CASE pc = "answer"
    <3>1. since < LeaseTime + TryEnds[nTry]
      BY <1>0, <2>3 DEF WaitEnds
    <3>2. since < LeaseTime + Larger(AllTries, MIN_SLEEP)
      BY <1>0, <3>1, SlackFacts
    <3> QED
      BY <2>1, <3>2 DEF WaitEnds
  <2> QED
    BY <1>2, <2>2, <2>3
<1>3. CASE /\ pc \in {"renew", "answer"} /\ Limit > since
           /\ Sleep("pause", Pause) /\ UNCHANGED <<lease, netConfig>>
  <2>1. since + Pause < Limit + MIN_SLEEP /\ Limit \in Nat /\ Pause \in Nat
    BY <1>3, PauseFacts, DhcpAssumption
  <2>2. Limit <= LeaseTime
    BY <1>0, <1>3 DEF Limit, Ordered, Using
  <2>3. pc' = "pause" /\ timer' = Pause /\ since' = since
    BY <1>3 DEF Sleep, lease
  <2> QED
    BY <1>0, <2>1, <2>2, <2>3, DhcpAssumption DEF WaitEnds
<1> QED
  BY <1>1, <1>2, <1>3 DEF NoAnswer

LEMMA WaitStep ==
    ASSUME TypeOK, Ordered, WaitEnds, Step
    PROVE  WaitEnds'
<1>0. /\ since \in Nat /\ LeaseTime \in Nat /\ POLL \in Nat /\ MIN_SLEEP \in Nat
      /\ m_nRenewalTimeValue \in Nat /\ m_nRebindingTimeValue \in Nat /\ timer \in Nat
      /\ POLL <= MIN_SLEEP
  BY DhcpAssumption DEF TypeOK
<1>1. CASE SelectSent
  BY <1>1 DEF SelectSent, Sent, WaitEnds
<1>2. CASE SelectNotSent
  BY <1>2, WaitNoAnswer DEF SelectNotSent
<1>3. CASE TryAgain
  <2>1. CASE nTry < MAX_TRIES /\ Sent(pc, nTry + 1) /\ UNCHANGED <<lease, netConfig>>
    <3>1. nTry \in 1 .. MAX_TRIES /\ nTry + 1 \in 1 .. MAX_TRIES
      BY <2>1, TriesFacts DEF TypeOK
    <3>2. TryEnds[nTry] \in Nat /\ TryEnds[nTry + 1] \in Nat
          /\ s_TimeoutHZ(nTry + 1) = TryEnds[nTry + 1] - TryEnds[nTry]
      BY <3>1, TriesFacts
    <3>3. pc' = pc /\ nTry' = nTry + 1 /\ timer' = s_TimeoutHZ(nTry + 1) /\ since' = since
      BY <2>1 DEF Sent, lease
    <3>4. pc \in {"offer", "ack", "answer"} /\ timer = 0
      BY <1>3 DEF TryAgain
    <3> QED
      BY <1>0, <3>2, <3>3, <3>4 DEF WaitEnds
  <2>2. CASE NoAnswer
    BY <1>3, <2>2, WaitNoAnswer DEF TryAgain
  <2> QED
    BY <1>3, <2>1, <2>2 DEF TryAgain
<1>4. CASE Restart
  BY <1>4 DEF Restart, Sleep, WaitEnds
<1>5. CASE BoundLoop
  <2>1. since' = since /\ m_nRenewalTimeValue <= LeaseTime
    BY <1>0, <1>5 DEF BoundLoop, lease, Ordered, Using
  <2>2. CASE since < m_nRenewalTimeValue /\ Sleep("bound", POLL)
    BY <1>0, <2>1, <2>2 DEF Sleep, WaitEnds
  <2>3. CASE pc' = "renew"
    <3>1. since < LeaseTime + POLL /\ timer' = 0
      BY <1>0, <1>5, <2>3 DEF BoundLoop, Sleep, WaitEnds
    <3>2. since < LeaseTime + Larger(AllTries, MIN_SLEEP)
      BY <1>0, <3>1, SlackFacts
    <3> QED
      BY <2>1, <2>3, <3>1, <3>2 DEF WaitEnds
  <2> QED
    BY <1>5, <2>2, <2>3 DEF BoundLoop
<1>6. CASE Renew
  <2>1. CASE since < Limit /\ Sent("answer", 1) /\ UNCHANGED <<lease, netConfig>>
    <3>1. Limit \in Nat /\ Limit <= LeaseTime
      BY <1>0, <1>6 DEF Renew, Limit, Ordered, Using
    <3>2. pc' = "answer" /\ nTry' = 1 /\ timer' = TryEnds[1] /\ since' = since
      BY <2>1, TriesFacts DEF Sent, lease
    <3>3. TryEnds[1] \in Nat
      BY TriesFacts
    <3> QED
      BY <1>0, <2>1, <3>1, <3>2, <3>3 DEF WaitEnds
  <2>2. CASE NoAnswer
    BY <1>6, <2>2, WaitNoAnswer DEF Renew
  <2>3. CASE StageOver
    <3>1. pc' = "init" \/ (pc' = "renew" /\ timer' = 0 /\ since' = since)
      BY <2>3 DEF StageOver, Sleep, lease
    <3> QED
      BY <1>6, <3>1 DEF Renew, WaitEnds
  <2> QED
    BY <1>6, <2>1, <2>2, <2>3 DEF Renew
<1>7. CASE WakeUp
  <2>1. since < LeaseTime + MIN_SLEEP /\ pc' = "renew" /\ timer' = 0 /\ since' = since
    BY <1>0, <1>7 DEF WakeUp, Sleep, WaitEnds, lease
  <2>2. since < LeaseTime + Larger(AllTries, MIN_SLEEP)
    BY <1>0, <2>1, SlackFacts
  <2> QED
    BY <2>1, <2>2 DEF WaitEnds
<1> QED
  BY <1>1, <1>2, <1>3, <1>4, <1>5, <1>6, <1>7 DEF Step

LEMMA WaitReceive ==
    ASSUME TypeOK, WaitEnds, NEW m \in net,
           \/ \E sent \in BOOLEAN : ReceiveOffer(m, sent)
           \/ ReceiveAck(m) \/ ReceiveRefusal(m) \/ ReceiveRenewal(m) \/ ReceiveEnd(m)
    PROVE  WaitEnds'
<1>1. ASSUME NEW sent \in BOOLEAN, ReceiveOffer(m, sent)
      PROVE  WaitEnds'
  BY <1>1 DEF ReceiveOffer, Sent, Sleep, WaitEnds
<1>2. CASE Bind(m)
  <2>1. LeaseTime \in Nat /\ POLL \in Nat \ {0}
    BY DhcpAssumption
  <2> QED
    BY <1>2, <2>1 DEF Bind, Sleep, WaitEnds
<1>3. CASE ReceiveRefusal(m)
  BY <1>3 DEF ReceiveRefusal, Sleep, WaitEnds
<1>4. CASE ReceiveEnd(m)
  BY <1>4 DEF ReceiveEnd, Sleep, WaitEnds
<1> QED
  BY <1>1, <1>2, <1>3, <1>4 DEF ReceiveAck, ReceiveRenewal

LEMMA WaitNext == TypeOK /\ InUse /\ Ordered /\ WaitEnds /\ [Next]_vars => WaitEnds'
<1> SUFFICES ASSUME TypeOK, InUse, Ordered, WaitEnds, [Next]_vars PROVE WaitEnds'
  OBVIOUS
<1>1. CASE Step
  BY <1>1, WaitStep
<1>2. ASSUME NEW s \in Servers, Offer(s) \/ (\E t \in RawTimes : Ack(s, t)) \/ Nak(s)
      PROVE  WaitEnds'
  <2>1. UNCHANGED <<wait, lease>>
    BY <1>2 DEF Offer, Ack, Nak, Answer
  <2> QED
    BY <2>1 DEF WaitEnds, wait, lease
<1>3. CASE Tick
  <2>1. /\ timer > 0 /\ timer' = timer - 1 /\ pc' = pc /\ nTry' = nTry
        /\ m_bIsBound => since' = since + 1
        /\ ~m_bIsBound => since' = since
    BY <1>3 DEF Tick
  <2>2. since' + timer' = since + timer \/ pc' \notin Using
    BY <2>1 DEF TypeOK, InUse
  <2>3. pc' = "renew" => FALSE
    BY <1>3 DEF Tick, Using, WaitEnds
  <2> QED
    BY <2>1, <2>2, <2>3 DEF WaitEnds, Using
<1>4. CASE UNCHANGED vars
  BY <1>4 DEF vars, WaitEnds, wait, lease
<1> QED
  BY <1>1, <1>2, <1>3, <1>4, WaitReceive DEF Next, Step

LEMMA WaitAlways == Spec => []WaitEnds
  BY TypeCorrect, InUseAlways, InUseInit, WaitNext, PTL DEF Spec


\* An address is given up soon enough after the end of its lease.
THEOREM GivenUp == Spec => []GivenUpInTime
<1>1. TypeOK /\ InUse /\ WaitEnds => GivenUpInTime
  <2> SUFFICES ASSUME TypeOK, WaitEnds, pc \in Using
               PROVE  since < LeaseTime + Larger(AllTries, MIN_SLEEP)
    BY DEF InUse, GivenUpInTime
  <2>1. /\ since \in Nat /\ timer \in Nat /\ LeaseTime \in Nat /\ AllTries \in Nat
        /\ MIN_SLEEP \in Nat /\ POLL \in Nat /\ POLL <= MIN_SLEEP
        /\ TryEnds[nTry] \in Nat /\ TryEnds[nTry] <= AllTries
    BY TriesFacts, DhcpAssumption DEF TypeOK
  <2>2. CASE pc = "bound"
    <3>1. since < LeaseTime + POLL
      BY <2>1, <2>2 DEF WaitEnds
    <3> QED
      BY <2>1, <3>1, SlackFacts
  <2>3. CASE pc = "answer"
    <3>1. since < LeaseTime + TryEnds[nTry]
      BY <2>1, <2>3 DEF WaitEnds
    <3> QED
      BY <2>1, <3>1, SlackFacts
  <2>4. CASE pc = "pause"
    <3>1. since < LeaseTime + MIN_SLEEP
      BY <2>1, <2>4 DEF WaitEnds
    <3> QED
      BY <2>1, <3>1, SlackFacts
  <2> QED
    BY <2>2, <2>3, <2>4 DEF WaitEnds, Using
<1> QED
  BY <1>1, TypeCorrect, InUseAlways, WaitAlways, PTL

-----------------------------------------------------------------------------
(***************************************************************************)
(* The servers' clocks.  An ACK on its way is not older than the try in    *)
(* which it can be received, and the server of the address in use has      *)
(* counted no further than the client, but for the time the ACK took.      *)
(***************************************************************************)
Acks == {m \in net : m.type = "ACK"}

\* How long ago the request of the current transaction was sent first.
Age == TryEnds[nTry] - timer

LeaseInv ==
    /\ pc \in Using => leaseLeft[IPAddress] >= LeaseTime - since - (AllTries - 1)
    /\ pc = "offer" => Acks = {}
    /\ pc \in {"ack", "answer"} =>
          /\ timer <= TryEnds[nTry]
          /\ \A m \in Acks : leaseLeft[m.server] >= LeaseTime - Age
    /\ pc = "answer" => \A m \in Acks : m.server = IPAddress

LEMMA LeaseInit == Init => LeaseInv
BY DEF Init, LeaseInv, Using

LEMMA LeaseNoAnswer ==
    ASSUME InUse, LeaseInv, NoAnswer, leaseLeft' = leaseLeft
    PROVE  LeaseInv'
<1>1. pc' \in {"init", "restart"} \/ (pc \in Using /\ pc' \in {"renew", "pause"} /\ UNCHANGED <<since, IPAddress>>)
  BY DEF NoAnswer, StageOver, Sleep, lease, netConfig, Using
<1> QED
  BY <1>1 DEF LeaseInv, Using

LEMMA LeaseStep ==
    ASSUME TypeOK, InUse, LeaseInv, Step
    PROVE  LeaseInv'
<1>1. CASE SelectSent
  BY <1>1 DEF SelectSent, Sent, LeaseInv, Using, Acks
<1>2. CASE SelectNotSent
  BY <1>2, LeaseNoAnswer DEF SelectNotSent
<1>3. CASE TryAgain
  <2>1. CASE nTry < MAX_TRIES /\ Sent(pc, nTry + 1) /\ UNCHANGED <<lease, netConfig>>
    <3>1. nTry \in 1 .. MAX_TRIES /\ nTry + 1 \in 1 .. MAX_TRIES
      BY <2>1, TriesFacts DEF TypeOK
    <3>2. TryEnds[nTry] \in Nat /\ TryEnds[nTry + 1] \in Nat
          /\ s_TimeoutHZ(nTry + 1) = TryEnds[nTry + 1] - TryEnds[nTry]
      BY <3>1, TriesFacts
    <3>3. /\ pc' = pc /\ nTry' = nTry + 1 /\ timer' = s_TimeoutHZ(nTry + 1) /\ timer = 0
          /\ UNCHANGED <<since, IPAddress, net, leaseLeft>>
      BY <1>3, <2>1 DEF TryAgain, Sent, lease, netConfig
    <3>4. Age' = Age /\ timer' <= TryEnds[nTry'] /\ Acks' = Acks
      BY <3>2, <3>3 DEF Age, Acks
    <3> QED
      BY <3>3, <3>4 DEF LeaseInv
  <2>2. CASE NoAnswer
    BY <1>3, <2>2, LeaseNoAnswer DEF TryAgain
  <2> QED
    BY <1>3, <2>1, <2>2 DEF TryAgain
<1>4. CASE Restart
  BY <1>4 DEF Restart, Sleep, LeaseInv, Using
<1>5. CASE BoundLoop
  <2>1. pc \in Using /\ pc' \in {"bound", "renew"} /\ UNCHANGED <<since, IPAddress, leaseLeft>>
    BY <1>5 DEF BoundLoop, Sleep, lease, netConfig, Using
  <2> QED
    BY <2>1 DEF LeaseInv, Using
<1>6. CASE Renew
  <2>1. CASE NoAnswer
    BY <1>6, <2>1, LeaseNoAnswer DEF Renew
  <2>2. CASE net' = {} /\ Sent("answer", 1) /\ UNCHANGED <<lease, netConfig>>
    <3>1. /\ pc' = "answer" /\ nTry' = 1 /\ timer' = TryEnds[1] /\ Acks' = {} /\ TryEnds[1] \in Nat
          /\ UNCHANGED <<since, IPAddress, leaseLeft>> /\ pc \in Using
      BY <1>6, <2>2, TriesFacts DEF Renew, Sent, lease, netConfig, Acks, Using
    <3> QED
      BY <3>1 DEF LeaseInv
  <2>3. CASE StageOver
    <3>1. pc' = "init" \/ (pc \in Using /\ pc' = "renew" /\ UNCHANGED <<since, IPAddress>>)
      BY <1>6, <2>3 DEF Renew, StageOver, Sleep, lease, netConfig, Using
    <3> QED
      BY <1>6, <3>1 DEF Renew, LeaseInv, Using
  <2> QED
    BY <1>6, <2>1, <2>2, <2>3 DEF Renew
<1>7. CASE WakeUp
  <2>1. pc \in Using /\ pc' = "renew" /\ UNCHANGED <<since, IPAddress, leaseLeft>>
    BY <1>7 DEF WakeUp, Sleep, lease, netConfig, Using
  <2> QED
    BY <2>1 DEF LeaseInv, Using
<1> QED
  BY <1>1, <1>2, <1>3, <1>4, <1>5, <1>6, <1>7 DEF Step

LEMMA LeaseReceive ==
    ASSUME TypeOK, InUse, LeaseInv, NEW m \in net,
           \/ \E sent \in BOOLEAN : ReceiveOffer(m, sent)
           \/ ReceiveAck(m) \/ ReceiveRefusal(m) \/ ReceiveRenewal(m) \/ ReceiveEnd(m)
    PROVE  LeaseInv'
<1>1. ASSUME NEW sent \in BOOLEAN, ReceiveOffer(m, sent)
      PROVE  LeaseInv'
  <2>1. Acks' = {} /\ (pc' = "restart" \/ (pc' = "ack" /\ nTry' = 1 /\ timer' = TryEnds[1]))
    BY <1>1, TriesFacts DEF ReceiveOffer, Sent, Sleep, LeaseInv, Acks
  <2>2. TryEnds[1] \in Nat
    BY TriesFacts
  <2> QED
    BY <2>1, <2>2 DEF LeaseInv, Using
<1>2. ASSUME m \in Acks, timer > 0, leaseLeft[m.server] >= LeaseTime - Age
      PROVE  leaseLeft[m.server] >= LeaseTime - 0 - (AllTries - 1)
  <2>1. TryEnds[nTry] \in Nat /\ TryEnds[nTry] <= AllTries /\ AllTries \in Nat
    BY TriesFacts DEF TypeOK
  <2>2. leaseLeft[m.server] \in Int /\ timer \in Nat /\ LeaseTime \in Nat
    BY MessageFacts, DhcpAssumption DEF TypeOK
  <2> QED
    BY <1>2, <2>1, <2>2 DEF Age
<1>3. CASE ReceiveAck(m)
  <2>1. /\ pc' = "bound" /\ since' = 0 /\ IPAddress' = m.server /\ leaseLeft' = leaseLeft
        /\ pc = "ack" /\ timer > 0 /\ m \in Acks
    BY <1>3 DEF ReceiveAck, Bind, Sleep, Acks
  <2> QED
    BY <1>2, <2>1 DEF LeaseInv
<1>4. CASE ReceiveRefusal(m)
  BY <1>4 DEF ReceiveRefusal, Sleep, LeaseInv, Using
<1>5. CASE ReceiveRenewal(m)
  <2>1. /\ pc' = "bound" /\ since' = 0 /\ IPAddress' = IPAddress /\ leaseLeft' = leaseLeft
        /\ pc = "answer" /\ timer > 0 /\ m \in Acks
    BY <1>5 DEF ReceiveRenewal, Bind, Sleep, Acks, netConfig
  <2> QED
    BY <1>2, <2>1 DEF LeaseInv
<1>6. CASE ReceiveEnd(m)
  BY <1>6 DEF ReceiveEnd, Sleep, LeaseInv, Using
<1> QED
  BY <1>1, <1>3, <1>4, <1>5, <1>6

LEMMA LeaseServer ==
    ASSUME TypeOK, InUse, LeaseInv, NEW s \in Servers,
           Offer(s) \/ (\E t \in RawTimes : Ack(s, t)) \/ Nak(s)
    PROVE  LeaseInv'
<1>0. UNCHANGED <<pc, nTry, timer, since, IPAddress>>
  BY DEF Offer, Ack, Nak, Answer, wait, lease, netConfig
<1>1. CASE Offer(s) \/ Nak(s)
  <2>1. Acks' = Acks /\ leaseLeft' = leaseLeft
    BY <1>1 DEF Offer, Nak, Answer, Acks
  <2> QED
    BY <1>0, <2>1 DEF LeaseInv, Age
<1>2. ASSUME NEW t \in RawTimes, Ack(s, t)
      PROVE  LeaseInv'
  <2>1. /\ leaseLeft' = [leaseLeft EXCEPT ![s] = LeaseTime]
        /\ \A m \in Acks' : m \in Acks \/ m.server = s
        /\ pc = "ack" \/ (pc \in {"answer", "pause"} /\ s = IPAddress)
    BY <1>2 DEF Ack, Answer, Acks, Renewing
  <2>2. LeaseTime \in Nat /\ AllTries \in Nat \ {0} /\ since \in Nat /\ leaseLeft \in [Servers -> Int]
    BY TriesFacts, DhcpAssumption DEF TypeOK
  <2>3. pc' \in Using => leaseLeft'[IPAddress'] >= LeaseTime - since' - (AllTries - 1)
    BY <1>0, <2>1, <2>2 DEF Using
  <2>4. ASSUME pc \in {"ack", "answer"}
        PROVE  /\ timer <= TryEnds[nTry]
               /\ \A m \in Acks' : leaseLeft'[m.server] >= LeaseTime - Age
    <3>1. timer <= TryEnds[nTry] /\ TryEnds[nTry] \in Nat /\ timer \in Nat
      BY <2>4, TriesFacts DEF LeaseInv, TypeOK
    <3>2. LeaseTime >= LeaseTime - Age
      BY <2>2, <3>1 DEF Age
    <3>3. ASSUME NEW m \in Acks'
          PROVE  leaseLeft'[m.server] >= LeaseTime - Age
      <4>1. CASE m.server = s
        BY <2>1, <2>2, <3>2, <4>1
      <4>2. CASE m \in Acks /\ m.server # s
        <5>1. m.server \in Servers
          BY <4>2, MessageFacts DEF Acks
        <5> QED
          BY <2>1, <2>2, <2>4, <4>2, <5>1 DEF LeaseInv
      <4> QED
        BY <2>1, <4>1, <4>2
    <3> QED
      BY <3>1, <3>3
  <2>5. pc = "answer" => \A m \in Acks' : m.server = IPAddress
    BY <2>1 DEF LeaseInv
  <2> QED
    BY <1>0, <2>1, <2>3, <2>4, <2>5 DEF LeaseInv, Age
<1> QED
  BY <1>1, <1>2

LEMMA LeaseTick ==
    ASSUME TypeOK, InUse, Ordered, WaitEnds, LeaseInv, Tick
    PROVE  LeaseInv'
<1>0. /\ pc' = pc /\ nTry' = nTry /\ IPAddress' = IPAddress /\ Acks' = Acks
      /\ timer > 0 /\ timer' = timer - 1 /\ timer \in Nat
  BY DEF Tick, netConfig, Acks, TypeOK
<1>1. \A s \in Servers : leaseLeft'[s] >= leaseLeft[s] - 1 /\ leaseLeft'[s] \in Int /\ leaseLeft[s] \in Int
  <2> TAKE s \in Servers
  <2>1. leaseLeft'[s] = Larger(leaseLeft[s] - 1, Floor)
    BY DEF Tick
  <2>2. leaseLeft[s] - 1 \in Int /\ leaseLeft[s] \in Int /\ Floor \in Int
    BY SlackFacts DEF TypeOK
  <2> QED
    BY <2>1, <2>2, LargerFacts
<1>2. pc \in Using => since' = since + 1 /\ IPAddress \in Servers
  BY DEF Tick, InUse, TypeOK
<1>3. LeaseTime \in Nat /\ AllTries \in Nat \ {0} /\ since \in Nat /\ TryEnds[nTry] \in Nat
  BY TriesFacts, DhcpAssumption DEF TypeOK
<1>4. pc \in Using => leaseLeft'[IPAddress] >= LeaseTime - since' - (AllTries - 1)
  BY <1>1, <1>2, <1>3 DEF LeaseInv
<1>5. Age' = Age + 1 /\ Age \in Int
  BY <1>0, <1>3 DEF Age
<1>6. ASSUME pc \in {"ack", "answer"}, NEW m \in Acks
      PROVE  leaseLeft'[m.server] >= LeaseTime - Age'
  <2>1. m.server \in Servers /\ leaseLeft[m.server] >= LeaseTime - Age
    BY <1>6, MessageFacts DEF LeaseInv, Acks
  <2> QED
    BY <1>1, <1>3, <1>5, <2>1
<1>7. pc \in {"ack", "answer"} => timer' <= TryEnds[nTry']
  BY <1>0, <1>3 DEF LeaseInv
<1> QED
  BY <1>0, <1>4, <1>6, <1>7 DEF LeaseInv

LEMMA LeaseNext ==
    TypeOK /\ InUse /\ Ordered /\ WaitEnds /\ LeaseInv /\ [Next]_vars => LeaseInv'
<1> SUFFICES ASSUME TypeOK, InUse, Ordered, WaitEnds, LeaseInv, [Next]_vars PROVE LeaseInv'
  OBVIOUS
<1>1. CASE Step
  BY <1>1, LeaseStep
<1>2. CASE UNCHANGED vars
  BY <1>2 DEF vars, LeaseInv, Age, Acks, wait, lease, netConfig
<1> QED
  BY <1>1, <1>2, LeaseReceive, LeaseServer, LeaseTick DEF Next, Step

\* An address is used only while its server keeps it, or not much longer.
THEOREM LeaseIsHeld == Spec => []LeaseHeld
<1>1. TypeOK /\ InUse /\ GivenUpInTime /\ LeaseInv => LeaseHeld
  <2> SUFFICES ASSUME TypeOK, InUse, GivenUpInTime, LeaseInv, IPAddress # NULL
               PROVE  leaseLeft[IPAddress] >= -Slack
    BY DEF LeaseHeld
  <2>1. leaseLeft[IPAddress] >= LeaseTime - since - (AllTries - 1)
        /\ since < LeaseTime + Larger(AllTries, MIN_SLEEP)
    BY DEF InUse, LeaseInv, GivenUpInTime
  <2>2. /\ leaseLeft[IPAddress] \in Int /\ since \in Nat
        /\ LeaseTime \in Nat /\ AllTries \in Nat \ {0} /\ Larger(AllTries, MIN_SLEEP) \in Nat
    BY TriesFacts, SlackFacts, DhcpAssumption DEF TypeOK
  <2> QED
    BY <2>1, <2>2 DEF Slack
<1> QED
  BY <1>1, LeaseInit, LeaseNext, TypeCorrect, InUseAlways, WaitAlways, GivenUp, PTL DEF Spec
=============================================================================
