--------------------------- MODULE KeyboardProofs ---------------------------
(***************************************************************************)
(* Theorems about Keyboard, for any reports and keys, any number of other  *)
(* timers, any delays and periods of the repetition that are shorter than  *)
(* half the range of the ticks, and any number of removals.                *)
(***************************************************************************)
EXTENDS Keyboard, FiniteSetTheorems, SequenceTheorems, WellFoundedInduction, TLAPS

Clients == Others \union {"keyboard"}
Timers  == [h : Handles, at : Ticks, client : Clients]
Half    == (ClockMod - 1) \div 2

-----------------------------------------------------------------------------
(* The invariant                                                           *)

Distinct(list) ==
    \A i, j \in DOMAIN list : list[i].h = list[j].h => i = j

\* Addresses are used once, and the poll looks at a timer that is there.
ListInv ==
    /\ Distinct(m_KernelTimerList)
    /\ hNew \notin HandlesIn(m_KernelTimerList)
    /\ starter = NULL <=> hNew = NULL
    /\ irq = "poll" => pElement \in HandlesIn(m_KernelTimerList) \union {NULL}

\* Who holds which handle, as long as no keyboard was deleted with its timer.
Owner(c) == IF c = "keyboard" THEN m_hTimer ELSE m_hOther[c]

HandleInv == ~orphan =>
    /\ ~failed
    /\ \A t \in ToSet(m_KernelTimerList) : t.h = Owner(t.client)
    /\ \A c \in Clients :
           Owner(c) # NULL => \E t \in ToSet(m_KernelTimerList) : t.client = c
    /\ starter # NULL => m_hOther[starter] = NULL
    /\ m_hTimer = NULL <=> m_ucLastKeyCode = NoKey
    /\ device = "gone" => m_hTimer = NULL

\* Before the release loop has come to it, the last key may be one that the
\* report does not hold any more; what the press loop has behind it was heard.
ReportInv ==
    IF irq = "report"
    THEN /\ device = "live" /\ m_ucModifiers = report.mods
         /\ m_ucLastKeyCode # NoKey =>
                /\ m_ucLastKeyCode \in Held(report) \union ToSet(released)
                /\ m_ucLastKeyCode \in Held(m_LastReport) \union heard
         /\ ToSet(pressed) \subseteq Held(report)
         /\ Held(report) \ Held(m_LastReport) \subseteq heard \union ToSet(pressed)
    ELSE /\ m_ucModifiers = m_LastReport.mods
         /\ m_ucLastKeyCode # NoKey => m_ucLastKeyCode \in Held(m_LastReport)

\* How many ticks it takes from now until a timer elapses; less than 0 when it
\* is late.
Ahead(at, now) ==
    LET d == at - now
    IN  IF d > Half THEN d - ClockMod ELSE IF d < -Half THEN d + ClockMod ELSE d

\* The timers of a list elapse in the next half turn of the ticks, one after the
\* other.
InOrder(list, now, low) ==
    /\ \A i \in DOMAIN list : Ahead(list[i].at, now) \in low .. Half - 1
    /\ \A i, j \in DOMAIN list : i < j => Ahead(list[i].at, now) <= Ahead(list[j].at, now)

\* What is in front of the element e has not elapsed.
Passed(list, now, e) ==
    \A i \in DOMAIN list : \/ Ahead(list[i].at, now) >= 1
                           \/ \E p \in 1 .. i : list[p].h = e

Low(i) == IF i = "poll" THEN -1 ELSE 0

\* The poll leaves no timer behind that has elapsed, and one that is put in a
\* tick late has not elapsed earlier than now.
OrderInv ==
    /\ InOrder(m_KernelTimerList, m_nTicks, Low(irq))
    /\ irq = "poll" => Passed(m_KernelTimerList, m_nTicks, pElement)
    /\ starter # NULL => Ahead(nElapsesAt, m_nTicks) \in (IF late THEN 0 ELSE 1) .. Half - 1

\* The timer of the keyboard elapses when the key is due.
PaceInv == ~orphan =>
    \A t \in ToSet(m_KernelTimerList) : t.client = "keyboard" =>
        /\ Ahead(t.at, m_nTicks) = Period - age
        /\ IF irq = "poll" THEN age <= Period ELSE age < Period

IInv == TypeOK /\ ListInv /\ HandleInv /\ ReportInv /\ OrderInv /\ PaceInv

-----------------------------------------------------------------------------
(* Ticks                                                                   *)

LEMMA Constants ==
    /\ ClockMod \in Nat \ {0} /\ Half \in Nat /\ Half >= 1 /\ 2 * Half + 1 <= ClockMod
    /\ REPEAT_DELAY \in 1 .. Half - 1 /\ REPEAT_RATE \in 1 .. Half - 1
    /\ REPEAT_RATE <= REPEAT_DELAY
    /\ \A d \in Delays : d \in 1 .. Half - 1
    /\ NULL \notin Handles /\ NULL \notin Others /\ "keyboard" \notin Others
    /\ NoKey \notin Keys /\ MaxRemovals \in Nat
  BY TimersAssumption, KeyboardAssumption DEF TimersAssumption, KeyboardAssumption, Half

\* Remainders next to the range of the modulus.
LEMMA ModBelow == ASSUME NEW n \in Nat \ {0}, NEW x \in 0 .. n - 1 PROVE x % n = x
  OBVIOUS

LEMMA ModOnce == ASSUME NEW n \in Nat \ {0}, NEW x \in n .. 2 * n - 1 PROVE x % n = x - n
  OBVIOUS

LEMMA ModUnder == ASSUME NEW n \in Nat \ {0}, NEW x \in -n .. -1 PROVE x % n = x + n
  OBVIOUS

\* A tick that is n ticks away.
LEMMA AheadOfSum ==
    ASSUME NEW now \in Ticks, NEW n \in 0 .. Half
    PROVE  (now + n) % ClockMod \in Ticks /\ Ahead((now + n) % ClockMod, now) = n
<1>1. /\ ClockMod \in Nat \ {0} /\ Half \in Nat /\ 2 * Half + 1 <= ClockMod
      /\ now \in 0 .. ClockMod - 1 /\ n \in Nat /\ n <= Half
  BY Constants DEF Ticks
<1> DEFINE x == now + n
<1>2. CASE x < ClockMod
  <2>1. x \in 0 .. ClockMod - 1
    BY <1>1, <1>2
  <2>2. x % ClockMod = x
    <3> HIDE DEF x
    <3> QED  BY <1>1, <2>1, ModBelow
  <2> QED  BY <1>1, <2>1, <2>2 DEF Ahead, Ticks
<1>3. CASE x >= ClockMod
  <2>1. x \in ClockMod .. 2 * ClockMod - 1
    BY <1>1, <1>3
  <2>2. x % ClockMod = x - ClockMod
    <3> HIDE DEF x
    <3> QED  BY <1>1, <2>1, ModOnce
  <2> QED  BY <1>1, <2>1, <2>2 DEF Ahead, Ticks
<1> QED  BY <1>1, <1>2, <1>3

\* Later compares two timers as they are ahead.
LEMMA LaterIsAhead ==
    ASSUME NEW now \in Ticks, NEW a \in Ticks, NEW b \in Ticks,
           Ahead(a, now) \in -1 .. Half - 1, Ahead(b, now) \in -1 .. Half - 1
    PROVE  Later(a, b) <=> Ahead(a, now) > Ahead(b, now)
<1>1. /\ ClockMod \in Nat \ {0} /\ Half \in Nat /\ 2 * Half + 1 <= ClockMod
      /\ now \in 0 .. ClockMod - 1 /\ a \in 0 .. ClockMod - 1 /\ b \in 0 .. ClockMod - 1
  BY Constants DEF Ticks
<1>2. Later(a, b) <=> (a - b) % ClockMod \in 1 .. Half
  BY DEF Later, Half
<1> DEFINE x == a - b
<1>3. CASE a >= b
  <2>1. x \in 0 .. ClockMod - 1
    BY <1>1, <1>3
  <2>2. x % ClockMod = x
    <3> HIDE DEF x
    <3> QED  BY <1>1, <2>1, ModBelow
  <2> QED  BY <1>1, <1>2, <1>3, <2>2 DEF Ahead
<1>4. CASE a < b
  <2>1. x \in -ClockMod .. -1
    BY <1>1, <1>4
  <2>2. x % ClockMod = x + ClockMod
    <3> HIDE DEF x
    <3> QED  BY <1>1, <2>1, ModUnder
  <2> QED  BY <1>1, <1>2, <1>4, <2>2 DEF Ahead
<1> QED  BY <1>1, <1>3, <1>4

\* A timer has elapsed when it is not ahead any more.
LEMMA LaterThanNow ==
    ASSUME NEW now \in Ticks, NEW a \in Ticks, Ahead(a, now) \in -1 .. Half - 1
    PROVE  Later(a, now) <=> Ahead(a, now) >= 1
<1>1. Ahead(now, now) = 0 /\ Half \in Nat /\ Half >= 1
  BY Constants DEF Ahead, Ticks
<1> QED  BY <1>1, LaterIsAhead

\* With a tick every timer comes nearer.
LEMMA AheadTick ==
    ASSUME NEW now \in Ticks, NEW a \in Ticks, Ahead(a, now) \in 0 .. Half - 1
    PROVE  Ahead(a, (now + 1) % ClockMod) = Ahead(a, now) - 1
<1>1. /\ ClockMod \in Nat \ {0} /\ Half \in Nat /\ 2 * Half + 1 <= ClockMod
      /\ now \in 0 .. ClockMod - 1 /\ a \in 0 .. ClockMod - 1
  BY Constants DEF Ticks
<1>2. CASE now + 1 < ClockMod
  <2>1. (now + 1) % ClockMod = now + 1
    BY <1>1, <1>2, ModBelow
  <2> QED  BY <1>1, <1>2, <2>1 DEF Ahead
<1>3. CASE now + 1 = ClockMod
  <2>1. (now + 1) % ClockMod = 0
    BY <1>1, <1>3, ModOnce
  <2> QED  BY <1>1, <1>3, <2>1 DEF Ahead
<1> QED  BY <1>1, <1>2, <1>3

-----------------------------------------------------------------------------
(* The list of the timers                                                  *)

\* The smallest number of a set.
LEMMA Smallest ==
    ASSUME NEW T \in SUBSET Nat, T # {}
    PROVE  \E i \in T : \A j \in T : i <= j
<1>1. PICK i \in T : \A j \in T : ~(<<j, i>> \in OpToRel(<, Nat))
  BY NatLessThanWellFounded, WFMin
<1>2. \A j \in T : ~(j < i)
  BY <1>1 DEF OpToRel
<1> QED  BY <1>2

\* A part of a list.
LEMMA Part ==
    ASSUME NEW list \in Seq(Timers), NEW m \in Int, NEW n \in Int,
           1 <= m, m <= n + 1, n <= Len(list)
    PROVE  /\ SubSeq(list, m, n) \in Seq(Timers) /\ Len(SubSeq(list, m, n)) = n - m + 1
           /\ \A i \in 1 .. n - m + 1 : SubSeq(list, m, n)[i] = list[m + i - 1]
<1>1. \A i \in m .. n : list[i] \in Timers
  BY LenProperties, ElementOfSeq
<1>2. /\ SubSeq(list, m, n) \in Seq(Timers)
      /\ Len(SubSeq(list, m, n)) = IF m <= n THEN n - m + 1 ELSE 0
      /\ \A i \in 1 .. n - m + 1 : SubSeq(list, m, n)[i] = list[m + i - 1]
  BY <1>1, SubSeqProperties
<1> QED  BY <1>2

LEMMA Elements ==
    ASSUME NEW list \in Seq(Timers)
    PROVE  /\ Len(list) \in Nat /\ DOMAIN list = 1 .. Len(list)
           /\ \A i \in 1 .. Len(list) : list[i] \in Timers /\ list[i] \in ToSet(list)
           /\ \A t \in ToSet(list) : t \in Timers /\ \E i \in 1 .. Len(list) : list[i] = t
           /\ HandlesIn(list) = {t.h : t \in ToSet(list)} /\ HandlesIn(list) \subseteq Handles
<1>1. Len(list) \in Nat /\ DOMAIN list = 1 .. Len(list)
  BY LenProperties
<1>2. \A i \in 1 .. Len(list) : list[i] \in Timers
  BY ElementOfSeq
<1>3. \A i \in 1 .. Len(list) : list[i].h \in Handles
  BY <1>2 DEF Timers
<1> QED  BY <1>1, <1>2, <1>3 DEF ToSet, HandlesIn

\* Where a handle is in the list.
LEMMA FindIs ==
    ASSUME NEW list \in Seq(Timers), NEW h \in HandlesIn(list)
    PROVE  Find(list, h) \in 1 .. Len(list) /\ list[Find(list, h)].h = h
<1>1. \E i \in DOMAIN list : list[i].h = h
  BY DEF HandlesIn
<1> QED  BY <1>1, Elements DEF Find

\* CancelKernelTimer takes one element out.
LEMMA CancelAt ==
    ASSUME NEW list \in Seq(Timers), NEW h \in HandlesIn(list), NEW p, p = Find(list, h)
    PROVE  /\ Cancel(list, h) \in Seq(Timers)
           /\ Len(Cancel(list, h)) = Len(list) - 1
           /\ \A i \in 1 .. p - 1 : Cancel(list, h)[i] = list[i]
           /\ \A i \in p + 1 .. Len(list) : Cancel(list, h)[i - 1] = list[i]
<1>1. p \in 1 .. Len(list) /\ Len(list) \in Nat
  BY FindIs, Elements
<1> DEFINE n == Len(list)
           a == SubSeq(list, 1, p - 1)
           b == SubSeq(list, p + 1, n)
<1>2. a \in Seq(Timers) /\ Len(a) = p - 1 /\ \A i \in 1 .. p - 1 : a[i] = list[i]
  <2>1. p - 1 \in Int /\ 1 \in Int /\ 1 <= p - 1 + 1 /\ p - 1 <= Len(list) /\ 1 <= 1
    BY <1>1
  <2>2. /\ SubSeq(list, 1, p - 1) \in Seq(Timers) /\ Len(SubSeq(list, 1, p - 1)) = p - 1 - 1 + 1
        /\ \A i \in 1 .. p - 1 - 1 + 1 : SubSeq(list, 1, p - 1)[i] = list[1 + i - 1]
    BY <2>1, Part
  <2> QED  BY <1>1, <2>2
<1>3. b \in Seq(Timers) /\ Len(b) = n - p /\ \A i \in 1 .. n - p : b[i] = list[p + i]
  <2>1. p + 1 \in Int /\ n \in Int /\ 1 <= p + 1 /\ p + 1 <= n + 1 /\ n <= Len(list)
    BY <1>1
  <2>2. /\ SubSeq(list, p + 1, n) \in Seq(Timers) /\ Len(SubSeq(list, p + 1, n)) = n - (p + 1) + 1
        /\ \A i \in 1 .. n - (p + 1) + 1 : SubSeq(list, p + 1, n)[i] = list[p + 1 + i - 1]
    <3> HIDE DEF n
    <3> QED  BY <2>1, Part
  <2> QED  BY <1>1, <2>2
<1>4. Cancel(list, h) = a \o b
  BY DEF Cancel, RemoveAt
<1> HIDE DEF a, b
<1>5. /\ a \o b \in Seq(Timers) /\ Len(a \o b) = Len(a) + Len(b)
      /\ \A i \in 1 .. Len(a) + Len(b) : (a \o b)[i] = IF i <= Len(a) THEN a[i] ELSE b[i - Len(a)]
  BY <1>2, <1>3, ConcatProperties
<1>6. Len(a) + Len(b) = n - 1
  BY <1>1, <1>2, <1>3
<1>7. ASSUME NEW i \in 1 .. p - 1
      PROVE  (a \o b)[i] = list[i]
  <2>1. i \in 1 .. Len(a) + Len(b) /\ i <= Len(a)
    BY <1>1, <1>2, <1>6
  <2> QED  BY <1>2, <1>5, <2>1
<1>8. ASSUME NEW i \in p + 1 .. n
      PROVE  (a \o b)[i - 1] = list[i]
  <2>1. /\ i - 1 \in 1 .. Len(a) + Len(b) /\ ~(i - 1 <= Len(a))
        /\ i - 1 - Len(a) = i - p /\ i - p \in 1 .. n - p /\ p + (i - p) = i
    <3>1. /\ n \in Int /\ p \in Int /\ 1 <= p /\ i \in Int /\ p + 1 <= i /\ i <= n
          /\ Len(a) = p - 1 /\ Len(a) + Len(b) = n - 1
      BY <1>1, <1>2, <1>6
    <3> HIDE DEF n
    <3>2. i - 1 \in 1 .. n - 1 /\ ~(i - 1 <= p - 1) /\ i - 1 - (p - 1) = i - p
      BY <3>1
    <3>3. i - p \in 1 .. n - p /\ p + (i - p) = i
      BY <3>1
    <3> QED  BY <3>1, <3>2, <3>3
  <2>2. (a \o b)[i - 1] = b[i - p]
    BY <1>5, <2>1
  <2>3. b[i - p] = list[i]
    BY <1>3, <2>1
  <2> QED  BY <2>2, <2>3
<1> QED  BY <1>4, <1>5, <1>6, <1>7, <1>8

\* StartKernelTimer puts one element in, at the place that the order of the
\* ticks gives it.
LEMMA PutAt ==
    ASSUME NEW list \in Seq(Timers), NEW t \in Timers
    PROVE  \E p \in 1 .. Len(list) + 1 :
             /\ Put(list, t) \in Seq(Timers)
             /\ Len(Put(list, t)) = Len(list) + 1
             /\ \A i \in 1 .. p - 1 : Put(list, t)[i] = list[i]
             /\ Put(list, t)[p] = t
             /\ \A i \in p .. Len(list) : Put(list, t)[i + 1] = list[i]
             /\ \A i \in 1 .. p - 1 : ~Later(list[i].at, t.at)
             /\ p <= Len(list) => Later(list[p].at, t.at)
<1> DEFINE n     == Len(list)
           later == {i \in DOMAIN list : Later(list[i].at, t.at)}
           p     == IF later = {} THEN n + 1 ELSE Min(later)
<1>1. n \in Nat /\ DOMAIN list = 1 .. n
  BY Elements
<1>2. later # {} => Min(later) \in later /\ \A j \in later : Min(later) <= j
  <2> HIDE DEF later
  <2>1. ASSUME later # {} PROVE \E i \in later : \A j \in later : i <= j
    <3>1. later \in SUBSET Nat
      BY <1>1 DEF later
    <3> QED  BY <2>1, <3>1, Smallest
  <2> QED  BY <2>1 DEF Min
<1>3. /\ p \in 1 .. n + 1
      /\ \A i \in 1 .. p - 1 : ~Later(list[i].at, t.at)
      /\ p <= n => Later(list[p].at, t.at)
  <2>1. CASE later = {}
    BY <1>1, <2>1
  <2>2. CASE later # {}
    <3>1. p \in 1 .. n /\ Later(list[p].at, t.at) /\ \A j \in later : p <= j
      BY <1>1, <1>2, <2>2
    <3>2. \A i \in 1 .. p - 1 : i \notin later /\ i \in DOMAIN list
      <4> HIDE DEF later
      <4> QED  BY <1>1, <3>1
    <3> QED  BY <1>1, <3>1, <3>2
  <2> QED  BY <2>1, <2>2
<1> DEFINE a == SubSeq(list, 1, p - 1)
           b == SubSeq(list, p, n)
<1>4. Put(list, t) = a \o <<t>> \o b
  BY DEF Put, InsertAt
<1> HIDE DEF p, later
<1>5. a \in Seq(Timers) /\ Len(a) = p - 1 /\ \A i \in 1 .. p - 1 : a[i] = list[i]
  <2>1. p - 1 \in Int /\ 1 \in Int /\ 1 <= p - 1 + 1 /\ p - 1 <= Len(list) /\ 1 <= 1
    BY <1>1, <1>3
  <2>2. /\ SubSeq(list, 1, p - 1) \in Seq(Timers) /\ Len(SubSeq(list, 1, p - 1)) = p - 1 - 1 + 1
        /\ \A i \in 1 .. p - 1 - 1 + 1 : SubSeq(list, 1, p - 1)[i] = list[1 + i - 1]
    BY <2>1, Part
  <2> QED  BY <1>3, <2>2
<1>6. b \in Seq(Timers) /\ Len(b) = n - p + 1 /\ \A i \in 1 .. n - p + 1 : b[i] = list[p + i - 1]
  <2>1. p \in Int /\ n \in Int /\ 1 <= p /\ p <= n + 1 /\ n <= Len(list)
    BY <1>1, <1>3
  <2> HIDE DEF n
  <2> QED  BY <2>1, Part
<1>7. <<t>> \in Seq(Timers) /\ Len(<<t>>) = 1 /\ <<t>>[1] = t
  OBVIOUS
<1> HIDE DEF a, b
<1>8. /\ a \o <<t>> \in Seq(Timers) /\ Len(a \o <<t>>) = p
      /\ \A i \in 1 .. p - 1 : (a \o <<t>>)[i] = list[i]
      /\ (a \o <<t>>)[p] = t
  <2>1. /\ a \o <<t>> \in Seq(Timers) /\ Len(a \o <<t>>) = Len(a) + Len(<<t>>)
        /\ \A i \in 1 .. Len(a) + Len(<<t>>) :
             (a \o <<t>>)[i] = IF i <= Len(a) THEN a[i] ELSE <<t>>[i - Len(a)]
    BY <1>5, <1>7, ConcatProperties
  <2>2. Len(a) + Len(<<t>>) = p
    BY <1>3, <1>5, <1>7
  <2>3. ASSUME NEW i \in 1 .. p - 1 PROVE (a \o <<t>>)[i] = list[i]
    <3>1. i \in 1 .. p /\ i <= Len(a)
      BY <1>3, <1>5
    <3> QED  BY <1>5, <2>1, <2>2, <3>1
  <2>4. (a \o <<t>>)[p] = t
    <3>1. p \in 1 .. p /\ ~(p <= Len(a)) /\ p - Len(a) = 1
      BY <1>3, <1>5
    <3> QED  BY <1>7, <2>1, <2>2, <3>1
  <2> QED  BY <2>1, <2>2, <2>3, <2>4
<1> DEFINE l == a \o <<t>>
<1>9. /\ l \in Seq(Timers) /\ Len(l) = p /\ Put(list, t) = l \o b
      /\ l[p] = t /\ \A i \in 1 .. p - 1 : l[i] = list[i]
  BY <1>4, <1>8
<1> HIDE DEF l
<1>10. /\ l \o b \in Seq(Timers) /\ Len(l \o b) = Len(l) + Len(b)
       /\ \A i \in 1 .. Len(l) + Len(b) : (l \o b)[i] = IF i <= Len(l) THEN l[i] ELSE b[i - Len(l)]
  BY <1>6, <1>9, ConcatProperties
<1>11. Len(l) + Len(b) = n + 1
  BY <1>1, <1>3, <1>6, <1>9
<1>12. ASSUME NEW i \in 1 .. p PROVE (l \o b)[i] = l[i]
  <2>1. i \in 1 .. n + 1 /\ i <= Len(l)
    BY <1>1, <1>3, <1>9
  <2> QED  BY <1>10, <1>11, <2>1
<1>13. ASSUME NEW i \in p .. n PROVE (l \o b)[i + 1] = list[i]
  <2>1. /\ i + 1 \in 1 .. n + 1 /\ ~(i + 1 <= Len(l)) /\ i + 1 - Len(l) = i - p + 1
        /\ i - p + 1 \in 1 .. n - p + 1 /\ p + (i - p + 1) - 1 = i
    <3>1. Len(l) = p /\ n \in Nat /\ p \in 1 .. n + 1
      BY <1>1, <1>3, <1>9
    <3> HIDE DEF n
    <3> QED  BY <3>1
  <2>2. (l \o b)[i + 1] = b[i - p + 1]
    BY <1>10, <1>11, <2>1
  <2>3. b[i - p + 1] = list[i]
    BY <1>6, <2>1
  <2> QED  BY <2>2, <2>3
<1>14. (l \o b)[p] = t /\ \A i \in 1 .. p - 1 : (l \o b)[i] = list[i]
  <2>1. p \in 1 .. p /\ \A i \in 1 .. p - 1 : i \in 1 .. p
    BY <1>3
  <2> QED  BY <1>9, <1>12, <2>1
<1> QED  BY <1>3, <1>9, <1>10, <1>11, <1>13, <1>14

\* What remains when a handle is cancelled.
LEMMA CancelSet ==
    ASSUME NEW list \in Seq(Timers), Distinct(list), NEW h
    PROVE  /\ Cancel(list, h) \in Seq(Timers) /\ Distinct(Cancel(list, h))
           /\ ToSet(Cancel(list, h)) = {t \in ToSet(list) : t.h # h}
<1>1. CASE h \notin HandlesIn(list)
  BY <1>1, Elements DEF Cancel
<1>2. CASE h \in HandlesIn(list)
  <2> DEFINE c == Cancel(list, h)
             n == Len(list)
             p == Find(list, h)
  <2>1. /\ p \in 1 .. n /\ list[p].h = h /\ n \in Nat /\ DOMAIN list = 1 .. n
        /\ c \in Seq(Timers) /\ Len(c) = n - 1 /\ DOMAIN c = 1 .. n - 1
        /\ \A i \in 1 .. p - 1 : c[i] = list[i]
        /\ \A i \in p + 1 .. n : c[i - 1] = list[i]
    BY <1>2, FindIs, CancelAt, Elements
  <2> HIDE DEF c, n, p
  <2>2. ASSUME NEW i \in 1 .. n - 1
        PROVE  \E k \in 1 .. n : k # p /\ c[i] = list[k] /\ k = IF i < p THEN i ELSE i + 1
    <3>1. CASE i < p
      BY <2>1, <3>1
    <3>2. CASE i >= p
      <4>1. i + 1 \in p + 1 .. n /\ i + 1 - 1 = i /\ i + 1 \in 1 .. n /\ ~(i < p)
        BY <2>1, <3>2
      <4>2. c[i] = list[i + 1]
        BY <2>1, <4>1
      <4> QED  BY <2>1, <4>1, <4>2
    <3> QED  BY <2>1, <3>1, <3>2
  <2>3. ASSUME NEW k \in 1 .. n, k # p
        PROVE  \E i \in 1 .. n - 1 : c[i] = list[k]
    <3>1. CASE k < p
      BY <2>1, <3>1
    <3>2. CASE k > p
      <4>1. k \in p + 1 .. n /\ k - 1 \in 1 .. n - 1
        BY <2>1, <3>2
      <4> QED  BY <2>1, <4>1
    <3> QED  BY <2>1, <2>3, <3>1, <3>2
  <2>4. \A k \in 1 .. n : list[k].h = h <=> k = p
    BY <2>1 DEF Distinct
  <2>5. Distinct(c)
    <3> SUFFICES ASSUME NEW i \in 1 .. n - 1, NEW j \in 1 .. n - 1, c[i].h = c[j].h
                 PROVE  i = j
      BY <2>1 DEF Distinct
    <3>1. PICK k \in 1 .. n : c[i] = list[k] /\ k = IF i < p THEN i ELSE i + 1
      BY <2>2
    <3>2. PICK m \in 1 .. n : c[j] = list[m] /\ m = IF j < p THEN j ELSE j + 1
      BY <2>2
    <3>3. k = m
      BY <2>1, <3>1, <3>2 DEF Distinct
    <3> QED  BY <2>1, <3>1, <3>2, <3>3
  <2>6. ToSet(c) = {t \in ToSet(list) : t.h # h}
    <3>1. ASSUME NEW t \in ToSet(c) PROVE t \in ToSet(list) /\ t.h # h
      <4>1. PICK i \in 1 .. n - 1 : c[i] = t
        BY <2>1, <3>1 DEF ToSet
      <4>2. PICK k \in 1 .. n : k # p /\ c[i] = list[k]
        BY <2>2
      <4> QED  BY <2>1, <2>4, <4>1, <4>2 DEF ToSet
    <3>2. ASSUME NEW t \in ToSet(list), t.h # h PROVE t \in ToSet(c)
      <4>1. PICK k \in 1 .. n : list[k] = t
        BY <2>1, <3>2 DEF ToSet
      <4>2. k # p
        BY <2>4, <3>2, <4>1
      <4>3. PICK i \in 1 .. n - 1 : c[i] = list[k]
        BY <2>3, <4>2
      <4> QED  BY <2>1, <4>1, <4>3 DEF ToSet
    <3> QED  BY <3>1, <3>2
  <2> QED  BY <2>1, <2>5, <2>6 DEF c
<1> QED  BY <1>1, <1>2

\* Taking a timer out leaves the others in their order, and those in front of the
\* element behind it are those that were in front of it.
LEMMA CancelOrder ==
    ASSUME NEW list \in Seq(Timers), Distinct(list), NEW h, NEW now, NEW low, InOrder(list, now, low)
    PROVE  InOrder(Cancel(list, h), now, low)
<1>1. CASE h \notin HandlesIn(list)
  BY <1>1 DEF Cancel
<1>2. CASE h \in HandlesIn(list)
  <2> DEFINE c == Cancel(list, h)
             n == Len(list)
             p == Find(list, h)
  <2>1. /\ p \in 1 .. n /\ n \in Nat /\ DOMAIN list = 1 .. n /\ DOMAIN c = 1 .. n - 1
        /\ \A i \in 1 .. p - 1 : c[i] = list[i]
        /\ \A i \in p + 1 .. n : c[i - 1] = list[i]
    BY <1>2, FindIs, CancelAt, Elements
  <2> HIDE DEF c, n, p
  <2>2. ASSUME NEW i \in 1 .. n - 1
        PROVE  \E k \in 1 .. n : c[i] = list[k] /\ k = IF i < p THEN i ELSE i + 1
    <3>1. CASE i < p
      BY <2>1, <3>1
    <3>2. CASE i >= p
      <4>1. i + 1 \in p + 1 .. n /\ i + 1 - 1 = i /\ i + 1 \in 1 .. n /\ ~(i < p)
        BY <2>1, <3>2
      <4>2. c[i] = list[i + 1]
        BY <2>1, <4>1
      <4> QED  BY <2>1, <4>1, <4>2
    <3> QED  BY <2>1, <3>1, <3>2
  <2>3. ASSUME NEW i \in 1 .. n - 1
        PROVE  Ahead(c[i].at, now) \in low .. Half - 1
    BY <2>1, <2>2 DEF InOrder
  <2>4. ASSUME NEW i \in 1 .. n - 1, NEW j \in 1 .. n - 1, i < j
        PROVE  Ahead(c[i].at, now) <= Ahead(c[j].at, now)
    <3>1. PICK k \in 1 .. n : c[i] = list[k] /\ k = IF i < p THEN i ELSE i + 1
      BY <2>2
    <3>2. PICK m \in 1 .. n : c[j] = list[m] /\ m = IF j < p THEN j ELSE j + 1
      BY <2>2
    <3>3. k < m
      BY <2>1, <2>4, <3>1, <3>2
    <3> QED  BY <2>1, <3>1, <3>2, <3>3 DEF InOrder
  <2> QED  BY <2>1, <2>3, <2>4 DEF InOrder, c
<1> QED  BY <1>1, <1>2

LEMMA CancelPassed ==
    ASSUME NEW list \in Seq(Timers), Distinct(list), NEW e \in HandlesIn(list), NEW now,
           Passed(list, now, e), NEW next,
           next = IF Find(list, e) = Len(list) THEN NULL ELSE list[Find(list, e) + 1].h
    PROVE  /\ next \in HandlesIn(Cancel(list, e)) \union {NULL}
           /\ Passed(Cancel(list, e), now, next)
<1> DEFINE c == Cancel(list, e)
           n == Len(list)
           p == Find(list, e)
<1>1. /\ p \in 1 .. n /\ list[p].h = e /\ n \in Nat /\ DOMAIN list = 1 .. n
      /\ DOMAIN c = 1 .. n - 1
      /\ \A i \in 1 .. p - 1 : c[i] = list[i]
      /\ \A i \in p + 1 .. n : c[i - 1] = list[i]
      /\ next = IF p = n THEN NULL ELSE list[p + 1].h
  BY FindIs, CancelAt, Elements
<1> HIDE DEF c, n, p
<1>2. p < n => p \in 1 .. n - 1 /\ c[p] = list[p + 1] /\ next = c[p].h
  <2> SUFFICES ASSUME p < n PROVE p \in 1 .. n - 1 /\ c[p] = list[p + 1] /\ next = c[p].h
    OBVIOUS
  <2>1. p \in 1 .. n - 1 /\ p + 1 \in p + 1 .. n /\ p + 1 - 1 = p /\ p # n
    BY <1>1
  <2> QED  BY <1>1, <2>1
<1>3. next \in HandlesIn(c) \union {NULL}
  BY <1>1, <1>2 DEF HandlesIn
<1>4. ASSUME NEW i \in 1 .. n - 1
      PROVE  Ahead(c[i].at, now) >= 1 \/ \E k \in 1 .. i : c[k].h = next
  <2>1. CASE i < p
    <3>1. i \in 1 .. p - 1 /\ i \in 1 .. n
      BY <1>1, <2>1
    <3>2. Ahead(list[i].at, now) >= 1 \/ \E k \in 1 .. i : list[k].h = e
      BY <1>1, <3>1 DEF Passed
    <3>3. \A k \in 1 .. i : k \in 1 .. n /\ k # p
      BY <1>1, <3>1
    <3>4. \A k \in 1 .. i : list[k].h # e
      BY <1>1, <3>3 DEF Distinct
    <3> QED  BY <1>1, <3>1, <3>2, <3>4
  <2>2. CASE i >= p
    <3>1. p < n /\ p \in 1 .. i
      BY <1>1, <2>2
    <3> QED  BY <1>2, <3>1
  <2> QED  BY <1>1, <2>1, <2>2
<1> QED  BY <1>1, <1>3, <1>4 DEF Passed, c

\* What is there when a timer was put in.
LEMMA PutSet ==
    ASSUME NEW list \in Seq(Timers), Distinct(list), NEW t \in Timers, t.h \notin HandlesIn(list)
    PROVE  /\ Put(list, t) \in Seq(Timers) /\ Distinct(Put(list, t))
           /\ ToSet(Put(list, t)) = ToSet(list) \union {t}
<1> DEFINE c == Put(list, t)
           n == Len(list)
<1>1. PICK p \in 1 .. n + 1 :
         /\ c \in Seq(Timers) /\ Len(c) = n + 1
         /\ \A i \in 1 .. p - 1 : c[i] = list[i]
         /\ c[p] = t
         /\ \A i \in p .. n : c[i + 1] = list[i]
         /\ \A i \in 1 .. p - 1 : ~Later(list[i].at, t.at)
         /\ p <= n => Later(list[p].at, t.at)
  BY PutAt
<1>2. n \in Nat /\ DOMAIN list = 1 .. n /\ DOMAIN c = 1 .. n + 1
  BY <1>1, Elements
<1> HIDE DEF c, n
<1>3. ASSUME NEW i \in 1 .. n + 1, i # p
      PROVE  \E k \in 1 .. n : c[i] = list[k] /\ k = IF i < p THEN i ELSE i - 1
  <2>1. CASE i < p
    BY <1>1, <1>2, <2>1
  <2>2. CASE i > p
    <3>1. i - 1 \in p .. n /\ i - 1 + 1 = i /\ i - 1 \in 1 .. n /\ ~(i < p)
      BY <1>1, <1>2, <2>2
    <3>2. c[i] = list[i - 1]
      BY <1>1, <3>1
    <3> QED  BY <3>1, <3>2
  <2> QED  BY <1>1, <1>2, <1>3, <2>1, <2>2
<1>4. ASSUME NEW k \in 1 .. n
      PROVE  \E i \in 1 .. n + 1 : c[i] = list[k]
  <2>1. CASE k < p
    BY <1>1, <1>2, <2>1
  <2>2. CASE k >= p
    <3>1. k \in p .. n /\ k + 1 \in 1 .. n + 1
      BY <1>1, <1>2, <2>2
    <3> QED  BY <1>1, <3>1
  <2> QED  BY <1>1, <1>2, <2>1, <2>2
<1>5. \A k \in 1 .. n : list[k].h # t.h
  BY <1>2 DEF HandlesIn
<1>6. Distinct(c)
  <2> SUFFICES ASSUME NEW i \in 1 .. n + 1, NEW j \in 1 .. n + 1, c[i].h = c[j].h
               PROVE  i = j
    BY <1>2 DEF Distinct
  <2>1. CASE i = p \/ j = p
    BY <1>1, <1>3, <1>5, <2>1
  <2>2. CASE i # p /\ j # p
    <3>1. PICK k \in 1 .. n : c[i] = list[k] /\ k = IF i < p THEN i ELSE i - 1
      BY <1>3, <2>2
    <3>2. PICK m \in 1 .. n : c[j] = list[m] /\ m = IF j < p THEN j ELSE j - 1
      BY <1>3, <2>2
    <3>3. k = m
      BY <1>2, <3>1, <3>2 DEF Distinct
    <3> QED  BY <1>1, <1>2, <2>2, <3>1, <3>2, <3>3
  <2> QED  BY <2>1, <2>2
<1>7. ToSet(c) = ToSet(list) \union {t}
  <2>1. \A i \in 1 .. n + 1 : c[i] = t \/ \E k \in 1 .. n : c[i] = list[k]
    BY <1>1, <1>3
  <2>2. \E i \in 1 .. n + 1 : c[i] = t
    BY <1>1
  <2>3. ASSUME NEW u \in ToSet(c) PROVE u \in ToSet(list) \union {t}
    <3>1. PICK i \in 1 .. n + 1 : c[i] = u
      BY <1>2, <2>3 DEF ToSet
    <3> QED  BY <1>2, <2>1, <3>1 DEF ToSet
  <2>4. ASSUME NEW u \in ToSet(list) PROVE u \in ToSet(c)
    <3>1. PICK k \in 1 .. n : list[k] = u
      BY <1>2, <2>4 DEF ToSet
    <3>2. PICK i \in 1 .. n + 1 : c[i] = list[k]
      BY <1>4
    <3> QED  BY <1>2, <3>1, <3>2 DEF ToSet
  <2>5. t \in ToSet(c)
    BY <1>2, <2>2 DEF ToSet
  <2> QED  BY <2>3, <2>4, <2>5
<1> QED  BY <1>1, <1>6, <1>7 DEF c

\* A timer gets where its tick belongs.
LEMMA PutOrder ==
    ASSUME NEW list \in Seq(Timers), NEW t \in Timers, NEW now \in Ticks, NEW low \in {-1, 0},
           InOrder(list, now, low), Ahead(t.at, now) \in low .. Half - 1
    PROVE  InOrder(Put(list, t), now, low)
<1> DEFINE c == Put(list, t)
           n == Len(list)
<1>1. PICK p \in 1 .. n + 1 :
         /\ c \in Seq(Timers) /\ Len(c) = n + 1
         /\ \A i \in 1 .. p - 1 : c[i] = list[i]
         /\ c[p] = t
         /\ \A i \in p .. n : c[i + 1] = list[i]
         /\ \A i \in 1 .. p - 1 : ~Later(list[i].at, t.at)
         /\ p <= n => Later(list[p].at, t.at)
  BY PutAt
<1>2. n \in Nat /\ DOMAIN list = 1 .. n /\ DOMAIN c = 1 .. n + 1
  BY <1>1, Elements
<1>3. t.at \in Ticks /\ \A i \in 1 .. n : list[i].at \in Ticks
  BY <1>2, Elements DEF Timers
<1>4. Half \in Nat
  BY Constants
<1> HIDE DEF c, n
<1>5. \A i \in 1 .. n : Ahead(list[i].at, now) \in low .. Half - 1
  BY <1>2 DEF InOrder
<1>6. \A i \in 1 .. n : Later(list[i].at, t.at) <=> Ahead(list[i].at, now) > Ahead(t.at, now)
  <2>1. \A z \in low .. Half - 1 : z \in -1 .. Half - 1
    BY <1>4
  <2> QED  BY <1>3, <1>5, <2>1, LaterIsAhead
<1>7. ASSUME NEW i \in 1 .. p - 1
      PROVE  Ahead(list[i].at, now) <= Ahead(t.at, now)
  <2>1. i \in 1 .. n
    BY <1>1, <1>2
  <2>2. ~(Ahead(list[i].at, now) > Ahead(t.at, now))
    BY <1>1, <1>6, <2>1
  <2>3. Ahead(list[i].at, now) \in Int /\ Ahead(t.at, now) \in Int
    BY <1>5, <2>1
  <2> QED  BY <2>2, <2>3
<1>8. ASSUME NEW i \in p .. n
      PROVE  Ahead(t.at, now) <= Ahead(list[i].at, now)
  <2>1. i \in 1 .. n /\ p \in 1 .. n /\ (p < i \/ p = i)
    BY <1>1, <1>2
  <2>2. Ahead(list[p].at, now) > Ahead(t.at, now)
    BY <1>1, <1>6, <2>1
  <2>3. Ahead(list[p].at, now) <= Ahead(list[i].at, now)
    BY <1>2, <1>5, <2>1 DEF InOrder
  <2>4. Ahead(list[i].at, now) \in Int /\ Ahead(list[p].at, now) \in Int /\ Ahead(t.at, now) \in Int
    BY <1>5, <2>1
  <2> QED  BY <2>2, <2>3, <2>4
<1>9. ASSUME NEW i \in 1 .. n + 1, i # p
      PROVE  \E k \in 1 .. n : c[i] = list[k] /\ k = IF i < p THEN i ELSE i - 1
  <2>1. CASE i < p
    BY <1>1, <1>2, <2>1
  <2>2. CASE i > p
    <3>1. i - 1 \in p .. n /\ i - 1 + 1 = i /\ i - 1 \in 1 .. n /\ ~(i < p)
      BY <1>1, <1>2, <2>2
    <3>2. c[i] = list[i - 1]
      BY <1>1, <3>1
    <3> QED  BY <3>1, <3>2
  <2> QED  BY <1>1, <1>2, <1>9, <2>1, <2>2
<1>10. ASSUME NEW i \in 1 .. n + 1
       PROVE  Ahead(c[i].at, now) \in low .. Half - 1
  BY <1>1, <1>5, <1>9
<1>11. ASSUME NEW i \in 1 .. n + 1, NEW j \in 1 .. n + 1, i < j
       PROVE  Ahead(c[i].at, now) <= Ahead(c[j].at, now)
  <2>1. CASE i = p
    <3>1. PICK m \in 1 .. n : c[j] = list[m] /\ m = j - 1
      BY <1>1, <1>2, <1>9, <1>11, <2>1
    <3>2. m \in p .. n
      BY <1>1, <1>2, <1>11, <2>1, <3>1
    <3> QED  BY <1>1, <1>8, <2>1, <3>1, <3>2
  <2>2. CASE j = p
    <3>1. PICK k \in 1 .. n : c[i] = list[k] /\ k = i
      BY <1>1, <1>2, <1>9, <1>11, <2>2
    <3>2. k \in 1 .. p - 1
      BY <1>1, <1>2, <1>11, <2>2, <3>1
    <3> QED  BY <1>1, <1>7, <2>2, <3>1, <3>2
  <2>3. CASE i # p /\ j # p
    <3>1. PICK k \in 1 .. n : c[i] = list[k] /\ k = IF i < p THEN i ELSE i - 1
      BY <1>9, <2>3
    <3>2. PICK m \in 1 .. n : c[j] = list[m] /\ m = IF j < p THEN j ELSE j - 1
      BY <1>9, <2>3
    <3>3. k < m
      BY <1>1, <1>2, <1>11, <2>3, <3>1, <3>2
    <3> QED  BY <1>2, <3>1, <3>2, <3>3 DEF InOrder
  <2> QED  BY <2>1, <2>2, <2>3
<1> QED  BY <1>2, <1>10, <1>11 DEF InOrder, c

\* A timer that has not elapsed may get in front of the poll.
LEMMA PutPassed ==
    ASSUME NEW list \in Seq(Timers), NEW t \in Timers, NEW now, NEW e,
           Passed(list, now, e), Ahead(t.at, now) >= 1
    PROVE  Passed(Put(list, t), now, e)
<1> DEFINE c == Put(list, t)
           n == Len(list)
<1>1. PICK p \in 1 .. n + 1 :
         /\ c \in Seq(Timers) /\ Len(c) = n + 1
         /\ \A i \in 1 .. p - 1 : c[i] = list[i]
         /\ c[p] = t
         /\ \A i \in p .. n : c[i + 1] = list[i]
         /\ \A i \in 1 .. p - 1 : ~Later(list[i].at, t.at)
         /\ p <= n => Later(list[p].at, t.at)
  BY PutAt
<1>2. n \in Nat /\ DOMAIN list = 1 .. n /\ DOMAIN c = 1 .. n + 1
  BY <1>1, Elements
<1> HIDE DEF c, n
<1>3. ASSUME NEW i \in 1 .. n + 1
      PROVE  Ahead(c[i].at, now) >= 1 \/ \E k \in 1 .. i : c[k].h = e
  <2>1. CASE i < p
    <3>1. i \in 1 .. p - 1 /\ i \in 1 .. n /\ \A k \in 1 .. i : k \in 1 .. p - 1
      BY <1>1, <1>2, <2>1
    <3> QED  BY <1>1, <1>2, <3>1 DEF Passed
  <2>2. CASE i = p
    BY <1>1, <2>2
  <2>3. CASE i > p
    <3>1. i - 1 \in p .. n /\ i - 1 + 1 = i /\ i - 1 \in 1 .. n
      BY <1>1, <1>2, <2>3
    <3>2. c[i] = list[i - 1]
      BY <1>1, <3>1
    <3>3. CASE Ahead(list[i - 1].at, now) >= 1
      BY <3>2, <3>3
    <3>4. ASSUME NEW k \in 1 .. i - 1, list[k].h = e
          PROVE  \E m \in 1 .. i : c[m].h = e
      <4>1. CASE k < p
        <5>1. k \in 1 .. p - 1 /\ k \in 1 .. i
          BY <1>1, <1>2, <4>1
        <5> QED  BY <1>1, <3>4, <5>1
      <4>2. CASE k >= p
        <5>1. k \in p .. n /\ k + 1 \in 1 .. i
          BY <1>1, <1>2, <4>2
        <5> QED  BY <1>1, <3>4, <5>1
      <4> QED  BY <1>1, <1>2, <4>1, <4>2
    <3> QED  BY <1>2, <3>1, <3>3, <3>4 DEF Passed
  <2> QED  BY <1>1, <1>2, <2>1, <2>2, <2>3
<1> QED  BY <1>2, <1>3 DEF Passed, c

-----------------------------------------------------------------------------
(* What the parts of the invariant say together                            *)

LEMMA DistinctSet ==
    ASSUME NEW list \in Seq(Timers), Distinct(list),
           NEW t \in ToSet(list), NEW u \in ToSet(list), t.h = u.h
    PROVE  t = u
<1>1. PICK i \in 1 .. Len(list) : list[i] = t
  BY Elements
<1>2. PICK j \in 1 .. Len(list) : list[j] = u
  BY Elements
<1> QED  BY <1>1, <1>2, Elements DEF Distinct

LEMMA Typed ==
    ASSUME TypeOK
    PROVE  m_KernelTimerList \in Seq(Timers) /\ m_nTicks \in Ticks
  BY DEF TypeOK, Timers, Clients

LEMMA CancelHandles ==
    ASSUME NEW list \in Seq(Timers), Distinct(list), NEW h
    PROVE  HandlesIn(Cancel(list, h)) = HandlesIn(list) \ {h}
<1>1. HandlesIn(list) = {t.h : t \in ToSet(list)}
  BY Elements
<1>2. HandlesIn(Cancel(list, h)) = {t.h : t \in ToSet(Cancel(list, h))}
  BY CancelSet, Elements
<1> QED  BY <1>1, <1>2, CancelSet

LEMMA PutHandles ==
    ASSUME NEW list \in Seq(Timers), Distinct(list), NEW t \in Timers, t.h \notin HandlesIn(list)
    PROVE  HandlesIn(Put(list, t)) = HandlesIn(list) \union {t.h}
<1>1. HandlesIn(list) = {u.h : u \in ToSet(list)}
  BY Elements
<1>2. HandlesIn(Put(list, t)) = {u.h : u \in ToSet(Put(list, t))}
  BY PutSet, Elements
<1> QED  BY <1>1, <1>2, PutSet

\* Every client owns its timers by their handles.
LEMMA Holder ==
    ASSUME TypeOK, ListInv, HandleInv, ~orphan, NEW t \in ToSet(m_KernelTimerList), NEW c \in Clients
    PROVE  t.h = Owner(c) <=> t.client = c
<1>1. t \in Timers /\ t.h \in Handles /\ t.h # NULL
  BY Typed, Elements, Constants DEF Timers
<1>2. t.h = Owner(t.client)
  BY DEF HandleInv
<1>3. ASSUME t.h = Owner(c) PROVE t.client = c
  <2>1. PICK u \in ToSet(m_KernelTimerList) : u.client = c
    BY <1>1, <1>3 DEF HandleInv
  <2>2. u.h = t.h
    BY <1>3, <2>1 DEF HandleInv
  <2> QED  BY <2>1, <2>2, Typed, DistinctSet DEF ListInv
<1> QED  BY <1>2, <1>3

\* The timer whose turn it is.
LEMMA Turn ==
    ASSUME TypeOK, ListInv, OrderInv, irq = "poll", pElement # NULL
    PROVE  /\ pElement \in HandlesIn(m_KernelTimerList)
           /\ TimerOf(pElement) \in ToSet(m_KernelTimerList) /\ TimerOf(pElement) \in Timers
           /\ TimerOf(pElement).h = pElement
           /\ Ahead(TimerOf(pElement).at, m_nTicks) \in -1 .. Half - 1
           /\ Elapsed <=> Ahead(TimerOf(pElement).at, m_nTicks) <= 0
<1>1. m_KernelTimerList \in Seq(Timers) /\ m_nTicks \in Ticks
  BY Typed
<1>2. pElement \in HandlesIn(m_KernelTimerList)
  BY DEF ListInv
<1> DEFINE i == Find(m_KernelTimerList, pElement)
<1>3. i \in 1 .. Len(m_KernelTimerList) /\ TimerOf(pElement) = m_KernelTimerList[i]
      /\ m_KernelTimerList[i].h = pElement
  BY <1>1, <1>2, FindIs DEF TimerOf
<1> HIDE DEF i
<1>4. TimerOf(pElement) \in ToSet(m_KernelTimerList) /\ TimerOf(pElement) \in Timers
  BY <1>1, <1>3, Elements
<1>5. i \in DOMAIN m_KernelTimerList
  BY <1>1, <1>3, Elements
<1>6. Ahead(TimerOf(pElement).at, m_nTicks) \in -1 .. Half - 1
  BY <1>3, <1>5 DEF OrderInv, InOrder, Low
<1>7. Later(TimerOf(pElement).at, m_nTicks) <=> Ahead(TimerOf(pElement).at, m_nTicks) >= 1
  BY <1>1, <1>4, <1>6, LaterThanNow DEF Timers
<1> QED  BY <1>2, <1>3, <1>4, <1>6, <1>7, Constants DEF Elapsed

LEMMA NextIs ==
    ASSUME TypeOK, ListInv, OrderInv, irq = "poll", pElement # NULL
    PROVE  /\ NextElement \in HandlesIn(Cancel(m_KernelTimerList, pElement)) \union {NULL}
           /\ Passed(Cancel(m_KernelTimerList, pElement), m_nTicks, NextElement)
<1>1. /\ m_KernelTimerList \in Seq(Timers) /\ Distinct(m_KernelTimerList)
      /\ pElement \in HandlesIn(m_KernelTimerList)
      /\ Passed(m_KernelTimerList, m_nTicks, pElement)
  BY Typed, Turn DEF ListInv, OrderInv
<1>2. NextElement = IF Find(m_KernelTimerList, pElement) = Len(m_KernelTimerList) THEN NULL
                    ELSE m_KernelTimerList[Find(m_KernelTimerList, pElement) + 1].h
  BY DEF NextElement
<1> QED  BY <1>1, <1>2, CancelPassed

\* A timer that begins now.
LEMMA Begins ==
    ASSUME TypeOK, NEW n \in 1 .. Half - 1
    PROVE  Plus(n) \in Ticks /\ Ahead(Plus(n), m_nTicks) = n
  BY AheadOfSum, Constants, Typed DEF Plus

\* What a loop over keys has still before it.
LEMMA TailSet ==
    ASSUME NEW s \in Seq(Keys), s # <<>>
    PROVE  /\ Head(s) \in Keys /\ Head(s) \in ToSet(s)
           /\ Tail(s) \in Seq(Keys)
           /\ ToSet(s) = {Head(s)} \union ToSet(Tail(s))
<1>1. /\ Len(s) \in Nat /\ Len(s) >= 1 /\ DOMAIN s = 1 .. Len(s) /\ \A i \in 1 .. Len(s) : s[i] \in Keys
      /\ Head(s) = s[1] /\ Tail(s) \in Seq(Keys) /\ Len(Tail(s)) = Len(s) - 1
      /\ DOMAIN Tail(s) = 1 .. Len(s) - 1
      /\ \A i \in 1 .. Len(s) - 1 : Tail(s)[i] = s[i + 1]
  <2>1. Tail(s) \in Seq(Keys) /\ Head(s) = s[1]
    BY HeadTailProperties
  <2> QED  BY <2>1, HeadTailProperties, LenProperties, ElementOfSeq, EmptySeq
<1>2. ASSUME NEW k \in ToSet(s) PROVE k = Head(s) \/ k \in ToSet(Tail(s))
  <2>1. PICK i \in 1 .. Len(s) : s[i] = k
    BY <1>1 DEF ToSet
  <2>2. CASE i # 1
    <3>1. i - 1 \in 1 .. Len(s) - 1 /\ i - 1 + 1 = i
      BY <1>1, <2>2
    <3>2. Tail(s)[i - 1] = k
      BY <1>1, <2>1, <3>1
    <3> QED  BY <1>1, <3>1, <3>2 DEF ToSet
  <2> QED  BY <1>1, <2>1, <2>2
<1>3. ASSUME NEW k \in ToSet(Tail(s)) PROVE k \in ToSet(s)
  <2>1. PICK i \in 1 .. Len(s) - 1 : Tail(s)[i] = k
    BY <1>1 DEF ToSet
  <2>2. i + 1 \in 1 .. Len(s) /\ s[i + 1] = k
    BY <1>1, <2>1
  <2> QED  BY <1>1, <2>2 DEF ToSet
<1>4. Head(s) \in ToSet(s) /\ Head(s) \in Keys
  <2>1. 1 \in 1 .. Len(s)
    BY <1>1
  <2> QED  BY <1>1, <2>1 DEF ToSet
<1> QED  BY <1>1, <1>2, <1>3, <1>4

-----------------------------------------------------------------------------
(* The steps                                                               *)

LEMMA InitIInv == ASSUME Init PROVE IInv
<1>1. Len(<<>>) = 0 /\ ToSet(<<>>) = {} /\ HandlesIn(<<>>) = {}
  BY DEF ToSet, HandlesIn
<1>2. TypeOK
  <2>1. /\ <<>> \in Seq(Keys)
        /\ <<>> \in Seq([h : Handles, at : Ticks, client : Others \union {"keyboard"}])
    OBVIOUS
  <2>2. 0 \in Ticks /\ 0 \in 0 .. REPEAT_DELAY + 1 /\ 0 \in 0 .. MaxRemovals
    BY Constants DEF Ticks
  <2> HIDE DEF Ticks
  <2> QED  BY <2>1, <2>2 DEF Init, TypeOK
<1>3. ListInv
  BY <1>1, Constants DEF Init, ListInv, Distinct
<1>4. HandleInv
  <2>1. \A c \in Clients : Owner(c) = NULL
    BY DEF Init, Owner, Clients
  <2> QED  BY <1>1, <2>1 DEF Init, HandleInv
<1>5. ReportInv
  BY DEF Init, ReportInv, NoReport
<1>6. OrderInv
  BY <1>1, Constants DEF Init, OrderInv, InOrder
<1>7. PaceInv
  BY <1>1 DEF Init, PaceInv
<1> QED  BY <1>2, <1>3, <1>4, <1>5, <1>6, <1>7 DEF IInv

LEMMA ReportHandlerKeeps ==
    ASSUME IInv, NEW r \in Reports, ReportHandler(r)
    PROVE  IInv'
<1> USE DEF IInv
<1>1. r.keys \in Seq(Keys) /\ r.mods \subseteq Mods /\ m_LastReport.keys \in Seq(Keys)
  <2>1. r.keys \in Seq(Keys) /\ r.mods \subseteq Mods
    BY KeyboardAssumption DEF Mods, KeyboardAssumption
  <2>2. CASE m_LastReport \in Reports
    BY <2>1, <2>2, KeyboardAssumption DEF KeyboardAssumption
  <2>3. CASE m_LastReport = NoReport
    <3>1. m_LastReport.keys = <<>>
      BY <2>3 DEF NoReport
    <3>2. <<>> \in Seq(Keys)
      OBVIOUS
    <3> QED  BY <2>1, <3>1, <3>2
  <2> QED  BY <2>1, <2>2, <2>3 DEF TypeOK
<1>2. TypeOK'
  BY <1>1 DEF ReportHandler, TypeOK, timers, usb, other, start, Mods
<1>3. ListInv'
  BY DEF ReportHandler, ListInv, timers, other, start
<1>4. HandleInv'
  BY DEF ReportHandler, HandleInv, Owner, timers, usb, other, start
<1>5. ReportInv'
  <2>1. (m_ucModifiers \union (r.mods \ m_LastReport.mods)) \ (m_LastReport.mods \ r.mods) = r.mods
    BY DEF ReportHandler, ReportInv
  <2> QED  BY <2>1 DEF ReportHandler, ReportInv, Held, usb
<1>6. OrderInv'
  BY DEF ReportHandler, OrderInv, Low, timers, other, start
<1>7. PaceInv'
  BY DEF ReportHandler, PaceInv, Period, timers, usb
<1> QED  BY <1>2, <1>3, <1>4, <1>5, <1>6, <1>7

LEMMA KeyReleasedKeeps == ASSUME IInv, KeyReleased PROVE IInv'
<1> USE DEF IInv
<1> DEFINE L == m_KernelTimerList
<1>1. L \in Seq(Timers) /\ Distinct(L)
  BY Typed DEF ListInv
<1>2. Tail(released) \in Seq(Keys) /\ ToSet(released) \subseteq {Head(released)} \union ToSet(Tail(released))
  <2>1. released \in Seq(Keys) /\ released # <<>>
    BY DEF KeyReleased, TypeOK
  <2> QED  BY <2>1, TailSet
<1>3. CASE Head(released) = m_ucLastKeyCode /\ Head(released) \notin Held(report)
  <2>1. /\ L' = Cancel(L, m_hTimer) /\ m_hTimer' = NULL /\ m_ucLastKeyCode' = NoKey
        /\ irq = "report" /\ released' = Tail(released)
        /\ UNCHANGED <<m_nTicks, pElement, irq, usb, m_LastReport, m_ucModifiers,
                       report, pressed, other, failed, history>>
    BY <1>3 DEF KeyReleased
  <2>2. /\ L' \in Seq(Timers) /\ Distinct(L')
        /\ ToSet(L') = {t \in ToSet(L) : t.h # m_hTimer}
        /\ HandlesIn(L') = HandlesIn(L) \ {m_hTimer}
    BY <1>1, <2>1, CancelSet, CancelHandles
  <2>3. TypeOK'
    BY <1>2, <2>1, <2>2 DEF TypeOK, usb, other, start, history, Timers, Clients
  <2>4. ListInv'
    BY <2>1, <2>2 DEF ListInv, other, start
  <2>5. HandleInv'
    <3> SUFFICES ASSUME ~orphan PROVE HandleInv'
      BY <2>1 DEF HandleInv, usb
    <3>1. \A t \in ToSet(L) : t.client \in Clients
      BY <1>1, Elements DEF Timers
    <3>2. \A t \in ToSet(L) : t.h = m_hTimer <=> t.client = "keyboard"
      BY Holder DEF Owner, Clients
    <3>3. \A c \in Clients : Owner(c)' = IF c = "keyboard" THEN NULL ELSE Owner(c)
      BY <2>1 DEF Owner, other
    <3>4. \A t \in ToSet(L') : t.h = Owner(t.client)'
      BY <2>2, <3>1, <3>2, <3>3 DEF HandleInv
    <3>5. ASSUME NEW c \in Clients, Owner(c)' # NULL
          PROVE  \E t \in ToSet(L') : t.client = c
      <4>1. c # "keyboard" /\ Owner(c) # NULL
        BY <3>3, <3>5
      <4>2. PICK t \in ToSet(L) : t.client = c
        BY <4>1 DEF HandleInv
      <4> QED  BY <2>2, <3>2, <4>1, <4>2
    <3> QED  BY <2>1, <3>4, <3>5 DEF HandleInv, usb, other, start
  <2>6. ReportInv'
    BY <2>1 DEF ReportInv, usb, history
  <2>7. OrderInv'
    BY <1>1, <2>1, CancelOrder DEF OrderInv, Low, other, start
  <2>8. PaceInv'
    BY <2>1, <2>2 DEF PaceInv, Period, usb, history
  <2> QED  BY <2>3, <2>4, <2>5, <2>6, <2>7, <2>8
<1>4. CASE ~(Head(released) = m_ucLastKeyCode /\ Head(released) \notin Held(report))
  <2>1. /\ irq = "report" /\ released' = Tail(released)
        /\ UNCHANGED <<L, m_hTimer, m_ucLastKeyCode, m_nTicks, pElement, irq, usb, m_LastReport,
                       m_ucModifiers, report, pressed, other, failed, history>>
    BY <1>4 DEF KeyReleased
  <2>2. TypeOK'
    BY <1>2, <2>1 DEF TypeOK, usb, other, start, history
  <2>3. ListInv'
    BY <2>1 DEF ListInv, other, start
  <2>4. HandleInv'
    BY <2>1 DEF HandleInv, Owner, usb, other, start
  <2>5. ReportInv'
    BY <1>2, <1>4, <2>1 DEF ReportInv, usb, history
  <2>6. OrderInv'
    BY <2>1 DEF OrderInv, other, start
  <2>7. PaceInv'
    BY <2>1 DEF PaceInv, Period, usb, history
  <2> QED  BY <2>2, <2>3, <2>4, <2>5, <2>6, <2>7
<1> QED  BY <1>3, <1>4

LEMMA KeyPressedKeeps == ASSUME IInv, KeyPressed PROVE IInv'
<1> USE DEF IInv
<1> DEFINE L    == m_KernelTimerList
           k    == Head(pressed)
           rest == Cancel(L, m_hTimer)
<1>1. L \in Seq(Timers) /\ Distinct(L) /\ m_nTicks \in Ticks
  BY Typed DEF ListInv
<1>2. /\ k \in Keys /\ k # NoKey /\ k \in ToSet(pressed) /\ Tail(pressed) \in Seq(Keys)
      /\ ToSet(pressed) = {k} \union ToSet(Tail(pressed))
  <2>1. pressed \in Seq(Keys) /\ pressed # <<>>
    BY DEF KeyPressed, TypeOK
  <2> QED  BY <2>1, TailSet, Constants
<1>3. irq = "report" /\ pressed' = Tail(pressed)
      /\ UNCHANGED <<m_nTicks, pElement, irq, usb, m_LastReport, m_ucModifiers,
                     report, released, other, failed>>
  BY DEF KeyPressed
<1>4. CASE k \notin Held(m_LastReport) /\ k # m_ucLastKeyCode
  <2>1. PICK h \in Free(rest) :
           /\ m_ucLastKeyCode' = k /\ m_hTimer' = h
           /\ Event(k, FALSE)
           /\ L' = Put(rest, [h |-> h, at |-> Plus(REPEAT_DELAY), client |-> "keyboard"])
    BY <1>4 DEF KeyPressed
  <2>2. heard' = heard \union {k} /\ age' = 0 /\ repeated' = FALSE /\ Period' = REPEAT_DELAY
    BY <2>1 DEF Event, Period
  <2> DEFINE new == [h |-> h, at |-> Plus(REPEAT_DELAY), client |-> "keyboard"]
  <2>3. /\ rest \in Seq(Timers) /\ Distinct(rest)
        /\ ToSet(rest) = {t \in ToSet(L) : t.h # m_hTimer}
        /\ HandlesIn(rest) = HandlesIn(L) \ {m_hTimer}
    BY <1>1, CancelSet, CancelHandles
  <2>4. h \in Handles /\ h # NULL /\ h \notin HandlesIn(rest) /\ h # hNew
    BY <2>1, Constants DEF Free
  <2>5. Plus(REPEAT_DELAY) \in Ticks /\ Ahead(Plus(REPEAT_DELAY), m_nTicks) = REPEAT_DELAY
    BY Begins, Constants
  <2>6. /\ new \in Timers /\ new.h = h /\ new.at = Plus(REPEAT_DELAY) /\ new.client = "keyboard"
        /\ L' = Put(rest, new)
    BY <2>1, <2>4, <2>5 DEF Timers, Clients
  <2> HIDE DEF new, rest
  <2>7. /\ L' \in Seq(Timers) /\ Distinct(L')
        /\ ToSet(L') = {t \in ToSet(L) : t.h # m_hTimer} \union {new}
        /\ HandlesIn(L') = (HandlesIn(L) \ {m_hTimer}) \union {h}
    BY <2>3, <2>4, <2>6, PutSet, PutHandles
  <2>8. TypeOK'
    <3>1. L' \in Seq([h : Handles, at : Ticks, client : Others \union {"keyboard"}])
      BY <2>7 DEF Timers, Clients
    <3>2. 0 \in 0 .. REPEAT_DELAY + 1
      BY Constants
    <3> HIDE DEF L
    <3> QED  BY <1>2, <1>3, <2>1, <2>2, <2>4, <3>1, <3>2 DEF TypeOK, usb, other, start, L
  <2>9. ListInv'
    BY <1>3, <2>4, <2>7 DEF ListInv, other, start
  <2>10. HandleInv'
    <3> SUFFICES ASSUME ~orphan PROVE HandleInv'
      BY <1>3 DEF HandleInv, usb
    <3>1. \A t \in ToSet(L) : t.client \in Clients
      BY <1>1, Elements DEF Timers
    <3>2. \A t \in ToSet(L) : t.h = m_hTimer <=> t.client = "keyboard"
      BY Holder DEF Owner, Clients
    <3>3. \A c \in Clients : Owner(c)' = IF c = "keyboard" THEN h ELSE Owner(c)
      BY <1>3, <2>1 DEF Owner, other
    <3>4. \A t \in ToSet(L') : t.h = Owner(t.client)'
      BY <2>6, <2>7, <3>1, <3>2, <3>3 DEF HandleInv, Clients
    <3>5. ASSUME NEW c \in Clients, Owner(c)' # NULL
          PROVE  \E t \in ToSet(L') : t.client = c
      <4>1. CASE c = "keyboard"
        BY <2>6, <2>7, <4>1
      <4>2. CASE c # "keyboard"
        <5>1. Owner(c) # NULL
          BY <3>3, <3>5, <4>2
        <5>2. PICK t \in ToSet(L) : t.client = c
          BY <5>1 DEF HandleInv
        <5> QED  BY <2>7, <3>2, <4>2, <5>2
      <4> QED  BY <4>1, <4>2
    <3> QED  BY <1>2, <1>3, <2>1, <2>4, <3>4, <3>5 DEF HandleInv, ReportInv, usb, other, start
  <2>11. ReportInv'
    BY <1>2, <1>3, <2>1, <2>2 DEF ReportInv, usb
  <2>12. OrderInv'
    <3>1. InOrder(rest, m_nTicks, 0)
      BY <1>1, <1>3, CancelOrder DEF OrderInv, Low, rest
    <3>2. REPEAT_DELAY \in 0 .. Half - 1
      BY Constants
    <3>3. InOrder(L', m_nTicks, 0)
      BY <1>1, <2>3, <2>5, <2>6, <3>1, <3>2, PutOrder
    <3> QED  BY <1>3, <3>3 DEF OrderInv, Low, other, start
  <2>13. PaceInv'
    <3> SUFFICES ASSUME ~orphan PROVE PaceInv'
      BY <1>3 DEF PaceInv, usb
    <3>1. \A t \in ToSet(L) : t.client = "keyboard" => t.h = m_hTimer
      BY Holder DEF Owner, Clients
    <3>2. \A t \in ToSet(L') : t.client = "keyboard" => t = new
      BY <2>7, <3>1
    <3>3. 0 < REPEAT_DELAY /\ REPEAT_DELAY - 0 = REPEAT_DELAY
      BY Constants
    <3> QED  BY <1>3, <2>2, <2>5, <2>6, <3>2, <3>3 DEF PaceInv
  <2> QED  BY <2>8, <2>9, <2>10, <2>11, <2>12, <2>13
<1>5. CASE ~(k \notin Held(m_LastReport) /\ k # m_ucLastKeyCode)
  <2>1. UNCHANGED <<L, m_hTimer, m_ucLastKeyCode, history>>
    BY <1>5 DEF KeyPressed
  <2> HIDE DEF k
  <2>2. TypeOK'
    BY <1>2, <1>3, <2>1 DEF TypeOK, usb, other, start, history
  <2>3. ListInv'
    BY <1>3, <2>1 DEF ListInv, other, start
  <2>4. HandleInv'
    BY <1>3, <2>1 DEF HandleInv, Owner, usb, other, start
  <2>5. ReportInv'
    BY <1>2, <1>3, <1>5, <2>1 DEF ReportInv, usb, history
  <2>6. OrderInv'
    BY <1>3, <2>1 DEF OrderInv, other, start
  <2>7. PaceInv'
    BY <1>3, <2>1 DEF PaceInv, Period, usb, history
  <2> QED  BY <2>2, <2>3, <2>4, <2>5, <2>6, <2>7
<1> QED  BY <1>4, <1>5

LEMMA ReportDoneKeeps == ASSUME IInv, ReportDone PROVE IInv'
<1> USE DEF IInv
<1>1. ToSet(<<>>) = {}
  BY DEF ToSet
<1>2. TypeOK'
  BY DEF ReportDone, TypeOK, timers, usb, loops, other, start, history
<1>3. ListInv'
  BY DEF ReportDone, ListInv, timers, other, start
<1>4. HandleInv'
  BY DEF ReportDone, HandleInv, Owner, timers, usb, other, start
<1>5. ReportInv'
  BY <1>1 DEF ReportDone, ReportInv, loops
<1>6. OrderInv'
  BY DEF ReportDone, OrderInv, Low, timers, other, start
<1>7. PaceInv'
  BY DEF ReportDone, PaceInv, Period, timers, usb, history
<1> QED  BY <1>2, <1>3, <1>4, <1>5, <1>6, <1>7

LEMMA InterruptHandlerKeeps == ASSUME IInv, InterruptHandler PROVE IInv'
<1> USE DEF IInv
<1> DEFINE L == m_KernelTimerList
<1>1. L \in Seq(Timers) /\ m_nTicks \in Ticks /\ Len(L) \in Nat /\ DOMAIN L = 1 .. Len(L)
  BY Typed, Elements
<1>2. /\ irq = "none" /\ irq' = "poll" /\ ~late /\ late' = (starter # NULL) /\ L' = L
      /\ m_nTicks' = (m_nTicks + 1) % ClockMod
      /\ pElement' = IF L = <<>> THEN NULL ELSE Head(L).h
      /\ heard' = {} /\ age' = IF age > REPEAT_DELAY THEN age ELSE age + 1
      /\ UNCHANGED <<usb, keyboard, loops, m_hOther, starter, hNew, nElapsesAt, failed, repeated>>
  BY DEF InterruptHandler, Tick, Plus
<1>3. m_nTicks' \in Ticks
  BY <1>1, <1>2, AheadOfSum, Constants
<1>4. L # <<>> => 1 \in DOMAIN L /\ pElement' = L[1].h /\ L[1].h \in HandlesIn(L) /\ L[1].h \in Handles
  <2> SUFFICES ASSUME L # <<>> PROVE 1 \in DOMAIN L /\ pElement' = L[1].h /\ L[1].h \in HandlesIn(L)
    BY <1>1, Elements
  <2>1. 1 \in DOMAIN L
    BY <1>1, EmptySeq
  <2> QED  BY <1>2, <2>1 DEF HandlesIn
<1>5. TypeOK'
  <2>1. age' \in 0 .. REPEAT_DELAY + 1
    BY <1>2, Constants DEF TypeOK
  <2>2. pElement' \in Handles \union {NULL}
    BY <1>2, <1>4
  <2> QED  BY <1>2, <1>3, <2>1, <2>2 DEF TypeOK, usb, keyboard, loops
<1>6. ListInv'
  BY <1>2, <1>4 DEF ListInv
<1>7. HandleInv'
  BY <1>2 DEF HandleInv, Owner, usb, keyboard
<1>8. ReportInv'
  BY <1>2 DEF ReportInv, keyboard
<1>9. \A a \in Ticks : Ahead(a, m_nTicks) \in 0 .. Half - 1
          => Ahead(a, m_nTicks') = Ahead(a, m_nTicks) - 1
  BY <1>1, <1>2, AheadTick
<1>10. ASSUME NEW i \in DOMAIN L
       PROVE  Ahead(L[i].at, m_nTicks) \in 0 .. Half - 1
              /\ Ahead(L[i].at, m_nTicks') = Ahead(L[i].at, m_nTicks) - 1
  <2>1. Ahead(L[i].at, m_nTicks) \in 0 .. Half - 1
    BY <1>2 DEF OrderInv, InOrder, Low
  <2>2. L[i].at \in Ticks
    BY <1>1, Elements DEF Timers
  <2> QED  BY <1>9, <2>1, <2>2
<1>11. OrderInv'
  <2> HIDE DEF L
  <2>1. InOrder(L, m_nTicks', -1)
    <3>1. \A i \in DOMAIN L : Ahead(L[i].at, m_nTicks') \in -1 .. Half - 1
      BY <1>10, Constants
    <3>2. ASSUME NEW i \in DOMAIN L, NEW j \in DOMAIN L, i < j
          PROVE  Ahead(L[i].at, m_nTicks') <= Ahead(L[j].at, m_nTicks')
      <4>1. Ahead(L[i].at, m_nTicks) <= Ahead(L[j].at, m_nTicks)
        BY <3>2 DEF OrderInv, InOrder, L
      <4>2. Ahead(L[i].at, m_nTicks) \in Int /\ Ahead(L[j].at, m_nTicks) \in Int
        BY <1>10, Constants
      <4> QED  BY <1>10, <4>1, <4>2
    <3> QED  BY <3>1, <3>2 DEF InOrder
  <2>2. Passed(L, m_nTicks', pElement')
    <3> SUFFICES ASSUME NEW i \in DOMAIN L PROVE \E p \in 1 .. i : L[p].h = pElement'
      BY DEF Passed
    <3>1. L # <<>> /\ 1 \in 1 .. i
      BY <1>1
    <3> QED  BY <1>4, <3>1
  <2>3. starter' # NULL => Ahead(nElapsesAt', m_nTicks') \in (IF late' THEN 0 ELSE 1) .. Half - 1
    <3> SUFFICES ASSUME starter # NULL
                 PROVE  Ahead(nElapsesAt, m_nTicks') \in 0 .. Half - 1
      BY <1>2
    <3>1. Ahead(nElapsesAt, m_nTicks) \in 1 .. Half - 1 /\ nElapsesAt \in Ticks
      BY <1>2 DEF OrderInv, TypeOK
    <3>2. Ahead(nElapsesAt, m_nTicks) \in 0 .. Half - 1
      BY <3>1, Constants
    <3> QED  BY <1>9, <3>1, <3>2, Constants
  <2> QED  BY <1>2, <2>1, <2>2, <2>3 DEF OrderInv, Low, L
<1>12. PaceInv'
  <2> SUFFICES ASSUME ~orphan, NEW t \in ToSet(L), t.client = "keyboard"
               PROVE  Ahead(t.at, m_nTicks') = Period' - age' /\ age' <= Period'
    BY <1>2 DEF PaceInv, usb
  <2>1. PICK i \in DOMAIN L : L[i] = t
    BY <1>1, Elements
  <2>2. Ahead(t.at, m_nTicks) = Period - age /\ age < Period
    BY <1>2 DEF PaceInv
  <2>3. Period' = Period /\ Period \in Nat /\ Period <= REPEAT_DELAY /\ age \in Nat /\ REPEAT_DELAY \in Nat
    BY <1>2, Constants DEF Period, TypeOK
  <2>4. age' = age + 1
    BY <1>2, <2>2, <2>3
  <2> QED  BY <1>10, <2>1, <2>2, <2>3, <2>4
<1> QED  BY <1>5, <1>6, <1>7, <1>8, <1>11, <1>12

LEMMA TimerHandlerKeeps == ASSUME IInv, TimerHandler PROVE IInv'
<1> USE DEF IInv
<1> DEFINE L    == m_KernelTimerList
           e    == TimerOf(pElement)
           rest == Cancel(L, pElement)
<1>1. L \in Seq(Timers) /\ Distinct(L) /\ m_nTicks \in Ticks
  BY Typed DEF ListInv
<1>2. /\ irq = "poll" /\ Elapsed /\ pElement # NULL /\ e.client = "keyboard"
      /\ failed' = (failed \/ pElement # m_hTimer) /\ pElement' = NextElement
      /\ UNCHANGED <<m_nTicks, irq, usb, m_LastReport, m_ucModifiers, m_ucLastKeyCode, loops,
                     other>>
  BY DEF TimerHandler, Elapsed
<1>3. /\ e \in ToSet(L) /\ e \in Timers /\ e.h = pElement /\ pElement \in HandlesIn(L)
  BY <1>2, Turn
<1>4. /\ rest \in Seq(Timers) /\ Distinct(rest)
      /\ ToSet(rest) = {t \in ToSet(L) : t.h # pElement}
      /\ HandlesIn(rest) = HandlesIn(L) \ {pElement} /\ HandlesIn(L) \subseteq Handles
  BY <1>1, CancelSet, CancelHandles, Elements
<1>5. pElement' \in HandlesIn(rest) \union {NULL} /\ Passed(rest, m_nTicks, pElement')
  BY <1>2, NextIs
<1>6. InOrder(rest, m_nTicks, -1)
  BY <1>1, <1>2, CancelOrder DEF OrderInv, Low
<1>7. CASE m_ucLastKeyCode # NoKey
  <2>1. PICK h \in Free(L) :
           /\ m_hTimer' = h
           /\ L' = Put(rest, [h |-> h, at |-> Plus(REPEAT_RATE), client |-> "keyboard"])
           /\ IF device # "gone" THEN Event(m_ucLastKeyCode, TRUE) ELSE UNCHANGED history
    BY <1>7 DEF TimerHandler
  <2> DEFINE new == [h |-> h, at |-> Plus(REPEAT_RATE), client |-> "keyboard"]
  <2>2. h \in Handles /\ h # NULL /\ h \notin HandlesIn(L) /\ h # hNew
    BY <2>1, Constants DEF Free
  <2>3. Plus(REPEAT_RATE) \in Ticks /\ Ahead(Plus(REPEAT_RATE), m_nTicks) = REPEAT_RATE
    BY Begins, Constants
  <2>4. /\ new \in Timers /\ new.h = h /\ new.at = Plus(REPEAT_RATE) /\ new.client = "keyboard"
        /\ L' = Put(rest, new)
    BY <2>1, <2>2, <2>3 DEF Timers, Clients
  <2> HIDE DEF new, rest, e
  <2>5. /\ L' \in Seq(Timers) /\ Distinct(L')
        /\ ToSet(L') = {t \in ToSet(L) : t.h # pElement} \union {new}
        /\ HandlesIn(L') = (HandlesIn(L) \ {pElement}) \union {h}
    BY <1>4, <2>2, <2>4, PutSet, PutHandles
  <2>6. TypeOK'
    <3>1. L' \in Seq([h : Handles, at : Ticks, client : Others \union {"keyboard"}])
      BY <2>5 DEF Timers, Clients
    <3>2. 0 \in 0 .. REPEAT_DELAY + 1
      BY Constants
    <3>3. heard' \subseteq Keys /\ age' \in 0 .. REPEAT_DELAY + 1 /\ repeated' \in BOOLEAN
      BY <1>7, <2>1, <3>2 DEF TypeOK, Event, history
    <3>4. pElement' \in Handles \union {NULL} /\ failed' \in BOOLEAN
      BY <1>2, <1>4, <1>5 DEF TypeOK
    <3> HIDE DEF L
    <3> QED  BY <1>2, <2>1, <2>2, <3>1, <3>3, <3>4 DEF TypeOK, usb, loops, other, start, L
  <2>7. ListInv'
    BY <1>2, <1>4, <1>5, <2>2, <2>5 DEF ListInv, other, start
  <2>8. HandleInv'
    <3> SUFFICES ASSUME ~orphan PROVE HandleInv'
      BY <1>2 DEF HandleInv, usb
    <3>1. \A t \in ToSet(L) : t.client \in Clients
      BY <1>1, Elements DEF Timers
    <3>2. pElement = m_hTimer
      BY <1>2, <1>3, Holder DEF Owner, Clients, e
    <3>3. \A t \in ToSet(L) : t.h = pElement <=> t.client = "keyboard"
      BY <3>2, Holder DEF Owner, Clients
    <3>4. \A c \in Clients : Owner(c)' = IF c = "keyboard" THEN h ELSE Owner(c)
      BY <1>2, <2>1 DEF Owner, other
    <3>5. \A t \in ToSet(L') : t.h = Owner(t.client)'
      BY <2>4, <2>5, <3>1, <3>3, <3>4 DEF HandleInv, Clients
    <3>6. ASSUME NEW c \in Clients, Owner(c)' # NULL
          PROVE  \E t \in ToSet(L') : t.client = c
      <4>1. CASE c = "keyboard"
        BY <2>4, <2>5, <4>1
      <4>2. CASE c # "keyboard"
        <5>1. Owner(c) # NULL
          BY <3>4, <3>6, <4>2
        <5>2. PICK t \in ToSet(L) : t.client = c
          BY <5>1 DEF HandleInv
        <5> QED  BY <2>5, <3>3, <4>2, <5>2
      <4> QED  BY <4>1, <4>2
    <3> QED  BY <1>2, <1>7, <2>1, <2>2, <3>2, <3>5, <3>6 DEF HandleInv, usb, other, start
  <2>9. ReportInv'
    BY <1>2 DEF ReportInv
  <2>10. OrderInv'
    <3>1. REPEAT_RATE \in -1 .. Half - 1 /\ REPEAT_RATE >= 1
      BY Constants
    <3>2. InOrder(L', m_nTicks, -1)
      BY <1>1, <1>4, <1>6, <2>3, <2>4, <3>1, PutOrder
    <3>3. Passed(L', m_nTicks, pElement')
      BY <1>4, <1>5, <2>3, <2>4, <3>1, PutPassed
    <3> QED  BY <1>2, <3>2, <3>3 DEF OrderInv, Low, other, start
  <2>11. PaceInv'
    <3> SUFFICES ASSUME ~orphan PROVE PaceInv'
      BY <1>2 DEF PaceInv, usb
    <3>1. \A t \in ToSet(L) : t.client = "keyboard" => t.h = pElement
      <4>1. pElement = m_hTimer
        BY <1>2, <1>3, Holder DEF Owner, Clients, e
      <4> QED  BY <4>1, Holder DEF Owner, Clients
    <3>2. \A t \in ToSet(L') : t.client = "keyboard" => t = new
      BY <2>5, <3>1
    <3>3. device # "gone"
      BY <1>7 DEF HandleInv
    <3>4. age' = 0 /\ repeated' = TRUE /\ Period' = REPEAT_RATE
      BY <2>1, <3>3 DEF Event, Period
    <3>5. 0 < REPEAT_RATE /\ 0 <= REPEAT_RATE /\ REPEAT_RATE - 0 = REPEAT_RATE
      BY Constants
    <3> QED  BY <1>2, <2>3, <2>4, <3>2, <3>4, <3>5 DEF PaceInv
  <2> QED  BY <2>6, <2>7, <2>8, <2>9, <2>10, <2>11
<1>8. CASE m_ucLastKeyCode = NoKey
  <2>1. L' = rest /\ UNCHANGED <<m_hTimer, history>>
    BY <1>8 DEF TimerHandler
  <2>2. orphan
    <3> SUFFICES ASSUME ~orphan PROVE FALSE
      OBVIOUS
    <3>1. m_hTimer = NULL
      BY <1>8 DEF HandleInv
    <3>2. e.h = m_hTimer
      BY <1>2, <1>3, Holder DEF Owner, Clients
    <3> QED  BY <1>2, <1>3, <3>1, <3>2
  <2> HIDE DEF rest
  <2>3. TypeOK'
    <3>1. L' \in Seq([h : Handles, at : Ticks, client : Others \union {"keyboard"}])
      BY <1>4, <2>1 DEF Timers, Clients
    <3>2. pElement' \in Handles \union {NULL} /\ failed' \in BOOLEAN
      BY <1>2, <1>4, <1>5 DEF TypeOK
    <3> HIDE DEF L
    <3> QED  BY <1>2, <2>1, <3>1, <3>2 DEF TypeOK, usb, loops, other, start, history, L
  <2>4. ListInv'
    BY <1>2, <1>4, <1>5, <2>1 DEF ListInv, other, start
  <2>5. HandleInv' /\ PaceInv'
    BY <1>2, <2>2 DEF HandleInv, PaceInv, usb
  <2>6. ReportInv'
    BY <1>2 DEF ReportInv
  <2>7. OrderInv'
    BY <1>2, <1>5, <1>6, <2>1 DEF OrderInv, Low, other, start
  <2> QED  BY <2>3, <2>4, <2>5, <2>6, <2>7
<1> QED  BY <1>7, <1>8

LEMMA OtherHandlerKeeps == ASSUME IInv, OtherHandler PROVE IInv'
<1> USE DEF IInv
<1> DEFINE L    == m_KernelTimerList
           e    == TimerOf(pElement)
           rest == Cancel(L, pElement)
<1>1. L \in Seq(Timers) /\ Distinct(L) /\ m_nTicks \in Ticks
  BY Typed DEF ListInv
<1>2. /\ irq = "poll" /\ Elapsed /\ pElement # NULL /\ e.client \in Others
      /\ pElement' = NextElement /\ L' = rest
      /\ m_hOther' = [m_hOther EXCEPT ![e.client] = NULL]
      /\ UNCHANGED <<m_nTicks, irq, usb, keyboard, loops, start, failed, history>>
  BY DEF OtherHandler, Elapsed
<1>3. e \in ToSet(L) /\ e.h = pElement /\ e \in Timers /\ e.client # "keyboard"
  BY <1>2, Turn, Constants
<1>4. /\ rest \in Seq(Timers) /\ Distinct(rest)
      /\ ToSet(rest) = {t \in ToSet(L) : t.h # pElement}
      /\ HandlesIn(rest) = HandlesIn(L) \ {pElement} /\ HandlesIn(L) \subseteq Handles
  BY <1>1, CancelSet, CancelHandles, Elements
<1>5. pElement' \in HandlesIn(rest) \union {NULL} /\ Passed(rest, m_nTicks, pElement')
  BY <1>2, NextIs
<1> HIDE DEF rest, e
<1>6. TypeOK'
  <2>1. L' \in Seq([h : Handles, at : Ticks, client : Others \union {"keyboard"}])
    BY <1>2, <1>4 DEF Timers, Clients
  <2>2. pElement' \in Handles \union {NULL}
    BY <1>4, <1>5
  <2> HIDE DEF L
  <2> QED  BY <1>2, <2>1, <2>2 DEF TypeOK, usb, keyboard, loops, start, history, L
<1>7. ListInv'
  BY <1>2, <1>4, <1>5 DEF ListInv, start
<1>8. HandleInv'
  <2> SUFFICES ASSUME ~orphan PROVE HandleInv'
    BY <1>2 DEF HandleInv, usb
  <2>1. \A t \in ToSet(L) : t.client \in Clients
    BY <1>1, Elements DEF Timers
  <2>2. \A t \in ToSet(L) : t.h = pElement <=> t.client = e.client
    <3>1. pElement = Owner(e.client)
      BY <1>3 DEF HandleInv
    <3> QED  BY <1>2, <3>1, Holder DEF Clients
  <2>3. \A c \in Clients : Owner(c)' = IF c = e.client THEN NULL ELSE Owner(c)
    BY <1>2, <1>3 DEF Owner, keyboard, Clients, TypeOK
  <2>4. \A t \in ToSet(L') : t.h = Owner(t.client)'
    BY <1>2, <1>4, <2>1, <2>2, <2>3 DEF HandleInv
  <2>5. ASSUME NEW c \in Clients, Owner(c)' # NULL
        PROVE  \E t \in ToSet(L') : t.client = c
    <3>1. c # e.client /\ Owner(c) # NULL
      BY <2>3, <2>5
    <3>2. PICK t \in ToSet(L) : t.client = c
      BY <3>1 DEF HandleInv
    <3> QED  BY <1>2, <1>4, <2>2, <3>1, <3>2
  <2>6. starter' # NULL => m_hOther'[starter'] = NULL
    BY <1>2 DEF HandleInv, TypeOK, start
  <2> QED  BY <1>2, <2>4, <2>5, <2>6 DEF HandleInv, usb, keyboard, start
<1>9. ReportInv'
  BY <1>2 DEF ReportInv, keyboard
<1>10. OrderInv'
  <2>1. InOrder(rest, m_nTicks, -1)
    BY <1>1, <1>2, CancelOrder DEF OrderInv, Low, rest
  <2> QED  BY <1>2, <1>5, <2>1 DEF OrderInv, Low, start
<1>11. PaceInv'
  BY <1>2, <1>4 DEF PaceInv, Period, usb, history
<1> QED  BY <1>6, <1>7, <1>8, <1>9, <1>10, <1>11

LEMMA PollDoneKeeps == ASSUME IInv, PollDone PROVE IInv'
<1> USE DEF IInv
<1> DEFINE L == m_KernelTimerList
<1>1. L \in Seq(Timers) /\ DOMAIN L = 1 .. Len(L) /\ Len(L) \in Nat
  BY Typed, Elements
<1>2. /\ irq = "poll" /\ ~Elapsed /\ irq' = "none"
      /\ UNCHANGED <<timers, usb, keyboard, loops, other, failed, history>>
  BY DEF PollDone
<1>3. ASSUME NEW i \in DOMAIN L PROVE Ahead(L[i].at, m_nTicks) \in 1 .. Half - 1
  <2>1. Ahead(L[i].at, m_nTicks) \in -1 .. Half - 1
    BY <1>2 DEF OrderInv, InOrder, Low
  <2>2. Ahead(L[i].at, m_nTicks) >= 1 \/ \E p \in 1 .. i : L[p].h = pElement
    BY <1>2 DEF OrderInv, Passed
  <2>3. ASSUME NEW p \in 1 .. i, L[p].h = pElement
        PROVE  Ahead(L[i].at, m_nTicks) >= 1
    <3>1. p \in DOMAIN L /\ L[p] \in ToSet(L) /\ pElement \in Handles /\ pElement # NULL
      <4> HIDE DEF L
      <4>1. p \in 1 .. Len(L)
        BY <1>1
      <4>2. L[p] \in Timers /\ L[p] \in ToSet(L)
        BY <1>1, <4>1, Elements
      <4> QED  BY <1>1, <2>3, <4>1, <4>2, Constants DEF Timers
    <3>2. /\ TimerOf(pElement) \in ToSet(L) /\ TimerOf(pElement).h = pElement
          /\ Ahead(TimerOf(pElement).at, m_nTicks) \in -1 .. Half - 1
          /\ ~(Ahead(TimerOf(pElement).at, m_nTicks) <= 0)
      BY <1>2, <3>1, Turn
    <3>3. L[p] = TimerOf(pElement)
      BY <1>1, <2>3, <3>1, <3>2, DistinctSet DEF ListInv
    <3>4. p = i \/ Ahead(L[p].at, m_nTicks) <= Ahead(L[i].at, m_nTicks)
      BY <1>1, <3>1 DEF OrderInv, InOrder
    <3>5. Ahead(L[p].at, m_nTicks) >= 1 /\ Ahead(L[p].at, m_nTicks) \in Int
      BY <3>2, <3>3
    <3>6. Ahead(L[i].at, m_nTicks) \in Int
      BY <2>1
    <3> QED  BY <3>4, <3>5, <3>6
  <2> QED  BY <2>1, <2>2, <2>3
<1>4. TypeOK'
  BY <1>2 DEF TypeOK, timers, usb, keyboard, loops, other, start, history
<1>5. ListInv'
  BY <1>2 DEF ListInv, timers, other, start
<1>6. HandleInv'
  BY <1>2 DEF HandleInv, Owner, timers, usb, keyboard, other, start
<1>7. ReportInv'
  BY <1>2 DEF ReportInv, keyboard
<1>8. OrderInv'
  <2>1. \A i \in DOMAIN L : Ahead(L[i].at, m_nTicks) \in 0 .. Half - 1
    BY <1>3, Constants
  <2>2. InOrder(L, m_nTicks, 0)
    BY <2>1 DEF OrderInv, InOrder
  <2> QED  BY <1>2, <2>2 DEF OrderInv, Low, timers, other, start
<1>9. PaceInv'
  <2> SUFFICES ASSUME ~orphan, NEW t \in ToSet(L), t.client = "keyboard"
               PROVE  Ahead(t.at, m_nTicks) = Period - age /\ age < Period
    BY <1>2 DEF PaceInv, Period, timers, usb, history
  <2>1. PICK i \in DOMAIN L : L[i] = t
    BY <1>1, Elements
  <2>2. Ahead(t.at, m_nTicks) = Period - age /\ Ahead(t.at, m_nTicks) \in 1 .. Half - 1
    BY <1>3, <2>1 DEF PaceInv
  <2>3. Period \in Int /\ age \in Int
    BY Constants DEF Period, TypeOK
  <2> QED  BY <2>2, <2>3, Constants
<1> QED  BY <1>4, <1>5, <1>6, <1>7, <1>8, <1>9

LEMMA StopTimerKeeps ==
    ASSUME IInv, NEW o \in Others, StopTimer(o)
    PROVE  IInv'
<1> USE DEF IInv
<1> DEFINE L == m_KernelTimerList
           h == m_hOther[o]
<1>1. L \in Seq(Timers) /\ Distinct(L)
  BY Typed DEF ListInv
<1>2. /\ irq = "none" /\ starter = NULL /\ L' = Cancel(L, h)
      /\ m_hOther' = [m_hOther EXCEPT ![o] = NULL]
      /\ UNCHANGED <<m_nTicks, pElement, irq, usb, keyboard, loops, start, failed, history>>
  BY DEF StopTimer
<1>3. /\ L' \in Seq(Timers) /\ Distinct(L') /\ ToSet(L') = {t \in ToSet(L) : t.h # h}
      /\ HandlesIn(L') = HandlesIn(L) \ {h}
  BY <1>1, <1>2, CancelSet, CancelHandles
<1>4. TypeOK'
  <2>1. L' \in Seq([h : Handles, at : Ticks, client : Others \union {"keyboard"}])
    BY <1>3 DEF Timers, Clients
  <2> HIDE DEF L
  <2> QED  BY <1>2, <2>1 DEF TypeOK, usb, keyboard, loops, start, history, L
<1>5. ListInv'
  BY <1>2, <1>3 DEF ListInv, start
<1>6. HandleInv'
  <2> SUFFICES ASSUME ~orphan PROVE HandleInv'
    BY <1>2 DEF HandleInv, usb
  <2>1. \A t \in ToSet(L) : t.client \in Clients
    BY <1>1, Elements DEF Timers
  <2>2. h = Owner(o) /\ o # "keyboard" /\ o \in Clients
    BY Constants DEF Owner, Clients
  <2>3. \A t \in ToSet(L) : t.h = h <=> t.client = o
    BY <2>2, Holder
  <2>4. \A c \in Clients : Owner(c)' = IF c = o THEN NULL ELSE Owner(c)
    BY <1>2, <2>2 DEF Owner, keyboard, Clients, TypeOK
  <2>5. \A t \in ToSet(L') : t.h = Owner(t.client)'
    BY <1>3, <2>1, <2>3, <2>4 DEF HandleInv
  <2>6. ASSUME NEW c \in Clients, Owner(c)' # NULL
        PROVE  \E t \in ToSet(L') : t.client = c
    <3>1. c # o /\ Owner(c) # NULL
      BY <2>4, <2>6
    <3>2. PICK t \in ToSet(L) : t.client = c
      BY <3>1 DEF HandleInv
    <3> QED  BY <1>3, <2>3, <3>1, <3>2
  <2> QED  BY <1>2, <2>5, <2>6 DEF HandleInv, usb, keyboard, start
<1>7. ReportInv'
  BY <1>2 DEF ReportInv, keyboard
<1>8. OrderInv'
  <2>1. InOrder(Cancel(L, h), m_nTicks, 0)
    <3> HIDE DEF h
    <3> QED  BY <1>1, <1>2, CancelOrder DEF OrderInv, Low
  <2> QED  BY <1>2, <2>1 DEF OrderInv, Low, start
<1>9. PaceInv'
  BY <1>2, <1>3 DEF PaceInv, Period, usb, history
<1> QED  BY <1>4, <1>5, <1>6, <1>7, <1>8, <1>9

LEMMA StartTimerKeeps ==
    ASSUME IInv, NEW o \in Others, NEW d \in Delays, StartTimer(o, d)
    PROVE  IInv'
<1> USE DEF IInv
<1>1. /\ irq = "none" /\ starter = NULL /\ m_hOther[o] = NULL
      /\ starter' = o /\ hNew' \in Free(m_KernelTimerList) /\ nElapsesAt' = Plus(d)
      /\ UNCHANGED <<timers, irq, usb, keyboard, loops, m_hOther, late, failed, history>>
  BY DEF StartTimer
<1>2. d \in 1 .. Half - 1 /\ o # NULL
  BY Constants
<1>3. hNew' \in Handles /\ hNew' # NULL /\ hNew' \notin HandlesIn(m_KernelTimerList)
  BY <1>1, Constants DEF Free
<1>4. Plus(d) \in Ticks /\ Ahead(Plus(d), m_nTicks) = d
  BY <1>2, Begins
<1>5. TypeOK'
  BY <1>1, <1>3, <1>4 DEF TypeOK, timers, usb, keyboard, loops, history
<1>6. ListInv'
  BY <1>1, <1>2, <1>3 DEF ListInv, timers
<1>7. HandleInv'
  BY <1>1 DEF HandleInv, Owner, timers, usb, keyboard
<1>8. ReportInv'
  BY <1>1 DEF ReportInv, keyboard
<1>9. OrderInv'
  <2>1. d \in (IF late THEN 0 ELSE 1) .. Half - 1
    BY <1>2, Constants
  <2> QED  BY <1>1, <1>4, <2>1 DEF OrderInv, Low, timers
<1>10. PaceInv'
  BY <1>1 DEF PaceInv, Period, timers, usb, history
<1> QED  BY <1>5, <1>6, <1>7, <1>8, <1>9, <1>10

LEMMA StartInsertKeeps == ASSUME IInv, StartInsert PROVE IInv'
<1> USE DEF IInv
<1> DEFINE L   == m_KernelTimerList
           new == [h |-> hNew, at |-> nElapsesAt, client |-> starter]
<1>1. L \in Seq(Timers) /\ Distinct(L) /\ m_nTicks \in Ticks
  BY Typed DEF ListInv
<1>2. /\ irq = "none" /\ starter # NULL /\ L' = Put(L, new)
      /\ m_hOther' = [m_hOther EXCEPT ![starter] = hNew]
      /\ starter' = NULL /\ hNew' = NULL /\ nElapsesAt' = 0 /\ late' = FALSE
      /\ UNCHANGED <<m_nTicks, pElement, irq, usb, keyboard, loops, failed, history>>
  BY DEF StartInsert
<1>3. /\ starter \in Others /\ starter # "keyboard" /\ hNew \in Handles /\ hNew # NULL
      /\ hNew \notin HandlesIn(L) /\ NULL \notin Handles
  BY <1>2, Constants DEF ListInv, TypeOK
<1>4. /\ new \in Timers /\ new.h = hNew /\ new.at = nElapsesAt /\ new.client = starter
  BY <1>3 DEF Timers, Clients, TypeOK
<1> HIDE DEF new
<1>5. /\ L' \in Seq(Timers) /\ Distinct(L') /\ ToSet(L') = ToSet(L) \union {new}
      /\ HandlesIn(L') = HandlesIn(L) \union {hNew} /\ HandlesIn(L) \subseteq Handles
  BY <1>1, <1>2, <1>3, <1>4, PutSet, PutHandles, Elements
<1>6. TypeOK'
  <2>1. L' \in Seq([h : Handles, at : Ticks, client : Others \union {"keyboard"}])
    BY <1>5 DEF Timers, Clients
  <2>2. 0 \in Ticks
    BY Constants DEF Ticks
  <2> HIDE DEF L
  <2> QED  BY <1>2, <1>3, <2>1, <2>2 DEF TypeOK, usb, keyboard, loops, history, L
<1>7. ListInv'
  BY <1>2, <1>3, <1>5 DEF ListInv
<1>8. HandleInv'
  <2> SUFFICES ASSUME ~orphan PROVE HandleInv'
    BY <1>2 DEF HandleInv, usb
  <2>1. \A t \in ToSet(L) : t.client \in Clients /\ t.h # NULL
    BY <1>1, <1>3, Elements DEF Timers
  <2>2. Owner(starter) = NULL
    BY <1>2, <1>3 DEF HandleInv, Owner
  <2>3. \A c \in Clients : Owner(c)' = IF c = starter THEN hNew ELSE Owner(c)
    BY <1>2, <1>3 DEF Owner, keyboard, Clients, TypeOK
  <2>4. \A t \in ToSet(L) : t.client # starter
    BY <2>1, <2>2 DEF HandleInv
  <2>5. \A t \in ToSet(L') : t.h = Owner(t.client)'
    BY <1>3, <1>4, <1>5, <2>1, <2>3, <2>4 DEF HandleInv, Clients
  <2>6. ASSUME NEW c \in Clients, Owner(c)' # NULL
        PROVE  \E t \in ToSet(L') : t.client = c
    <3>1. CASE c = starter
      BY <1>4, <1>5, <3>1
    <3>2. CASE c # starter
      <4>1. Owner(c) # NULL
        BY <2>3, <2>6, <3>2
      <4> QED  BY <1>5, <4>1 DEF HandleInv
    <3> QED  BY <3>1, <3>2
  <2> QED  BY <1>2, <2>5, <2>6 DEF HandleInv, usb, keyboard
<1>9. ReportInv'
  BY <1>2 DEF ReportInv, keyboard
<1>10. OrderInv'
  <2>1. Ahead(new.at, m_nTicks) \in 0 .. Half - 1
    BY <1>2, <1>4, Constants DEF OrderInv
  <2>2. InOrder(Put(L, new), m_nTicks, 0)
    <3>1. InOrder(L, m_nTicks, 0)
      BY <1>2 DEF OrderInv, Low
    <3> QED  BY <1>1, <1>4, <2>1, <3>1, PutOrder
  <2> QED  BY <1>2, <2>2 DEF OrderInv, Low
<1>11. PaceInv'
  BY <1>2, <1>3, <1>4, <1>5 DEF PaceInv, Period, usb, history
<1> QED  BY <1>6, <1>7, <1>8, <1>9, <1>10, <1>11

LEMMA PlugKeeps == ASSUME IInv, Unplug \/ Delete \/ Create PROVE IInv'
<1> USE DEF IInv
<1>1. CASE Unplug
  <2>1. TypeOK'
    BY <1>1, Constants DEF Unplug, TypeOK, timers, keyboard, loops, other, start, history
  <2>2. ListInv' /\ OrderInv'
    BY <1>1 DEF Unplug, ListInv, OrderInv, timers, other, start
  <2>3. HandleInv' /\ ReportInv'
    BY <1>1 DEF Unplug, HandleInv, ReportInv, Owner, timers, keyboard, other, start
  <2>4. PaceInv'
    BY <1>1 DEF Unplug, PaceInv, Period, timers, history
  <2> QED  BY <2>1, <2>2, <2>3, <2>4
<1>2. CASE Delete
  <2>1. TypeOK'
    BY <1>2 DEF Delete, TypeOK, timers, keyboard, loops, other, start, history
  <2>2. ListInv' /\ OrderInv'
    BY <1>2 DEF Delete, ListInv, OrderInv, timers, other, start
  <2>3. HandleInv' /\ ReportInv'
    BY <1>2 DEF Delete, HandleInv, ReportInv, Owner, timers, keyboard, other, start
  <2>4. PaceInv'
    BY <1>2 DEF Delete, PaceInv, Period, timers, history
  <2> QED  BY <2>1, <2>2, <2>3, <2>4
<1>3. CASE Create
  <2>1. TypeOK'
    BY <1>3 DEF Create, TypeOK, timers, loops, other, start, history
  <2>2. ListInv' /\ OrderInv'
    BY <1>3 DEF Create, ListInv, OrderInv, timers, other, start
  <2>3. HandleInv'
    <3>1. ~orphan => m_hTimer = NULL
      BY <1>3 DEF Create, HandleInv
    <3> QED  BY <1>3, <3>1 DEF Create, HandleInv, Owner, timers, other, start
  <2>4. ReportInv'
    BY <1>3 DEF Create, ReportInv, NoReport
  <2>5. PaceInv'
    BY <1>3 DEF Create, PaceInv, Period, timers, history
  <2> QED  BY <2>1, <2>2, <2>3, <2>4, <2>5
<1> QED  BY <1>1, <1>2, <1>3

LEMMA StutterKeeps == ASSUME IInv, UNCHANGED vars PROVE IInv'
  BY DEF IInv, vars, timers, usb, keyboard, loops, other, start, history, TypeOK, ListInv,
         HandleInv, ReportInv, OrderInv, PaceInv, Period, Owner

LEMMA StepIInv == ASSUME IInv, [Next]_vars PROVE IInv'
<1>1. ASSUME NEW r \in Reports, ReportHandler(r) PROVE IInv'
  BY <1>1, ReportHandlerKeeps
<1>2. ASSUME NEW o \in Others, StopTimer(o) PROVE IInv'
  BY <1>2, StopTimerKeeps
<1>3. ASSUME NEW o \in Others, NEW d \in Delays, StartTimer(o, d) PROVE IInv'
  BY <1>3, StartTimerKeeps
<1> QED  BY <1>1, <1>2, <1>3, KeyReleasedKeeps, KeyPressedKeeps, ReportDoneKeeps,
            InterruptHandlerKeeps, TimerHandlerKeeps, OtherHandlerKeeps, PollDoneKeeps,
            StartInsertKeeps, PlugKeeps, StutterKeeps DEF Next

LEMMA Invariant == Spec => []IInv
<1>1. Init => IInv
  BY InitIInv
<1>2. IInv /\ [Next]_vars => IInv'
  BY StepIInv
<1> QED  BY <1>1, <1>2, PTL DEF Spec

-----------------------------------------------------------------------------
(* What the keyboard promises                                              *)

\* Types are kept: what the list of CTimer holds always has an address that
\* "new" returned, a tick in the range of m_nTicks and one client, and the last
\* key code is a key of a report or none.
THEOREM KeyboardTypes == Spec => []TypeOK
  BY Invariant, PTL DEF IInv

LEMMA AsManyHandles ==
    ASSUME NEW list \in Seq(Timers), Distinct(list)
    PROVE  Cardinality(HandlesIn(list)) = Len(list)
<1> DEFINE f == [i \in 1 .. Len(list) |-> list[i].h]
<1>1. Len(list) \in Nat /\ DOMAIN list = 1 .. Len(list)
  BY Elements
<1>2. HandlesIn(list) = {list[i].h : i \in 1 .. Len(list)}
  BY <1>1 DEF HandlesIn
<1>3. f \in Bijection(1 .. Len(list), HandlesIn(list))
  <2>1. f \in [1 .. Len(list) -> HandlesIn(list)]
    BY <1>2
  <2>2. \A i, j \in 1 .. Len(list) : f[i] = f[j] => i = j
    BY <1>1 DEF Distinct
  <2>3. \A h \in HandlesIn(list) : \E i \in 1 .. Len(list) : f[i] = h
    BY <1>2
  <2> HIDE DEF f
  <2> QED  BY <2>1, <2>2, <2>3 DEF Bijection, Injection, Surjection, IsInjective
<1>4. IsFiniteSet(1 .. Len(list)) /\ Cardinality(1 .. Len(list)) = Len(list)
  BY <1>1, FS_Interval
<1>5. ExistsBijection(1 .. Len(list), HandlesIn(list))
  <2> HIDE DEF f
  <2> QED  BY <1>3 DEF ExistsBijection
<1> QED  BY <1>4, <1>5, FS_Bijection

\* Each client, the keyboard or a connection, holds the handle of the one timer
\* that runs for it, or none, and no two timers of the list have the same address,
\* whatever the tasks start and stop between two interrupts: CancelKernelTimer
\* never gets at the timer of another, and the assertion of TimerHandler holds
\* until a keyboard is deleted while its key repeats.
THEOREM HandlesAreFresh == Spec => []HandlesFresh
<1>1. ASSUME IInv PROVE HandlesFresh
  <2> USE <1>1 DEF IInv
  <2> SUFFICES ASSUME ~orphan PROVE HandlesFresh
    BY DEF HandlesFresh
  <2> DEFINE L == m_KernelTimerList
  <2>1. L \in Seq(Timers) /\ Distinct(L) /\ DOMAIN L = 1 .. Len(L)
    BY Typed, Elements DEF ListInv
  <2>2. Cardinality(HandlesIn(L)) = Len(L)
    BY <2>1, AsManyHandles
  <2>3. ASSUME NEW c \in Clients
        PROVE  TimersOf(c) = IF Owner(c) = NULL THEN {} ELSE {Owner(c)}
    <3>1. TimersOf(c) = {t.h : t \in {t \in ToSet(L) : t.client = c}}
      BY <2>1 DEF TimersOf, ToSet
    <3>2. \A t \in ToSet(L) : t.client = c => t.h = Owner(c) /\ Owner(c) # NULL
      <4>1. \A t \in ToSet(L) : t.h # NULL
        BY <2>1, Elements, Constants DEF Timers
      <4> QED  BY <4>1 DEF HandleInv
    <3>3. Owner(c) # NULL => \E t \in ToSet(L) : t.client = c
      BY DEF HandleInv
    <3> QED  BY <3>1, <3>2, <3>3
  <2>4. TimersOf("keyboard") = IF m_hTimer = NULL THEN {} ELSE {m_hTimer}
    BY <2>3 DEF Owner, Clients
  <2>5. \A o \in Others : TimersOf(o) = IF m_hOther[o] = NULL THEN {} ELSE {m_hOther[o]}
    BY <2>3, Constants DEF Owner, Clients
  <2> QED  BY <2>2, <2>4, <2>5 DEF HandlesFresh, HandleInv
<1> QED  BY <1>1, Invariant, PTL

\* Between two reports the key that repeats is one that the last report holds,
\* and the modifiers are those of that report: ReportHandler lets go of the last
\* key code and its timer in the release loop before it comes to new keys.
THEOREM RepeatsWhatIsHeld == Spec => []RepeatsHeld
<1>1. IInv => RepeatsHeld
  BY DEF IInv, ReportInv, RepeatsHeld
<1> QED  BY <1>1, Invariant, PTL

\* When ReportHandler returns, each key that this report holds and the last one
\* did not has been given to a handler: KeyPressed leaves out only the key that
\* is the last key code already, and that one was heard.
THEOREM PressesAreHeard == Spec => PressHeard
<1>1. IInv /\ [Next]_vars =>
          (irq = "report" /\ irq' = "none" => Held(m_LastReport') \ Held(m_LastReport) \subseteq heard)
  <2> SUFFICES ASSUME IInv, [Next]_vars, irq = "report", irq' = "none"
               PROVE  Held(m_LastReport') \ Held(m_LastReport) \subseteq heard
    OBVIOUS
  <2>1. ReportDone
    BY DEF Next, vars, ReportHandler, KeyReleased, KeyPressed, InterruptHandler, TimerHandler,
                OtherHandler, PollDone, StopTimer, StartTimer, StartInsert, Unplug, Delete, Create
  <2>2. m_LastReport' = report /\ ToSet(pressed) = {}
    BY <2>1 DEF ReportDone, ToSet
  <2> QED  BY <2>2 DEF IInv, ReportInv
<1> QED  BY <1>1, Invariant, PTL DEF Spec, PressHeard

\* The event of a repetition comes in the tick in which it is due, REPEAT_DELAY
\* after the key went down and REPEAT_RATE after the last repetition: the poll
\* calls no handler early, also where the tick counter wraps, and does not end
\* before it has called the timers that have elapsed, wherever the others are.
THEOREM RepetitionIsPaced == Spec => Paced
<1>1. ASSUME IInv, [Next]_vars, ~orphan', irq = "poll", heard' # heard
      PROVE  age = Period
  <2> USE <1>1 DEF IInv
  <2>1. TimerHandler
    BY DEF Next, vars, ReportHandler, KeyReleased, KeyPressed, ReportDone, InterruptHandler, OtherHandler,
           PollDone, StopTimer, StartTimer, StartInsert, Unplug, Delete, Create, history
  <2>2. /\ pElement # NULL /\ Elapsed /\ TimerOf(pElement).client = "keyboard" /\ ~orphan
    BY <2>1 DEF TimerHandler, Elapsed, usb
  <2>3. /\ TimerOf(pElement) \in ToSet(m_KernelTimerList)
        /\ Ahead(TimerOf(pElement).at, m_nTicks) <= 0
    BY <2>2, Turn
  <2>4. Ahead(TimerOf(pElement).at, m_nTicks) = Period - age /\ age <= Period
    BY <2>2, <2>3 DEF PaceInv
  <2>5. Period \in Int /\ age \in Int
    BY Constants DEF Period, TypeOK
  <2> QED  BY <2>3, <2>4, <2>5
<1>2. ASSUME IInv, [Next]_vars, ~orphan', irq = "poll", irq' = "none", m_ucLastKeyCode # NoKey
      PROVE  age < Period
  <2> USE <1>2 DEF IInv
  <2>1. PollDone
    BY DEF Next, vars, ReportHandler, KeyReleased, KeyPressed, ReportDone, InterruptHandler, TimerHandler,
           OtherHandler, StopTimer, StartTimer, StartInsert, Unplug, Delete, Create
  <2>2. IInv' /\ ~orphan /\ m_KernelTimerList' = m_KernelTimerList /\ Period' = Period /\ age' = age
    BY <2>1, PollDoneKeeps DEF PollDone, timers, usb, history, Period
  <2>3. Owner("keyboard") # NULL
    BY <2>2 DEF HandleInv, Owner
  <2>4. PICK t \in ToSet(m_KernelTimerList) : t.client = "keyboard"
    BY <2>2, <2>3 DEF HandleInv, Clients
  <2> QED  BY <2>2, <2>4 DEF PaceInv
<1>3. IInv /\ [Next]_vars =>
          (~orphan' => /\ irq = "poll" /\ heard' # heard => age = Period
                       /\ irq = "poll" /\ irq' = "none" /\ m_ucLastKeyCode # NoKey => age < Period)
  BY <1>1, <1>2
<1> QED  BY <1>3, Invariant, PTL DEF Spec, Paced

=============================================================================
