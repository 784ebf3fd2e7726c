---------------------------- MODULE KernelTimers ----------------------------
(***************************************************************************)
(* The kernel timers of CTimer (circle/lib/timer.cpp): a list ordered by   *)
(* the tick at which each timer elapses, and the poll of that list in the  *)
(* timer interrupt.                                                        *)
(*                                                                         *)
(* A handle is the address of a TKernelTimer: it is free again once the    *)
(* timer was cancelled or its handler has returned, and the next timer may *)
(* get it.  The operators below are the parts that the modules of the      *)
(* timers' clients put into their actions.                                 *)
(***************************************************************************)
EXTENDS Integers, Sequences, FiniteSets, SequencesExt

CONSTANTS
    Handles,    \* addresses of TKernelTimer objects
    NULL,
    ClockMod    \* m_nTicks counts modulo this, 2^32 in the code

ASSUME TimersAssumption == NULL \notin Handles /\ ClockMod \in Nat /\ ClockMod > 3

VARIABLES
    m_nTicks,
    m_KernelTimerList,    \* records [h, at, client], the earliest first
    pElement              \* PollKernelTimers: the handle it looks at next

timers == <<m_nTicks, m_KernelTimerList, pElement>>

Ticks == 0 .. ClockMod - 1

\* A plausible slip: the sum is kept in a wider integer.
PlusWide(n) == m_nTicks + n

Plus(n) == (m_nTicks + n) % ClockMod

\* A plausible slip: the ticks are compared as they are.
LaterUnsigned(a, b) == a > b

\* (int) (a - b) > 0
Later(a, b) == (a - b) % ClockMod \in 1 .. (ClockMod - 1) \div 2

HandlesIn(list) == {list[i].h : i \in DOMAIN list}

\* CPtrList::Find
Find(list, h) == CHOOSE i \in DOMAIN list : list[i].h = h
TimerOf(h)    == m_KernelTimerList[Find(m_KernelTimerList, h)]

\* StartKernelTimer: before the first timer that elapses later.
Put(list, t) ==
    LET later == {i \in DOMAIN list : Later(list[i].at, t.at)}
    IN  InsertAt(list, IF later = {} THEN Len(list) + 1 ELSE Min(later), t)

\* CancelKernelTimer: a handle that is not in the list is ignored.
Cancel(list, h) == IF h \in HandlesIn(list) THEN RemoveAt(list, Find(list, h)) ELSE list

\* The timer interrupt counts, and begins at the head of the list.
Tick ==
    /\ m_nTicks' = Plus(1)
    /\ pElement' = IF m_KernelTimerList = <<>> THEN NULL ELSE Head(m_KernelTimerList).h
    /\ UNCHANGED m_KernelTimerList

\* The timer whose turn it is in the poll, when it has elapsed.
Elapsed == pElement # NULL /\ ~Later(TimerOf(pElement).at, m_nTicks)

\* What the poll looks at when the handler returns: the element behind,
\* determined before the handler is called.
NextElement ==
    LET i == Find(m_KernelTimerList, pElement)
    IN  IF i = Len(m_KernelTimerList) THEN NULL ELSE m_KernelTimerList[i + 1].h
=============================================================================
