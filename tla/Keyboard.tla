------------------------------ MODULE Keyboard ------------------------------
(***************************************************************************)
(* The USB keyboard: CUSBKeyboardDevice::ReportHandler and the key         *)
(* repetition of CKeyboardBehaviour, on the kernel timers, which it shares *)
(* with timers of the kind TCP connections keep.                           *)
(*                                                                         *)
(* The completion interrupt of the keyboard and the timer interrupt run on *)
(* one core and do not nest; the loops in them are taken step by step, and *)
(* a task only gets between two interrupts.                                *)
(***************************************************************************)
EXTENDS KernelTimers

CONSTANTS
    Reports,         \* records [mods, keys] that the keyboard can send
    Others,          \* the other timers, each with a handle in its owner
    Delays,          \* their delays
    REPEAT_DELAY,    \* 400 ms
    REPEAT_RATE,     \* 80 ms
    MaxRemovals      \* bound: how often the keyboard is pulled out

NoKey   == "0"
Held(r) == ToSet(r.keys)
Keys    == UNION {Held(r) : r \in Reports}

ASSUME KeyboardAssumption ==
    /\ NoKey \notin Keys /\ \A r \in Reports : r.keys \in Seq(Keys)
    /\ {NULL, "keyboard"} \intersect Others = {}
    /\ REPEAT_DELAY \in Nat /\ REPEAT_RATE \in 1 .. REPEAT_DELAY
    /\ Delays \subseteq 1 .. (ClockMod - 1) \div 2 - 1
    /\ REPEAT_DELAY < (ClockMod - 1) \div 2
    /\ MaxRemovals \in Nat

VARIABLES
    irq,               \* the interrupt that runs: "none", "report", "poll"
    device,            \* "live", "pulled", or "gone": deleted, and the next
                       \* keyboard gets its memory
    removals,
    m_LastReport, m_ucModifiers, m_ucLastKeyCode, m_hTimer,
    report, released, pressed,    \* ReportHandler: the report, and the keys
                                  \* its two loops have still to come to
    m_hOther,          \* the handles of the other timers
    starter, hNew, nElapsesAt,    \* StartKernelTimer between "new" and lock
    late,              \* bound: one tick comes between the two at most
    failed,            \* the assertion of TimerHandler has failed
    orphan,            \* history: a keyboard was deleted while its timer ran
    heard,             \* history: the keys with an event in this interrupt
    age, repeated      \* history: ticks since the last event, and whether the
                       \* timer has caused it

usb      == <<device, removals, orphan>>
keyboard == <<m_LastReport, m_ucModifiers, m_ucLastKeyCode, m_hTimer>>
loops    == <<report, released, pressed>>
start    == <<starter, hNew, nElapsesAt, late>>
other    == <<m_hOther, start>>
history  == <<heard, age, repeated>>
vars     == <<timers, irq, usb, keyboard, loops, other, failed, history>>

NoReport == [mods |-> {}, keys |-> <<>>]
Mods     == UNION {r.mods : r \in Reports}

\* The addresses that `new' can return when the timers of the list are there.
Free(list) == Handles \ (HandlesIn(list) \union {hNew})

TypeOK ==
    /\ m_nTicks \in Ticks
    /\ m_KernelTimerList \in Seq([h : Handles, at : Ticks, client : Others \union {"keyboard"}])
    /\ pElement \in Handles \union {NULL}
    /\ irq \in {"none", "report", "poll"}
    /\ device \in {"live", "pulled", "gone"} /\ removals \in 0 .. MaxRemovals
    /\ {m_LastReport, report} \subseteq Reports \union {NoReport}
    /\ m_ucModifiers \subseteq Mods
    /\ m_ucLastKeyCode \in Keys \union {NoKey}
    /\ released \in Seq(Keys) /\ pressed \in Seq(Keys)
    /\ {m_hTimer, hNew} \subseteq Handles \union {NULL}
    /\ m_hOther \in [Others -> Handles \union {NULL}]
    /\ starter \in Others \union {NULL}
    /\ nElapsesAt \in Ticks /\ late \in BOOLEAN
    /\ failed \in BOOLEAN /\ orphan \in BOOLEAN /\ repeated \in BOOLEAN
    /\ heard \subseteq Keys
    /\ age \in 0 .. REPEAT_DELAY + 1

Init ==
    /\ m_nTicks \in Ticks
    /\ m_KernelTimerList = <<>> /\ pElement = NULL
    /\ irq = "none" /\ device = "live" /\ removals = 0
    /\ m_LastReport = NoReport /\ m_ucModifiers = {}
    /\ m_ucLastKeyCode = NoKey /\ m_hTimer = NULL
    /\ report = NoReport /\ released = <<>> /\ pressed = <<>>
    /\ m_hOther = [o \in Others |-> NULL]
    /\ starter = NULL /\ hNew = NULL /\ nElapsesAt = 0 /\ late = FALSE
    /\ failed = FALSE /\ orphan = FALSE /\ heard = {} /\ age = 0 /\ repeated = FALSE

-----------------------------------------------------------------------------
(* The completion interrupt                                                *)

\* ReportHandler starts with the modifiers; then it goes over the keys of the
\* last report, for those that are not in this one, and over the keys of this
\* one, for those that were not in the last.
ReportHandler(r) ==
    /\ irq = "none" /\ device = "live"
    /\ irq' = "report" /\ report' = r
    /\ m_ucModifiers' = (m_ucModifiers \union (r.mods \ m_LastReport.mods))
                            \ (m_LastReport.mods \ r.mods)
    /\ released' = m_LastReport.keys /\ pressed' = r.keys
    /\ heard' = {}
    /\ UNCHANGED <<timers, usb, m_LastReport, m_ucLastKeyCode, m_hTimer, other,
                   failed, age, repeated>>

\* A plausible slip: a key that is let go leaves m_ucLastKeyCode as it is.
KeyReleasedKept ==
    /\ irq = "report" /\ released # <<>>
    /\ released' = Tail(released)
    /\ IF Head(released) = m_ucLastKeyCode /\ Head(released) \notin Held(report)
       THEN /\ m_KernelTimerList' = Cancel(m_KernelTimerList, m_hTimer)
            /\ m_hTimer' = NULL
       ELSE UNCHANGED <<m_KernelTimerList, m_hTimer>>
    /\ UNCHANGED <<m_nTicks, pElement, irq, usb, m_LastReport, m_ucModifiers, m_ucLastKeyCode,
                   report, pressed, other, failed, history>>

\* A plausible slip: the timer is left to find out that no key is held.
KeyReleasedTimer ==
    /\ irq = "report" /\ released # <<>>
    /\ released' = Tail(released)
    /\ m_ucLastKeyCode' = IF Head(released) = m_ucLastKeyCode /\ Head(released) \notin Held(report)
                          THEN NoKey ELSE m_ucLastKeyCode
    /\ UNCHANGED <<timers, irq, usb, m_LastReport, m_ucModifiers, m_hTimer,
                   report, pressed, other, failed, history>>

KeyReleased ==
    /\ irq = "report" /\ released # <<>>
    /\ released' = Tail(released)
    /\ IF Head(released) = m_ucLastKeyCode /\ Head(released) \notin Held(report)
       THEN /\ m_KernelTimerList' = Cancel(m_KernelTimerList, m_hTimer)
            /\ m_hTimer' = NULL /\ m_ucLastKeyCode' = NoKey
       ELSE UNCHANGED <<m_KernelTimerList, m_hTimer, m_ucLastKeyCode>>
    /\ UNCHANGED <<m_nTicks, pElement, irq, usb, m_LastReport, m_ucModifiers,
                   report, pressed, other, failed, history>>

\* GenerateKeyEvent: the key gets to one of the handlers.
Event(k, byTimer) == heard' = heard \union {k} /\ age' = 0 /\ repeated' = byTimer

KeyPressed ==
    /\ irq = "report" /\ released = <<>> /\ pressed # <<>>
    /\ pressed' = Tail(pressed)
    /\ LET k    == Head(pressed)
           rest == Cancel(m_KernelTimerList, m_hTimer)
       IN  IF k \notin Held(m_LastReport) /\ k # m_ucLastKeyCode
           THEN \E h \in Free(rest) :
                /\ m_ucLastKeyCode' = k /\ m_hTimer' = h
                /\ Event(k, FALSE)
                /\ m_KernelTimerList' =
                       Put(rest, [h |-> h, at |-> Plus(REPEAT_DELAY), client |-> "keyboard"])
           ELSE UNCHANGED <<m_KernelTimerList, m_ucLastKeyCode, m_hTimer, history>>
    /\ UNCHANGED <<m_nTicks, pElement, irq, usb, m_LastReport, m_ucModifiers,
                   report, released, other, failed>>

ReportDone ==
    /\ irq = "report" /\ released = <<>> /\ pressed = <<>>
    /\ irq' = "none" /\ m_LastReport' = report
    /\ UNCHANGED <<timers, usb, m_ucModifiers, m_ucLastKeyCode, m_hTimer, loops, other,
                   failed, history>>

-----------------------------------------------------------------------------
(* The timer interrupt                                                     *)

InterruptHandler ==
    /\ irq = "none" /\ irq' = "poll"
    /\ ~late /\ late' = (starter # NULL)
    /\ Tick
    /\ heard' = {}
    /\ age' = IF age > REPEAT_DELAY THEN age ELSE age + 1
    /\ UNCHANGED <<usb, keyboard, loops, m_hOther, starter, hNew, nElapsesAt, failed, repeated>>

\* CKeyboardBehaviour::TimerHandler; the timer is deleted after it, so that
\* the new one has another address.
TimerHandler ==
    /\ irq = "poll" /\ Elapsed /\ TimerOf(pElement).client = "keyboard"
    /\ failed' = (failed \/ pElement # m_hTimer)
    /\ pElement' = NextElement
    /\ LET rest == Cancel(m_KernelTimerList, pElement) IN
       IF m_ucLastKeyCode # NoKey
       THEN \E h \in Free(m_KernelTimerList) :
            /\ m_hTimer' = h
            /\ m_KernelTimerList' =
                   Put(rest, [h |-> h, at |-> Plus(REPEAT_RATE), client |-> "keyboard"])
            /\ IF device # "gone" THEN Event(m_ucLastKeyCode, TRUE) ELSE UNCHANGED history
       ELSE m_KernelTimerList' = rest /\ UNCHANGED <<m_hTimer, history>>
    /\ UNCHANGED <<m_nTicks, irq, usb, m_LastReport, m_ucModifiers, m_ucLastKeyCode, loops,
                   other>>

\* CTCPConnection::TimerHandler, as far as its handle.
OtherHandler ==
    /\ irq = "poll" /\ Elapsed /\ TimerOf(pElement).client \in Others
    /\ pElement' = NextElement
    /\ m_KernelTimerList' = Cancel(m_KernelTimerList, pElement)
    /\ m_hOther' = [m_hOther EXCEPT ![TimerOf(pElement).client] = NULL]
    /\ UNCHANGED <<m_nTicks, irq, usb, keyboard, loops, start, failed, history>>

PollDone ==
    /\ irq = "poll" /\ ~Elapsed
    /\ irq' = "none"
    /\ UNCHANGED <<timers, usb, keyboard, loops, other, failed, history>>

-----------------------------------------------------------------------------
(* Tasks                                                                   *)

\* CTCPConnection::StartTimer stops the timer and starts it again; in
\* StartKernelTimer the time is read before the list is locked.
StopTimer(o) ==
    /\ irq = "none" /\ starter = NULL /\ m_hOther[o] # NULL
    /\ m_KernelTimerList' = Cancel(m_KernelTimerList, m_hOther[o])
    /\ m_hOther' = [m_hOther EXCEPT ![o] = NULL]
    /\ UNCHANGED <<m_nTicks, pElement, irq, usb, keyboard, loops, start, failed, history>>

StartTimer(o, d) ==
    /\ irq = "none" /\ starter = NULL /\ m_hOther[o] = NULL
    /\ starter' = o /\ hNew' \in Free(m_KernelTimerList)
    /\ nElapsesAt' = Plus(d)
    /\ UNCHANGED <<timers, irq, usb, keyboard, loops, m_hOther, late, failed, history>>

StartInsert ==
    /\ irq = "none" /\ starter # NULL
    /\ m_KernelTimerList' =
           Put(m_KernelTimerList, [h |-> hNew, at |-> nElapsesAt, client |-> starter])
    /\ m_hOther' = [m_hOther EXCEPT ![starter] = hNew]
    /\ starter' = NULL /\ hNew' = NULL /\ nElapsesAt' = 0 /\ late' = FALSE
    /\ UNCHANGED <<m_nTicks, pElement, irq, usb, keyboard, loops, failed, history>>

\* The keyboard is pulled out; an update of the hub deletes its object, and
\* makes another one where it was.
Unplug ==
    /\ irq = "none" /\ device = "live" /\ removals < MaxRemovals
    /\ device' = "pulled" /\ removals' = removals + 1
    /\ UNCHANGED <<orphan, timers, irq, keyboard, loops, other, failed, history>>

Delete ==
    /\ irq = "none" /\ device = "pulled"
    /\ device' = "gone" /\ orphan' = (orphan \/ m_hTimer # NULL)
    /\ UNCHANGED <<removals, timers, irq, keyboard, loops, other, failed, history>>

\* A plausible slip: the last key code of the new object is not cleared.
CreateUncleared ==
    /\ irq = "none" /\ device = "gone"
    /\ device' = "live"
    /\ m_LastReport' = NoReport /\ m_ucModifiers' = {} /\ m_hTimer' = NULL
    /\ UNCHANGED <<removals, orphan, timers, irq, m_ucLastKeyCode, loops, other, failed, history>>

Create ==
    /\ irq = "none" /\ device = "gone"
    /\ device' = "live"
    /\ m_LastReport' = NoReport /\ m_ucModifiers' = {}
    /\ m_ucLastKeyCode' = NoKey /\ m_hTimer' = NULL
    /\ UNCHANGED <<removals, orphan, timers, irq, loops, other, failed, history>>

-----------------------------------------------------------------------------
Next ==
    \/ \E r \in Reports : ReportHandler(r)
    \/ KeyReleased \/ KeyPressed \/ ReportDone
    \/ InterruptHandler \/ TimerHandler \/ OtherHandler \/ PollDone
    \/ (\E o \in Others : StopTimer(o) \/ \E d \in Delays : StartTimer(o, d))
    \/ StartInsert
    \/ Unplug \/ Delete \/ Create

Spec == Init /\ [][Next]_vars

-----------------------------------------------------------------------------
(* Properties                                                              *)

TimersOf(c) ==
    {m_KernelTimerList[i].h : i \in {i \in DOMAIN m_KernelTimerList :
                                         m_KernelTimerList[i].client = c}}

\* A client holds the handle of its one running timer, or none: so it can
\* neither be called by a timer it has forgotten, nor cancel with a stale
\* handle the timer of another client that has got the same address; the
\* assertion of TimerHandler holds.  Left out is what follows when a keyboard was
\* deleted with its timer running.
HandlesFresh == ~orphan =>
    /\ ~failed
    /\ Cardinality(HandlesIn(m_KernelTimerList)) = Len(m_KernelTimerList)
    /\ TimersOf("keyboard") = IF m_hTimer = NULL THEN {} ELSE {m_hTimer}
    /\ \A o \in Others : TimersOf(o) = IF m_hOther[o] = NULL THEN {} ELSE {m_hOther[o]}

\* A key repeats only while it is held, and the modifiers are those held.
RepeatsHeld ==
    irq = "none" => /\ m_ucLastKeyCode # NoKey => m_ucLastKeyCode \in Held(m_LastReport)
                    /\ m_ucModifiers = m_LastReport.mods

\* Every key that goes down is heard, whatever else is in its report or is
\* held, and whichever key repeats.
PressHeard ==
    [][irq = "report" /\ irq' = "none"
           => Held(m_LastReport') \ Held(m_LastReport) \subseteq heard]_vars

Period == IF repeated THEN REPEAT_RATE ELSE REPEAT_DELAY

\* A repetition comes at its tick: not before, however many keys were pressed,
\* and not after, whatever the other timer does.
Paced ==
    [][~orphan' =>
       /\ irq = "poll" /\ heard' # heard => age = Period
       /\ irq = "poll" /\ irq' = "none" /\ m_ucLastKeyCode # NoKey => age < Period]_vars
=============================================================================
