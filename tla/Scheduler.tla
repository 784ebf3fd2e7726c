------------------------------ MODULE Scheduler ------------------------------
(***************************************************************************)
(* The cooperative scheduler LUPOS runs on: CScheduler, CTask and          *)
(* CSynchronizationEvent of circle-stdlib/libs/circle/lib/sched.           *)
(*                                                                         *)
(* One core runs one task, m_pCurrent, until that task gives the core up   *)
(* inside CScheduler::Yield.  Task code is therefore atomic between two    *)
(* calls of the scheduler; what may still come in between two statements   *)
(* are interrupts: the clock, and (for the events in IrqEvents) a call of  *)
(* CSynchronizationEvent::Set.  pc is the place inside the scheduler that  *)
(* the running task has reached:                                           *)
(*   "run"     in its own code, outside the scheduler                      *)
(*   "waiting" in Wait, after the test of m_bState, before BlockTask       *)
(*   "stored"  in BlockTask, after *ppTask = m_pCurrent                    *)
(*   "sleep"   at the head of the loop of CScheduler::Sleep                *)
(*   "yield"   in the loop of Yield, about to call GetNextTask             *)
(*   "woken"   back from BlockTask, before assert (m_bState) of Wait       *)
(* The events are those of the clients and the m_Event member of each      *)
(* task, which is named by its task.                                       *)
(***************************************************************************)
EXTENDS Integers, FiniteSets

CONSTANTS
    Tasks,       \* the CTask objects that can exist, Main among them
    Main,        \* the task made by the constructor of CScheduler
    Events,      \* the CSynchronizationEvent objects of the clients
    NULL,        \* the null pointer
    MAX_TASKS,   \* slots of m_pTask (20 in sysconfig.h)
    Owner,       \* Owner[e]: the only task that calls Clear and Wait on e
    Joiner,      \* Joiner[t]: the task that calls t->WaitForTermination, or NULL
    Enders,      \* the tasks whose Run returns or which call Terminate
    IrqEvents,   \* the events on which an interrupt handler calls Set
    Sleepers,    \* the tasks that call Sleep, MsSleep or usSleep
    ClockMod,    \* the clock is an unsigned: 2^32 in the code
    nSleepMax,   \* longest sleep handed to usSleep in one piece
    MaxSleep,    \* bound: longest sleep a task asks for
    MaxBusy      \* bound: ticks between two calls of GetNextTask

AllEvents == Events \union Tasks

ASSUME SchedulerAssumption ==
    /\ Main \in Tasks /\ NULL \notin AllEvents
    /\ Events \intersect Tasks = {}
    /\ MAX_TASKS \in Nat \ {0}
    /\ Owner \in [Events -> Tasks]
    /\ Joiner \in [Tasks -> Tasks \union {NULL}]
    /\ \A t \in Tasks : Joiner[t] # t
    /\ Enders \subseteq Tasks \ {Main}
    /\ IrqEvents \subseteq Events
    /\ Sleepers \subseteq Tasks
    /\ ClockMod \in Nat /\ nSleepMax \in Nat \ {0}
    /\ 2 * nSleepMax < ClockMod
    /\ MaxSleep \in Nat /\ MaxBusy \in Nat

VARIABLES
    m_pTask, m_nTasks, m_nCurrent, m_pCurrent,   \* CScheduler
    m_State, m_nWakeTicks,                       \* CTask
    m_bState, m_pWaitTask,                       \* CSynchronizationEvent
    pc,        \* where the running task is inside the scheduler
    waitsOn,   \* waitsOn[t]: the event in whose Wait the stack of t is, or NULL
    nSeconds,  \* nSeconds[t]: what is left to sleep in CScheduler::Sleep
    clock,     \* CTimer::GetClockTicks
    due,       \* due[t]: real ticks until the sleep t asked for is over
    busy,      \* ticks since the last call of GetNextTask
    failed,    \* the assertion or panic that stopped the system, or "none"
    overtaken  \* history: a task was deleted while another one that had
               \* ended was still being waited for

objects  == <<m_State, m_bState, m_pWaitTask, waitsOn>>
timing   == <<m_nWakeTicks, nSeconds, clock, due, busy>>
table    == <<m_pTask, m_nTasks, overtaken>>
running  == <<m_nCurrent, m_pCurrent>>
vars     == <<objects, timing, table, running, pc, failed>>

Slots == 0 .. MAX_TASKS - 1
Ticks == 0 .. ClockMod - 1

\* The assertions (and the panic of AddTask) by the name of the check.
Failures == {"none", "WakeTask", "Wait", "WaitState", "EventDtor", "limit"}

TypeOK ==
    /\ m_pTask \in [Slots -> Tasks \union {NULL}]
    /\ m_nTasks \in 1 .. MAX_TASKS
    /\ m_nCurrent \in 0 .. MAX_TASKS
    /\ m_pCurrent \in Tasks
    /\ m_State \in [Tasks -> {"Ready", "Blocked", "Sleeping", "Terminated", "Unknown"}]
    /\ m_nWakeTicks \in [Tasks -> Ticks]
    /\ m_bState \in [AllEvents -> BOOLEAN]
    /\ m_pWaitTask \in [AllEvents -> Tasks \union {NULL}]
    /\ pc \in {"run", "waiting", "stored", "sleep", "yield", "woken"}
    /\ waitsOn \in [Tasks -> AllEvents \union {NULL}]
    /\ nSeconds \in [Tasks -> 0 .. MaxSleep]
    /\ clock \in Ticks
    /\ due \in [Tasks -> 0 .. MaxSleep]
    /\ busy \in 0 .. MaxBusy
    /\ failed \in Failures
    /\ overtaken \in BOOLEAN

\* The constructor of CScheduler: the main task exists and runs in slot 0.
\* A task object that does not exist is "Unknown", as its destructor leaves it.
Init ==
    /\ m_pTask = [i \in Slots |-> IF i = 0 THEN Main ELSE NULL]
    /\ m_nTasks = 1
    /\ m_nCurrent = 0
    /\ m_pCurrent = Main
    /\ m_State = [t \in Tasks |-> IF t = Main THEN "Ready" ELSE "Unknown"]
    /\ m_nWakeTicks = [t \in Tasks |-> 0]
    /\ m_bState = [e \in AllEvents |-> FALSE]
    /\ m_pWaitTask = [e \in AllEvents |-> NULL]
    /\ pc = "run"
    /\ waitsOn = [t \in Tasks |-> NULL]
    /\ nSeconds = [t \in Tasks |-> 0]
    /\ clock = 0
    /\ due = [t \in Tasks |-> 0]
    /\ busy = 0
    /\ failed = "none"
    /\ overtaken = FALSE

Exists(t) == m_State[t] # "Unknown"

\* The running task is in its own code and may call the scheduler.
Running == failed = "none" /\ pc = "run"

-----------------------------------------------------------------------------
(* Tasks: creation, end                                                    *)

\* The slots AddTask may take without growing the table, and the first one.
FreeSlots == {i \in 0 .. m_nTasks - 1 : m_pTask[i] = NULL}
FirstFree(i) == i \in FreeSlots /\ \A j \in FreeSlots : i <= j

AddTask(t) ==
    \/ \E i \in FreeSlots :
          /\ FirstFree(i)
          /\ m_pTask' = [m_pTask EXCEPT ![i] = t]
          /\ UNCHANGED <<m_nTasks, failed>>
    \/ /\ FreeSlots = {} /\ m_nTasks < MAX_TASKS
       /\ m_pTask' = [m_pTask EXCEPT ![m_nTasks] = t]
       /\ m_nTasks' = m_nTasks + 1
       /\ UNCHANGED failed
    \/ /\ FreeSlots = {} /\ m_nTasks >= MAX_TASKS
       /\ failed' = "limit"
       /\ UNCHANGED table

\* new CTask: a ready task with a clear m_Event enters the task table.
NewTask(t) ==
    /\ Running /\ ~Exists(t)
    /\ m_State' = [m_State EXCEPT ![t] = "Ready"]
    /\ m_bState' = [m_bState EXCEPT ![t] = FALSE]
    /\ m_pWaitTask' = [m_pWaitTask EXCEPT ![t] = NULL]
    /\ waitsOn' = [waitsOn EXCEPT ![t] = NULL]
    /\ AddTask(t)
    /\ UNCHANGED <<timing, running, pc, overtaken>>

\* A Set that does not look for a waiting task ...
SetEventOnly(e, state) ==
    /\ m_bState' = [m_bState EXCEPT ![e] = TRUE]
    /\ m_State' = state
    /\ UNCHANGED <<m_pWaitTask, failed>>

\* ... and a WakeTask that leaves *ppTask as it was.
SetEventKeepsWaiter(e, state) ==
    LET t == m_pWaitTask[e] IN
    /\ m_bState' = [m_bState EXCEPT ![e] = TRUE]
    /\ m_State' = IF ~m_bState[e] /\ t # NULL THEN [state EXCEPT ![t] = "Ready"] ELSE state
    /\ UNCHANGED <<m_pWaitTask, failed>>

\* CSynchronizationEvent::Set together with CScheduler::WakeTask, given the
\* task states after the statements of the caller.  It is one step: the only
\* code that can interrupt it is another Set, which either finds m_bState
\* already TRUE or has done the whole work before.
SetEvent(e, state) ==
    LET t == m_pWaitTask[e] IN
    \/ /\ m_bState[e]
       /\ m_State' = state
       /\ UNCHANGED <<m_bState, m_pWaitTask, failed>>
    \/ /\ ~m_bState[e] /\ t = NULL
       /\ m_bState' = [m_bState EXCEPT ![e] = TRUE]
       /\ m_State' = state
       /\ UNCHANGED <<m_pWaitTask, failed>>
    \/ /\ ~m_bState[e] /\ t # NULL
       /\ m_bState' = [m_bState EXCEPT ![e] = TRUE]
       /\ m_pWaitTask' = [m_pWaitTask EXCEPT ![e] = NULL]
       /\ \/ /\ state[t] = "Blocked"
             /\ m_State' = [state EXCEPT ![t] = "Ready"]
             /\ UNCHANGED failed
          \/ /\ state[t] # "Blocked"
             /\ m_State' = state
             /\ failed' = "WakeTask"

\* TaskEntry after Run has returned, and Terminate: both end in Yield.
EndTask ==
    /\ Running /\ m_pCurrent \in Enders
    /\ SetEvent(m_pCurrent, [m_State EXCEPT ![m_pCurrent] = "Terminated"])
    /\ pc' = "yield"
    /\ UNCHANGED <<waitsOn, timing, table, running>>

-----------------------------------------------------------------------------
(* Events                                                                  *)

Set(e) ==
    /\ Running
    /\ SetEvent(e, m_State)
    /\ UNCHANGED <<waitsOn, timing, table, running, pc>>

\* An interrupt handler calls Set between any two statements of a task.
InterruptSet(e) ==
    /\ failed = "none"
    /\ SetEvent(e, m_State)
    /\ UNCHANGED <<waitsOn, timing, table, running, pc>>

Clear(e) ==
    /\ Running /\ m_pCurrent = Owner[e]
    /\ m_bState' = [m_bState EXCEPT ![e] = FALSE]
    /\ UNCHANGED <<m_State, m_pWaitTask, waitsOn, timing, table, running, pc, failed>>

\* The task that may wait on e; m_Event of a task is waited on by its joiner
\* (WaitForTermination), which must still have a task to wait for.
MayWait(t, e) ==
    \/ e \in Events /\ t = Owner[e]
    \/ e \in Tasks /\ t = Joiner[e] /\ Exists(e)

\* Wait when the event is clear: the test of m_bState and assert (m_pWaitTask == 0).
\* When the event is set, Wait returns and changes nothing.
Wait(e) ==
    /\ Running /\ MayWait(m_pCurrent, e)
    /\ ~m_bState[e]
    /\ \/ /\ m_pWaitTask[e] = NULL
          /\ pc' = "waiting"
          /\ waitsOn' = [waitsOn EXCEPT ![m_pCurrent] = e]
          /\ UNCHANGED failed
       \/ /\ m_pWaitTask[e] # NULL
          /\ failed' = "Wait"
          /\ UNCHANGED <<pc, waitsOn>>
    /\ UNCHANGED <<m_State, m_bState, m_pWaitTask, timing, table, running>>

\* First statement of BlockTask: *ppTask = m_pCurrent.
BlockStore ==
    /\ failed = "none" /\ pc = "waiting"
    /\ m_pWaitTask' = [m_pWaitTask EXCEPT ![waitsOn[m_pCurrent]] = m_pCurrent]
    /\ pc' = "stored"
    /\ UNCHANGED <<m_State, m_bState, waitsOn, timing, table, running, failed>>

\* The rest of BlockTask up to its call of Yield.
BlockState ==
    /\ failed = "none" /\ pc = "stored"
    /\ m_State' = [m_State EXCEPT ![m_pCurrent] = "Blocked"]
    /\ pc' = "yield"
    /\ UNCHANGED <<m_bState, m_pWaitTask, waitsOn, timing, table, running, failed>>

\* Wait goes on after BlockTask: assert (m_bState).  The event may be the
\* m_Event of a task deleted meanwhile: the assertion then reads freed memory
\* and either outcome is possible.
WaitReturns ==
    LET e == waitsOn[m_pCurrent]
        gone == e \in Tasks /\ ~Exists(e)
    IN
    /\ failed = "none" /\ pc = "woken"
    /\ \/ /\ m_bState[e] \/ gone
          /\ waitsOn' = [waitsOn EXCEPT ![m_pCurrent] = NULL]
          /\ pc' = "run"
          /\ UNCHANGED failed
       \/ /\ ~m_bState[e] \/ gone
          /\ failed' = "WaitState"
          /\ UNCHANGED <<waitsOn, pc>>
    /\ UNCHANGED <<m_State, m_bState, m_pWaitTask, timing, table, running>>

-----------------------------------------------------------------------------
(* Sleeping                                                                *)

\* The comparison without the cast to int, and on the absolute times.
LaterUnsigned(a, b) == (a - b) % ClockMod > 0
LaterAbsolute(a, b) == a > b

\* (int) (a - b) > 0 for unsigned a and b
Later(a, b) ==
    LET d == (a - b) % ClockMod IN d > 0 /\ 2 * d < ClockMod

\* Entry of CScheduler::Sleep (MsSleep and usSleep with a short time as well).
Sleep(n) ==
    /\ Running /\ m_pCurrent \in Sleepers
    /\ nSeconds' = [nSeconds EXCEPT ![m_pCurrent] = n]
    /\ due' = [due EXCEPT ![m_pCurrent] = n]
    /\ pc' = "sleep"
    /\ UNCHANGED <<objects, m_nWakeTicks, clock, busy, table, running, failed>>

SleepChunk(t) == IF nSeconds[t] > nSleepMax THEN nSleepMax ELSE nSeconds[t]

\* One round of the loop of Sleep: usSleep sets the wake time and yields.
usSleep ==
    /\ failed = "none" /\ pc = "sleep"
    /\ m_nWakeTicks' = [m_nWakeTicks EXCEPT ![m_pCurrent] =
                            (clock + SleepChunk(m_pCurrent)) % ClockMod]
    /\ nSeconds' = [nSeconds EXCEPT ![m_pCurrent] = @ - SleepChunk(m_pCurrent)]
    /\ m_State' = [m_State EXCEPT ![m_pCurrent] = "Sleeping"]
    /\ pc' = "yield"
    /\ UNCHANGED <<m_bState, m_pWaitTask, waitsOn, clock, due, busy, table, running, failed>>

\* The free-running clock.  A task computes at most MaxBusy ticks long before
\* GetNextTask is called again.
Tick ==
    /\ failed = "none" /\ busy < MaxBusy
    /\ clock' = (clock + 1) % ClockMod
    /\ due' = [t \in Tasks |-> IF due[t] > 0 THEN due[t] - 1 ELSE 0]
    /\ busy' = busy + 1
    /\ UNCHANGED <<objects, m_nWakeTicks, nSeconds, table, running, pc, failed>>

-----------------------------------------------------------------------------
(* Yield and GetNextTask                                                   *)

Yield ==
    /\ Running
    /\ pc' = "yield"
    /\ UNCHANGED <<objects, timing, table, running, failed>>

\* A scan that does not go on behind the current task.
ScanSlotFixed(i) == i % m_nTasks

\* The slot GetNextTask looks at in round i of its loop.
ScanSlot(i) ==
    ((IF m_nCurrent < MAX_TASKS THEN m_nCurrent ELSE 0) + i) % m_nTasks

\* GetNextTask stops at this slot instead of passing over it.
StopsAt(slot) ==
    LET t == m_pTask[slot] IN
    /\ t # NULL
    /\ \/ m_State[t] \in {"Ready", "Terminated"}
       \/ m_State[t] = "Sleeping" /\ ~Later(m_nWakeTicks[t], clock)

Stops == {i \in 1 .. m_nTasks : StopsAt(ScanSlot(i))}
FirstStop(i) == i \in Stops /\ \A j \in Stops : i <= j

\* GetNextTask found no task: Yield tries again, from slot 1 on.
Idle ==
    /\ Stops = {}
    /\ m_nCurrent' = MAX_TASKS
    /\ UNCHANGED <<objects, table, m_pCurrent, pc, failed>>

\* The task in the slot gets the core where it left it: inside Wait, in the
\* loop of Sleep, or in its own code.
Switch(slot) ==
    LET t == m_pTask[slot] IN
    /\ m_State[t] # "Terminated"
    /\ m_State' = [m_State EXCEPT ![t] = "Ready"]
    /\ m_nCurrent' = slot
    /\ m_pCurrent' = t
    /\ pc' = IF waitsOn[t] # NULL THEN "woken"
             ELSE IF nSeconds[t] > 0 THEN "sleep" ELSE "run"
    /\ UNCHANGED <<m_bState, m_pWaitTask, waitsOn, table, failed>>

\* GetNextTask deletes t while another task, that has ended, is still in the
\* table, and the one who waits for it is not yet back from its m_Event.
Overtakes(t) ==
    \E a, j \in Tasks : a # t /\ m_State[a] = "Terminated" /\ waitsOn[j] = a

\* RemoveTask without its test for the last slot.
ReapShrinks(slot) ==
    LET t == m_pTask[slot] IN
    /\ m_State[t] = "Terminated"
    /\ m_pTask' = [m_pTask EXCEPT ![slot] = NULL]
    /\ m_nTasks' = m_nTasks - 1
    /\ m_State' = [m_State EXCEPT ![t] = "Unknown"]
    /\ failed' = IF m_pWaitTask[t] = NULL THEN failed ELSE "EventDtor"
    /\ m_nCurrent' = MAX_TASKS
    /\ overtaken' = (overtaken \/ Overtakes(t))
    /\ UNCHANGED <<m_bState, m_pWaitTask, waitsOn, m_pCurrent, pc>>

\* GetNextTask meets a terminated task: RemoveTask and delete, whose event
\* destructor asserts that no task waits.  It returns MAX_TASKS, which makes
\* the next scan start at slot 1.
Reap(slot) ==
    LET t == m_pTask[slot] IN
    /\ m_State[t] = "Terminated"
    /\ m_pTask' = [m_pTask EXCEPT ![slot] = NULL]
    /\ m_nTasks' = IF slot = m_nTasks - 1 THEN m_nTasks - 1 ELSE m_nTasks
    /\ m_State' = [m_State EXCEPT ![t] = "Unknown"]
    /\ failed' = IF m_pWaitTask[t] = NULL THEN failed ELSE "EventDtor"
    /\ m_nCurrent' = MAX_TASKS
    /\ overtaken' = (overtaken \/ Overtakes(t))
    /\ UNCHANGED <<m_bState, m_pWaitTask, waitsOn, m_pCurrent, pc>>

\* One call of GetNextTask in the loop of Yield.
GetNextTask ==
    /\ failed = "none" /\ pc = "yield"
    /\ \/ Idle
       \/ \E i \in 1 .. m_nTasks : FirstStop(i) /\ (Switch(ScanSlot(i)) \/ Reap(ScanSlot(i)))
    /\ busy' = 0
    /\ UNCHANGED <<m_nWakeTicks, nSeconds, clock, due>>

-----------------------------------------------------------------------------
Next ==
    \/ \E t \in Tasks : NewTask(t)
    \/ EndTask
    \/ \E e \in Events : Set(e) \/ Clear(e)
    \/ \E e \in AllEvents : Wait(e)
    \/ \E e \in IrqEvents : InterruptSet(e)
    \/ BlockStore \/ BlockState \/ WaitReturns
    \/ \E n \in 1 .. MaxSleep : Sleep(n)
    \/ usSleep \/ Tick \/ Yield \/ GetNextTask

\* The processor executes the code of the scheduler, the clock runs, and a
\* task comes back to the scheduler: that is what a cooperative task must do.
Fairness ==
    /\ WF_vars(BlockStore \/ BlockState \/ WaitReturns \/ usSleep \/ GetNextTask)
    /\ WF_vars(Yield)
    /\ WF_vars(Tick)

Spec == Init /\ [][Next]_vars
FairSpec == Spec /\ Fairness

-----------------------------------------------------------------------------
(* Properties                                                              *)

\* Whoever sets the event of a blocked task wakes that task.
Wakeable(t) ==
    /\ waitsOn[t] # NULL
    /\ m_pWaitTask[waitsOn[t]] = t
    /\ ~m_bState[waitsOn[t]]

\* A blocked task is registered with a clear event, so that no task sleeps
\* through a wakeup (Wait, BlockTask, Set, WakeTask): not for an event that
\* tasks set, whatever interrupts do with other events.
NoLostWakeup ==
    \A t \in Tasks : m_State[t] = "Blocked" /\ waitsOn[t] \notin IrqEvents => Wakeable(t)

\* The same for an event that an interrupt handler sets: said not to hold.
NoLostWakeupByInterrupt ==
    \A t \in Tasks : m_State[t] = "Blocked" /\ waitsOn[t] \in IrqEvents => Wakeable(t)

\* No assertion of the scheduler and of the events fails, but for the one of
\* WakeTask, in an interrupt that comes between the two statements of BlockTask
\* and sets the very event: no second waiter, no waiter that comes back from a
\* clear event, and no event destroyed under a waiter.
NoAssertion ==
    \/ failed \in {"none", "limit"}
    \/ failed = "WakeTask" /\ pc = "stored" /\ waitsOn[m_pCurrent] \in IrqEvents

\* Each existing task is in exactly one slot of the part of m_pTask that
\* GetNextTask scans, a deleted one in none (AddTask, RemoveTask).
TableOK ==
    /\ \A t \in Tasks :
         Exists(t) /\ failed # "limit" => \E i \in 0 .. m_nTasks - 1 : m_pTask[i] = t
    /\ \A i \in Slots : m_pTask[i] # NULL => i < m_nTasks /\ Exists(m_pTask[i])
    /\ \A i, j \in Slots : m_pTask[i] = m_pTask[j] /\ m_pTask[i] # NULL => i = j

\* A task inside the m_Event of another one (WaitForTermination) has an object
\* to return into, as many tasks as may end, until a deletion has overtaken the
\* one who waits: each deletion makes the scan of GetNextTask start again at
\* slot 1, and without that the scan runs the one who waits before it deletes.
JoinedObjectLives ==
    overtaken \/ \A t \in Tasks : Exists(t) /\ waitsOn[t] \in Tasks => Exists(waitsOn[t])

\* Sleep never returns before the time it was asked for, although the clock
\* wraps around and long sleeps are cut into pieces.
NeverEarly ==
    [][\A t \in Tasks : m_State[t] = "Sleeping" /\ pc' = "run" /\ m_pCurrent' = t
            => due[t] = 0]_vars

\* Round robin: a ready task gets the core, whatever the others create,
\* terminate and reap meanwhile (each reaping restarts the scan at slot 1).
ReadyRuns ==
    \A t \in Tasks :
        m_State[t] = "Ready" ~> ((m_pCurrent = t /\ pc # "yield") \/ failed # "none")

\* A sleeping task comes back from Sleep, unless an assertion stops the system.
SleepEnds ==
    \A t \in Tasks :
        m_State[t] = "Sleeping" ~> ((m_pCurrent = t /\ pc = "run") \/ failed # "none")
=============================================================================
