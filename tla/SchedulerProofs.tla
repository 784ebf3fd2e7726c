-------------------------- MODULE SchedulerProofs --------------------------
(***************************************************************************)
(* Theorems about Scheduler, for any number of tasks, events and slots.    *)
(*                                                                         *)
(* The first parts prove what holds whoever calls Set: the types, that the *)
(* task table holds each existing task once, and that Sleep never returns  *)
(* early.  The last two parts prove that no wakeup is lost, that no other  *)
(* assertion fails than the one of WakeTask in an interrupt, and that      *)
(* nobody waits on a deleted task, up to the first deletion that overtakes *)
(* somebody who waits for another task: when GetNextTask deletes a task it *)
(* starts again at slot 1, and may then meet a second ended task before    *)
(* the one that waits for that.  The run SchedIrqWakeup shows what an      *)
(* interrupt can do with its own events.                                   *)
(***************************************************************************)
EXTENDS Scheduler, TLAPS

-----------------------------------------------------------------------------
(* Types                                                                   *)

\* The main task keeps slot 0 and never ends, and the task whose code or
\* whose call of the scheduler is executing is ready.
MainInv ==
    /\ m_pTask[0] = Main
    /\ m_State[Main] \in {"Ready", "Blocked", "Sleeping"}
    /\ pc # "yield" => m_State[m_pCurrent] = "Ready"

TypeInv == TypeOK /\ MainInv

\* A remainder is a position below the modulus.
LEMMA ModRange ==
    ASSUME NEW x \in Int, NEW n \in Nat \ {0}
    PROVE  x % n \in 0 .. n - 1
  OBVIOUS

LEMMA ClockModPositive == ClockMod \in Nat \ {0} /\ 0 \in Ticks
  BY SchedulerAssumption DEF SchedulerAssumption, Ticks

LEMMA MainFacts ==
    /\ Main \in Tasks /\ NULL \notin Tasks /\ NULL \notin Events
    /\ Main # NULL
    /\ 0 \in Slots /\ Main \notin Enders /\ Enders \subseteq Tasks
    /\ Tasks \subseteq AllEvents /\ Events \subseteq AllEvents
    /\ IrqEvents \subseteq Events
    /\ MAX_TASKS \in Nat \ {0}
  BY SchedulerAssumption DEF SchedulerAssumption, AllEvents, Slots

\* The slot GetNextTask looks at is one of the slots in use.
LEMMA ScanSlotRange ==
    ASSUME TypeOK, NEW i \in 1 .. m_nTasks
    PROVE  ScanSlot(i) \in 0 .. m_nTasks - 1
<1>1. m_nTasks \in Nat \ {0} /\ MAX_TASKS \in Nat
  BY MainFacts DEF TypeOK
<1>2. (IF m_nCurrent < MAX_TASKS THEN m_nCurrent ELSE 0) + i \in Int
  BY <1>1 DEF TypeOK
<1> QED  BY <1>1, <1>2, ModRange DEF ScanSlot

LEMMA InitType == Init => TypeInv
<1>1. Init => overtaken \in BOOLEAN
  BY Zenon DEF Init
<1> QED
  BY <1>1, SchedulerAssumption, ClockModPositive, MainFacts
  DEF SchedulerAssumption, Init, TypeInv, TypeOK, MainInv, Slots, Failures

\* What a Set may change: it keeps the types, and wakes at most a blocked task.
LEMMA SetEventType ==
    ASSUME TypeOK, NEW e \in AllEvents,
           NEW state \in [Tasks -> {"Ready", "Blocked", "Sleeping", "Terminated", "Unknown"}],
           SetEvent(e, state), UNCHANGED <<waitsOn, timing, table, running>>,
           pc' \in {"run", "waiting", "stored", "sleep", "yield", "woken"}
    PROVE  /\ TypeOK'
           /\ \A t \in Tasks : m_State'[t] = state[t]
                  \/ (state[t] = "Blocked" /\ m_State'[t] = "Ready")
<1>1. m_pWaitTask[e] # NULL => m_pWaitTask[e] \in Tasks
  BY DEF TypeOK
<1>2. m_State' \in [Tasks -> {"Ready", "Blocked", "Sleeping", "Terminated", "Unknown"}]
  BY <1>1 DEF SetEvent
<1>3. m_bState' \in [AllEvents -> BOOLEAN] /\ m_pWaitTask' \in [AllEvents -> Tasks \union {NULL}]
  BY DEF SetEvent, TypeOK
<1>4. failed' \in Failures
  BY DEF SetEvent, TypeOK, Failures
<1>5. TypeOK'
  BY <1>2, <1>3, <1>4 DEF TypeOK, timing, table, running
<1>6. \A t \in Tasks : m_State'[t] = state[t] \/ (state[t] = "Blocked" /\ m_State'[t] = "Ready")
  BY <1>1 DEF SetEvent
<1> QED  BY <1>5, <1>6

\* AddTask stays inside the table and leaves slot 0 to the main task.
LEMMA AddTaskType ==
    ASSUME TypeInv, NEW t \in Tasks, AddTask(t)
    PROVE  /\ m_pTask' \in [Slots -> Tasks \union {NULL}]
           /\ m_nTasks' \in 1 .. MAX_TASKS
           /\ failed' \in Failures
           /\ m_pTask'[0] = Main
<1> USE MainFacts DEF TypeInv, TypeOK, MainInv, Slots, Failures
<1>1. CASE FreeSlots # {} /\ UNCHANGED <<m_nTasks, failed>>
           /\ \E i \in FreeSlots : m_pTask' = [m_pTask EXCEPT ![i] = t]
  <2>1. PICK i \in FreeSlots : m_pTask' = [m_pTask EXCEPT ![i] = t]
    BY <1>1
  <2>2. i \in Slots /\ i # 0
    BY <2>1 DEF FreeSlots
  <2> QED  BY <1>1, <2>1, <2>2
<1>2. CASE /\ m_nTasks < MAX_TASKS
           /\ m_pTask' = [m_pTask EXCEPT ![m_nTasks] = t]
           /\ m_nTasks' = m_nTasks + 1
           /\ UNCHANGED failed
  BY <1>2
<1>3. CASE failed' = "limit" /\ UNCHANGED table
  BY <1>3 DEF table
<1> QED  BY <1>1, <1>2, <1>3 DEF AddTask

LEMMA StepType == TypeInv /\ [Next]_vars => TypeInv'
<1> SUFFICES ASSUME TypeInv, [Next]_vars PROVE TypeInv'
  OBVIOUS
<1> USE MainFacts DEF TypeInv
<1>1. ASSUME NEW t \in Tasks, NewTask(t) PROVE TypeInv'
  <2>1. m_pTask' \in [Slots -> Tasks \union {NULL}] /\ m_nTasks' \in 1 .. MAX_TASKS
        /\ failed' \in Failures /\ m_pTask'[0] = Main
    BY <1>1, AddTaskType DEF NewTask
  <2>2. TypeOK'
    BY <1>1, <2>1 DEF NewTask, TypeOK, timing, running
  <2>3. MainInv'
    BY <1>1, <2>1 DEF NewTask, TypeOK, MainInv, Exists, Running, running
  <2> QED  BY <2>2, <2>3
<1>2. ASSUME EndTask PROVE TypeInv'
  <2> DEFINE st == [m_State EXCEPT ![m_pCurrent] = "Terminated"]
  <2>1. st \in [Tasks -> {"Ready", "Blocked", "Sleeping", "Terminated", "Unknown"}]
    BY DEF TypeOK
  <2>2. m_pCurrent \in AllEvents /\ m_pCurrent # Main
    BY <1>2 DEF EndTask, TypeOK
  <2>3. SetEvent(m_pCurrent, st) /\ pc' = "yield" /\ UNCHANGED <<waitsOn, timing, table, running>>
    BY <1>2 DEF EndTask
  <2> HIDE DEF st
  <2>4. TypeOK' /\ \A t \in Tasks : m_State'[t] = st[t] \/ (st[t] = "Blocked" /\ m_State'[t] = "Ready")
    BY <2>1, <2>2, <2>3, SetEventType
  <2>5. st[Main] = m_State[Main]
    BY <2>2 DEF st, TypeOK
  <2> QED  BY <2>3, <2>4, <2>5 DEF MainInv, table
<1>3. ASSUME NEW e \in Events, Set(e) \/ InterruptSet(e) PROVE TypeInv'
  <2>1. SetEvent(e, m_State) /\ UNCHANGED <<waitsOn, timing, table, running, pc>>
    BY <1>3 DEF Set, InterruptSet
  <2>2. TypeOK' /\ \A t \in Tasks : m_State'[t] = m_State[t]
                       \/ (m_State[t] = "Blocked" /\ m_State'[t] = "Ready")
    BY <2>1, SetEventType DEF TypeOK
  <2> QED  BY <2>1, <2>2 DEF MainInv, TypeOK, table, running
<1>4. ASSUME NEW e \in Events, Clear(e) PROVE TypeInv'
  BY <1>4 DEF Clear, TypeOK, MainInv, timing, table, running
<1>5. ASSUME NEW e \in AllEvents, Wait(e) PROVE TypeInv'
  BY <1>5 DEF Wait, TypeOK, MainInv, timing, table, running, Running, Failures
<1>6. ASSUME BlockStore PROVE TypeInv'
  BY <1>6 DEF BlockStore, TypeOK, MainInv, timing, table, running
<1>7. ASSUME BlockState PROVE TypeInv'
  BY <1>7 DEF BlockState, TypeOK, MainInv, timing, table, running
<1>8. ASSUME WaitReturns PROVE TypeInv'
  BY <1>8 DEF WaitReturns, TypeOK, MainInv, timing, table, running, Failures
<1>9. ASSUME NEW n \in 1 .. MaxSleep, Sleep(n) PROVE TypeInv'
  BY <1>9, SchedulerAssumption
  DEF Sleep, TypeOK, MainInv, table, running, objects, Running, SchedulerAssumption
<1>10. ASSUME usSleep PROVE TypeInv'
  <2>1. SleepChunk(m_pCurrent) \in Nat /\ SleepChunk(m_pCurrent) <= nSeconds[m_pCurrent]
    BY SchedulerAssumption DEF SleepChunk, TypeOK, SchedulerAssumption
  <2>2. (clock + SleepChunk(m_pCurrent)) % ClockMod \in Ticks
    <3>1. clock + SleepChunk(m_pCurrent) \in Int
      BY <2>1 DEF TypeOK, Ticks
    <3> QED  BY <3>1, ModRange, ClockModPositive DEF Ticks
  <2>3. nSeconds[m_pCurrent] - SleepChunk(m_pCurrent) \in 0 .. MaxSleep
    BY <2>1, SchedulerAssumption DEF TypeOK, SchedulerAssumption
  <2> QED  BY <1>10, <2>2, <2>3 DEF usSleep, TypeOK, MainInv, table, running
<1>11. ASSUME Tick PROVE TypeInv'
  <2>1. (clock + 1) % ClockMod \in Ticks
    BY ModRange, ClockModPositive DEF TypeOK, Ticks
  <2>2. due' \in [Tasks -> 0 .. MaxSleep] /\ busy' \in 0 .. MaxBusy
    BY <1>11, SchedulerAssumption DEF Tick, TypeOK, SchedulerAssumption
  <2> QED  BY <1>11, <2>1, <2>2 DEF Tick, TypeOK, MainInv, objects, table, running
<1>12. ASSUME Yield PROVE TypeInv'
  BY <1>12 DEF Yield, TypeOK, MainInv, objects, timing, table, running
<1>13. ASSUME GetNextTask PROVE TypeInv'
  <2>1. ASSUME Idle, busy' = 0, UNCHANGED <<m_nWakeTicks, nSeconds, clock, due>> PROVE TypeInv'
    BY <1>13, <2>1, SchedulerAssumption
    DEF GetNextTask, Idle, TypeOK, MainInv, objects, table, SchedulerAssumption
  <2>2. ASSUME NEW i \in 1 .. m_nTasks, FirstStop(i), Switch(ScanSlot(i)),
               busy' = 0, UNCHANGED <<m_nWakeTicks, nSeconds, clock, due>>
        PROVE  TypeInv'
    <3>1. ScanSlot(i) \in 0 .. m_nTasks - 1 /\ ScanSlot(i) \in Slots /\ ScanSlot(i) \in 0 .. MAX_TASKS
      BY ScanSlotRange DEF TypeOK, Slots
    <3>2. m_pTask[ScanSlot(i)] \in Tasks
      BY <2>2, <3>1 DEF FirstStop, Stops, StopsAt, TypeOK
    <3> QED  BY <2>2, <3>1, <3>2, SchedulerAssumption
             DEF Switch, TypeOK, MainInv, table, SchedulerAssumption
  <2>3. ASSUME NEW i \in 1 .. m_nTasks, FirstStop(i), Reap(ScanSlot(i)),
               busy' = 0, UNCHANGED <<m_nWakeTicks, nSeconds, clock, due>>
        PROVE  TypeInv'
    <3>1. ScanSlot(i) \in 0 .. m_nTasks - 1 /\ ScanSlot(i) \in Slots
      BY ScanSlotRange DEF TypeOK, Slots
    <3>2. m_pTask[ScanSlot(i)] \in Tasks /\ m_pTask[ScanSlot(i)] # Main
      BY <2>3, <3>1 DEF FirstStop, Stops, StopsAt, TypeOK, Reap, MainInv
    <3>3. ScanSlot(i) # 0
      BY <3>2 DEF MainInv
    <3>4. m_nTasks' \in 1 .. MAX_TASKS
      BY <2>3, <3>1, <3>3 DEF Reap, TypeOK
    <3>5. pc' = "yield" /\ m_pTask'[0] = Main /\ m_State'[Main] = m_State[Main]
      BY <1>13, <2>3, <3>1, <3>2, <3>3 DEF GetNextTask, Reap, TypeOK, MainInv
    <3>6. m_pTask' \in [Slots -> Tasks \union {NULL}] /\ failed' \in Failures
          /\ m_nCurrent' \in 0 .. MAX_TASKS
      BY <2>3, <3>1 DEF Reap, TypeOK, Failures
    <3>7. m_State' \in [Tasks -> {"Ready", "Blocked", "Sleeping", "Terminated", "Unknown"}]
      BY <2>3, <3>2 DEF Reap, TypeOK
    <3>8. busy' \in 0 .. MaxBusy
      BY <2>3, SchedulerAssumption DEF SchedulerAssumption
    <3>9. overtaken' \in BOOLEAN
      BY <2>3, Zenon DEF Reap
    <3>10. TypeOK'
      BY <2>3, <3>4, <3>6, <3>7, <3>8, <3>9 DEF Reap, TypeOK
    <3> QED  BY <3>5, <3>10 DEF MainInv
  <2> QED  BY <1>13, <2>1, <2>2, <2>3 DEF GetNextTask
<1>14. CASE UNCHANGED vars
  BY <1>14 DEF vars, TypeOK, MainInv, objects, timing, table, running
<1> QED
  BY <1>1, <1>2, <1>3, <1>4, <1>5, <1>6, <1>7, <1>8, <1>9, <1>10, <1>11, <1>12, <1>13, <1>14
  DEF Next

\* The types of all variables, in particular that m_nTasks stays between 1
\* and MAX_TASKS and m_nCurrent is a slot or MAX_TASKS.
THEOREM TypeCorrect == Spec => []TypeOK
<1>1. Spec => []TypeInv
  BY InitType, StepType, PTL DEF Spec
<1> QED  BY <1>1, PTL DEF TypeInv

-----------------------------------------------------------------------------
(* The task table                                                          *)

\* A step that leaves the table alone and neither makes nor deletes a task.
LEMMA TableKept ==
    ASSUME TableOK, failed = "none", UNCHANGED table,
           \A t \in Tasks : Exists(t)' <=> Exists(t),
           m_pTask \in [Slots -> Tasks \union {NULL}]
    PROVE  TableOK'
  BY DEF TableOK, table

LEMMA StepTable == TypeInv /\ TableOK /\ [Next]_vars => TableOK'
<1> SUFFICES ASSUME TypeInv, TableOK, [Next]_vars PROVE TableOK'
  OBVIOUS
<1> USE MainFacts DEF TypeInv
<1>a. m_pTask \in [Slots -> Tasks \union {NULL}] /\ m_State \in [Tasks -> {"Ready", "Blocked", "Sleeping", "Terminated", "Unknown"}]
      /\ m_pCurrent \in Tasks /\ m_nTasks \in 1 .. MAX_TASKS
  BY DEF TypeOK
<1>1. ASSUME NEW t \in Tasks, NewTask(t) PROVE TableOK'
  <2>1. failed = "none" /\ m_State[t] = "Unknown" /\ m_State' = [m_State EXCEPT ![t] = "Ready"]
        /\ AddTask(t)
    BY <1>1 DEF NewTask, Running, Exists
  <2>2. \A i \in Slots : m_pTask[i] # t
    BY <2>1 DEF TableOK, Exists
  <2>3. \A u \in Tasks : Exists(u)' <=> (Exists(u) \/ u = t)
    BY <1>a, <2>1 DEF Exists
  <2>4. ASSUME NEW i \in FreeSlots, m_pTask' = [m_pTask EXCEPT ![i] = t], UNCHANGED <<m_nTasks, failed>>
        PROVE  TableOK'
    <3>1. i \in 0 .. m_nTasks - 1 /\ i \in Slots /\ m_pTask[i] = NULL
      BY <1>a, <2>4 DEF FreeSlots, Slots
    <3>2. \A j \in Slots : m_pTask'[j] = IF j = i THEN t ELSE m_pTask[j]
      BY <1>a, <2>4
    <3> QED  BY <1>a, <2>1, <2>2, <2>3, <2>4, <3>1, <3>2 DEF TableOK, Slots
  <2>5. ASSUME m_nTasks < MAX_TASKS, m_pTask' = [m_pTask EXCEPT ![m_nTasks] = t],
               m_nTasks' = m_nTasks + 1, UNCHANGED failed
        PROVE  TableOK'
    <3>1. m_nTasks \in Slots /\ m_pTask[m_nTasks] = NULL
      BY <1>a, <2>5 DEF TableOK, Slots
    <3>2. \A j \in Slots : m_pTask'[j] = IF j = m_nTasks THEN t ELSE m_pTask[j]
      BY <1>a, <2>5
    <3>3. \A u \in Tasks : Exists(u) => \E j \in 0 .. m_nTasks - 1 : m_pTask[j] = u
      BY <2>1 DEF TableOK
    <3>4. \A u \in Tasks : Exists(u)' => \E j \in 0 .. m_nTasks' - 1 : m_pTask'[j] = u
      <4> SUFFICES ASSUME NEW u \in Tasks, Exists(u)'
                   PROVE  \E j \in 0 .. m_nTasks' - 1 : m_pTask'[j] = u
        OBVIOUS
      <4>1. CASE u = t
        BY <1>a, <2>5, <3>1, <3>2, <4>1
      <4>2. CASE u # t
        <5>1. PICK j \in 0 .. m_nTasks - 1 : m_pTask[j] = u
          BY <2>3, <3>3, <4>2
        <5>2. j \in 0 .. m_nTasks' - 1 /\ j \in Slots /\ j # m_nTasks
          BY <1>a, <2>5, <5>1 DEF Slots
        <5> QED  BY <3>2, <5>1, <5>2
      <4> QED  BY <4>1, <4>2
    <3>5. \A j \in Slots : m_pTask'[j] # NULL => j < m_nTasks' /\ Exists(m_pTask[j])'
      BY <1>a, <2>3, <2>5, <3>2 DEF TableOK, Slots
    <3>6. \A j, k \in Slots : m_pTask'[j] = m_pTask'[k] /\ m_pTask'[j] # NULL => j = k
      BY <2>2, <3>2 DEF TableOK
    <3> QED  BY <3>4, <3>5, <3>6 DEF TableOK
  <2>6. ASSUME failed' = "limit", UNCHANGED table PROVE TableOK'
    BY <1>a, <2>3, <2>6 DEF TableOK, table
  <2> QED  BY <2>1, <2>4, <2>5, <2>6 DEF AddTask
<1>2. ASSUME EndTask PROVE TableOK'
  <2> DEFINE st == [m_State EXCEPT ![m_pCurrent] = "Terminated"]
  <2>1. SetEvent(m_pCurrent, st) /\ pc' = "yield" /\ UNCHANGED <<waitsOn, timing, table, running>>
        /\ failed = "none" /\ m_State[m_pCurrent] = "Ready"
    BY <1>2 DEF EndTask, Running, MainInv
  <2>2. st \in [Tasks -> {"Ready", "Blocked", "Sleeping", "Terminated", "Unknown"}]
        /\ \A t \in Tasks : st[t] # "Unknown" <=> m_State[t] # "Unknown"
    BY <1>a, <2>1
  <2> HIDE DEF st
  <2>3. \A t \in Tasks : m_State'[t] = st[t] \/ (st[t] = "Blocked" /\ m_State'[t] = "Ready")
    BY <1>a, <2>1, <2>2, SetEventType
  <2> QED  BY <1>a, <2>1, <2>2, <2>3, TableKept DEF Exists
<1>3. ASSUME NEW e \in Events, Set(e) \/ InterruptSet(e) PROVE TableOK'
  <2>1. SetEvent(e, m_State) /\ UNCHANGED <<waitsOn, timing, table, running, pc>> /\ failed = "none"
    BY <1>3 DEF Set, InterruptSet, Running
  <2>2. \A t \in Tasks : m_State'[t] = m_State[t]
                       \/ (m_State[t] = "Blocked" /\ m_State'[t] = "Ready")
    BY <2>1, SetEventType DEF TypeOK
  <2> QED  BY <1>a, <2>1, <2>2, TableKept DEF Exists
<1>4. ASSUME NEW e \in Events, Clear(e) PROVE TableOK'
  BY <1>a, <1>4, TableKept DEF Clear, Running, Exists
<1>5. ASSUME NEW e \in AllEvents, Wait(e) PROVE TableOK'
  BY <1>a, <1>5, TableKept DEF Wait, Running, Exists
<1>6. ASSUME BlockStore PROVE TableOK'
  BY <1>a, <1>6, TableKept DEF BlockStore, Exists
<1>7. ASSUME BlockState \/ usSleep PROVE TableOK'
  <2>1. m_State[m_pCurrent] = "Ready" /\ UNCHANGED table /\ failed = "none"
    BY <1>7 DEF BlockState, usSleep, MainInv
  <2>2. \A t \in Tasks : Exists(t)' <=> Exists(t)
    BY <1>a, <1>7, <2>1 DEF BlockState, usSleep, Exists
  <2> QED  BY <1>a, <2>1, <2>2, TableKept
<1>8. ASSUME WaitReturns PROVE TableOK'
  BY <1>a, <1>8, TableKept DEF WaitReturns, Exists
<1>9. ASSUME NEW n \in 1 .. MaxSleep, Sleep(n) PROVE TableOK'
  BY <1>a, <1>9, TableKept DEF Sleep, Running, Exists, objects
<1>10. ASSUME Tick \/ Yield PROVE TableOK'
  BY <1>a, <1>10, TableKept DEF Tick, Yield, Running, Exists, objects
<1>11. ASSUME GetNextTask PROVE TableOK'
  <2>0. failed = "none"
    BY <1>11 DEF GetNextTask
  <2>1. ASSUME Idle PROVE TableOK'
    BY <1>a, <2>0, <2>1, TableKept DEF Idle, objects, Exists
  <2>2. ASSUME NEW i \in 1 .. m_nTasks, FirstStop(i), Switch(ScanSlot(i)) PROVE TableOK'
    <3>1. ScanSlot(i) \in Slots /\ m_pTask[ScanSlot(i)] # NULL
      BY <1>a, <2>2, ScanSlotRange DEF Slots, FirstStop, Stops, StopsAt
    <3>2. m_pTask[ScanSlot(i)] \in Tasks /\ Exists(m_pTask[ScanSlot(i)])
      BY <1>a, <3>1 DEF TableOK
    <3> QED  BY <1>a, <2>0, <2>2, <3>2, TableKept DEF Switch, Exists
  <2>3. ASSUME NEW i \in 1 .. m_nTasks, FirstStop(i), Reap(ScanSlot(i)) PROVE TableOK'
    <3> DEFINE s == ScanSlot(i)
    <3> DEFINE t == m_pTask[s]
    <3>1. s \in 0 .. m_nTasks - 1 /\ s \in Slots /\ t \in Tasks
      BY <1>a, <2>3, ScanSlotRange DEF Slots, FirstStop, Stops, StopsAt
    <3>2. /\ m_pTask' = [m_pTask EXCEPT ![s] = NULL]
          /\ m_nTasks' = IF s = m_nTasks - 1 THEN m_nTasks - 1 ELSE m_nTasks
          /\ m_State' = [m_State EXCEPT ![t] = "Unknown"]
      BY <2>3 DEF Reap
    <3> HIDE DEF s
    <3>3. \A j \in Slots : m_pTask'[j] = IF j = s THEN NULL ELSE m_pTask[j]
      BY <1>a, <3>2
    <3>4. \A u \in Tasks : Exists(u)' <=> (Exists(u) /\ u # t)
      BY <1>a, <3>1, <3>2 DEF Exists
    <3>5. \A j \in Slots : m_pTask[j] = t => j = s
      BY <3>1, MainFacts DEF TableOK
    <3>6. \A u \in Tasks : Exists(u)' => \E j \in 0 .. m_nTasks' - 1 : m_pTask'[j] = u
      <4> SUFFICES ASSUME NEW u \in Tasks, Exists(u)'
                   PROVE  \E j \in 0 .. m_nTasks' - 1 : m_pTask'[j] = u
        OBVIOUS
      <4>1. PICK j \in 0 .. m_nTasks - 1 : m_pTask[j] = u
        BY <2>0, <3>4 DEF TableOK
      <4>2. j # s /\ j \in Slots
        BY <1>a, <3>4, <4>1 DEF Slots
      <4>3. j \in 0 .. m_nTasks' - 1
        BY <1>a, <3>1, <3>2, <4>1, <4>2
      <4> QED  BY <3>3, <4>1, <4>2, <4>3
    <3>7. \A j \in Slots : m_pTask'[j] # NULL => j < m_nTasks' /\ Exists(m_pTask[j])'
      <4> SUFFICES ASSUME NEW j \in Slots, m_pTask'[j] # NULL
                   PROVE  j < m_nTasks' /\ Exists(m_pTask[j])'
        OBVIOUS
      <4>1. j # s /\ m_pTask'[j] = m_pTask[j] /\ m_pTask[j] # t
        BY <3>3, <3>5
      <4>2. j < m_nTasks /\ Exists(m_pTask[j]) /\ m_pTask[j] \in Tasks
        BY <1>a, <4>1 DEF TableOK
      <4>3. j < m_nTasks'
        BY <1>a, <3>1, <3>2, <4>1, <4>2 DEF Slots
      <4>4. (Exists(m_pTask[j]) /\ m_pTask[j] # t) => m_State'[m_pTask[j]] # "Unknown"
        BY <1>a, <3>2, <4>2 DEF Exists
      <4> QED  BY <4>1, <4>2, <4>3, <4>4 DEF Exists
    <3>8. \A j, k \in Slots : m_pTask'[j] = m_pTask'[k] /\ m_pTask'[j] # NULL => j = k
      BY <3>3 DEF TableOK
    <3> QED  BY <3>6, <3>7, <3>8 DEF TableOK
  <2> QED  BY <1>11, <2>1, <2>2, <2>3 DEF GetNextTask
<1>12. CASE UNCHANGED vars
  BY <1>a, <1>12 DEF vars, objects, table, TableOK, Exists
<1> QED
  BY <1>1, <1>2, <1>3, <1>4, <1>5, <1>6, <1>7, <1>8, <1>9, <1>10, <1>11, <1>12 DEF Next

\* Each existing task is in exactly one slot that GetNextTask scans, and no
\* deleted task is in the table, whatever is created, terminated and reaped.
THEOREM TableCorrect == Spec => []TableOK
<1>1. Init => TableOK
  BY MainFacts DEF Init, TableOK, Exists, Slots
<1>2. Spec => [](TypeInv /\ TableOK)
  BY <1>1, InitType, StepType, StepTable, PTL DEF Spec
<1> QED  BY <1>2, PTL

-----------------------------------------------------------------------------
(* Sleeping                                                                *)

\* Remainders next to the range of the modulus.
LEMMA ModBelow == ASSUME NEW n \in Nat \ {0}, NEW x \in 0 .. n - 1 PROVE x % n = x
  OBVIOUS

LEMMA ModOnce == ASSUME NEW n \in Nat \ {0}, NEW x \in n .. 2 * n - 1 PROVE x % n = x - n
  OBVIOUS

LEMMA ModUnder == ASSUME NEW n \in Nat \ {0}, NEW x \in -n .. -1 PROVE x % n = x + n
  OBVIOUS

\* The ticks from now to a wake time.
Until(wake, now) == IF wake >= now THEN wake - now ELSE wake - now + ClockMod

LEMMA UntilIs ==
    ASSUME NEW wake \in Ticks, NEW now \in Ticks
    PROVE  /\ (wake - now) % ClockMod = Until(wake, now) /\ Until(wake, now) \in Ticks
           /\ Later(wake, now) <=> Until(wake, now) > 0 /\ 2 * Until(wake, now) < ClockMod
<1>1. ClockMod \in Nat \ {0}
  BY ClockModPositive
<1>2. CASE wake >= now
  <2>1. wake - now \in 0 .. ClockMod - 1
    BY <1>1, <1>2 DEF Ticks
  <2>2. (wake - now) % ClockMod = wake - now
    BY <1>1, <2>1, ModBelow
  <2> QED  BY <1>2, <2>1, <2>2 DEF Until, Later, Ticks
<1>3. CASE wake < now
  <2>1. wake - now \in -ClockMod .. -1 /\ wake - now + ClockMod \in 0 .. ClockMod - 1
    BY <1>1, <1>3 DEF Ticks
  <2>2. (wake - now) % ClockMod = wake - now + ClockMod
    BY <1>1, <2>1, ModUnder
  <2> QED  BY <1>1, <1>3, <2>1, <2>2 DEF Until, Later, Ticks
<1> QED  BY <1>1, <1>2, <1>3 DEF Ticks

\* The clock goes on: a wake time in the future comes nearer by a tick.
LEMMA UntilTick ==
    ASSUME NEW wake \in Ticks, NEW now \in Ticks, Until(wake, now) > 0
    PROVE  Until(wake, (now + 1) % ClockMod) = Until(wake, now) - 1
<1>1. ClockMod \in Nat \ {0}
  BY ClockModPositive
<1>2. CASE now + 1 < ClockMod
  <2>1. (now + 1) % ClockMod = now + 1
    BY <1>1, <1>2, ModBelow DEF Ticks
  <2> QED  BY <1>1, <1>2, <2>1 DEF Until, Ticks
<1>3. CASE now + 1 = ClockMod
  <2>1. (now + 1) % ClockMod = 0
    BY <1>1, <1>3, ModOnce DEF Ticks
  <2> QED  BY <1>1, <1>3, <2>1 DEF Until, Ticks
<1> QED  BY <1>1, <1>2, <1>3 DEF Ticks

\* A new wake time is as far away as it was asked to be.
LEMMA UntilNew ==
    ASSUME NEW now \in Ticks, NEW n \in 0 .. nSleepMax
    PROVE  (now + n) % ClockMod \in Ticks /\ Until((now + n) % ClockMod, now) = n
<1>1. ClockMod \in Nat \ {0} /\ n < ClockMod /\ n \in Nat
  BY ClockModPositive, SchedulerAssumption DEF SchedulerAssumption
<1>2. CASE now + n < ClockMod
  <2>1. (now + n) % ClockMod = now + n
    BY <1>1, <1>2, ModBelow DEF Ticks
  <2> QED  BY <1>1, <1>2, <2>1 DEF Until, Ticks
<1>3. CASE now + n >= ClockMod
  <2>1. PICK x : x = now + n
    OBVIOUS
  <2>2. x \in ClockMod .. 2 * ClockMod - 1
    BY <1>1, <1>3, <2>1 DEF Ticks
  <2>3. x % ClockMod = x - ClockMod
    BY <1>1, <2>2, ModOnce
  <2> QED  BY <1>1, <1>3, <2>1, <2>3 DEF Until, Ticks
<1> QED  BY <1>1, <1>2, <1>3 DEF Ticks

\* What a task still has to sleep is in nSeconds, and while it sleeps in its
\* wake time as well, which is less than half a turn of the clock away.
SleepInv ==
    \A t \in Tasks :
        \/ due[t] <= nSeconds[t]
        \/ /\ m_State[t] = "Sleeping"
           /\ due[t] - nSeconds[t] <= Until(m_nWakeTicks[t], clock)
           /\ Until(m_nWakeTicks[t], clock) <= nSleepMax

\* A sleeping task that GetNextTask takes has nothing left of its wake time.
LEMMA SleptEnough ==
    ASSUME TypeInv, SleepInv, NEW s \in Slots, StopsAt(s), Switch(s), NEW t, t = m_pTask[s]
    PROVE  t \in Tasks /\ due[t] <= nSeconds[t]
<1>1. t \in Tasks /\ m_State[t] # "Terminated"
  BY DEF StopsAt, TypeInv, TypeOK, Switch
<1>2. SUFFICES ASSUME due[t] > nSeconds[t] PROVE FALSE
  BY <1>1 DEF TypeInv, TypeOK
<1>3. /\ m_State[t] = "Sleeping"
      /\ due[t] - nSeconds[t] <= Until(m_nWakeTicks[t], clock)
      /\ Until(m_nWakeTicks[t], clock) <= nSleepMax
      /\ due[t] \in Nat /\ nSeconds[t] \in Nat
      /\ m_nWakeTicks[t] \in Ticks /\ clock \in Ticks
  BY <1>1, <1>2 DEF SleepInv, TypeInv, TypeOK
<1>4. ~Later(m_nWakeTicks[t], clock)
  BY <1>1, <1>3 DEF StopsAt
<1>5. 2 * nSleepMax < ClockMod /\ nSleepMax \in Nat /\ ClockMod \in Nat
  BY SchedulerAssumption DEF SchedulerAssumption
<1>6. PICK u \in Nat : u = Until(m_nWakeTicks[t], clock)
  BY <1>3, <1>5, UntilIs DEF Ticks
<1>7. ~(u > 0 /\ 2 * u < ClockMod)
  BY <1>3, <1>4, <1>6, UntilIs
<1>8. u = 0
  BY <1>3, <1>5, <1>6, <1>7
<1> QED  BY <1>2, <1>3, <1>6, <1>8

LEMMA StepSleep == TypeInv /\ SleepInv /\ [Next]_vars => SleepInv'
<1> SUFFICES ASSUME TypeInv, SleepInv, [Next]_vars PROVE SleepInv'
  OBVIOUS
<1>a. /\ m_State \in [Tasks -> {"Ready", "Blocked", "Sleeping", "Terminated", "Unknown"}]
      /\ m_nWakeTicks \in [Tasks -> Ticks] /\ clock \in Ticks
      /\ due \in [Tasks -> 0 .. MaxSleep] /\ nSeconds \in [Tasks -> 0 .. MaxSleep]
      /\ MaxSleep \in Nat /\ nSleepMax \in Nat \ {0} /\ m_pCurrent \in Tasks
      /\ m_pTask \in [Slots -> Tasks \union {NULL}] /\ m_nTasks \in 1 .. MAX_TASKS
      /\ MAX_TASKS \in Nat
      /\ pc # "yield" => m_State[m_pCurrent] = "Ready"
  BY SchedulerAssumption DEF TypeInv, TypeOK, MainInv, SchedulerAssumption
\* A task that sleeps goes on sleeping, and the clock stands still.
<1>b. ASSUME UNCHANGED timing, \A t \in Tasks : m_State[t] = "Sleeping" => m_State'[t] = "Sleeping"
      PROVE  SleepInv'
  BY <1>b DEF SleepInv, timing, Until
<1>1. ASSUME NEW t \in Tasks, NewTask(t) PROVE SleepInv'
  BY <1>a, <1>1, <1>b DEF NewTask, Exists
<1>2. ASSUME EndTask PROVE SleepInv'
  <2>1. m_State[m_pCurrent] = "Ready" /\ UNCHANGED timing
    BY <1>a, <1>2 DEF EndTask, Running
  <2>2. \A t \in Tasks : m_State[t] = "Sleeping" => m_State'[t] = "Sleeping"
    BY <1>a, <1>2, <2>1 DEF EndTask, SetEvent
  <2> QED  BY <1>b, <2>1, <2>2
<1>3. ASSUME NEW e \in Events, Set(e) \/ InterruptSet(e) PROVE SleepInv'
  <2>1. SetEvent(e, m_State) /\ UNCHANGED timing
    BY <1>3 DEF Set, InterruptSet
  <2>2. \A t \in Tasks : m_State[t] = "Sleeping" => m_State'[t] = "Sleeping"
    BY <1>a, <2>1 DEF SetEvent
  <2> QED  BY <1>b, <2>1, <2>2
<1>4. ASSUME NEW e \in Events, Clear(e) PROVE SleepInv'
  BY <1>b, <1>4 DEF Clear
<1>5. ASSUME NEW e \in AllEvents, Wait(e) PROVE SleepInv'
  BY <1>b, <1>5 DEF Wait
<1>6. CASE BlockStore \/ WaitReturns
  BY <1>b, <1>6 DEF BlockStore, WaitReturns
<1>7. CASE BlockState
  BY <1>a, <1>b, <1>7 DEF BlockState
<1>8. ASSUME NEW n \in 1 .. MaxSleep, Sleep(n) PROVE SleepInv'
  <2>1. /\ nSeconds' = [nSeconds EXCEPT ![m_pCurrent] = n]
        /\ due' = [due EXCEPT ![m_pCurrent] = n]
        /\ UNCHANGED <<m_State, m_nWakeTicks, clock>>
    BY <1>8 DEF Sleep, objects
  <2> QED  BY <1>a, <2>1 DEF SleepInv, Until
<1>9. CASE usSleep
  <2>1. PICK n : n = SleepChunk(m_pCurrent)
    OBVIOUS
  <2>2. n \in 0 .. nSleepMax /\ n <= nSeconds[m_pCurrent]
    BY <1>a, <2>1 DEF SleepChunk
  <2>3. /\ m_nWakeTicks' = [m_nWakeTicks EXCEPT ![m_pCurrent] = (clock + n) % ClockMod]
        /\ nSeconds' = [nSeconds EXCEPT ![m_pCurrent] = @ - n]
        /\ m_State' = [m_State EXCEPT ![m_pCurrent] = "Sleeping"]
        /\ UNCHANGED <<clock, due>> /\ m_State[m_pCurrent] = "Ready"
    BY <1>a, <1>9, <2>1 DEF usSleep
  <2>4. Until((clock + n) % ClockMod, clock) = n
    BY <1>a, <2>2, UntilNew
  <2>5. due[m_pCurrent] <= nSeconds[m_pCurrent]
    BY <1>a, <2>3 DEF SleepInv
  <2>6. ASSUME NEW t \in Tasks, t # m_pCurrent
        PROVE  \/ due'[t] <= nSeconds'[t]
               \/ /\ m_State'[t] = "Sleeping"
                  /\ due'[t] - nSeconds'[t] <= Until(m_nWakeTicks'[t], clock')
                  /\ Until(m_nWakeTicks'[t], clock') <= nSleepMax
    <3>1. /\ due'[t] = due[t] /\ nSeconds'[t] = nSeconds[t] /\ m_State'[t] = m_State[t]
          /\ m_nWakeTicks'[t] = m_nWakeTicks[t] /\ clock' = clock
      BY <1>a, <2>3, <2>6
    <3> QED  BY <3>1 DEF SleepInv
  <2>7. /\ m_State'[m_pCurrent] = "Sleeping"
        /\ due'[m_pCurrent] - nSeconds'[m_pCurrent] <= n
        /\ Until(m_nWakeTicks'[m_pCurrent], clock') = n
    BY <1>a, <2>2, <2>3, <2>4, <2>5
  <2> QED  BY <1>a, <2>2, <2>6, <2>7 DEF SleepInv, Until
<1>10. CASE Tick
  <2>1. /\ clock' = (clock + 1) % ClockMod /\ UNCHANGED <<m_State, nSeconds, m_nWakeTicks>>
        /\ due' = [t \in Tasks |-> IF due[t] > 0 THEN due[t] - 1 ELSE 0]
    BY <1>10 DEF Tick, objects
  <2>2. SUFFICES ASSUME NEW t \in Tasks, ~(due'[t] <= nSeconds[t])
                 PROVE  /\ m_State[t] = "Sleeping"
                        /\ due'[t] - nSeconds[t] <= Until(m_nWakeTicks[t], clock')
                        /\ Until(m_nWakeTicks[t], clock') <= nSleepMax
    BY <2>1 DEF SleepInv, Until
  <2>3. due[t] > nSeconds[t] /\ due'[t] = due[t] - 1 /\ due[t] \in Nat /\ nSeconds[t] \in Nat
    BY <1>a, <2>1, <2>2
  <2>4. /\ m_State[t] = "Sleeping"
        /\ due[t] - nSeconds[t] <= Until(m_nWakeTicks[t], clock)
        /\ Until(m_nWakeTicks[t], clock) <= nSleepMax
    BY <1>a, <2>3 DEF SleepInv
  <2>5. Until(m_nWakeTicks[t], clock) \in Ticks
    BY <1>a, UntilIs
  <2>6. Until(m_nWakeTicks[t], clock') = Until(m_nWakeTicks[t], clock) - 1
    BY <1>a, <2>1, <2>3, <2>4, <2>5, UntilTick DEF Ticks
  <2> QED  BY <1>a, <2>3, <2>4, <2>5, <2>6 DEF Ticks
<1>11. CASE Yield
  BY <1>b, <1>11 DEF Yield, objects
<1>12. CASE GetNextTask
  <2>1. UNCHANGED <<m_nWakeTicks, nSeconds, clock, due>>
    BY <1>12 DEF GetNextTask
  <2>2. CASE Idle
    BY <2>1, <2>2 DEF Idle, SleepInv, objects, Until
  <2>3. ASSUME NEW i \in 1 .. m_nTasks, FirstStop(i), Switch(ScanSlot(i)) PROVE SleepInv'
    <3>1. PICK s \in Slots : s = ScanSlot(i)
      BY <1>a, ScanSlotRange DEF TypeInv, Slots
    <3>2. PICK t : t = m_pTask[s]
      OBVIOUS
    <3>3. t \in Tasks /\ due[t] <= nSeconds[t]
      BY <2>3, <3>1, <3>2, SleptEnough DEF FirstStop, Stops
    <3>4. m_State' = [m_State EXCEPT ![t] = "Ready"]
      BY <2>3, <3>1, <3>2 DEF Switch
    <3> QED  BY <1>a, <2>1, <3>3, <3>4 DEF SleepInv, Until
  <2>4. ASSUME NEW i \in 1 .. m_nTasks, FirstStop(i), Reap(ScanSlot(i)) PROVE SleepInv'
    <3>1. PICK t : t = m_pTask[ScanSlot(i)]
      OBVIOUS
    <3>2. m_State[t] = "Terminated" /\ m_State' = [m_State EXCEPT ![t] = "Unknown"]
      BY <2>4, <3>1 DEF Reap
    <3> QED  BY <1>a, <2>1, <3>2 DEF SleepInv, Until
  <2> QED  BY <1>12, <2>2, <2>3, <2>4 DEF GetNextTask
<1>13. CASE UNCHANGED vars
  BY <1>b, <1>13 DEF vars, objects
<1> QED
  BY <1>1, <1>2, <1>3, <1>4, <1>5, <1>6, <1>7, <1>8, <1>9, <1>10, <1>11, <1>12, <1>13,
     MainFacts DEF Next

\* A task that sleeps comes back from Sleep only when the time is over.
LEMMA WakesInTime ==
    ASSUME TypeInv, SleepInv, [Next]_vars, NEW t \in Tasks, m_State[t] = "Sleeping",
           pc' = "run", m_pCurrent' = t
    PROVE  due[t] = 0
<1>1. pc = "yield" \/ m_pCurrent # t
  BY DEF TypeInv, MainInv
<1>2. CASE GetNextTask
  <2>1. PICK i \in 1 .. m_nTasks : FirstStop(i) /\ (Switch(ScanSlot(i)) \/ Reap(ScanSlot(i)))
    BY <1>2 DEF GetNextTask, Idle
  <2>2. PICK s \in Slots : s = ScanSlot(i)
    BY ScanSlotRange, MainFacts DEF TypeInv, TypeOK, Slots
  <2>3. Switch(s)
    BY <1>2, <2>1, <2>2 DEF GetNextTask, Reap
  <2>4. m_pTask[s] = t
    BY <2>3 DEF Switch
  <2>5. due[t] <= nSeconds[t]
    BY <2>1, <2>2, <2>3, <2>4, SleptEnough DEF FirstStop, Stops
  <2>6. ~(nSeconds[t] > 0)
    BY <2>3, <2>4 DEF Switch
  <2> QED  BY <2>5, <2>6 DEF TypeInv, TypeOK
<1>3. CASE ~GetNextTask
  <2>1. m_pCurrent' = m_pCurrent /\ (pc = "yield" => pc' = "yield")
    BY <1>3 DEF Next, NewTask, EndTask, Set, InterruptSet, Clear, Wait, BlockStore, BlockState,
       WaitReturns, Sleep, usSleep, Tick, Yield, Running, running, vars
  <2> QED  BY <1>1, <2>1
<1> QED  BY <1>2, <1>3

\* Sleep never returns before the time that was asked for, for any clock, any
\* length of the pieces below half a turn of it, and any tasks (Sleep, usSleep,
\* the signed comparison of GetNextTask).
THEOREM NobodyEarly == Spec => NeverEarly
<1>1. Init => TypeInv /\ SleepInv
  BY InitType, SchedulerAssumption DEF Init, SleepInv, SchedulerAssumption
<1>2. TypeInv /\ SleepInv /\ [Next]_vars => (TypeInv /\ SleepInv)'
  BY StepType, StepSleep
<1>3. TypeInv /\ SleepInv /\ [Next]_vars =>
        [\A t \in Tasks : m_State[t] = "Sleeping" /\ pc' = "run" /\ m_pCurrent' = t
            => due[t] = 0]_vars
  BY WakesInTime
<1> QED  BY <1>1, <1>2, <1>3, PTL DEF Spec, NeverEarly

-----------------------------------------------------------------------------
(* Waiting and waking                                                      *)

\* The task that may call Wait on an event.
Home(e, t) ==
    \/ e \in Events /\ Owner[e] = t
    \/ e \in Tasks /\ Joiner[e] = t

\* The running task is between the test in Wait and the end of BlockTask.
Entering(t) == t = m_pCurrent /\ pc \in {"waiting", "stored"}

\* A task registered with an event is inside the Wait of that event, which is
\* clear unless an interrupt has set it between the test and the registration.
Registered(e) ==
    m_pWaitTask[e] # NULL =>
        /\ waitsOn[m_pWaitTask[e]] = e
        /\ ~m_bState[e] \/ e \in IrqEvents
        /\ \/ m_State[m_pWaitTask[e]] = "Blocked"
           \/ m_pWaitTask[e] = m_pCurrent /\ pc = "stored"

\* A task inside a Wait is the one that may wait there, and either blocked and
\* registered, or on its way there, or woken by a Set that is still in force.
Inside(t) ==
    waitsOn[t] # NULL =>
        /\ Home(waitsOn[t], t)
        /\ \/ m_State[t] = "Blocked" /\ m_pWaitTask[waitsOn[t]] = t
           \/ m_State[t] = "Ready" /\ (Entering(t) \/ m_bState[waitsOn[t]])

\* The m_Event of a task is set when it ends, and then nobody is registered.
Ended(t) ==
    /\ m_bState[t] => m_State[t] \in {"Terminated", "Unknown"}
    /\ m_State[t] = "Terminated" => m_bState[t] /\ m_pWaitTask[t] = NULL /\ t \in Enders

WakeInv ==
    /\ NoAssertion
    /\ \A e \in AllEvents : Registered(e)
    /\ \A t \in Tasks : Inside(t)
    /\ \A t \in Tasks : Ended(t)
    /\ \A t \in Tasks : m_State[t] = "Blocked" => waitsOn[t] # NULL
    /\ pc \in {"run", "sleep"} => waitsOn[m_pCurrent] = NULL
    /\ pc \in {"waiting", "stored", "woken"} => waitsOn[m_pCurrent] # NULL
    /\ pc = "waiting" =>
         /\ m_pWaitTask[waitsOn[m_pCurrent]] = NULL
         /\ ~m_bState[waitsOn[m_pCurrent]] \/ waitsOn[m_pCurrent] \in IrqEvents
    /\ failed = "none" /\ pc = "stored" => m_pWaitTask[waitsOn[m_pCurrent]] = m_pCurrent

\* The object whose event a task waits on has not been deleted.
ObjectsLive == \A t \in Tasks : waitsOn[t] \in Tasks => Exists(waitsOn[t])

LEMMA InitWake == Init => WakeInv /\ ObjectsLive
  BY MainFacts DEF Init, WakeInv, Registered, Inside, Ended, ObjectsLive, NoAssertion, AllEvents

-----------------------------------------------------------------------------
(* Who is waited for is reaped last                                        *)

\* The slots in the order in which a scan that starts behind c meets them.
Before(c, x, y) == (c < x /\ x < y) \/ (x < y /\ y <= c) \/ (y <= c /\ c < x)

\* Outside GetNextTask, m_nCurrent is the slot of the running task.
AtCurrent == pc # "yield" => m_nCurrent < m_nTasks /\ m_pTask[m_nCurrent] = m_pCurrent

\* A task that waits for one that has ended runs before that one is deleted:
\* it is back from Wait already, or the scan meets it first.
JoinerFirst ==
    \A j, a \in Tasks : \A x, y \in Slots :
        waitsOn[j] = a /\ m_State[a] = "Terminated" /\ m_pTask[x] = j /\ m_pTask[y] = a
        => \/ m_pCurrent = j /\ pc = "woken"
           \/ m_nCurrent < m_nTasks /\ Before(m_nCurrent, x, y)

\* The round in which GetNextTask looks at a slot.
Round(x) == IF x > m_nCurrent THEN x - m_nCurrent ELSE x - m_nCurrent + m_nTasks

LEMMA RoundScan ==
    ASSUME TypeOK, m_nCurrent < m_nTasks
    PROVE  /\ \A x \in 0 .. m_nTasks - 1 : Round(x) \in 1 .. m_nTasks /\ ScanSlot(Round(x)) = x
           /\ \A i \in 1 .. m_nTasks : ScanSlot(i) \in 0 .. m_nTasks - 1 /\ Round(ScanSlot(i)) = i
<1>1. PICK c, m : c = m_nCurrent /\ m = m_nTasks
  OBVIOUS
<1>2. c \in Nat /\ m \in Nat \ {0} /\ c < m /\ m_nCurrent < MAX_TASKS
  BY <1>1, MainFacts DEF TypeOK
<1>3. \A i : ScanSlot(i) = (c + i) % m
  BY <1>1, <1>2 DEF ScanSlot
<1>4. ASSUME NEW i \in 1 .. m
      PROVE  ScanSlot(i) = IF c + i < m THEN c + i ELSE c + i - m
  <2>1. PICK z : z = c + i
    OBVIOUS
  <2>2. CASE z < m
    <3>1. z \in 0 .. m - 1
      BY <1>2, <2>1, <2>2
    <3>2. z % m = z
      BY <1>2, <3>1, ModBelow
    <3> QED  BY <1>2, <1>3, <2>1, <2>2, <3>1, <3>2
  <2>3. CASE ~(z < m)
    <3>1. z \in m .. 2 * m - 1
      BY <1>2, <2>1, <2>3
    <3>2. z % m = z - m
      BY <1>2, <3>1, ModOnce
    <3> QED  BY <1>2, <1>3, <2>1, <2>3, <3>1, <3>2
  <2> QED  BY <2>2, <2>3
<1>5. ASSUME NEW x \in 0 .. m - 1 PROVE Round(x) \in 1 .. m /\ ScanSlot(Round(x)) = x
  <2>1. PICK r : r = Round(x)
    OBVIOUS
  <2>2. r = (IF x > c THEN x - c ELSE x - c + m) /\ r \in 1 .. m
    BY <1>1, <1>2, <2>1 DEF Round
  <2>3. ScanSlot(r) = IF c + r < m THEN c + r ELSE c + r - m
    BY <1>4, <2>2
  <2> QED  BY <1>2, <2>1, <2>2, <2>3
<1>6. ASSUME NEW i \in 1 .. m PROVE ScanSlot(i) \in 0 .. m - 1 /\ Round(ScanSlot(i)) = i
  <2>1. PICK s : s = ScanSlot(i)
    OBVIOUS
  <2>2. s = IF c + i < m THEN c + i ELSE c + i - m
    BY <1>4, <2>1
  <2>3. s \in 0 .. m - 1
    BY <1>2, <2>2
  <2>4. Round(s) = IF s > c THEN s - c ELSE s - c + m
    BY <1>1 DEF Round
  <2> QED  BY <1>2, <2>1, <2>2, <2>3, <2>4
<1> QED  BY <1>1, <1>5, <1>6

LEMMA BeforeRound ==
    ASSUME TypeOK, m_nCurrent < m_nTasks,
           NEW x \in 0 .. m_nTasks - 1, NEW y \in 0 .. m_nTasks - 1
    PROVE  Before(m_nCurrent, x, y) <=> Round(x) < Round(y)
  BY MainFacts DEF TypeOK, Before, Round

\* A task whose end is waited for, and the one who waits: the latter is ready
\* and in the table, and the scan meets it first.
LEMMA JoinerWaits ==
    ASSUME TypeInv, TableOK, WakeInv, JoinerFirst, failed = "none", pc = "yield",
           NEW j \in Tasks, NEW a \in Tasks, waitsOn[j] = a, m_State[a] = "Terminated"
    PROVE  /\ m_State[j] = "Ready" /\ Joiner[a] = j /\ a \in Enders /\ m_nCurrent < m_nTasks
           /\ \E x, y \in 0 .. m_nTasks - 1 :
                /\ m_pTask[x] = j /\ m_pTask[y] = a
                /\ Round(x) \in Stops /\ Round(y) \in Stops /\ Round(x) < Round(y)
<1>1. m_nTasks \in 1 .. MAX_TASKS /\ MAX_TASKS \in Nat /\ a # NULL /\ a \notin Events
      /\ j # NULL /\ waitsOn \in [Tasks -> AllEvents \union {NULL}]
  BY MainFacts, SchedulerAssumption DEF TypeInv, TypeOK, SchedulerAssumption
<1>2. m_pWaitTask[a] = NULL /\ a \in Enders
  BY DEF WakeInv, Ended
<1>3. m_State[j] = "Ready" /\ Joiner[a] = j
  BY <1>1, <1>2 DEF WakeInv, Inside, Home
<1>4. Exists(j) /\ Exists(a)
  BY <1>3 DEF Exists
<1>5. PICK x, y \in 0 .. m_nTasks - 1 : m_pTask[x] = j /\ m_pTask[y] = a
  BY <1>4 DEF TableOK
<1>6. m_nCurrent < m_nTasks /\ Before(m_nCurrent, x, y)
  <2>1. x \in Slots /\ y \in Slots
    BY <1>1, <1>5 DEF Slots
  <2> QED  BY <1>5, <2>1 DEF JoinerFirst
<1>7. Round(x) < Round(y)
  BY <1>6, BeforeRound DEF TypeInv
<1>8. Round(x) \in Stops /\ Round(y) \in Stops
  <2>1. StopsAt(x) /\ StopsAt(y)
    BY <1>1, <1>3, <1>5 DEF StopsAt
  <2> QED  BY <1>6, <2>1, RoundScan DEF Stops, TypeInv
<1> QED  BY <1>2, <1>3, <1>5, <1>6, <1>7, <1>8

\* GetNextTask deletes no task that another one waits for.
LEMMA NotWaitedFor ==
    ASSUME TypeInv, TableOK, WakeInv, JoinerFirst, failed = "none", pc = "yield",
           NEW i \in 1 .. m_nTasks, FirstStop(i),
           NEW t \in Tasks, t = m_pTask[ScanSlot(i)], m_State[t] = "Terminated"
    PROVE  \A u \in Tasks : waitsOn[u] # t
<1>1. SUFFICES ASSUME NEW u \in Tasks, waitsOn[u] = t PROVE FALSE
  OBVIOUS
<1>2. m_nCurrent < m_nTasks /\ m_nTasks \in Nat
  BY <1>1, JoinerWaits, MainFacts DEF TypeInv, TypeOK
<1>3. PICK x, y \in 0 .. m_nTasks - 1 :
        /\ m_pTask[x] = u /\ m_pTask[y] = t
        /\ Round(x) \in Stops /\ Round(y) \in Stops /\ Round(x) < Round(y)
  BY <1>1, JoinerWaits
<1>4. ScanSlot(i) \in 0 .. m_nTasks - 1 /\ Round(ScanSlot(i)) = i
  BY <1>2, RoundScan DEF TypeInv
<1>5. ScanSlot(i) = y
  <2>1. ScanSlot(i) \in Slots /\ y \in Slots /\ t # NULL
    BY <1>2, <1>4, MainFacts DEF Slots, TypeInv, TypeOK
  <2> QED  BY <1>3, <2>1 DEF TableOK
<1>6. i <= Round(x) /\ Round(x) \in 1 .. m_nTasks
  BY <1>3 DEF FirstStop, Stops
<1> QED  BY <1>2, <1>3, <1>4, <1>5, <1>6

\* A Set keeps the invariant, from a task or from an interrupt, and at the end
\* of a task, whose state the caller has changed before.
LEMMA SetWake ==
    ASSUME TypeInv, WakeInv, ObjectsLive, failed = "none", NEW e \in Events, SetEvent(e, m_State),
           UNCHANGED <<waitsOn, m_pCurrent, pc>>, pc = "run" \/ e \in IrqEvents
    PROVE  WakeInv' /\ ObjectsLive'
<1> USE MainFacts
<1>a. /\ m_State \in [Tasks -> {"Ready", "Blocked", "Sleeping", "Terminated", "Unknown"}]
      /\ m_bState \in [AllEvents -> BOOLEAN]
      /\ m_pWaitTask \in [AllEvents -> Tasks \union {NULL}]
      /\ waitsOn \in [Tasks -> AllEvents \union {NULL}]
      /\ m_pCurrent \in Tasks /\ e \in AllEvents /\ e \notin Tasks
      /\ pc # "yield" => m_State[m_pCurrent] = "Ready"
  BY SchedulerAssumption DEF TypeInv, TypeOK, MainInv, SchedulerAssumption
<1>1. CASE UNCHANGED <<m_State, m_bState, m_pWaitTask, failed>>
  BY <1>1 DEF WakeInv, Registered, Inside, Ended, Entering, NoAssertion, ObjectsLive, Exists
<1>2. CASE /\ m_pWaitTask[e] = NULL /\ UNCHANGED <<m_State, m_pWaitTask, failed>>
           /\ m_bState' = [m_bState EXCEPT ![e] = TRUE]
  <2>1. \A f \in AllEvents : Registered(f)'
    BY <1>a, <1>2 DEF WakeInv, Registered
  <2>2. \A u \in Tasks : Inside(u)'
    BY <1>a, <1>2 DEF WakeInv, Inside, Entering
  <2>3. \A u \in Tasks : Ended(u)'
    BY <1>a, <1>2 DEF WakeInv, Ended
  <2>4. pc = "waiting" => ~m_bState'[waitsOn[m_pCurrent]] \/ waitsOn[m_pCurrent] \in IrqEvents
    BY <1>a, <1>2 DEF WakeInv
  <2> QED  BY <1>a, <1>2, <2>1, <2>2, <2>3, <2>4 DEF WakeInv, NoAssertion, ObjectsLive, Exists
<1>3. ASSUME m_pWaitTask[e] # NULL, m_bState' = [m_bState EXCEPT ![e] = TRUE],
             m_pWaitTask' = [m_pWaitTask EXCEPT ![e] = NULL],
             m_State' = [m_State EXCEPT ![m_pWaitTask[e]] = "Ready"],
             m_State[m_pWaitTask[e]] = "Blocked", UNCHANGED failed
      PROVE  WakeInv' /\ ObjectsLive'
  <2>1. PICK t \in Tasks : t = m_pWaitTask[e]
    BY <1>a, <1>3
  <2>2. waitsOn[t] = e /\ m_State[t] = "Blocked" /\ m_State' = [m_State EXCEPT ![t] = "Ready"]
    BY <1>a, <1>3, <2>1 DEF WakeInv, Registered
  <2>3. \A f \in AllEvents : Registered(f)'
    BY <1>a, <1>3, <2>1, <2>2 DEF WakeInv, Registered
  <2>4. \A u \in Tasks : Inside(u)'
    BY <1>a, <1>3, <2>1, <2>2 DEF WakeInv, Inside, Entering
  <2>5. \A u \in Tasks : Ended(u)'
    BY <1>a, <1>3, <2>2 DEF WakeInv, Ended
  <2>6. \A u \in Tasks : m_State'[u] = "Blocked" => waitsOn'[u] # NULL
    BY <1>a, <2>2 DEF WakeInv
  <2>7. pc = "waiting" => /\ m_pWaitTask'[waitsOn[m_pCurrent]] = NULL
                          /\ ~m_bState'[waitsOn[m_pCurrent]] \/ waitsOn[m_pCurrent] \in IrqEvents
    BY <1>a, <1>3 DEF WakeInv
  <2>8. pc = "stored" => m_pWaitTask'[waitsOn[m_pCurrent]] = m_pCurrent
    BY <1>a, <1>3, <2>1, <2>2 DEF WakeInv
  <2>9. ObjectsLive'
    BY <1>a, <2>2 DEF ObjectsLive, Exists
  <2>10. NoAssertion'
    BY <1>3 DEF NoAssertion
  <2> QED  BY <2>3, <2>4, <2>5, <2>6, <2>7, <2>8, <2>9, <2>10 DEF WakeInv
<1>4. ASSUME m_pWaitTask[e] # NULL, m_bState' = [m_bState EXCEPT ![e] = TRUE],
             m_pWaitTask' = [m_pWaitTask EXCEPT ![e] = NULL], m_State' = m_State,
             m_State[m_pWaitTask[e]] # "Blocked", failed' = "WakeTask"
      PROVE  WakeInv' /\ ObjectsLive'
  <2>1. m_pWaitTask[e] = m_pCurrent /\ pc = "stored" /\ waitsOn[m_pCurrent] = e
    BY <1>a, <1>4 DEF WakeInv, Registered
  <2>2. \A f \in AllEvents : Registered(f)'
    BY <1>a, <1>4, <2>1 DEF WakeInv, Registered
  <2>3. \A u \in Tasks : Inside(u)'
    BY <1>a, <1>4, <2>1 DEF WakeInv, Inside, Entering
  <2>4. \A u \in Tasks : Ended(u)'
    BY <1>a, <1>4 DEF WakeInv, Ended
  <2> QED  BY <1>a, <1>4, <2>1, <2>2, <2>3, <2>4 DEF WakeInv, NoAssertion, ObjectsLive, Exists
<1> QED  BY <1>a, <1>1, <1>2, <1>3, <1>4 DEF SetEvent

\* The end of a task wakes the one that waits for it.
LEMMA EndWake ==
    ASSUME TypeInv, WakeInv, ObjectsLive, EndTask
    PROVE  WakeInv' /\ ObjectsLive'
<1> USE MainFacts
<1>a. /\ m_State \in [Tasks -> {"Ready", "Blocked", "Sleeping", "Terminated", "Unknown"}]
      /\ m_bState \in [AllEvents -> BOOLEAN]
      /\ m_pWaitTask \in [AllEvents -> Tasks \union {NULL}]
      /\ waitsOn \in [Tasks -> AllEvents \union {NULL}]
      /\ m_pCurrent \in Tasks /\ m_pCurrent \in AllEvents
      /\ \A u \in Tasks : u \notin Events
  BY SchedulerAssumption DEF TypeInv, TypeOK, SchedulerAssumption
<1>1. /\ failed = "none" /\ pc = "run" /\ pc' = "yield" /\ m_pCurrent \in Enders
      /\ waitsOn' = waitsOn /\ m_pCurrent' = m_pCurrent
      /\ m_State[m_pCurrent] = "Ready" /\ waitsOn[m_pCurrent] = NULL
  BY <1>a DEF EndTask, Running, running, WakeInv, TypeInv, MainInv
<1>2. ~m_bState[m_pCurrent]
  BY <1>1, <1>a DEF WakeInv, Ended
<1>3. PICK t : t = m_pWaitTask[m_pCurrent]
  OBVIOUS
<1>4. t # NULL => t \in Tasks /\ waitsOn[t] = m_pCurrent /\ t # m_pCurrent /\ m_State[t] = "Blocked"
  BY <1>1, <1>3, <1>a DEF WakeInv, Registered
<1>5. /\ m_bState' = [m_bState EXCEPT ![m_pCurrent] = TRUE]
      /\ m_pWaitTask' = [m_pWaitTask EXCEPT ![m_pCurrent] = NULL]
      /\ failed' = failed
      /\ m_State' = [u \in Tasks |-> IF u = m_pCurrent THEN "Terminated"
                                     ELSE IF u = t THEN "Ready" ELSE m_State[u]]
  BY <1>1, <1>2, <1>3, <1>4, <1>a DEF EndTask, SetEvent
<1>6. \A f \in AllEvents : Registered(f)'
  BY <1>1, <1>3, <1>4, <1>5, <1>a DEF WakeInv, Registered
<1>7. \A u \in Tasks : Inside(u)'
  BY <1>1, <1>3, <1>4, <1>5, <1>a DEF WakeInv, Inside, Entering
<1>8. \A u \in Tasks : Ended(u)'
  BY <1>1, <1>4, <1>5, <1>a DEF WakeInv, Ended
<1>9. \A u \in Tasks : m_State'[u] = "Blocked" => waitsOn'[u] # NULL
  BY <1>1, <1>5, <1>a DEF WakeInv
<1>10. ObjectsLive'
  BY <1>1, <1>5, <1>a DEF ObjectsLive, Exists
<1> QED  BY <1>1, <1>5, <1>6, <1>7, <1>8, <1>9, <1>10 DEF WakeInv, NoAssertion

\* GetNextTask keeps the invariant as well: what it deletes nobody waits for.
LEMMA NextTaskWake ==
    ASSUME TypeInv, TableOK, WakeInv, ObjectsLive, JoinerFirst, GetNextTask
    PROVE  WakeInv' /\ ObjectsLive'
<1> USE MainFacts
<1>a. /\ m_State \in [Tasks -> {"Ready", "Blocked", "Sleeping", "Terminated", "Unknown"}]
      /\ m_pWaitTask \in [AllEvents -> Tasks \union {NULL}]
      /\ waitsOn \in [Tasks -> AllEvents \union {NULL}]
      /\ m_pTask \in [Slots -> Tasks \union {NULL}]
      /\ m_nTasks \in 1 .. MAX_TASKS
      /\ failed = "none" /\ pc = "yield"
  BY DEF TypeInv, TypeOK, GetNextTask
<1>1. ASSUME Idle PROVE WakeInv' /\ ObjectsLive'
  BY <1>1, <1>a DEF Idle, WakeInv, Registered, Inside, Ended, Entering, NoAssertion, ObjectsLive,
                    Exists, objects
<1>2. ASSUME NEW i \in 1 .. m_nTasks, FirstStop(i), Switch(ScanSlot(i)) PROVE WakeInv' /\ ObjectsLive'
  <2>1. PICK t : t = m_pTask[ScanSlot(i)]
    OBVIOUS
  <2>2. ScanSlot(i) \in Slots
    BY <1>a, ScanSlotRange DEF TypeInv, Slots
  <2>3. t \in Tasks /\ m_State[t] \in {"Ready", "Sleeping"}
    BY <1>a, <1>2, <2>1, <2>2 DEF FirstStop, Stops, StopsAt, Switch
  <2>4. /\ m_State' = [m_State EXCEPT ![t] = "Ready"] /\ m_pCurrent' = t
        /\ pc' \in {"woken", "sleep", "run"}
        /\ pc' = "woken" <=> waitsOn[t] # NULL
        /\ UNCHANGED <<m_bState, m_pWaitTask, waitsOn, failed>>
    BY <1>2, <2>1 DEF Switch
  <2>5. \A f \in AllEvents : Registered(f)'
    BY <1>a, <2>3, <2>4 DEF WakeInv, Registered
  <2>6. \A u \in Tasks : Inside(u)'
    BY <1>a, <2>3, <2>4 DEF WakeInv, Inside, Entering, Home
  <2>7. \A u \in Tasks : Ended(u)'
    BY <1>a, <2>3, <2>4 DEF WakeInv, Ended
  <2>8. \A u \in Tasks : m_State'[u] = "Blocked" => waitsOn'[u] # NULL
    BY <1>a, <2>3, <2>4 DEF WakeInv
  <2>9. ObjectsLive'
    BY <1>a, <2>4 DEF ObjectsLive, Exists
  <2> QED  BY <1>a, <2>4, <2>5, <2>6, <2>7, <2>8, <2>9 DEF WakeInv, NoAssertion
<1>3. ASSUME NEW i \in 1 .. m_nTasks, FirstStop(i), Reap(ScanSlot(i)) PROVE WakeInv' /\ ObjectsLive'
  <2>1. PICK t : t = m_pTask[ScanSlot(i)]
    OBVIOUS
  <2>2. ScanSlot(i) \in Slots
    BY <1>a, ScanSlotRange DEF TypeInv, Slots
  <2>3. t \in Tasks /\ m_State[t] = "Terminated"
    BY <1>a, <1>3, <2>1, <2>2 DEF FirstStop, Stops, StopsAt, Reap
  <2>4. m_pWaitTask[t] = NULL
    BY <2>3 DEF WakeInv, Ended
  <2>5. /\ m_State' = [m_State EXCEPT ![t] = "Unknown"] /\ failed' = failed
        /\ UNCHANGED <<m_bState, m_pWaitTask, waitsOn, m_pCurrent, pc>>
    BY <1>3, <2>1, <2>4 DEF Reap
  <2>6. \A u \in Tasks : waitsOn[u] # t
    BY <1>3, <1>a, <2>1, <2>3, NotWaitedFor
  <2>7. \A f \in AllEvents : Registered(f)'
    BY <1>a, <2>3, <2>5 DEF WakeInv, Registered
  <2>8. \A u \in Tasks : Inside(u)'
    BY <1>a, <2>3, <2>5 DEF WakeInv, Inside, Entering, Home
  <2>9. \A u \in Tasks : Ended(u)'
    BY <1>a, <2>3, <2>5 DEF WakeInv, Ended
  <2>10. \A u \in Tasks : m_State'[u] = "Blocked" => waitsOn'[u] # NULL
    BY <1>a, <2>3, <2>5 DEF WakeInv
  <2>11. ObjectsLive'
    BY <1>a, <2>5, <2>6 DEF ObjectsLive, Exists
  <2> QED  BY <1>a, <2>5, <2>7, <2>8, <2>9, <2>10, <2>11 DEF WakeInv, NoAssertion
<1> QED  BY <1>1, <1>2, <1>3 DEF GetNextTask

LEMMA StepWake ==
    TypeInv /\ TableOK /\ WakeInv /\ ObjectsLive /\ JoinerFirst /\ [Next]_vars => WakeInv' /\ ObjectsLive'
<1> SUFFICES ASSUME TypeInv, TableOK, WakeInv, ObjectsLive, JoinerFirst, [Next]_vars PROVE WakeInv' /\ ObjectsLive'
  OBVIOUS
<1> USE MainFacts
<1>a. /\ m_State \in [Tasks -> {"Ready", "Blocked", "Sleeping", "Terminated", "Unknown"}]
      /\ m_bState \in [AllEvents -> BOOLEAN]
      /\ m_pWaitTask \in [AllEvents -> Tasks \union {NULL}]
      /\ waitsOn \in [Tasks -> AllEvents \union {NULL}]
      /\ m_pTask \in [Slots -> Tasks \union {NULL}]
      /\ m_pCurrent \in Tasks /\ m_nTasks \in 1 .. MAX_TASKS
      /\ pc \in {"run", "waiting", "stored", "sleep", "yield", "woken"}
      /\ pc # "yield" => m_State[m_pCurrent] = "Ready"
  BY DEF TypeInv, TypeOK, MainInv
<1>b. AllEvents = Events \union Tasks /\ Events \intersect Tasks = {}
  BY SchedulerAssumption DEF AllEvents, SchedulerAssumption
<1>1. ASSUME NEW t \in Tasks, NewTask(t) PROVE WakeInv' /\ ObjectsLive'
  <2>1. /\ failed = "none" /\ pc = "run" /\ m_State[t] = "Unknown"
        /\ m_State' = [m_State EXCEPT ![t] = "Ready"]
        /\ m_bState' = [m_bState EXCEPT ![t] = FALSE]
        /\ m_pWaitTask' = [m_pWaitTask EXCEPT ![t] = NULL]
        /\ waitsOn' = [waitsOn EXCEPT ![t] = NULL]
        /\ m_pCurrent' = m_pCurrent /\ pc' = pc /\ failed' \in {"none", "limit"}
    BY <1>1 DEF NewTask, Running, Exists, AddTask, running
  <2>2. waitsOn[t] = NULL /\ \A u \in Tasks : waitsOn[u] # t
    BY <2>1 DEF WakeInv, Inside, ObjectsLive, Exists
  <2>3. m_pWaitTask[t] = NULL
    BY <1>a, <2>2 DEF WakeInv, Registered
  <2>4. waitsOn' = waitsOn /\ m_pWaitTask' = m_pWaitTask
    BY <1>a, <2>1, <2>2, <2>3
  <2>5. \A e \in AllEvents : Registered(e)'
    BY <1>a, <2>1, <2>2, <2>4 DEF WakeInv, Registered
  <2>6. \A u \in Tasks : Inside(u)'
    BY <1>a, <2>1, <2>2, <2>4 DEF WakeInv, Inside, Entering
  <2>7. \A u \in Tasks : Ended(u)'
    BY <1>a, <2>1 DEF WakeInv, Ended
  <2>8. \A u \in Tasks : m_State'[u] = "Blocked" => waitsOn'[u] # NULL
    BY <1>a, <2>1, <2>4 DEF WakeInv
  <2>9. ObjectsLive'
    BY <1>a, <2>1, <2>4 DEF ObjectsLive, Exists
  <2> QED  BY <2>1, <2>4, <2>5, <2>6, <2>7, <2>8, <2>9 DEF WakeInv, NoAssertion
<1>2. CASE EndTask
  BY <1>2, EndWake
<1>3. ASSUME NEW e \in Events, Set(e) \/ (e \in IrqEvents /\ InterruptSet(e))
      PROVE  WakeInv' /\ ObjectsLive'
  <2>1. /\ failed = "none" /\ SetEvent(e, m_State) /\ UNCHANGED <<waitsOn, m_pCurrent, pc>>
        /\ pc = "run" \/ e \in IrqEvents
    BY <1>3 DEF Set, InterruptSet, Running, running
  <2> QED  BY <2>1, SetWake
<1>4. ASSUME NEW e \in Events, Clear(e) PROVE WakeInv' /\ ObjectsLive'
  <2>1. /\ failed = "none" /\ pc = "run" /\ m_pCurrent = Owner[e] /\ waitsOn[m_pCurrent] = NULL
        /\ m_bState' = [m_bState EXCEPT ![e] = FALSE]
        /\ UNCHANGED <<m_State, m_pWaitTask, waitsOn, m_pCurrent, pc, failed>>
    BY <1>4 DEF Clear, Running, running, WakeInv
  <2>2. \A f \in AllEvents : Registered(f)'
    BY <1>a, <2>1 DEF WakeInv, Registered
  <2>3. \A u \in Tasks : waitsOn[u] # e
    BY <1>a, <1>b, <2>1 DEF WakeInv, Inside, Home
  <2>4. \A u \in Tasks : Inside(u)'
    BY <1>a, <1>b, <2>1, <2>3 DEF WakeInv, Inside, Entering
  <2>5. \A u \in Tasks : Ended(u)'
    BY <1>a, <1>b, <2>1 DEF WakeInv, Ended
  <2> QED  BY <2>1, <2>2, <2>4, <2>5 DEF WakeInv, NoAssertion, ObjectsLive, Exists
<1>5. ASSUME NEW e \in AllEvents, Wait(e) PROVE WakeInv' /\ ObjectsLive'
  <2>1. /\ failed = "none" /\ pc = "run" /\ ~m_bState[e]
        /\ Home(e, m_pCurrent) /\ (e \in Tasks => Exists(e))
        /\ UNCHANGED <<m_State, m_bState, m_pWaitTask, m_pCurrent>>
        /\ waitsOn[m_pCurrent] = NULL /\ m_State[m_pCurrent] = "Ready"
    BY <1>a, <1>b, <1>5 DEF Wait, MayWait, Running, running, WakeInv, Home
  <2>2. m_pWaitTask[e] = NULL
    BY <1>a, <1>b, <2>1 DEF WakeInv, Registered, Inside, Home
  <2>3. /\ pc' = "waiting" /\ failed' = failed
        /\ waitsOn' = [waitsOn EXCEPT ![m_pCurrent] = e]
    BY <1>5, <2>2 DEF Wait
  <2>4. \A f \in AllEvents : Registered(f)'
    BY <1>a, <2>1, <2>2, <2>3 DEF WakeInv, Registered
  <2>5. \A u \in Tasks : Inside(u)'
    BY <1>a, <2>1, <2>3 DEF WakeInv, Inside, Entering, Home
  <2>6. \A u \in Tasks : Ended(u)'
    BY <2>1 DEF WakeInv, Ended
  <2>7. ObjectsLive'
    BY <1>a, <2>1, <2>3 DEF ObjectsLive, Exists
  <2>8. \A u \in Tasks : m_State'[u] = "Blocked" => waitsOn'[u] # NULL
    BY <1>a, <2>1, <2>3 DEF WakeInv
  <2>9. waitsOn'[m_pCurrent'] = e /\ e # NULL
    BY <1>a, <1>b, <2>1, <2>3
  <2> QED  BY <2>1, <2>2, <2>3, <2>4, <2>5, <2>6, <2>7, <2>8, <2>9 DEF WakeInv, NoAssertion
<1>6. ASSUME BlockStore PROVE WakeInv' /\ ObjectsLive'
  <2>1. PICK e : e = waitsOn[m_pCurrent]
    OBVIOUS
  <2>2. /\ failed = "none" /\ pc = "waiting" /\ pc' = "stored"
        /\ m_pWaitTask' = [m_pWaitTask EXCEPT ![e] = m_pCurrent]
        /\ UNCHANGED <<m_State, m_bState, waitsOn, m_pCurrent, failed>>
    BY <1>6, <2>1 DEF BlockStore, running
  <2>3. e \in AllEvents /\ (~m_bState[e] \/ e \in IrqEvents) /\ m_pWaitTask[e] = NULL
    BY <1>a, <2>1, <2>2 DEF WakeInv
  <2>4. \A f \in AllEvents : Registered(f)'
    BY <1>a, <2>1, <2>2, <2>3 DEF WakeInv, Registered
  <2>5. \A u \in Tasks : Inside(u)'
    BY <1>a, <2>1, <2>2, <2>3 DEF WakeInv, Inside, Entering, Home
  <2>6. \A u \in Tasks : Ended(u)'
    <3>1. m_State[m_pCurrent] = "Ready" /\ Inside(m_pCurrent) /\ Home(e, m_pCurrent)
      BY <1>a, <2>1, <2>2, <2>3 DEF WakeInv, Inside
    <3>2. e \in Tasks => m_State[e] # "Terminated"
      BY <1>a, <1>b, <2>3 DEF WakeInv, Ended
    <3> QED  BY <1>a, <2>2, <2>3, <3>2 DEF WakeInv, Ended
  <2> QED  BY <1>a, <2>1, <2>2, <2>3, <2>4, <2>5, <2>6 DEF WakeInv, NoAssertion, ObjectsLive, Exists
<1>7. ASSUME BlockState PROVE WakeInv' /\ ObjectsLive'
  <2>1. /\ failed = "none" /\ pc = "stored" /\ pc' = "yield" /\ m_State[m_pCurrent] = "Ready"
        /\ m_State' = [m_State EXCEPT ![m_pCurrent] = "Blocked"]
        /\ UNCHANGED <<m_bState, m_pWaitTask, waitsOn, m_pCurrent, failed>>
    BY <1>a, <1>7 DEF BlockState, running
  <2>2. waitsOn[m_pCurrent] # NULL /\ m_pWaitTask[waitsOn[m_pCurrent]] = m_pCurrent
    BY <2>1 DEF WakeInv
  <2>3. \A f \in AllEvents : Registered(f)'
    BY <1>a, <2>1 DEF WakeInv, Registered
  <2>4. \A u \in Tasks : Inside(u)'
    BY <1>a, <2>1, <2>2 DEF WakeInv, Inside, Entering
  <2>5. \A u \in Tasks : Ended(u)'
    BY <1>a, <2>1 DEF WakeInv, Ended
  <2>6. \A u \in Tasks : m_State'[u] = "Blocked" => waitsOn'[u] # NULL
    BY <1>a, <2>1, <2>2 DEF WakeInv
  <2>7. ObjectsLive'
    BY <1>a, <2>1 DEF ObjectsLive, Exists
  <2> QED  BY <2>1, <2>3, <2>4, <2>5, <2>6, <2>7 DEF WakeInv, NoAssertion
<1>8. ASSUME WaitReturns PROVE WakeInv' /\ ObjectsLive'
  <2>1. PICK e : e = waitsOn[m_pCurrent]
    OBVIOUS
  <2>2. failed = "none" /\ pc = "woken" /\ m_State[m_pCurrent] = "Ready"
        /\ UNCHANGED <<m_State, m_bState, m_pWaitTask, m_pCurrent>>
    BY <1>a, <1>8 DEF WaitReturns, running
  <2>3. e \in AllEvents /\ (e \in Tasks => Exists(e)) /\ m_bState[e]
    BY <1>a, <1>b, <2>1, <2>2 DEF WakeInv, Inside, Entering, ObjectsLive
  <2>4. waitsOn' = [waitsOn EXCEPT ![m_pCurrent] = NULL] /\ pc' = "run" /\ failed' = failed
    BY <1>8, <2>1, <2>3 DEF WaitReturns
  <2>5. \A f \in AllEvents : Registered(f)'
    BY <1>a, <2>1, <2>2, <2>3, <2>4 DEF WakeInv, Registered
  <2>6. \A u \in Tasks : Inside(u)'
    BY <1>a, <2>2, <2>4 DEF WakeInv, Inside, Entering, Home
  <2>7. \A u \in Tasks : Ended(u)'
    BY <2>2 DEF WakeInv, Ended
  <2>8. \A u \in Tasks : m_State'[u] = "Blocked" => waitsOn'[u] # NULL
    BY <1>a, <2>2, <2>4 DEF WakeInv
  <2>9. ObjectsLive'
    BY <1>a, <2>2, <2>4 DEF ObjectsLive, Exists
  <2> QED  BY <1>a, <2>2, <2>4, <2>5, <2>6, <2>7, <2>8, <2>9 DEF WakeInv, NoAssertion
<1>9. ASSUME NEW n \in 1 .. MaxSleep, Sleep(n) PROVE WakeInv' /\ ObjectsLive'
  BY <1>9 DEF Sleep, Running, WakeInv, Registered, Inside, Ended, Entering, NoAssertion, ObjectsLive,
              Exists, objects, running
<1>10. ASSUME usSleep PROVE WakeInv' /\ ObjectsLive'
  <2>1. /\ failed = "none" /\ pc = "sleep" /\ pc' = "yield"
        /\ m_State' = [m_State EXCEPT ![m_pCurrent] = "Sleeping"]
        /\ UNCHANGED <<m_bState, m_pWaitTask, waitsOn, m_pCurrent, failed>>
        /\ waitsOn[m_pCurrent] = NULL /\ m_State[m_pCurrent] = "Ready"
    BY <1>a, <1>10 DEF usSleep, running, WakeInv
  <2>2. \A f \in AllEvents : Registered(f)'
    BY <1>a, <2>1 DEF WakeInv, Registered
  <2>3. \A u \in Tasks : Inside(u)'
    BY <1>a, <2>1 DEF WakeInv, Inside, Entering
  <2>4. \A u \in Tasks : Ended(u)'
    BY <1>a, <2>1 DEF WakeInv, Ended
  <2>5. \A u \in Tasks : m_State'[u] = "Blocked" => waitsOn'[u] # NULL
    BY <1>a, <2>1 DEF WakeInv
  <2>6. ObjectsLive'
    BY <1>a, <2>1 DEF ObjectsLive, Exists
  <2> QED  BY <2>1, <2>2, <2>3, <2>4, <2>5, <2>6 DEF WakeInv, NoAssertion
<1>11. ASSUME Tick PROVE WakeInv' /\ ObjectsLive'
  BY <1>11 DEF Tick, WakeInv, Registered, Inside, Ended, Entering, NoAssertion, ObjectsLive, Exists,
               objects, running
<1>12. ASSUME Yield PROVE WakeInv' /\ ObjectsLive'
  BY <1>a, <1>12 DEF Yield, Running, WakeInv, Registered, Inside, Ended, Entering, NoAssertion,
               ObjectsLive, Exists, objects, running
<1>13. CASE GetNextTask
  BY <1>13, NextTaskWake
<1>14. CASE UNCHANGED vars
  BY <1>14 DEF vars, objects, running, WakeInv, Registered, Inside, Ended, Entering, NoAssertion,
               ObjectsLive, Exists
<1> QED
  BY <1>1, <1>2, <1>3, <1>4, <1>5, <1>6, <1>7, <1>8, <1>9, <1>10, <1>11, <1>12, <1>13, <1>14
  DEF Next

-----------------------------------------------------------------------------
(* The order of the scan                                                   *)

\* Steps that move no task, end none, and take none out of Wait.
LEMMA JoinKept ==
    ASSUME AtCurrent, JoinerFirst, UNCHANGED <<m_pTask, m_nTasks, m_nCurrent, m_pCurrent, waitsOn>>,
           pc' = "woken" <=> pc = "woken", pc' # "yield" => pc # "yield",
           \A t \in Tasks : m_State'[t] = "Terminated" => m_State[t] = "Terminated"
    PROVE  AtCurrent' /\ JoinerFirst'
<1>1. AtCurrent'
  BY DEF AtCurrent
<1>2. JoinerFirst'
  BY DEF JoinerFirst, Before
<1> QED  BY <1>1, <1>2

LEMMA NextTaskJoin ==
    ASSUME ~overtaken', TypeInv, TableOK, WakeInv, AtCurrent, JoinerFirst, GetNextTask
    PROVE  AtCurrent' /\ JoinerFirst'
<1> USE MainFacts
<1>a. /\ m_State \in [Tasks -> {"Ready", "Blocked", "Sleeping", "Terminated", "Unknown"}]
      /\ m_pTask \in [Slots -> Tasks \union {NULL}]
      /\ m_nTasks \in 1 .. MAX_TASKS
      /\ failed = "none" /\ pc = "yield"
  BY DEF TypeInv, TypeOK, GetNextTask
<1>1. ASSUME Idle PROVE AtCurrent' /\ JoinerFirst'
  <2>1. /\ Stops = {} /\ pc' = "yield" /\ UNCHANGED <<m_State, m_pTask, waitsOn>>
    BY <1>1, <1>a DEF Idle, objects, table
  <2>2. \A j, a \in Tasks : ~(waitsOn[j] = a /\ m_State[a] = "Terminated")
    BY <1>a, <2>1, JoinerWaits
  <2> QED  BY <2>1, <2>2 DEF AtCurrent, JoinerFirst
<1>2. ASSUME NEW i \in 1 .. m_nTasks, FirstStop(i), Switch(ScanSlot(i)) PROVE AtCurrent' /\ JoinerFirst'
  <2>1. PICK s : s = ScanSlot(i)
    OBVIOUS
  <2>2. PICK t : t = m_pTask[s]
    OBVIOUS
  <2>3. s \in Slots /\ s \in 0 .. m_nTasks - 1
    BY <1>a, <2>1, ScanSlotRange DEF TypeInv, Slots
  <2>4. t \in Tasks /\ m_State[t] # "Terminated"
    BY <1>a, <1>2, <2>1, <2>2, <2>3 DEF FirstStop, Stops, StopsAt, Switch
  <2>5. /\ m_State' = [m_State EXCEPT ![t] = "Ready"] /\ m_nCurrent' = s /\ m_pCurrent' = t
        /\ waitsOn[t] # NULL => pc' = "woken"
        /\ UNCHANGED <<waitsOn, m_pTask, m_nTasks>>
    BY <1>2, <2>1, <2>2 DEF Switch, table
  <2>6. AtCurrent'
    BY <1>a, <2>2, <2>3, <2>5 DEF AtCurrent
  <2>7. ASSUME NEW j \in Tasks, NEW a \in Tasks, NEW x \in Slots, NEW y \in Slots,
               waitsOn[j] = a, m_State'[a] = "Terminated", m_pTask[x] = j, m_pTask[y] = a, t # j
        PROVE  Before(s, x, y)
    <3>1. m_State[a] = "Terminated"
      BY <1>a, <2>4, <2>5, <2>7
    <3>2. m_nCurrent < m_nTasks
      BY <1>a, <2>7, <3>1, JoinerWaits
    <3>3. PICK p, q \in 0 .. m_nTasks - 1 :
            /\ m_pTask[p] = j /\ m_pTask[q] = a
            /\ Round(p) \in Stops /\ Round(q) \in Stops /\ Round(p) < Round(q)
      BY <1>a, <2>7, <3>1, JoinerWaits
    <3>4. p = x /\ q = y
      <4>1. p \in Slots /\ q \in Slots /\ j # NULL /\ a # NULL
        BY <1>a, <3>3 DEF Slots
      <4> QED  BY <2>7, <3>3, <4>1 DEF TableOK
    <3>5. i <= Round(x) /\ Round(x) \in 1 .. m_nTasks
      BY <1>2, <3>3, <3>4 DEF FirstStop, Stops
    <3>6. Round(s) = i
      BY <2>1, <3>2, RoundScan DEF TypeInv
    <3>7. Round(s) < Round(x) /\ Round(x) < Round(y)
      <4>1. ScanSlot(Round(x)) = x
        BY <3>2, <3>3, <3>4, RoundScan DEF TypeInv
      <4>2. Round(x) # i
        BY <2>1, <2>2, <2>7, <4>1
      <4> QED  BY <1>a, <3>3, <3>4, <3>5, <3>6, <4>2
    <3>8. x \in 0 .. m_nTasks - 1 /\ y \in 0 .. m_nTasks - 1
      BY <3>3, <3>4
    <3> QED  BY <1>a, <2>3, <3>2, <3>7, <3>8 DEF Round, Before, TypeInv, TypeOK
  <2>8. ASSUME NEW j \in Tasks, waitsOn[j] \in Tasks, t = j PROVE pc' = "woken"
    BY <2>5, <2>8
  <2>9. JoinerFirst'
    BY <1>a, <2>3, <2>5, <2>7, <2>8 DEF JoinerFirst
  <2> QED  BY <2>6, <2>9
<1>3. ASSUME NEW i \in 1 .. m_nTasks, FirstStop(i), Reap(ScanSlot(i)) PROVE AtCurrent' /\ JoinerFirst'
  <2>1. PICK t : t = m_pTask[ScanSlot(i)]
    OBVIOUS
  <2>2. ScanSlot(i) \in Slots
    BY <1>a, ScanSlotRange DEF TypeInv, Slots
  <2>3. t \in Tasks /\ m_State[t] = "Terminated"
    BY <1>a, <1>3, <2>1, <2>2 DEF FirstStop, Stops, StopsAt, Reap
  <2>4. m_State' = [m_State EXCEPT ![t] = "Unknown"] /\ UNCHANGED <<waitsOn, pc>>
    BY <1>3, <2>1 DEF Reap
  <2>5. ASSUME NEW j \in Tasks, NEW a \in Tasks, waitsOn[j] = a, m_State'[a] = "Terminated"
        PROVE  FALSE
    <3>1. a # t /\ m_State[a] = "Terminated"
      BY <1>a, <2>3, <2>4, <2>5
    <3>2. ~Overtakes(t)
      BY <1>3, <2>1 DEF Reap
    <3> QED  BY <2>3, <2>5, <3>1, <3>2 DEF Overtakes
  <2>6. AtCurrent'
    BY <1>a, <2>4 DEF AtCurrent
  <2> QED  BY <2>4, <2>5, <2>6 DEF JoinerFirst
<1> QED  BY <1>1, <1>2, <1>3 DEF GetNextTask

LEMMA StepJoin ==
    ~overtaken' /\ TypeInv /\ TableOK /\ WakeInv /\ AtCurrent /\ JoinerFirst /\ [Next]_vars
        => AtCurrent' /\ JoinerFirst'
<1> SUFFICES ASSUME ~overtaken', TypeInv, TableOK, WakeInv, AtCurrent, JoinerFirst, [Next]_vars
             PROVE  AtCurrent' /\ JoinerFirst'
  OBVIOUS
<1> USE MainFacts
<1>a. /\ m_State \in [Tasks -> {"Ready", "Blocked", "Sleeping", "Terminated", "Unknown"}]
      /\ waitsOn \in [Tasks -> AllEvents \union {NULL}]
      /\ m_pWaitTask \in [AllEvents -> Tasks \union {NULL}]
      /\ m_pTask \in [Slots -> Tasks \union {NULL}]
      /\ m_pCurrent \in Tasks /\ m_nTasks \in 1 .. MAX_TASKS /\ m_nCurrent \in 0 .. MAX_TASKS
      /\ pc # "yield" => m_State[m_pCurrent] = "Ready"
  BY DEF TypeInv, TypeOK, MainInv
<1>1. ASSUME NEW t \in Tasks, NewTask(t) PROVE AtCurrent' /\ JoinerFirst'
  <2>1. /\ pc = "run" /\ pc' = "run" /\ m_State[t] = "Unknown"
        /\ m_State' = [m_State EXCEPT ![t] = "Ready"]
        /\ waitsOn' = [waitsOn EXCEPT ![t] = NULL]
        /\ m_pCurrent' = m_pCurrent /\ m_nCurrent' = m_nCurrent
    BY <1>1 DEF NewTask, Running, Exists, running
  <2>2. m_nCurrent < m_nTasks /\ m_nCurrent \in Slots /\ m_pTask[m_nCurrent] = m_pCurrent
    BY <1>a, <2>1 DEF AtCurrent, Slots
  <2>3. /\ m_nTasks <= m_nTasks' /\ m_nTasks' \in Nat
        /\ m_pTask'[m_nCurrent] = m_pCurrent
        /\ \A x \in Slots : m_pTask'[x] \in {m_pTask[x], t}
    <3>1. ASSUME NEW i \in FreeSlots, m_pTask' = [m_pTask EXCEPT ![i] = t], m_nTasks' = m_nTasks
          PROVE  m_pTask'[m_nCurrent] = m_pCurrent /\ \A x \in Slots : m_pTask'[x] \in {m_pTask[x], t}
      BY <1>a, <2>2, <3>1 DEF FreeSlots
    <3>2. CASE m_pTask' = [m_pTask EXCEPT ![m_nTasks] = t] /\ m_nTasks' = m_nTasks + 1
      BY <1>a, <2>2, <3>2
    <3>3. CASE UNCHANGED table
      BY <1>a, <2>2, <3>3 DEF table
    <3> QED  BY <1>1, <1>a, <3>1, <3>2, <3>3 DEF NewTask, AddTask
  <2>4. AtCurrent'
    BY <1>a, <2>1, <2>2, <2>3 DEF AtCurrent
  <2>5. ASSUME NEW j \in Tasks, NEW a \in Tasks, NEW x \in Slots, NEW y \in Slots,
               waitsOn'[j] = a, m_State'[a] = "Terminated", m_pTask'[x] = j, m_pTask'[y] = a
        PROVE  m_nCurrent < m_nTasks' /\ Before(m_nCurrent, x, y)
    <3>1. j # t /\ a # t /\ waitsOn[j] = a /\ m_State[a] = "Terminated"
      BY <1>a, <2>1, <2>5
    <3>2. m_pTask[x] = j /\ m_pTask[y] = a
      BY <2>3, <2>5, <3>1
    <3>3. Before(m_nCurrent, x, y)
      BY <2>1, <3>1, <3>2 DEF JoinerFirst
    <3> QED  BY <1>a, <2>2, <2>3, <3>3
  <2> QED  BY <2>1, <2>4, <2>5 DEF JoinerFirst
<1>2. ASSUME EndTask PROVE AtCurrent' /\ JoinerFirst'
  <2>1. /\ pc = "run" /\ pc' = "yield" /\ waitsOn[m_pCurrent] = NULL
        /\ UNCHANGED <<waitsOn, m_pTask, m_nTasks, m_nCurrent, m_pCurrent>>
        /\ \A u \in Tasks : m_State'[u] = "Terminated" => u = m_pCurrent \/ m_State[u] = "Terminated"
    BY <1>2, <1>a DEF EndTask, SetEvent, Running, running, table, WakeInv
  <2>2. m_nCurrent < m_nTasks /\ m_nCurrent \in Slots /\ m_pTask[m_nCurrent] = m_pCurrent
    BY <1>a, <2>1 DEF AtCurrent, Slots
  <2>3. ASSUME NEW j \in Tasks, NEW a \in Tasks, NEW x \in Slots, NEW y \in Slots,
               waitsOn[j] = a, m_State'[a] = "Terminated", m_pTask[x] = j, m_pTask[y] = a
        PROVE  Before(m_nCurrent, x, y)
    <3>1. CASE m_State[a] = "Terminated"
      BY <2>1, <2>3, <3>1 DEF JoinerFirst
    <3>2. CASE a = m_pCurrent
      <4>1. y = m_nCurrent
        BY <2>2, <2>3, <3>2 DEF TableOK
      <4>2. x # y
        BY <2>1, <2>3, <3>2
      <4> QED  BY <4>1, <4>2 DEF Before, Slots
    <3> QED  BY <2>1, <2>3, <3>1, <3>2
  <2>4. AtCurrent'
    BY <2>1 DEF AtCurrent
  <2> QED  BY <2>1, <2>2, <2>3, <2>4 DEF JoinerFirst
<1>3. ASSUME NEW e \in Events, Set(e) \/ InterruptSet(e) PROVE AtCurrent' /\ JoinerFirst'
  <2>1. SetEvent(e, m_State)
        /\ UNCHANGED <<m_pTask, m_nTasks, m_nCurrent, m_pCurrent, waitsOn, pc>>
    BY <1>3 DEF Set, InterruptSet, table, running
  <2>2. \A u \in Tasks : m_State'[u] = "Terminated" => m_State[u] = "Terminated"
    BY <1>a, <2>1 DEF SetEvent
  <2> QED  BY <2>1, <2>2, JoinKept
<1>4. ASSUME NEW e \in Events, Clear(e) PROVE AtCurrent' /\ JoinerFirst'
  BY <1>4, JoinKept DEF Clear, table, running
<1>5. ASSUME NEW e \in AllEvents, Wait(e) PROVE AtCurrent' /\ JoinerFirst'
  <2>1. /\ pc = "run" /\ pc' # "yield" /\ ~m_bState[e]
        /\ UNCHANGED <<m_State, m_pTask, m_nTasks, m_nCurrent, m_pCurrent>>
        /\ waitsOn' \in {waitsOn, [waitsOn EXCEPT ![m_pCurrent] = e]}
    BY <1>5 DEF Wait, Running, table, running
  <2>2. AtCurrent'
    BY <2>1 DEF AtCurrent
  <2>3. e \in Tasks => m_State[e] # "Terminated"
    BY <2>1 DEF WakeInv, Ended
  <2>4. \A j, a \in Tasks : waitsOn'[j] = a /\ m_State[a] = "Terminated" => waitsOn[j] = a
    BY <1>a, <2>1, <2>3
  <2> QED  BY <2>1, <2>2, <2>4 DEF JoinerFirst
<1>6. CASE BlockStore
  BY <1>6, JoinKept DEF BlockStore, table, running
<1>7. CASE BlockState \/ usSleep
  <2>1. /\ m_State' \in {[m_State EXCEPT ![m_pCurrent] = "Blocked"],
                          [m_State EXCEPT ![m_pCurrent] = "Sleeping"]}
        /\ UNCHANGED <<m_pTask, m_nTasks, m_nCurrent, m_pCurrent, waitsOn>>
        /\ pc # "woken" /\ pc' = "yield"
    BY <1>7 DEF BlockState, usSleep, table, running
  <2>2. \A u \in Tasks : m_State'[u] = "Terminated" => m_State[u] = "Terminated"
    BY <1>a, <2>1
  <2> QED  BY <2>1, <2>2, JoinKept
<1>8. CASE WaitReturns
  <2>1. /\ pc = "woken" /\ UNCHANGED <<m_State, m_pTask, m_nTasks, m_nCurrent, m_pCurrent>>
        /\ \/ pc' = "run" /\ waitsOn' = [waitsOn EXCEPT ![m_pCurrent] = NULL]
           \/ pc' = pc /\ waitsOn' = waitsOn
    BY <1>8 DEF WaitReturns, table, running
  <2>2. CASE pc' = pc /\ waitsOn' = waitsOn
    BY <2>1, <2>2, JoinKept
  <2>3. CASE pc' = "run" /\ waitsOn' = [waitsOn EXCEPT ![m_pCurrent] = NULL]
    <3>1. AtCurrent'
      BY <2>1 DEF AtCurrent
    <3>2. \A j, a \in Tasks : waitsOn'[j] = a => j # m_pCurrent /\ waitsOn[j] = a
      BY <1>a, <2>3
    <3> QED  BY <2>1, <3>1, <3>2 DEF JoinerFirst
  <2> QED  BY <2>1, <2>2, <2>3
<1>9. ASSUME NEW n \in 1 .. MaxSleep, Sleep(n) PROVE AtCurrent' /\ JoinerFirst'
  BY <1>9, JoinKept DEF Sleep, Running, objects, table, running
<1>10. CASE Tick \/ Yield
  BY <1>10, JoinKept DEF Tick, Yield, Running, objects, table, running
<1>11. CASE GetNextTask
  BY <1>11, NextTaskJoin
<1>12. CASE UNCHANGED vars
  BY <1>12, JoinKept DEF vars, objects, table, running
<1> QED
  BY <1>1, <1>2, <1>3, <1>4, <1>5, <1>6, <1>7, <1>8, <1>9, <1>10, <1>11, <1>12 DEF Next

\* The whole invariant.
JoinInv == TypeInv /\ TableOK /\ WakeInv /\ ObjectsLive /\ AtCurrent /\ JoinerFirst

\* It holds until a deletion overtakes somebody.
LEMMA Joins == Spec => [](overtaken \/ JoinInv)
<1>1. Init => JoinInv
  <2> SUFFICES ASSUME Init PROVE JoinInv
    OBVIOUS
  <2>1. TypeInv /\ WakeInv /\ ObjectsLive
    BY InitType, InitWake
  <2>2. TableOK
    BY MainFacts DEF Init, TableOK, Exists, Slots
  <2>3. AtCurrent /\ JoinerFirst
    BY MainFacts DEF Init, AtCurrent, JoinerFirst
  <2> QED  BY <2>1, <2>2, <2>3 DEF JoinInv
<1>2. TypeInv /\ overtaken /\ [Next]_vars => overtaken'
  BY DEF Next, vars, table, NewTask, EndTask, Set, Clear, Wait, InterruptSet, BlockStore,
         BlockState, WaitReturns, Sleep, usSleep, Tick, Yield, GetNextTask, Idle, Switch, Reap
<1>3. ~overtaken' /\ JoinInv /\ [Next]_vars => JoinInv'
  BY StepType, StepTable, StepWake, StepJoin DEF JoinInv
<1>4. (overtaken \/ JoinInv) /\ TypeInv /\ [Next]_vars => (overtaken \/ JoinInv)'
  BY <1>2, <1>3
<1>5. Spec => []TypeInv
  BY InitType, StepType, PTL DEF Spec
<1> QED  BY <1>1, <1>4, <1>5, PTL DEF Spec

\* A blocked task is registered with the clear event it waits for, whatever
\* interrupt handlers do with other events (Wait, BlockTask, Set, WakeTask).
THEOREM NoWakeupLost == Spec => [](overtaken \/ NoLostWakeup)
<1>1. JoinInv => NoLostWakeup
  <2> SUFFICES ASSUME JoinInv, NEW t \in Tasks, m_State[t] = "Blocked", waitsOn[t] \notin IrqEvents
               PROVE  Wakeable(t)
    BY DEF NoLostWakeup
  <2>1. waitsOn[t] # NULL /\ waitsOn[t] \in AllEvents /\ m_pWaitTask[waitsOn[t]] = t /\ t # NULL
    BY MainFacts DEF JoinInv, WakeInv, Inside, TypeInv, TypeOK
  <2>2. ~m_bState[waitsOn[t]]
    BY <2>1 DEF JoinInv, WakeInv, Registered
  <2> QED  BY <2>1, <2>2 DEF Wakeable
<1> QED  BY <1>1, Joins, PTL

\* No assertion of events and tasks fails, but for the one of WakeTask, in an
\* interrupt between the two statements of BlockTask.
THEOREM NoAssertionFails == Spec => [](overtaken \/ NoAssertion)
<1>1. JoinInv => NoAssertion
  BY DEF JoinInv, WakeInv
<1> QED  BY <1>1, Joins, PTL

\* A task inside WaitForTermination has an object to return into, however many
\* tasks end, until a deletion has overtaken it (GetNextTask).
THEOREM JoinedObjectsLive == Spec => []JoinedObjectLives
<1>1. overtaken \/ JoinInv => JoinedObjectLives
  BY DEF JoinInv, ObjectsLive, JoinedObjectLives
<1> QED  BY <1>1, Joins, PTL
=============================================================================
