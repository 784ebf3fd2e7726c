\* Creation, termination and events, one of them set by an interrupt handler, the task table smaller than the number of tasks (AddTask then panics: the system stops, as it does when the assertion of WakeTask fails).
CONSTANTS
    a = a
    b = b
    c = c
    e1 = e1
    e2 = e2
    Main = main
    NULL = NULL
    Tasks = {main, a, b, c}
    Events = {e1, e2}
    MAX_TASKS = 3
    Owner <- Receivers
    Joiner <- NobodyJoins
    Enders = {a, b, c}
    IrqEvents = {e2}
    Sleepers = {}
    ClockMod = 4
    nSleepMax = 1
    MaxSleep = 0
    MaxBusy = 0
SPECIFICATION FairSpec
INVARIANTS NoLostWakeup NoAssertion TableOK
PROPERTIES ReadyRuns
CHECK_DEADLOCK FALSE
