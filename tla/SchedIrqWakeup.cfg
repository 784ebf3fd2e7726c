\* Set in interrupt context while a task enters Wait.
CONSTANTS
    a = a
    b = b
    c = c
    e1 = e1
    e2 = e2
    Main = main
    NULL = NULL
    Tasks = {main, a}
    Events = {e1}
    MAX_TASKS = 2
    Owner <- Receivers
    Joiner <- NobodyJoins
    Enders = {}
    IrqEvents = {e1}
    Sleepers = {}
    ClockMod = 4
    nSleepMax = 1
    MaxSleep = 0
    MaxBusy = 0
SPECIFICATION Spec
INVARIANTS NoLostWakeupByInterrupt
CHECK_DEADLOCK FALSE
