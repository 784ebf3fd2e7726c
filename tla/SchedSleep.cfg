\* Three tasks, two of which end; one of these sleeps and is waited for by the main task, which sleeps too.
CONSTANTS
    a = a
    b = b
    c = c
    e1 = e1
    e2 = e2
    Main = main
    NULL = NULL
    Tasks = {main, a, b}
    Events = {}
    MAX_TASKS = 3
    Owner <- Receivers
    Joiner <- MainJoinsA
    Enders = {a, b}
    IrqEvents = {}
    Sleepers = {main, a}
    ClockMod = 6
    nSleepMax = 2
    MaxSleep = 3
    MaxBusy = 1
SPECIFICATION FairSpec
INVARIANTS JoinedObjectLives
PROPERTIES NeverEarly SleepEnds
\* A joiner that has lost its object may fail its assertion: the system stops.
CHECK_DEADLOCK FALSE
