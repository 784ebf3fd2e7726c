\* Two entries for three hosts, two timer addresses.
CONSTANTS
    NULL = NULL
    Hosts = {h1, h2, h3}
    Handles = {t1, t2}
    ARP_MAX_ENTRIES = 2
    ARP_MAX_ATTEMPTS = 3
    MaxQueue = 2
    MaxRx = 1
SPECIFICATION Spec
INVARIANTS EntriesRight RightHost TimerRuns
PROPERTIES FailsAfterAllAttempts ResolveEnds ImplementsResolution
CHECK_DEADLOCK FALSE
