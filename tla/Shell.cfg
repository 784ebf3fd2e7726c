\* All network devices; a wait for the network shorter than the code's.
CONSTANTS
    Nets <- AllNets
    NetTimeout <- ShortWait
SPECIFICATION ShellSpec
INVARIANTS OneMoreLine
PROPERTIES LeftForPress
\* A failed Initialize halts, and reboot() ends the run.
CHECK_DEADLOCK FALSE
