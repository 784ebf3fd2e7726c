\* Two servers, a lease of eight units; the shortest sleep is as long as all tries.
CONSTANTS
    NULL = NULL
    Servers = {s1, s2}
    TryEnds <- TwoTries
    RESTART_DELAY = 1
    MIN_SLEEP = 3
    POLL = 1
    LeaseTime = 8
    RawTimes <- AllTimes
    Width = 64
    MaxNet = 1
SPECIFICATION Spec
INVARIANT LeaseHeld
PROPERTIES HaltJustified GetsAddress
