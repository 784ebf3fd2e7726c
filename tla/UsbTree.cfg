\* An external hub and two keyboards, two moves of the user, one failure.
CONSTANTS
    NULL = NULL
    Board = board
    Hubs = {h}
    Keyboards = {k1, k2}
    BoardPorts = 2
    HubPorts = 1
    MaxMoves = 2
    MaxFaults = 1
SPECIFICATION Spec
INVARIANTS TypeOK PoolsExact Watched ConsoleTrue AddressesApart
PROPERTIES Undisturbed Served
CHECK_DEADLOCK FALSE
