\* One move of the user: an event outlives the hub it belongs to.
CONSTANTS
    NULL = NULL
    Board = board
    Hubs = {h}
    Keyboards = {k1}
    BoardPorts = 2
    HubPorts = 1
    MaxMoves = 1
    MaxFaults = 0
SPECIFICATION Spec
INVARIANTS NoEventOfDeletedHub
CHECK_DEADLOCK FALSE
