\* All reports, one other timer that is shorter or longer than the repetition, and a keyboard that is pulled out once.
CONSTANTS
    A = A
    B = B
    ROLL = ROLL
    ctrl = ctrl
    h1 = h1
    h2 = h2
    h3 = h3
    h4 = h4
    o1 = o1
    NULL = NULL
    Handles = {h1, h2, h3, h4}
    ClockMod = 12
    REPEAT_DELAY = 3
    REPEAT_RATE = 2
    Others = {o1}
    Delays = {1, 4}
    Reports <- AllReports
    MaxRemovals = 1
SPECIFICATION Spec
SYMMETRY HandleSymmetry
INVARIANTS TypeOK HandlesFresh RepeatsHeld
PROPERTIES PressHeard Paced
