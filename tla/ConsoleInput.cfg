\* Lines of two characters, typed ahead of the reader into a queue of two.
CONSTANTS
    x = x
    y = y
    ESC = ESC
    BS = BS
    NL = NL
    Printable = {x, y}
    Control = {ESC}
    Keys <- CursorKeys
    Capacity = 2
    LD_MAXLINE = 3
    Counts = {1, 4}
    Modes <- RawSane
    MaxKeys = 3
SPECIFICATION Spec
INVARIANTS LineEdited Delivered EchoTrue OptionsApplied
PROPERTIES ReadEnds
