\* A ring of four slots; the interrupt comes between any two calls of Read.
CONSTANTS
    a = a
    b = b
    Chars = {a, b}
    Keys <- KeyStrings
    Counts = {1, 4}
    KEYB_BUF_SIZE = 4
SPECIFICATION Spec
PROPERTY ImplementsKeyQueue
