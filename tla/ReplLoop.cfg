\* The history: lines of two characters, three entries, a loop in a loop.
CONSTANTS
    Chars = {"2", "r"}
    Number <- NumberOf
    Calls <- CallLines
    Unprintable <- BadLines
    hmax = 3
    MaxLine = 2
    MaxLoops = 1
SPECIFICATION Spec
INVARIANTS TypeOK
PROPERTIES EditsLine HistoryChanges
\* "failed" is where the model ends.
CHECK_DEADLOCK FALSE
