-------------------------------- MODULE Repl --------------------------------
(***************************************************************************)
(* The read-eval-print loop of luacode/repl.lua: its line editor, its      *)
(* history, and loops that are started by a line of another loop.          *)
(*                                                                         *)
(* A loop keeps its own line; the history and the position in it belong to *)
(* the module, so all loops share them.  The screen and the history        *)
(* listing change nothing of this and are left out.                        *)
(***************************************************************************)
EXTENDS Integers, Sequences, SequencesExt

CONSTANTS
    Chars,
    Number(_),      \* tonumber of a line; 0 if it is no number.  Fractions,
                    \* which no entry has either, are left out
    Calls,          \* the lines that call repl()
    Unprintable,    \* the lines whose result print cannot show
    hmax,           \* repl_history_size or 20
    MaxLine,        \* bound: the length of a line
    MaxLoops        \* bound: how many loops run inside each other

\* The keys that are not characters, and what else happens to a loop.
OtherKeys == {"left", "right", "home", "end", "backspace", "delete", "^C", "up", "down", "^R",
          "enter", "done", "quit", "repl"}

ASSUME ReplAssumption ==
    /\ hmax \in Nat \ {0} /\ MaxLine \in Nat /\ MaxLoops \in Nat
    /\ Chars \intersect OtherKeys = {}

VARIABLES
    buf, pos,      \* the line of the innermost loop, and its cursor
    hist, hpos,    \* the history, its last entry the line not yet executed
    outer,         \* the lines that the loops around are executing
    mode,          \* "edit", "run", "ended", or "failed": stopped by an error
                   \* with hpos outside the history, not followed further
    key            \* the last key, or what else has happened

vars == <<buf, pos, hist, hpos, outer, mode, key>>

Modes == {"edit", "run", "ended", "failed"}
Keys  == Chars \union OtherKeys

\* buf:sub(i, j)
sub(i, j) == SubSeq(buf, i, j)

\* The cursor is in the line or just behind it, and the position in the
\* history is one of its entries, of which there are at most hmax and the
\* line not yet executed: until ^R is used for an entry that is not there,
\* which stores its number all the same.
TypeOK ==
    /\ buf \in Seq(Chars) /\ pos \in 1 .. Len(buf) + 1
    /\ hist \in Seq(Seq(Chars)) /\ Len(hist) \in 1 .. hmax + 1
    /\ hpos \in IF mode = "failed" THEN Len(hist) + 1 .. hmax - 1 ELSE 1 .. Len(hist)
    /\ outer \in Seq(Seq(Chars))
    /\ mode \in Modes /\ key \in Keys

Init ==
    /\ buf = <<>> /\ pos = 1
    /\ hist = <<<<>>>> /\ hpos = 1
    /\ outer = <<>> /\ mode = "edit" /\ key = "repl"

-----------------------------------------------------------------------------
(* Keys that edit the line                                                 *)

Edit(k) == mode = "edit" /\ key' = k /\ UNCHANGED <<hist, hpos, outer, mode>>

\* A plausible slip: in front of the line is taken for behind it.
TypeAppended(c) ==
    /\ Edit(c) /\ Len(buf) < MaxLine
    /\ buf' = IF pos > Len(buf) \/ pos = 1 THEN buf \o <<c>>
              ELSE sub(1, pos - 1) \o <<c>> \o sub(pos, Len(buf))
    /\ pos' = pos + 1

Type(c) ==
    /\ Edit(c) /\ Len(buf) < MaxLine
    /\ buf' = IF pos > Len(buf) THEN buf \o <<c>>
              ELSE IF pos = 1 THEN <<c>> \o buf
              ELSE sub(1, pos - 1) \o <<c>> \o sub(pos, Len(buf))
    /\ pos' = pos + 1

Left  == Edit("left") /\ pos' = (IF pos > 1 THEN pos - 1 ELSE pos) /\ UNCHANGED buf
Right == Edit("right") /\ pos' = (IF pos <= Len(buf) THEN pos + 1 ELSE pos) /\ UNCHANGED buf
Home  == Edit("home") /\ pos' = 1 /\ UNCHANGED buf
End   == Edit("end") /\ pos' = Len(buf) + 1 /\ UNCHANGED buf

Backspace ==
    /\ Edit("backspace")
    /\ IF pos = 1 THEN UNCHANGED <<buf, pos>>
       ELSE /\ buf' = IF pos > Len(buf) THEN sub(1, Len(buf) - 1)
                      ELSE sub(1, pos - 2) \o sub(pos, Len(buf))
            /\ pos' = pos - 1

Delete ==
    /\ Edit("delete") /\ buf # <<>>
    /\ buf' = IF pos = Len(buf) THEN sub(1, Len(buf) - 1)
              ELSE sub(1, pos - 1) \o sub(pos + 1, Len(buf))
    /\ UNCHANGED pos

Interrupt == Edit("^C") /\ buf' = <<>> /\ pos' = 1

-----------------------------------------------------------------------------
(* Keys that go through the history                                        *)

\* The line is kept in its place of the history, and the one at i comes.
Move(i) ==
    /\ hist' = [hist EXCEPT ![hpos] = buf]
    /\ hpos' = i
    /\ buf' = hist[i] /\ pos' = Len(hist[i]) + 1

Up ==
    /\ mode = "edit" /\ hpos > 1
    /\ Move(hpos - 1)
    /\ key' = "up" /\ UNCHANGED <<outer, mode>>

Down ==
    /\ mode = "edit" /\ hpos < Len(hist)
    /\ Move(hpos + 1)
    /\ key' = "down" /\ UNCHANGED <<outer, mode>>

\* ^R takes the line for the number of an entry and goes there; the loop fails
\* when there is no such entry, with a line that is nil.
Recall ==
    LET i == Number(buf) IN
    /\ mode = "edit" /\ i \in 1 .. hmax - 1
    /\ hpos' = i
    /\ IF i <= Len(hist)
       THEN buf' = hist[i] /\ pos' = Len(hist[i]) + 1 /\ UNCHANGED mode
       ELSE mode' = "failed" /\ UNCHANGED <<buf, pos>>
    /\ key' = "^R" /\ UNCHANGED <<hist, outer>>

-----------------------------------------------------------------------------
(* Lines that are executed, and the loops                                  *)

Enter ==
    /\ mode = "edit" /\ buf # <<>>
    /\ mode' = "run" /\ key' = "enter"
    /\ UNCHANGED <<buf, pos, hist, hpos, outer>>

\* An executed line goes into the history, unless it is there already as the
\* last one, and the oldest one is dropped.
Stored ==
    LET n == Len(hist) IN
    IF n = 1 \/ (n > 1 /\ hist[n - 1] # buf)
    THEN Append([hist EXCEPT ![n] = buf], <<>>) ELSE hist

Trimmed(h) == IF Len(h) > hmax + 1 THEN Tail(h) ELSE h

\* A plausible slip: the room for the next line is forgotten.
ExecutedUntrimmed ==
    /\ mode = "run" /\ mode' = "edit" /\ key' = "done"
    /\ hist' = Stored /\ hpos' = Len(hist')
    /\ buf' = Last(Stored) /\ pos' = 1
    /\ UNCHANGED outer

\* A plausible slip: the line is stored where the user was in the history.
ExecutedInPlace ==
    /\ mode = "run" /\ mode' = "edit" /\ key' = "done"
    /\ hist' = Trimmed(Append([hist EXCEPT ![hpos] = buf], <<>>)) /\ hpos' = Len(hist')
    /\ buf' = <<>> /\ pos' = 1
    /\ UNCHANGED outer

Executed ==
    /\ mode = "run" /\ mode' = "edit" /\ key' = "done"
    /\ hist' = Trimmed(Stored) /\ hpos' = Len(hist')
    /\ buf' = Last(Stored) /\ pos' = 1
    /\ UNCHANGED outer

\* The line that is executed calls repl().
Call ==
    /\ mode = "run" /\ buf \in Calls /\ Len(outer) < MaxLoops
    /\ outer' = Append(outer, buf)
    /\ buf' = <<>> /\ pos' = 1 /\ mode' = "edit" /\ key' = "repl"
    /\ UNCHANGED <<hist, hpos>>

\* A loop ends: the line of the loop around goes on, or hello.lua does.
LoopEnds ==
    /\ IF outer = <<>>
       THEN mode' = "ended" /\ buf' = <<>> /\ UNCHANGED outer
       ELSE mode' = "run" /\ buf' = Last(outer) /\ outer' = Front(outer)
    /\ pos' = 1 /\ key' = "quit"
    /\ UNCHANGED <<hist, hpos>>

Quit == mode = "edit" /\ buf = <<>> /\ LoopEnds

\* print is called outside of the pcall, with what the line has returned.
PrintFails == mode = "run" /\ buf \in Unprintable /\ LoopEnds

\* repl() from the prompt of lua_interface.
Start ==
    /\ mode = "ended" /\ mode' = "edit" /\ key' = "repl"
    /\ buf' = <<>> /\ pos' = 1
    /\ UNCHANGED <<hist, hpos, outer>>

-----------------------------------------------------------------------------
Next ==
    \/ \E c \in Chars : Type(c)
    \/ Left \/ Right \/ Home \/ End \/ Backspace \/ Delete \/ Interrupt
    \/ Up \/ Down \/ Recall
    \/ Enter \/ Executed \/ Call \/ Quit \/ PrintFails \/ Start

Spec == Init /\ [][Next]_vars

-----------------------------------------------------------------------------
(* Properties                                                              *)

\* Every key does to the text around the cursor what LineEditor says.
Editor ==
    INSTANCE LineEditor WITH left <- SubSeq(buf, 1, pos - 1),
                             right <- SubSeq(buf, pos, Len(buf))
EditsLine == Editor!Spec

\* When a line has been executed, whatever loops ran in it and wherever they
\* have left the history, it is the last one of the history, of the lines
\* before it at most the oldest is lost, and that only when there are hmax.
\* Any other step keeps all entries in their places, but for the one at hpos,
\* which Up and Down overwrite with the line that was edited there.
HistoryChanges ==
    [][LET old == Front(hist)  new == Front(hist') IN
       IF key' = "done"
       THEN \/ new = old /\ Last(new) = buf
            \/ new = Append(old, buf)
            \/ Len(old) = hmax /\ new = Append(Tail(old), buf)
       ELSE /\ DOMAIN hist' = DOMAIN hist
            /\ \A i \in DOMAIN hist :
                 hist'[i] = hist[i] \/ (i = hpos /\ key' \in {"up", "down"} /\ hist'[i] = buf)]_vars
=============================================================================
