----------------------------- MODULE LineEditor -----------------------------
(***************************************************************************)
(* What the line editor of the REPL promises the user: a line with the     *)
(* cursor somewhere in it, and every key does to the text before and after *)
(* the cursor what its name says.                                          *)
(***************************************************************************)
EXTENDS Sequences, SequencesExt

CONSTANTS Chars

VARIABLES
    left, right,    \* the text before and behind the cursor
    key             \* the last key, or what else has changed the line

Init == left = <<>> /\ right = <<>> /\ key = "repl"

Type(c) == key' = c /\ left' = Append(left, c) /\ UNCHANGED right

Left ==
    /\ key' = "left"
    /\ IF left = <<>> THEN UNCHANGED <<left, right>>
       ELSE left' = Front(left) /\ right' = <<Last(left)>> \o right

Right ==
    /\ key' = "right"
    /\ IF right = <<>> THEN UNCHANGED <<left, right>>
       ELSE left' = Append(left, Head(right)) /\ right' = Tail(right)

Home == key' = "home" /\ left' = <<>> /\ right' = left \o right

End == key' = "end" /\ left' = left \o right /\ right' = <<>>

Backspace ==
    /\ key' = "backspace"
    /\ left' = IF left = <<>> THEN <<>> ELSE Front(left)
    /\ UNCHANGED right

Delete ==
    /\ key' = "delete"
    /\ right' = IF right = <<>> THEN <<>> ELSE Tail(right)
    /\ UNCHANGED left

Interrupt == key' = "^C" /\ left' = <<>> /\ right' = <<>>

\* A line of the history takes the place of this one, the cursor behind it,
\* unless there is none.
Recall ==
    /\ key' \in {"up", "down", "^R"}
    /\ \/ left' \in Seq(Chars) /\ right' = <<>>
       \/ UNCHANGED <<left, right>>

\* The line is executed; when that is over, and when a loop begins or ends,
\* there is some other line, the cursor at its beginning.
Execute == key' = "enter" /\ UNCHANGED <<left, right>>
Other   == key' \in {"done", "quit", "repl"} /\ left' = <<>> /\ right' \in Seq(Chars)

Next ==
    \/ \E c \in Chars : Type(c)
    \/ Left \/ Right \/ Home \/ End \/ Backspace \/ Delete \/ Interrupt
    \/ Recall \/ Execute \/ Other

Spec == Init /\ [][Next]_<<left, right, key>>
=============================================================================
