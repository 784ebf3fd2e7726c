------------------------------ MODULE KeyQueue ------------------------------
(***************************************************************************)
(* What the keyboard buffer promises the console: a queue of characters    *)
(* between the interrupt handler of the keyboard and the task that reads.  *)
(*                                                                         *)
(* A key puts its whole string behind what is there, as far as there is    *)
(* room, and the rest is dropped; a read takes what it asks for, or all    *)
(* there is.  Both happen at once: neither ever sees half of the other.    *)
(***************************************************************************)
EXTENDS Integers, Sequences

CONSTANTS
    Keys,       \* the strings of the keys, sequences of characters
    Counts,     \* the byte counts that readers ask for
    Capacity    \* how many characters fit

VARIABLES
    q,          \* the characters waiting, oldest first
    result      \* what the last read has returned

Smaller(m, n) == IF m <= n THEN m ELSE n

Init == q = <<>> /\ result = <<>>

Press(s) ==
    /\ q' = q \o SubSeq(s, 1, Smaller(Len(s), Capacity - Len(q)))
    /\ UNCHANGED result

Take(n) ==
    LET k == Smaller(n, Len(q)) IN
    /\ result' = SubSeq(q, 1, k)
    /\ q' = SubSeq(q, k + 1, Len(q))

\* The keyboard was removed and another one attached.
Replace == q' = <<>> /\ UNCHANGED result

Next ==
    \/ \E s \in Keys : Press(s)
    \/ \E n \in Counts : Take(n)
    \/ Replace

Spec == Init /\ [][Next]_<<q, result>>
=============================================================================
