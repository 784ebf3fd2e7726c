----------------------------- MODULE MCKeyboard -----------------------------
(* Reports of two keys and one modifier, in both orders, and the report of a *)
(* keyboard with more keys pressed than it can tell apart.                   *)
EXTENDS Keyboard, TLC

CONSTANTS A, B, ROLL, ctrl, h1, h2, h3, h4, o1

R(m, s) == [mods |-> m, keys |-> s]

AllReports ==
    {R({}, <<>>), R({}, <<A>>), R({ctrl}, <<B>>), R({}, <<A, B>>),
     R({ctrl}, <<B, A>>), R({}, <<ROLL, ROLL>>)}

\* Handles are only compared with each other.
HandleSymmetry == Permutations(Handles)
=============================================================================
