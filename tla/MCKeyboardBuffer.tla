-------------------------- MODULE MCKeyboardBuffer --------------------------
(* A ring of four slots: keys of one character and an escape sequence of    *)
(* three, single reads (GetChar) and reads of more than the ring can hold.  *)
EXTENDS KeyboardBuffer

CONSTANTS a, b

KeyStrings == {<<a>>, <<b>>, <<b, a, a>>}
=============================================================================
