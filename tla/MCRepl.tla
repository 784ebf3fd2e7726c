------------------------------- MODULE MCRepl -------------------------------
(* Lines of up to three characters: "1" and "2" are numbers, the line "r"    *)
(* calls repl(), and what "rr" returns cannot be printed.                    *)
EXTENDS Repl

NumberOf(s) == IF s = <<"1">> THEN 1 ELSE IF s = <<"2">> THEN 2 ELSE 0
CallLines   == {<<"r">>}
BadLines    == {<<"r", "r">>}
=============================================================================
