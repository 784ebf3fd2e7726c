------------------------------ MODULE MCConsole ------------------------------
(* Keys for small instances of the console: two printable characters, the   *)
(* two editing keys, a cursor key (ESC and a character).                     *)
EXTENDS Console

CONSTANTS x, y, ESC

CursorKeys == {<<x>>, <<NL>>, <<BS>>, <<ESC, y>>}
RawSane    == {{}, Options}
=============================================================================
