------------------------------ MODULE MCUsbTree ------------------------------
(* UsbTree with an external hub of one port, two keyboards and two ports on  *)
(* the board.                                                                *)
EXTENDS UsbTree
=============================================================================
