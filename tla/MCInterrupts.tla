---------------------------- MODULE MCInterrupts ----------------------------
(* An exception with a handler that returns, one with a handler that halts,  *)
(* a non-maskable interrupt, and one device on the second controller.        *)
EXTENDS Interrupts
=============================================================================
