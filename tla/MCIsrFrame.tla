---------------------------- MODULE MCIsrFrame ------------------------------
(* The keyboard, the non-maskable interrupt, exceptions with an error code   *)
(* and one without; two interrupts on the stack of a kernel_main that has    *)
(* pushed an even or an odd number of words. Bytes of addresses have two     *)
(* bits; the stubs are at the top of the address space, seven bytes apart,   *)
(* so that all three parts of an offset in a gate are used.                  *)
EXTENDS IsrFrame

MCIsrTable == [v \in 0 .. 255 |-> 61440 + 7 * v]
=============================================================================
