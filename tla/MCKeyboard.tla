----------------------------- MODULE MCKeyboard -----------------------------
(* A letter, a key without a character and both shift keys, on a ring of a *)
(* few slots. The letter's two characters tell the order apart.            *)
EXTENDS Keyboard

Plain   == [k \in Keys |-> IF k = "A" THEN "a" ELSE NUL]
Shifted == [k \in Keys |-> IF k = "A" THEN "A" ELSE NUL]
=============================================================================
