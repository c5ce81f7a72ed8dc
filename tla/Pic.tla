-------------------------------- MODULE Pic --------------------------------
(***************************************************************************)
(* One 8259A interrupt controller, the hardware that irq.c programs, as    *)
(* far as irq.c uses it: edge-triggered lines, fixed priorities,           *)
(* initialisation by four command words and non-specific end of interrupt. *)
(* The module is constant-level: a controller is a record, and each        *)
(* operator gives the record after a write or an event.                    *)
(***************************************************************************)
EXTENDS Integers, FiniteSetsExt

Lines == 0 .. 7

Weights == <<1, 2, 4, 8, 16, 32, 64, 128>>

Bits(byte) == { i \in Lines : (byte \div Weights[i + 1]) % 2 = 1 }

(* icw tells which initialisation word the data port expects next. *)
Controllers ==
  [ base : 0 .. 248, imr : SUBSET Lines, irr : SUBSET Lines, isr : SUBSET Lines,
    icw  : {"icw2", "icw3", "icw4", "ready"} ]

(* As the firmware leaves it: working, every line masked. *)
Handover(base, irr) ==
  [ base |-> base, imr |-> Lines, irr |-> irr, isr |-> {}, icw |-> "ready" ]

(* A rising edge on a line is latched, also while the line is masked. *)
Edge(pic, line) == [pic EXCEPT !.irr = @ \cup {line}]

(* The unmasked requests that nothing of higher priority in service blocks. *)
Requests(pic) ==
  { i \in pic.irr \ pic.imr : pic.icw = "ready" /\ \A j \in pic.isr : i < j }

(* The processor takes a request: it moves to the in-service register. *)
Acknowledge(pic, line) == [pic EXCEPT !.irr = @ \ {line}, !.isr = @ \cup {line}]

(* The command port. Bit 4 starts an initialisation, which forgets every   *)
(* latched edge and clears the mask; otherwise 0x20 ends the service of    *)
(* the highest-priority line in service, whichever it is.                  *)
WriteCommand(pic, byte) ==
  IF 4 \in Bits(byte)
  THEN [pic EXCEPT !.icw = "icw2", !.imr = {}, !.irr = {}, !.isr = {}]
  ELSE [pic EXCEPT !.isr = IF @ = {} THEN @ ELSE @ \ {Min(@)}]

(* The data port: the initialisation words in order, then the mask. *)
WriteData(pic, byte) ==
  CASE pic.icw = "icw2" -> [pic EXCEPT !.base = byte - (byte % 8), !.icw = "icw3"]
    [] pic.icw = "icw3" -> [pic EXCEPT !.icw = "icw4"]
    [] pic.icw = "icw4" -> [pic EXCEPT !.icw = "ready"]
    [] OTHER            -> [pic EXCEPT !.imr = Bits(byte)]
=============================================================================
