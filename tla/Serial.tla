------------------------------- MODULE Serial -------------------------------
(***************************************************************************)
(* The serial port: the writes of serial_init (serial.c), and the 16550    *)
(* they program, as far as they use it. The module is constant-level: a    *)
(* port is a record, and each operator gives the record after a write or   *)
(* an event. A byte on its way is a record of the character and of the     *)
(* settings it was given under, which become Changed if they change before *)
(* the byte is out.                                                        *)
(***************************************************************************)
EXTENDS Integers, Sequences

CONSTANTS
  Unknown,     \* settings as the firmware left them
  Changed

(* Forgets to give the data port back after setting the divisor. *)
BadSerialInit ==
  << <<1, 0>>, <<3, 128>>, <<0, 3>>, <<1, 0>>, <<3, 131>>, <<2, 199>>, <<4, 11>> >>

(* The writes, each a register and a value, in order. *)
serial_init ==
  << <<1, 0>>, <<3, 128>>, <<0, 3>>, <<1, 0>>, <<3, 3>>, <<2, 199>>, <<4, 11>> >>

(* dlab: the data register and register 1 hold the divisor;                *)
(* holding, shifting: at most one byte each.                               *)
Handover ==
  [dlab |-> FALSE, low |-> Unknown, high |-> Unknown, format |-> Unknown,
   holding |-> << >>, shifting |-> << >>]

Settings(port) == <<port.low, port.high, port.format>>

(* 38400 baud, eight bits, no parity, one stop bit. *)
Wanted == <<3, 0, 3>>

ASSUME SettingsAssumption == Unknown \notin 0 .. 255 /\ Changed # Wanted

(* Line-status bit 0x20. *)
Empty(port) == port.holding = << >>

Spoiled(bytes) == [n \in DOMAIN bytes |-> [bytes[n] EXCEPT !.settings = Changed]]

(* What a change of settings does to the bytes on their way. *)
Spoil(port, before) ==
  IF Settings(port) = Settings(before) THEN port
  ELSE [port EXCEPT !.holding = Spoiled(@), !.shifting = Spoiled(@)]

(* The setup registers: interrupts or divisor (1), FIFO (2), line (3),     *)
(* modem (4); bit 2 of the FIFO register empties the transmitter's FIFO.   *)
Outb(port, register, value) ==
  LET written ==
        CASE register = 0 -> [port EXCEPT !.low = value]
          [] register = 1 /\ port.dlab -> [port EXCEPT !.high = value]
          [] register = 2 /\ (value \div 4) % 2 = 1 -> [port EXCEPT !.holding = << >>]
          [] register = 3 -> [port EXCEPT !.dlab = value >= 128, !.format = value % 128]
          [] OTHER -> port
  IN Spoil(written, port)

(* A character written to the data register; a byte not yet taken from it  *)
(* is lost. While the register holds the divisor, the character spoils it. *)
Give(port, c) ==
  IF port.dlab THEN Outb(port, 0, Changed)
  ELSE [port EXCEPT !.holding = << [char |-> c, settings |-> Settings(port)] >>]

(* The transmitter takes the next byte, and has sent one. *)
CanShift(port) == port.holding # << >> /\ port.shifting = << >>

Shift(port) == [port EXCEPT !.shifting = port.holding, !.holding = << >>]

Sent(port) == [port EXCEPT !.shifting = << >>]

(* The character in a register, if it was given with the settings of       *)
(* serial_init.                                                            *)
Good(register) ==
  IF register # << >> /\ register[1].settings = Wanted THEN << register[1].char >> ELSE << >>
=============================================================================
