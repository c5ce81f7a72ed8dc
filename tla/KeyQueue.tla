------------------------------ MODULE KeyQueue ------------------------------
(***************************************************************************)
(* What the keyboard driver promises its caller: a bounded first-in        *)
(* first-out queue of characters, of which a call takes the oldest, or     *)
(* answers NUL when none is waiting (kernel/include/kernel/keyboard.h).    *)
(***************************************************************************)
EXTENDS Naturals, Sequences

CONSTANTS
  Chars,     \* the characters a key press can produce
  NUL,       \* the answer of a call that found nothing
  Waiting,   \* the answer of a call that has not returned yet
  Capacity   \* how many characters can wait

VARIABLES
  queue,     \* the characters typed and not taken yet, oldest first
  answer     \* what the last call answered

vars == <<queue, answer>>

Init == queue = << >> /\ answer = NUL

(* A character arrives. A full queue loses it, which changes nothing. *)
Typed ==
  /\ Len(queue) < Capacity
  /\ \E c \in Chars : queue' = Append(queue, c)
  /\ UNCHANGED answer

Call == answer # Waiting /\ answer' = Waiting /\ UNCHANGED queue

Take ==
  /\ answer = Waiting
  /\ queue # << >>
  /\ answer' = Head(queue)
  /\ queue' = Tail(queue)

Nothing ==
  /\ answer = Waiting
  /\ queue = << >>
  /\ answer' = NUL
  /\ UNCHANGED queue

Next == Typed \/ Call \/ Take \/ Nothing

Spec == Init /\ [][Next]_vars
=============================================================================
