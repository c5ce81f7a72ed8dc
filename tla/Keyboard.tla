------------------------------ MODULE Keyboard ------------------------------
(***************************************************************************)
(* The PS/2 keyboard driver (kernel/arch/x86_64/keyboard.c).               *)
(*                                                                         *)
(* The interrupt handler turns scancodes into characters and pushes them   *)
(* into a ring; the kernel's main loop takes them out with                 *)
(* keyboard_getchar. There is one CPU and no lock: the handler runs with   *)
(* interrupts off, so it is one atomic step, and it may run between any    *)
(* two memory accesses of keyboard_getchar, which is therefore one step    *)
(* per access.                                                             *)
(***************************************************************************)
EXTENDS Integers, Sequences

CONSTANTS
  KB_BUFFER_SIZE,            \* slots of the ring: 256 in the code
  Keys,                      \* the keys of the keyboard
  ShiftKeys,                 \* what sends the shift codes: the two shift keys, and
                             \* the extended keys, which bracket themselves in them
                             \* while Num Lock is on
  scancode_to_ascii,         \* the character of a key, or NUL
  scancode_to_ascii_shift,   \* the same while a shift key is held
  NUL,                       \* no character
  Waiting                    \* keyboard_getchar has not returned yet

ASSUME SizeAssumption == KB_BUFFER_SIZE \in Nat \ {0}

Slots == 0 .. KB_BUFFER_SIZE - 1

(* Every character the two tables hold. *)
Chars ==
  ({ scancode_to_ascii[k] : k \in Keys }
    \cup { scancode_to_ascii_shift[k] : k \in Keys }) \ {NUL}

ASSUME KeysAssumption ==
  /\ ShiftKeys \subseteq Keys
  /\ NUL # Waiting
  /\ Waiting \notin Chars

VARIABLES
  kb_buffer, kb_head, kb_tail,   \* the ring: head is written next, tail is read next
  shiftHeld,                     \* the driver's idea of the shift keys
  held,                          \* the members of ShiftKeys that are really down
  pc,                            \* where the main loop is in keyboard_getchar
  head, tail,                    \* the values of kb_head and kb_tail it has loaded
  c                              \* the character it returns

ring   == <<kb_buffer, kb_head, kb_tail>>
reader == <<pc, head, tail, c>>
vars   == <<kb_buffer, kb_head, kb_tail, shiftHeld, held, pc, head, tail, c>>

(* Variants named Bad... hold a plausible mistake; no specification uses   *)
(* one. They show which mistakes the properties below would notice.       *)
BadNextSlot(i) == i + 1

NextSlot(i) == (i + 1) % KB_BUFFER_SIZE

-----------------------------------------------------------------------------
(* The state keyboard_init leaves, before interrupts are enabled. *)
Init ==
  /\ kb_buffer = [i \in Slots |-> NUL]
  /\ kb_head = 0
  /\ kb_tail = 0
  /\ shiftHeld = FALSE
  /\ held \in SUBSET ShiftKeys
  /\ pc = "idle"
  /\ head = 0
  /\ tail = 0
  /\ c = NUL

-----------------------------------------------------------------------------
(* The interrupt side. *)

(* Overwrites the oldest character instead of dropping the newest. *)
BadPushOverwrites(ch) ==
  /\ kb_buffer' = [kb_buffer EXCEPT ![kb_head] = ch]
  /\ kb_head' = NextSlot(kb_head)
  /\ kb_tail' = IF NextSlot(kb_head) = kb_tail THEN NextSlot(kb_tail) ELSE kb_tail

(* Does not look for a full ring. *)
BadPushUnchecked(ch) ==
  /\ kb_buffer' = [kb_buffer EXCEPT ![kb_head] = ch]
  /\ kb_head' = NextSlot(kb_head)
  /\ UNCHANGED kb_tail

(* Stores into the slot after kb_head. *)
BadPushSlot(ch) ==
  \/ NextSlot(kb_head) = kb_tail /\ UNCHANGED ring
  \/ /\ NextSlot(kb_head) # kb_tail
     /\ kb_buffer' = [kb_buffer EXCEPT ![NextSlot(kb_head)] = ch]
     /\ kb_head' = NextSlot(kb_head)
     /\ UNCHANGED kb_tail

(* One slot stays empty, so that a full ring differs from an empty one; a *)
(* character that finds the ring full is dropped.                         *)
kb_buffer_push(ch) ==
  \/ /\ NextSlot(kb_head) = kb_tail
     /\ UNCHANGED ring
  \/ /\ NextSlot(kb_head) # kb_tail
     /\ kb_buffer' = [kb_buffer EXCEPT ![kb_head] = ch]
     /\ kb_head' = NextSlot(kb_head)
     /\ UNCHANGED kb_tail

CharOf(key) ==
  IF shiftHeld THEN scancode_to_ascii_shift[key] ELSE scancode_to_ascii[key]

(* Takes the release of a shift key for another press of it. *)
BadHandleScancode(key, released) ==
  \/ key \in ShiftKeys /\ shiftHeld' = TRUE /\ UNCHANGED ring
  \/ /\ key \notin ShiftKeys
     /\ released \/ CharOf(key) = NUL
     /\ UNCHANGED <<kb_buffer, kb_head, kb_tail, shiftHeld>>
  \/ /\ key \notin ShiftKeys
     /\ ~released /\ CharOf(key) # NUL
     /\ kb_buffer_push(CharOf(key))
     /\ UNCHANGED shiftHeld

(* A scancode is a key and whether its bit 7, the release bit, is set. *)
keyboard_handle_scancode(key, released) ==
  \/ /\ key \in ShiftKeys
     /\ shiftHeld' = ~released
     /\ UNCHANGED ring
  \/ /\ key \notin ShiftKeys
     /\ released \/ CharOf(key) = NUL
     /\ UNCHANGED <<kb_buffer, kb_head, kb_tail, shiftHeld>>
  \/ /\ key \notin ShiftKeys
     /\ ~released
     /\ CharOf(key) # NUL
     /\ kb_buffer_push(CharOf(key))
     /\ UNCHANGED shiftHeld

(* A key goes down, or repeats while it is down. *)
KeyDown(key) ==
  /\ keyboard_handle_scancode(key, FALSE)
  /\ held' = held \cup ({key} \cap ShiftKeys)
  /\ UNCHANGED reader

KeyUp(key) ==
  /\ key \in ShiftKeys => key \in held
  /\ keyboard_handle_scancode(key, TRUE)
  /\ held' = held \ {key}
  /\ UNCHANGED reader

-----------------------------------------------------------------------------
(* The main-loop side: keyboard_getchar, one step per access to the ring.  *)

(* kernel_main calls it in a loop, and does other work between two calls.  *)
Call ==
  /\ pc = "idle"
  /\ pc' = "called"
  /\ UNCHANGED <<kb_buffer, kb_head, kb_tail, shiftHeld, held, head, tail, c>>

(* An interrupt may move kb_head after it is loaded and before it is       *)
(* compared with kb_tail, which only this side changes.                    *)
LoadHead ==
  /\ pc = "called"
  /\ pc' = "compare"
  /\ head' = kb_head
  /\ UNCHANGED <<kb_buffer, kb_head, kb_tail, shiftHeld, held, tail, c>>

ReturnNone ==
  /\ pc = "compare"
  /\ head = kb_tail
  /\ pc' = "idle"
  /\ c' = NUL
  /\ UNCHANGED <<kb_buffer, kb_head, kb_tail, shiftHeld, held, head, tail>>

LoadTail ==
  /\ pc = "compare"
  /\ head # kb_tail
  /\ pc' = "take"
  /\ tail' = kb_tail
  /\ UNCHANGED <<kb_buffer, kb_head, kb_tail, shiftHeld, held, head, c>>

(* The ring's variables are not volatile and no barrier separates reading  *)
(* the slot from releasing it, so a build may do either first.             *)
ReadSlot ==
  /\ pc \in {"take", "released"}
  /\ c' = kb_buffer[tail]
  /\ pc' = IF pc = "take" THEN "read" ELSE "idle"
  /\ UNCHANGED <<kb_buffer, kb_head, kb_tail, shiftHeld, held, head, tail>>

BadReleaseSlot ==
  /\ pc \in {"take", "read"}
  /\ pc' = IF pc = "take" THEN "released" ELSE "idle"
  /\ UNCHANGED <<kb_buffer, kb_head, kb_tail, shiftHeld, held, head, tail, c>>

ReleaseSlot ==
  /\ pc \in {"take", "read"}
  /\ kb_tail' = NextSlot(tail)
  /\ pc' = IF pc = "take" THEN "released" ELSE "idle"
  /\ UNCHANGED <<kb_buffer, kb_head, shiftHeld, held, head, tail, c>>

Getchar == Call \/ LoadHead \/ ReturnNone \/ LoadTail \/ ReadSlot \/ ReleaseSlot

Next ==
  \/ \E key \in Keys : KeyDown(key) \/ KeyUp(key)
  \/ Getchar

(* The main loop calls keyboard_getchar for ever, and a handler returns to *)
(* it: it always takes its next step.                                      *)
Spec == Init /\ [][Next]_vars /\ WF_vars(Getchar)

-----------------------------------------------------------------------------
(* Properties. *)

(* Every variable has its type; the head and tail indexes stay inside the *)
(* ring, whatever the interleaving.                                       *)
TypeOK ==
  /\ kb_buffer \in [Slots -> Chars \cup {NUL}]
  /\ kb_head \in Slots
  /\ kb_tail \in Slots
  /\ shiftHeld \in BOOLEAN
  /\ held \in SUBSET ShiftKeys
  /\ pc \in {"idle", "called", "compare", "take", "read", "released"}
  /\ head \in Slots
  /\ tail \in Slots
  /\ c \in Chars \cup {NUL}

(* How many characters wait in the ring, and which, oldest first. *)
Pending == (kb_head - kb_tail) % KB_BUFFER_SIZE

Contents ==
  [i \in 1 .. Pending |-> kb_buffer[(kb_tail + i - 1) % KB_BUFFER_SIZE]]

(* The call's answer, fixed at the access that decides it: at the load of  *)
(* kb_head that finds the ring empty, or at the release of a slot.         *)
Answer ==
  CASE pc = "idle"     -> c
    [] pc = "released" -> kb_buffer[tail]
    [] pc = "compare"  -> IF head = kb_tail THEN NUL ELSE Waiting
    [] OTHER           -> Waiting

Queue == INSTANCE KeyQueue WITH
           Capacity <- KB_BUFFER_SIZE - 1, queue <- Contents, answer <- Answer

(* The driver is a first-in first-out queue of KB_BUFFER_SIZE - 1          *)
(* characters: whatever the handler interrupts, keyboard_getchar answers   *)
(* each stored character once, in order, uncorrupted, and answers 0 only   *)
(* if the ring was empty during the call (keyboard.h: the next buffered    *)
(* character, or 0 if none available).                                     *)
QueueSpec == Queue!Spec

(* Once the main loop has chosen the slot it will read, no interrupt       *)
(* writes that slot, not even after kb_tail has moved past it.             *)
ChosenSlotIsStable ==
  [][(pc \in {"take", "read", "released"}) => UNCHANGED (kb_buffer[tail])]_vars

(* kb_buffer_push loses a character only when the ring is full: any other  *)
(* key press with a character appends exactly that character.              *)
LossOnlyWhenFull ==
  [][\A key \in Keys \ ShiftKeys :
       KeyDown(key) /\ CharOf(key) # NUL =>
         \/ Contents' = Append(Contents, CharOf(key))
         \/ Pending = KB_BUFFER_SIZE - 1 /\ UNCHANGED ring]_vars

(* The driver never believes in a shift key when nothing that sends the    *)
(* shift codes is down, so letters cannot stay upper case: shiftHeld       *)
(* follows all the senders with one flag.                                  *)
ShiftNotStuck == shiftHeld => held # {}

(* The main loop catches up: every character in the ring is taken, so the  *)
(* tail reaches each position the head has had.                            *)
EveryCharTaken == \A i \in Slots : (kb_head = i) ~> (kb_tail = i)
=============================================================================
