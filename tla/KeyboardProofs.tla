--------------------------- MODULE KeyboardProofs ---------------------------
(***************************************************************************)
(* Proofs about the keyboard driver, for every ring size and every keymap. *)
(* The driver's ring is a first-in first-out queue whatever the handler    *)
(* interrupts, although the two sides share it without a lock.             *)
(***************************************************************************)
EXTENDS Keyboard, SequenceTheorems, TLAPS

-----------------------------------------------------------------------------
(* Arithmetic of the ring. *)

(* The remainder of a number at most one turn of the ring above the slots. *)
LEMMA ModAbove ==
  ASSUME NEW N \in Nat \ {0}, NEW x \in Nat, x < 2 * N
  PROVE  x % N = IF x < N THEN x ELSE x - N
  OBVIOUS

(* The remainder of a number at most one turn below. *)
LEMMA ModBelow ==
  ASSUME NEW N \in Nat \ {0}, NEW x \in Int, -N <= x, x < N
  PROVE  x % N = IF x < 0 THEN x + N ELSE x
  OBVIOUS

(* The slot after a slot is a slot, and a different one in a ring of more  *)
(* than one slot.                                                          *)
LEMMA NextSlotValue ==
  ASSUME NEW i \in Slots
  PROVE  /\ NextSlot(i) \in Slots
         /\ NextSlot(i) = IF i = KB_BUFFER_SIZE - 1 THEN 0 ELSE i + 1
  BY SizeAssumption DEF NextSlot, Slots

(* The ring's content as a function of its three variables, so that the   *)
(* lemmas apply to the state before a step and to the state after it.     *)
Count(h, t) == (h - t) % KB_BUFFER_SIZE

Stored(b, h, t) == [i \in 1 .. Count(h, t) |-> b[(t + i - 1) % KB_BUFFER_SIZE]]

(* The number of waiting characters, without the remainder. *)
LEMMA CountValue ==
  ASSUME NEW h \in Slots, NEW t \in Slots
  PROVE  /\ Count(h, t) \in 0 .. KB_BUFFER_SIZE - 1
         /\ Count(h, t) = IF h < t THEN h - t + KB_BUFFER_SIZE ELSE h - t
  <1> DEFINE d == h - t
  <1>1. /\ d \in Int
        /\ -KB_BUFFER_SIZE <= d
        /\ d < KB_BUFFER_SIZE
        /\ KB_BUFFER_SIZE \in Nat \ {0}
    BY SizeAssumption DEF Slots
  <1>2. d % KB_BUFFER_SIZE = IF d < 0 THEN d + KB_BUFFER_SIZE ELSE d
    <2> HIDE DEF d
    <2> QED BY <1>1, ModBelow
  <1> QED BY <1>1, <1>2 DEF Count, Slots

-----------------------------------------------------------------------------
(* The invariant that makes the unlocked ring safe. A step of the handler  *)
(* only moves kb_head away from kb_tail, so what the main loop concluded   *)
(* from the values it loaded stays true until it moves kb_tail itself.     *)

ReaderInv ==
  /\ pc = "compare" /\ head # kb_tail => kb_head # kb_tail
  /\ pc \in {"take", "read"} => tail = kb_tail /\ kb_head # kb_tail
  /\ pc = "read" => c = kb_buffer[tail]
  /\ pc = "released" => kb_tail = NextSlot(tail)

Inv == TypeOK /\ ReaderInv

(* Inv holds where keyboard_init leaves the driver.                        *)
LEMMA InitInv == Init => Inv
  <1> SUFFICES ASSUME Init PROVE Inv
    OBVIOUS
  <1>1. 0 \in Slots
    BY SizeAssumption DEF Slots
  <1>2. TypeOK
    BY <1>1 DEF Init, TypeOK
  <1>3. ReaderInv
    BY DEF Init, ReaderInv
  <1> QED BY <1>2, <1>3 DEF Inv

(* What a push does to the ring, whatever the main loop is doing. *)
LEMMA PushInv ==
  ASSUME Inv, NEW ch \in Chars, kb_buffer_push(ch), UNCHANGED reader,
         held' \in SUBSET ShiftKeys, shiftHeld' \in BOOLEAN
  PROVE  Inv' /\ (pc \in {"take", "read", "released"} => UNCHANGED (kb_buffer[tail]))
  <1> USE DEF Inv, ring, reader
  <1>1. CASE NextSlot(kb_head) = kb_tail /\ UNCHANGED ring
    BY <1>1 DEF TypeOK, ReaderInv, NextSlot
  <1>2. CASE /\ NextSlot(kb_head) # kb_tail
             /\ kb_buffer' = [kb_buffer EXCEPT ![kb_head] = ch]
             /\ kb_head' = NextSlot(kb_head)
             /\ UNCHANGED kb_tail
    <2>1. kb_head' \in Slots
      BY <1>2, NextSlotValue DEF TypeOK
    <2>2. TypeOK'
      BY <1>2, <2>1 DEF TypeOK
    <2>3. pc \in {"take", "read", "released"} => kb_head # tail
      BY <1>2 DEF TypeOK, ReaderInv
    <2>4. pc \in {"take", "read", "released"} => UNCHANGED (kb_buffer[tail])
      BY <1>2, <2>3 DEF TypeOK
    <2>5. ReaderInv'
      BY <1>2, <2>4 DEF ReaderInv, NextSlot
    <2> QED BY <2>2, <2>4, <2>5
  <1> QED BY <1>1, <1>2 DEF kb_buffer_push

(* A scancode either leaves the ring alone or pushes one character. *)
LEMMA ScancodeInv ==
  ASSUME Inv, NEW key \in Keys, NEW released \in BOOLEAN,
         keyboard_handle_scancode(key, released),
         held' \in SUBSET ShiftKeys, UNCHANGED reader
  PROVE  Inv' /\ (pc \in {"take", "read", "released"} => UNCHANGED (kb_buffer[tail]))
  <1> USE DEF Inv, ring, reader
  <1>1. CASE UNCHANGED ring /\ shiftHeld' \in BOOLEAN
    BY <1>1 DEF TypeOK, ReaderInv, NextSlot
  <1>2. CASE CharOf(key) # NUL /\ kb_buffer_push(CharOf(key)) /\ UNCHANGED shiftHeld
    <2>1. CharOf(key) \in Chars
      BY <1>2 DEF CharOf, Chars
    <2>2. shiftHeld' \in BOOLEAN
      BY <1>2 DEF TypeOK
    <2>3. kb_tail' = kb_tail /\ held' \in SUBSET ShiftKeys
      BY <1>2 DEF kb_buffer_push
    <2> QED BY <1>2, <2>1, <2>2, <2>3, PushInv
  <1> QED BY <1>1, <1>2 DEF keyboard_handle_scancode, TypeOK

(* Every key press, key release and step of keyboard_getchar keeps Inv.    *)
LEMMA StepInv == Inv /\ [Next]_vars => Inv'
  <1> SUFFICES ASSUME Inv, [Next]_vars PROVE Inv'
    OBVIOUS
  <1> USE DEF Inv, reader
  <1>1. ASSUME NEW key \in Keys, KeyDown(key) PROVE Inv'
    BY <1>1, ScancodeInv DEF KeyDown, TypeOK
  <1>2. ASSUME NEW key \in Keys, KeyUp(key) PROVE Inv'
    BY <1>2, ScancodeInv DEF KeyUp, TypeOK
  <1>3. CASE Call
    BY <1>3 DEF Call, TypeOK, ReaderInv, NextSlot
  <1>4. CASE LoadHead
    BY <1>4 DEF LoadHead, TypeOK, ReaderInv, NextSlot
  <1>5. CASE ReturnNone
    BY <1>5 DEF ReturnNone, TypeOK, ReaderInv, NextSlot
  <1>6. CASE LoadTail
    BY <1>6 DEF LoadTail, TypeOK, ReaderInv, NextSlot
  <1>7. CASE ReadSlot
    BY <1>7 DEF ReadSlot, TypeOK, ReaderInv, NextSlot
  <1>8. CASE ReleaseSlot
    <2>1. kb_tail' \in Slots
      BY <1>8, NextSlotValue DEF ReleaseSlot, TypeOK
    <2> QED BY <1>8, <2>1 DEF ReleaseSlot, TypeOK, ReaderInv, NextSlot
  <1>9. CASE UNCHANGED vars
    BY <1>9 DEF vars, TypeOK, ReaderInv, NextSlot
  <1> QED BY <1>1, <1>2, <1>3, <1>4, <1>5, <1>6, <1>7, <1>8, <1>9 DEF Next, Getchar

(* Spec => []Inv, from which the other theorems follow. *)
THEOREM InvHolds == Spec => []Inv
  BY InitInv, StepInv, PTL DEF Spec

(* Every variable keeps its type, for every ring size: no interleaving     *)
(* takes kb_head or kb_tail out of the ring.                               *)
THEOREM TypeCorrect == Spec => []TypeOK
  BY InvHolds, PTL DEF Inv

(* The slot keyboard_getchar has chosen is never written under it, also in *)
(* a build that releases the slot before reading it.                       *)
THEOREM SlotStable == Spec => ChosenSlotIsStable
  <1>1. Inv /\ [Next]_vars =>
          [(pc \in {"take", "read", "released"}) => UNCHANGED (kb_buffer[tail])]_vars
    <2> SUFFICES ASSUME Inv, Next, pc \in {"take", "read", "released"}
                 PROVE  UNCHANGED (kb_buffer[tail])
      OBVIOUS
    <2> USE DEF Inv, reader
    <2>1. ASSUME NEW key \in Keys, KeyDown(key) PROVE UNCHANGED (kb_buffer[tail])
      BY <2>1, ScancodeInv DEF KeyDown, TypeOK
    <2>2. ASSUME NEW key \in Keys, KeyUp(key) PROVE UNCHANGED (kb_buffer[tail])
      BY <2>2, ScancodeInv DEF KeyUp, TypeOK
    <2>3. CASE Getchar
      BY <2>3 DEF Getchar, Call, LoadHead, ReturnNone, LoadTail, ReadSlot, ReleaseSlot
    <2> QED BY <2>1, <2>2, <2>3 DEF Next
  <1> QED BY InvHolds, <1>1, PTL DEF Spec, ChosenSlotIsStable

(* The driver never believes in a shift key that nobody holds. *)
THEOREM ShiftReleased == Spec => []ShiftNotStuck
  <1> USE DEF ShiftNotStuck
  <1>1. Init => ShiftNotStuck
    BY DEF Init
  <1>2. TypeOK /\ ShiftNotStuck /\ [Next]_vars => ShiftNotStuck'
    <2> SUFFICES ASSUME TypeOK, ShiftNotStuck, [Next]_vars PROVE ShiftNotStuck'
      OBVIOUS
    <2>1. ASSUME NEW key \in Keys, KeyDown(key) PROVE ShiftNotStuck'
      BY <2>1 DEF KeyDown, keyboard_handle_scancode
    <2>2. ASSUME NEW key \in Keys, KeyUp(key) PROVE ShiftNotStuck'
      <3>1. CASE key \in ShiftKeys
        BY <2>2, <3>1 DEF KeyUp, keyboard_handle_scancode
      <3>2. CASE key \notin ShiftKeys
        <4>1. held' = held
          BY <2>2, <3>2 DEF KeyUp, TypeOK
        <4> QED BY <2>2, <3>2, <4>1 DEF KeyUp, keyboard_handle_scancode
      <3> QED BY <3>1, <3>2
    <2>3. CASE Getchar
      BY <2>3 DEF Getchar, Call, LoadHead, ReturnNone, LoadTail, ReadSlot, ReleaseSlot
    <2>4. CASE UNCHANGED vars
      BY <2>4 DEF vars
    <2> QED BY <2>1, <2>2, <2>3, <2>4 DEF Next
  <1> QED BY TypeCorrect, <1>1, <1>2, PTL DEF Spec

-----------------------------------------------------------------------------
(* The ring as a sequence. *)

(* The slot of the i-th waiting character. *)
Index(t, i) == IF t + i - 1 < KB_BUFFER_SIZE THEN t + i - 1 ELSE t + i - 1 - KB_BUFFER_SIZE

(* The remainder of a place in the ring is one subtraction at most. *)
LEMMA IndexValue ==
  ASSUME NEW h \in Slots, NEW t \in Slots, NEW i \in 1 .. Count(h, t)
  PROVE  /\ (t + i - 1) % KB_BUFFER_SIZE = Index(t, i)
         /\ Index(t, i) \in Slots
  <1>1. Count(h, t) \in 0 .. KB_BUFFER_SIZE - 1
    BY CountValue
  <1>2. PICK x \in Nat : x = t + i - 1 /\ x < 2 * KB_BUFFER_SIZE
    BY <1>1, SizeAssumption DEF Slots
  <1>3. x % KB_BUFFER_SIZE = IF x < KB_BUFFER_SIZE THEN x ELSE x - KB_BUFFER_SIZE
    BY <1>2, ModAbove, SizeAssumption
  <1>4. t \in Int /\ i \in Int /\ KB_BUFFER_SIZE \in Int
    BY <1>1, SizeAssumption DEF Slots
  <1> QED BY <1>2, <1>3, <1>4, SizeAssumption DEF Index, Slots

(* The waiting characters are a sequence as long as Count says. *)
LEMMA StoredType ==
  ASSUME NEW S, NEW b \in [Slots -> S], NEW h \in Slots, NEW t \in Slots
  PROVE  Stored(b, h, t) \in Seq(S) /\ Len(Stored(b, h, t)) = Count(h, t)
  <1>1. Count(h, t) \in 0 .. KB_BUFFER_SIZE - 1
    BY CountValue
  <1>2. \A i \in 1 .. Count(h, t) : (t + i - 1) % KB_BUFFER_SIZE \in Slots
    BY IndexValue
  <1>3. \A i \in 1 .. Count(h, t) : b[(t + i - 1) % KB_BUFFER_SIZE] \in S
    BY <1>2
  <1>4. Stored(b, h, t) \in Seq(S)
    BY <1>1, <1>3 DEF Stored
  <1>5. Len(Stored(b, h, t)) = Count(h, t)
    BY <1>1, <1>4, LenProperties DEF Stored
  <1> QED BY <1>4, <1>5

(* Where each waiting character is. *)
LEMMA StoredElement ==
  ASSUME NEW b, NEW h \in Slots, NEW t \in Slots, NEW i \in 1 .. Count(h, t)
  PROVE  Stored(b, h, t)[i] = b[Index(t, i)] /\ Index(t, i) \in Slots
  BY IndexValue DEF Stored

(* Storing into a ring that is not full appends to the sequence. *)
LEMMA PushAppends ==
  ASSUME NEW S, NEW b \in [Slots -> S], NEW h \in Slots, NEW t \in Slots,
         NEW ch \in S, NEW b2 \in [Slots -> S], NEW h2 \in Slots
  PROVE  b2 = [b EXCEPT ![h] = ch] /\ h2 = NextSlot(h) /\ h2 # t =>
           /\ Stored(b2, h2, t) = Append(Stored(b, h, t), ch)
           /\ Count(h, t) < KB_BUFFER_SIZE - 1
  <1>0. SUFFICES ASSUME b2 = [b EXCEPT ![h] = ch], h2 = NextSlot(h), h2 # t
                 PROVE  /\ Stored(b2, h2, t) = Append(Stored(b, h, t), ch)
                        /\ Count(h, t) < KB_BUFFER_SIZE - 1
    OBVIOUS
  <1> DEFINE old == Stored(b, h, t)
             new == Stored(b2, h2, t)
  <1>1. /\ h \in 0 .. KB_BUFFER_SIZE - 1
        /\ t \in 0 .. KB_BUFFER_SIZE - 1
        /\ KB_BUFFER_SIZE \in Nat \ {0}
        /\ h2 = IF h = KB_BUFFER_SIZE - 1 THEN 0 ELSE h + 1
        /\ h2 # t
    BY <1>0, NextSlotValue, SizeAssumption DEF Slots
  <1>2. /\ Count(h, t) \in 0 .. KB_BUFFER_SIZE - 1
        /\ Count(h, t) = IF h < t THEN h - t + KB_BUFFER_SIZE ELSE h - t
        /\ Count(h2, t) \in 0 .. KB_BUFFER_SIZE - 1
        /\ Count(h2, t) = IF h2 < t THEN h2 - t + KB_BUFFER_SIZE ELSE h2 - t
    BY CountValue
  <1>3. Count(h2, t) = Count(h, t) + 1
    BY <1>1, <1>2
  <1>4. Index(t, Count(h, t) + 1) = h
    BY <1>1, <1>2 DEF Index
  <1>5. \A i \in 1 .. Count(h, t) : Index(t, i) # h
    BY <1>1, <1>2 DEF Index
  <1>6. old \in Seq(S) /\ Len(old) = Count(h, t)
    BY StoredType, ZenonT(30)
  <1>7. new \in Seq(S) /\ Len(new) = Count(h2, t)
    BY StoredType, ZenonT(30)
  <1>8. \A i \in 1 .. Count(h, t) : old[i] = b[Index(t, i)] /\ Index(t, i) \in Slots
    BY StoredElement
  <1>9. \A i \in 1 .. Count(h2, t) : new[i] = b2[Index(t, i)]
    BY StoredElement
  <1>10. b2[h] = ch /\ \A j \in Slots : j # h => b2[j] = b[j]
    BY <1>0
  <1> HIDE DEF old, new
  <1>11. /\ Append(old, ch) \in Seq(S)
         /\ Len(Append(old, ch)) = Count(h, t) + 1
         /\ \A i \in 1 .. Count(h, t) : Append(old, ch)[i] = old[i]
         /\ Append(old, ch)[Count(h, t) + 1] = ch
    BY <1>6, AppendProperties
  <1>12. \A i \in 1 .. Len(new) : new[i] = Append(old, ch)[i]
    <2> SUFFICES ASSUME NEW i \in 1 .. Count(h, t) + 1 PROVE new[i] = Append(old, ch)[i]
      BY <1>3, <1>7
    <2>1. new[i] = b2[Index(t, i)]
      BY <1>3, <1>9
    <2>2. CASE i = Count(h, t) + 1
      BY <2>1, <2>2, <1>4, <1>10, <1>11
    <2>3. CASE i \in 1 .. Count(h, t)
      <3>1. Append(old, ch)[i] = b[Index(t, i)]
        BY <2>3, <1>8, <1>11
      <3>2. b2[Index(t, i)] = b[Index(t, i)]
        BY <2>3, <1>5, <1>8, <1>10
      <3> QED BY <2>1, <3>1, <3>2
    <2>4. i = Count(h, t) + 1 \/ i \in 1 .. Count(h, t)
      BY <1>2
    <2> QED BY <2>2, <2>3, <2>4
  <1>13. new = Append(old, ch)
    BY <1>3, <1>7, <1>11, <1>12, SeqEqual
  <1>14. Count(h, t) < KB_BUFFER_SIZE - 1
    BY <1>1, <1>2, <1>3
  <1> QED BY <1>13, <1>14 DEF old, new

(* Moving the tail of a ring that is not empty takes the sequence's head. *)
LEMMA ReleaseTakesHead ==
  ASSUME NEW S, NEW b \in [Slots -> S], NEW h \in Slots, NEW t \in Slots,
         NEW t2 \in Slots
  PROVE  t2 = NextSlot(t) /\ h # t =>
           /\ Stored(b, h, t) # << >>
           /\ Head(Stored(b, h, t)) = b[t]
           /\ Stored(b, h, t2) = Tail(Stored(b, h, t))
  <1>0. SUFFICES ASSUME t2 = NextSlot(t), h # t
                 PROVE  /\ Stored(b, h, t) # << >>
                        /\ Head(Stored(b, h, t)) = b[t]
                        /\ Stored(b, h, t2) = Tail(Stored(b, h, t))
    OBVIOUS
  <1> DEFINE old == Stored(b, h, t)
             new == Stored(b, h, t2)
  <1>1. /\ h \in 0 .. KB_BUFFER_SIZE - 1
        /\ t \in 0 .. KB_BUFFER_SIZE - 1
        /\ KB_BUFFER_SIZE \in Nat \ {0}
        /\ t2 = IF t = KB_BUFFER_SIZE - 1 THEN 0 ELSE t + 1
        /\ h # t
    BY <1>0, NextSlotValue, SizeAssumption DEF Slots
  <1>2. /\ Count(h, t) \in 0 .. KB_BUFFER_SIZE - 1
        /\ Count(h, t) = IF h < t THEN h - t + KB_BUFFER_SIZE ELSE h - t
        /\ Count(h, t2) \in 0 .. KB_BUFFER_SIZE - 1
        /\ Count(h, t2) = IF h < t2 THEN h - t2 + KB_BUFFER_SIZE ELSE h - t2
    BY CountValue
  <1>3. Count(h, t) > 0 /\ Count(h, t2) = Count(h, t) - 1
    BY <1>1, <1>2
  <1>4. Index(t, 1) = t
    BY <1>1 DEF Index
  <1>5. \A i \in 1 .. Count(h, t) - 1 : Index(t2, i) = Index(t, i + 1)
    BY <1>1, <1>2 DEF Index
  <1>6. old \in Seq(S) /\ Len(old) = Count(h, t)
    BY StoredType
  <1>7. new \in Seq(S) /\ Len(new) = Count(h, t2)
    BY StoredType
  <1>8. \A i \in 1 .. Count(h, t) : old[i] = b[Index(t, i)]
    BY StoredElement
  <1>9. \A i \in 1 .. Count(h, t2) : new[i] = b[Index(t2, i)]
    BY StoredElement
  <1> HIDE DEF old, new
  <1>10. old # << >>
    BY <1>2, <1>3, <1>6, EmptySeq
  <1>11. /\ Tail(old) \in Seq(S)
         /\ Len(Tail(old)) = Count(h, t) - 1
         /\ \A i \in 1 .. Count(h, t) - 1 : Tail(old)[i] = old[i + 1]
    BY <1>6, <1>10, HeadTailProperties
  <1>12. Head(old) = b[t]
    BY <1>2, <1>3, <1>4, <1>6, <1>8
  <1>13. \A i \in 1 .. Len(new) : new[i] = Tail(old)[i]
    <2> SUFFICES ASSUME NEW i \in 1 .. Count(h, t) - 1 PROVE new[i] = Tail(old)[i]
      BY <1>3, <1>7
    <2>1. i + 1 \in 1 .. Count(h, t)
      BY <1>2
    <2>2. Tail(old)[i] = b[Index(t, i + 1)]
      BY <2>1, <1>8, <1>11
    <2> QED BY <2>2, <1>3, <1>5, <1>9
  <1>14. new = Tail(old)
    BY <1>3, <1>7, <1>11, <1>13, SeqEqual
  <1> QED BY <1>10, <1>12, <1>14 DEF old, new

(* A ring whose indexes are equal holds nothing. *)
LEMMA EmptyRing ==
  ASSUME NEW b, NEW h \in Slots
  PROVE  Stored(b, h, h) = << >>
  <1>1. Count(h, h) = 0
    BY CountValue DEF Slots
  <1> QED BY <1>1 DEF Stored

-----------------------------------------------------------------------------
(* The driver implements the queue. *)

(* What waits in the ring, in the terms of the lemmas above.               *)
LEMMA ContentsStored ==
  /\ Contents = Stored(kb_buffer, kb_head, kb_tail)
  /\ Contents' = Stored(kb_buffer', kb_head', kb_tail')
  /\ Pending = Count(kb_head, kb_tail)
  BY DEF Contents, Pending, Stored, Count

(* A push appends one character, or finds the ring full and changes nothing. *)
LEMMA PushMeaning ==
  ASSUME TypeOK, TypeOK', NEW ch \in Chars, kb_buffer_push(ch)
  PROVE  \/ Contents' = Append(Contents, ch) /\ Pending < KB_BUFFER_SIZE - 1
         \/ Pending = KB_BUFFER_SIZE - 1 /\ UNCHANGED ring
  <1>1. CASE NextSlot(kb_head) = kb_tail /\ UNCHANGED ring
    <2>1. /\ kb_head \in 0 .. KB_BUFFER_SIZE - 1
          /\ kb_tail = IF kb_head = KB_BUFFER_SIZE - 1 THEN 0 ELSE kb_head + 1
          /\ KB_BUFFER_SIZE \in Nat \ {0}
      BY <1>1, NextSlotValue, SizeAssumption DEF TypeOK, Slots
    <2>2. Pending = IF kb_head < kb_tail THEN kb_head - kb_tail + KB_BUFFER_SIZE
                                         ELSE kb_head - kb_tail
      BY CountValue, ContentsStored DEF TypeOK
    <2>3. Pending = KB_BUFFER_SIZE - 1
      BY <2>1, <2>2
    <2> QED BY <1>1, <2>3
  <1>2. CASE /\ NextSlot(kb_head) # kb_tail
             /\ kb_buffer' = [kb_buffer EXCEPT ![kb_head] = ch]
             /\ kb_head' = NextSlot(kb_head)
             /\ UNCHANGED kb_tail
    <2> DEFINE S == Chars \cup {NUL}
    <2>1. /\ kb_buffer \in [Slots -> S] /\ kb_buffer' \in [Slots -> S]
          /\ kb_head \in Slots /\ kb_tail \in Slots /\ kb_head' \in Slots
          /\ ch \in S /\ kb_head' # kb_tail
      BY <1>2 DEF TypeOK
    <2>2. /\ Stored(kb_buffer', kb_head', kb_tail) = Append(Stored(kb_buffer, kb_head, kb_tail), ch)
          /\ Count(kb_head, kb_tail) < KB_BUFFER_SIZE - 1
      <3> HIDE DEF S
      <3>1. \A x \in [Slots -> S], y \in Slots :
              x = [kb_buffer EXCEPT ![kb_head] = ch] /\ y = NextSlot(kb_head) /\ y # kb_tail =>
                /\ Stored(x, y, kb_tail) = Append(Stored(kb_buffer, kb_head, kb_tail), ch)
                /\ Count(kb_head, kb_tail) < KB_BUFFER_SIZE - 1
        BY <2>1, PushAppends
      <3> QED BY <1>2, <2>1, <3>1
    <2> QED BY <1>2, <2>2, ContentsStored
  <1> QED BY <1>1, <1>2 DEF kb_buffer_push

(* A key press with a character is lost only when the ring is full. *)
THEOREM NoOtherLoss == Spec => LossOnlyWhenFull
  <1> DEFINE Stores(key) ==
        KeyDown(key) /\ CharOf(key) # NUL =>
          \/ Contents' = Append(Contents, CharOf(key))
          \/ Pending = KB_BUFFER_SIZE - 1 /\ UNCHANGED ring
  <1>1. TypeOK /\ TypeOK' /\ [Next]_vars => [\A key \in Keys \ ShiftKeys : Stores(key)]_vars
    <2> SUFFICES ASSUME TypeOK, TypeOK', NEW key \in Keys \ ShiftKeys,
                        KeyDown(key), CharOf(key) # NUL
                 PROVE  \/ Contents' = Append(Contents, CharOf(key))
                        \/ Pending = KB_BUFFER_SIZE - 1 /\ UNCHANGED ring
      OBVIOUS
    <2>1. kb_buffer_push(CharOf(key))
      BY DEF KeyDown, keyboard_handle_scancode
    <2>2. CharOf(key) \in Chars
      BY DEF CharOf, Chars
    <2> QED BY <2>1, <2>2, PushMeaning
  <1> QED BY TypeCorrect, <1>1, PTL DEF Spec, LossOnlyWhenFull

(* Under Contents and Answer every step of the driver is a step of the     *)
(* queue or changes nothing there, and the driver starts as it does: each  *)
(* call answers the oldest character typed and not taken, or NUL at a      *)
(* moment when there was none.                                             *)
THEOREM Refinement == Spec => QueueSpec
  <1> DEFINE QVars == <<Contents, Answer>>
  <1>1. Init => Queue!Init
    <2> SUFFICES ASSUME Init PROVE Queue!Init
      OBVIOUS
    <2>1. 0 \in Slots
      BY SizeAssumption DEF Slots
    <2>2. Contents = << >>
      BY <2>1, ContentsStored, EmptyRing DEF Init
    <2> QED BY <2>2 DEF Init, Queue!Init, Answer
  <1>2. Inv /\ Inv' /\ [Next]_vars => [Queue!Next]_(Queue!vars)
    <2> SUFFICES ASSUME Inv, Inv', [Next]_vars
                 PROVE  Queue!Next \/ UNCHANGED QVars
      BY DEF Queue!vars
    <2> USE DEF Inv
    <2>1. ASSUME UNCHANGED ring PROVE UNCHANGED Contents
      BY <2>1, ContentsStored DEF ring
    <2>2. ASSUME NEW key \in Keys, NEW released \in BOOLEAN,
                 keyboard_handle_scancode(key, released), UNCHANGED reader,
                 held' \in SUBSET ShiftKeys
          PROVE  Queue!Next \/ UNCHANGED QVars
      <3>1. UNCHANGED Answer
        <4>1. pc = "released" => UNCHANGED (kb_buffer[tail])
          BY <2>2, ScancodeInv
        <4>2. UNCHANGED kb_tail
          BY <2>2 DEF keyboard_handle_scancode, kb_buffer_push, ring
        <4> QED BY <2>2, <4>1, <4>2 DEF Answer, reader
      <3>2. CASE UNCHANGED ring
        BY <2>1, <3>1, <3>2
      <3>3. CASE CharOf(key) # NUL /\ kb_buffer_push(CharOf(key))
        <4>1. CharOf(key) \in Chars
          BY <3>3 DEF CharOf, Chars
        <4>2. CASE Contents' = Append(Contents, CharOf(key)) /\ Pending < KB_BUFFER_SIZE - 1
          <5>1. Len(Contents) = Pending
            <6> DEFINE S == Chars \cup {NUL}
            <6>1. kb_buffer \in [Slots -> S] /\ kb_head \in Slots /\ kb_tail \in Slots
              BY DEF TypeOK
            <6> HIDE DEF S
            <6>2. Len(Stored(kb_buffer, kb_head, kb_tail)) = Count(kb_head, kb_tail)
              BY <6>1, StoredType
            <6> QED BY <6>2, ContentsStored
          <5>2. Queue!Typed
            BY <3>1, <4>1, <4>2, <5>1 DEF Queue!Typed
          <5> QED BY <5>2 DEF Queue!Next
        <4>3. CASE UNCHANGED ring
          BY <2>1, <3>1, <4>3
        <4> QED BY <3>3, <4>1, <4>2, <4>3, PushMeaning
      <3> QED BY <2>2, <3>2, <3>3 DEF keyboard_handle_scancode, ring
    <2>3. ASSUME NEW key \in Keys, KeyDown(key) PROVE Queue!Next \/ UNCHANGED QVars
      BY <2>2, <2>3 DEF KeyDown, TypeOK
    <2>4. ASSUME NEW key \in Keys, KeyUp(key) PROVE Queue!Next \/ UNCHANGED QVars
      BY <2>2, <2>4 DEF KeyUp, TypeOK
    <2>5. CASE Call
      <3>1. UNCHANGED Contents
        BY <2>1, <2>5 DEF Call, ring
      <3>2. c # Waiting
        BY KeysAssumption DEF TypeOK
      <3>3. Queue!Call
        BY <2>5, <3>1, <3>2 DEF Call, Queue!Call, Answer
      <3> QED BY <3>3 DEF Queue!Next
    <2>6. CASE LoadHead
      <3>1. UNCHANGED Contents
        BY <2>1, <2>6 DEF LoadHead, ring
      <3>2. CASE kb_head = kb_tail
        <4>1. Contents = << >>
          BY <3>2, ContentsStored, EmptyRing DEF TypeOK
        <4>2. Queue!Nothing
          BY <2>6, <3>1, <3>2, <4>1 DEF LoadHead, Queue!Nothing, Answer
        <4> QED BY <4>2 DEF Queue!Next
      <3>3. CASE kb_head # kb_tail
        BY <2>6, <3>1, <3>3 DEF LoadHead, Answer
      <3> QED BY <3>2, <3>3
    <2>7. CASE ReturnNone
      BY <2>1, <2>7 DEF ReturnNone, ring, Answer
    <2>8. CASE LoadTail
      BY <2>1, <2>8 DEF LoadTail, ring, Answer
    <2>9. CASE ReadSlot
      BY <2>1, <2>9 DEF ReadSlot, ring, Answer
    <2>10. CASE ReleaseSlot
      <3>1. /\ kb_tail' = NextSlot(kb_tail) /\ kb_head # kb_tail
            /\ UNCHANGED <<kb_buffer, kb_head>> /\ tail = kb_tail
        BY <2>10 DEF ReleaseSlot, ReaderInv
      <3>2. /\ Contents # << >>
            /\ Head(Contents) = kb_buffer[kb_tail]
            /\ Contents' = Tail(Contents)
        <4> DEFINE S == Chars \cup {NUL}
        <4>1. /\ kb_buffer \in [Slots -> S] /\ kb_head \in Slots
              /\ kb_tail \in Slots /\ kb_head # kb_tail
          BY <3>1 DEF TypeOK
        <4> HIDE DEF S
        <4>2. \A x \in Slots :
                x = NextSlot(kb_tail) =>
                  /\ Stored(kb_buffer, kb_head, kb_tail) # << >>
                  /\ Head(Stored(kb_buffer, kb_head, kb_tail)) = kb_buffer[kb_tail]
                  /\ Stored(kb_buffer, kb_head, x) = Tail(Stored(kb_buffer, kb_head, kb_tail))
          BY <4>1, ReleaseTakesHead, ZenonT(60)
        <4>3. kb_tail' \in Slots
          BY DEF TypeOK
        <4> QED BY <3>1, <4>2, <4>3, ContentsStored
      <3>3. Answer = Waiting /\ Answer' = kb_buffer[kb_tail]
        BY <2>10, <3>1 DEF ReleaseSlot, ReaderInv, Answer
      <3>4. Queue!Take
        BY <3>2, <3>3 DEF Queue!Take
      <3> QED BY <3>4 DEF Queue!Next
    <2>11. CASE UNCHANGED vars
      BY <2>1, <2>11 DEF vars, ring, Answer
    <2> QED BY <2>3, <2>4, <2>5, <2>6, <2>7, <2>8, <2>9, <2>10, <2>11 DEF Next, Getchar
  <1> QED BY InvHolds, <1>1, <1>2, PTL DEF Spec, QueueSpec, Queue!Spec
=============================================================================
