--------------------------- MODULE ConsoleProofs ----------------------------
(***************************************************************************)
(* Proofs about the console, for any texts and any characters, any number  *)
(* of keys and any number of nested exceptions.                            *)
(***************************************************************************)
EXTENDS Console, SequenceTheorems, FiniteSetTheorems, TLAPS

Printable == KeyChars \cup Range(Message)

-----------------------------------------------------------------------------
(* The invariant. *)

Byte == [char : Printable, settings : {Wanted, Changed, <<Unknown, Unknown, Unknown>>}]

Register(bytes) == bytes = << >> \/ \E b \in Byte : bytes = <<b>>

Fields == {"dlab", "low", "high", "format", "holding", "shifting"}

IsPort(p) ==
  /\ p = [f \in Fields |-> p[f]]
  /\ p.dlab \in BOOLEAN
  /\ Register(p.holding) /\ Register(p.shifting)

PortOK == IsPort(port)

Printing == {"write", "wait_transmit", "outb"}

Frame ==
  [ text : Seq(Printable),
    at   : Printing \cup {"hlt", "serial_init", "lidt", "terminal_clear", "set_cursor",
                          "render", "getchar"} ]

(* Types, of every frame on the stack too. *)
Types ==
  /\ queue \in Seq(KeyChars) /\ Len(queue) <= Capacity
  /\ answer \in KeyChars \cup {NUL, Waiting}
  /\ stack \in Seq(Frame) /\ Len(stack) \in 1 .. MaxFrames
  /\ boot \in 1 .. 4 /\ setup \in 1 .. 8 /\ halted \in BOOLEAN
  /\ PortOK
  /\ typed \in Seq(KeyChars) /\ sent \in Seq(Printable) /\ line \in Seq(Printable)

(* Where the first frame is when it does not print, and after which text.  *)
Between ==
  { <<"serial_init", 1>>, <<"lidt", 2>>, <<"terminal_clear", 3>>, <<"set_cursor", 3>>,
    <<"render", 4>>, <<"getchar", 4>> }

(* A frame that holds a character has one, and only a frame that prints    *)
(* holds text. Exceptions only print; the first frame goes from text to    *)
(* text.                                                                   *)
FrameOK(frame, first) ==
  /\ frame.at \in {"wait_transmit", "outb"} => frame.text # << >>
  /\ frame.at \notin Printing => frame.text = << >>
  /\ ~first => frame.at \in Printing \cup {"hlt"}
  /\ first => frame.at \in Printing \/ <<frame.at, boot>> \in Between

Frames == \A i \in 1 .. Len(stack) : FrameOK(stack[i], i = 1)

(* How far the kernel has got, and what can have happened by then.         *)
Course ==
  /\ Len(stack) > 1 => boot >= 3
  /\ boot < 4 => queue = << >> /\ typed = << >>
  /\ halted => Len(stack) > 1 /\ Top.text = << >>
  /\ boot = 1 /\ Top.at # "serial_init" => setup = 1
  /\ boot > 1 => setup = 8

(* What an exception has sent and still has to print ends with the message.*)
Announced ==
  Len(stack) > 1 /\ Top.at # "hlt" =>
    \E n \in 0 .. Len(sent) : sent \o Top.text = SubSeq(sent, 1, n) \o Message

(* The registers at each write of serial_init. *)
Divisor ==
  << <<FALSE, Unknown, Unknown, Unknown>>, <<FALSE, Unknown, Unknown, Unknown>>,
     <<TRUE, Unknown, Unknown, 0>>, <<TRUE, 3, Unknown, 0>>, <<TRUE, 3, 0, 0>>,
     <<FALSE, 3, 0, 3>>, <<FALSE, 3, 0, 3>>, <<FALSE, 3, 0, 3>> >>

Bad(register) == register # << >> => register[1].settings # Wanted

(* Until serial_init is done no byte is as it wants them, and afterwards   *)
(* nobody writes before the port can take a byte.                          *)
PortState ==
  /\ <<port.dlab, port.low, port.high, port.format>> = Divisor[setup]
  /\ boot = 1 => line = << >> /\ Bad(port.holding) /\ Bad(port.shifting)
  /\ boot >= 2 => Len(sent) >= Len(Texts[1])
  /\ Top.at = "outb" => port.holding = << >>

Inv ==
  /\ Types /\ Frames /\ Course /\ Announced /\ PortState /\ EchoedInOrder /\ LineCarries

-----------------------------------------------------------------------------
(* Sequences. *)

(* Two sequences, one after the other: the length and the elements.        *)
Joins(u, s, t) ==
  /\ Len(u) = Len(s) + Len(t)
  /\ \A i \in 1 .. Len(s) : u[i] = s[i]
  /\ \A i \in 1 .. Len(t) : u[Len(s) + i] = t[i]

(* Concatenation is the sequence that joins the two.                       *)
LEMMA ConcatJoins ==
  ASSUME NEW S, NEW s \in Seq(S), NEW t \in Seq(S)
  PROVE  s \o t \in Seq(S) /\ Joins(s \o t, s, t)
PROOF
<1>1. /\ s \o t \in Seq(S)
      /\ Len(s \o t) = Len(s) + Len(t)
      /\ \A i \in 1 .. Len(s) + Len(t) : (s \o t)[i] =
           IF i <= Len(s) THEN s[i] ELSE t[i - Len(s)]
  BY ConcatProperties, Zenon
<1>2. Len(s) \in Nat /\ Len(t) \in Nat
  BY LenProperties, Zenon
<1> DEFINE u == s \o t
<1> HIDE DEF u
<1>3. \A i \in 1 .. Len(s) + Len(t) : u[i] = IF i <= Len(s) THEN s[i] ELSE t[i - Len(s)]
  BY <1>1 DEF u
<1>4. \A i \in 1 .. Len(s) : u[i] = s[i]
  BY <1>2, <1>3
<1>5. \A i \in 1 .. Len(t) : u[Len(s) + i] = t[i]
  <2> TAKE i \in 1 .. Len(t)
  <2>1. Len(s) + i \in 1 .. Len(s) + Len(t) /\ ~(Len(s) + i <= Len(s)) /\ Len(s) + i - Len(s) = i
    BY <1>2
  <2> QED
    BY <1>3, <2>1
<1> QED
  BY <1>1, <1>4, <1>5 DEF Joins, u

(* What joins two sequences is their concatenation.                        *)
LEMMA JoinsConcat ==
  ASSUME NEW S, NEW s \in Seq(S), NEW t \in Seq(S), NEW u \in Seq(S), Joins(u, s, t)
  PROVE  u = s \o t
PROOF
<1> DEFINE v == s \o t
<1>1. v \in Seq(S) /\ Joins(v, s, t)
  BY ConcatJoins
<1>2. Len(s) \in Nat /\ Len(t) \in Nat
  BY LenProperties, Zenon
<1> HIDE DEF v
<1>3. Len(u) = Len(v)
  BY <1>1 DEF Joins
<1>4. \A i \in 1 .. Len(u) : u[i] = v[i]
  <2> TAKE i \in 1 .. Len(u)
  <2>1. CASE i <= Len(s)
    BY <1>1, <1>2, <2>1 DEF Joins
  <2>2. CASE ~(i <= Len(s))
    <3>1. i - Len(s) \in 1 .. Len(t) /\ Len(s) + (i - Len(s)) = i
      BY <1>2, <2>2 DEF Joins
    <3> QED
      BY <1>1, <3>1 DEF Joins
  <2> QED
    BY <2>1, <2>2
<1>5. u = v
  BY <1>1, <1>3, <1>4, SeqEqual, Zenon
<1> QED
  BY <1>5 DEF v

(* Concatenation is associative. *)
Regrouped(s, t, u) == (s \o t) \o u = s \o (t \o u)

(* It holds for sequences.                                                 *)
LEMMA Regroup ==
  ASSUME NEW S, NEW s \in Seq(S), NEW t \in Seq(S), NEW u \in Seq(S)
  PROVE  Regrouped(s, t, u)
PROOF BY ConcatAssociative DEF Regrouped

(* What appending does.                                                    *)
Appends(t, s, c, S) ==
  /\ t \in Seq(S) /\ Len(t) = Len(s) + 1
  /\ t[Len(s) + 1] = c
  /\ \A i \in 1 .. Len(s) : t[i] = s[i]

(* Append does that.                                                       *)
LEMMA AppendSeq ==
  ASSUME NEW S, NEW s \in Seq(S), NEW c \in S
  PROVE  Appends(Append(s, c), s, c, S)
  BY DEF Appends

(* Appending is joining a sequence of one element.                         *)
LEMMA AppendConcat ==
  ASSUME NEW S, NEW s \in Seq(S), NEW c \in S
  PROVE  Append(s, c) \in Seq(S) /\ Append(s, c) = s \o <<c>>
PROOF
<1>1. <<c>> \in Seq(S) /\ Append(s, c) \in Seq(S) /\ Len(s) \in Nat
  OBVIOUS
<1>2. Joins(Append(s, c), s, <<c>>)
  BY <1>1 DEF Joins
<1> QED
  BY <1>1, <1>2, JoinsConcat, Zenon

(* A sequence is its first element and the rest.                           *)
LEMMA HeadTail ==
  ASSUME NEW S, NEW s \in Seq(S), s # << >>
  PROVE  Head(s) \in S /\ Tail(s) \in Seq(S) /\ s = <<Head(s)>> \o Tail(s)
PROOF
<1>1. Head(s) \in S /\ Tail(s) \in Seq(S) /\ <<Head(s)>> \in Seq(S)
  OBVIOUS
<1>2. Len(Tail(s)) = Len(s) - 1 /\ Len(s) \in Nat /\ Len(s) # 0
  OBVIOUS
<1>3. \A i \in 1 .. Len(Tail(s)) : Tail(s)[i] = s[1 + i]
  BY HeadTailProperties
<1>4. Head(s) = s[1]
  OBVIOUS
<1>5. Joins(s, <<Head(s)>>, Tail(s))
  BY <1>2, <1>3, <1>4 DEF Joins
<1> QED
  BY <1>1, <1>5, JoinsConcat, Zenon

(* Passing a character on from the front of one sequence to the end of     *)
(* another does not change the two together.                               *)
PassedOn(s, t, S) ==
  /\ Append(s, Head(t)) \in Seq(S) /\ Tail(t) \in Seq(S)
  /\ Append(s, Head(t)) \o Tail(t) = s \o t

(* That holds for sequences, the second not empty.                         *)
LEMMA PassOn ==
  ASSUME NEW S, NEW s \in Seq(S), NEW t \in Seq(S), t # << >>
  PROVE  PassedOn(s, t, S)
PROOF
<1>1. Head(t) \in S /\ Tail(t) \in Seq(S) /\ t = <<Head(t)>> \o Tail(t) /\ <<Head(t)>> \in Seq(S)
  BY HeadTail
<1>2. Append(s, Head(t)) = s \o <<Head(t)>> /\ Append(s, Head(t)) \in Seq(S)
  BY <1>1, AppendConcat
<1>3. Regrouped(s, <<Head(t)>>, Tail(t))
  BY <1>1, Regroup, Zenon
<1> QED
  BY <1>1, <1>2, <1>3, Zenon DEF Regrouped, PassedOn

(* Cutting a sequence, as a joint. *)
Cut(s, n) == SubSeq(s, n + 1, Len(s))

(* What is before the cut and what is behind it.                           *)
LEMMA CutJoins ==
  ASSUME NEW S, NEW s \in Seq(S), NEW n \in 0 .. Len(s)
  PROVE  /\ SubSeq(s, 1, n) \in Seq(S) /\ Len(SubSeq(s, 1, n)) = n
         /\ \A i \in 1 .. n : SubSeq(s, 1, n)[i] = s[i]
         /\ Cut(s, n) \in Seq(S) /\ Len(Cut(s, n)) = Len(s) - n
         /\ \A i \in 1 .. Len(s) - n : Cut(s, n)[i] = s[n + i]
PROOF
<1>1. Len(s) \in Nat /\ n \in Nat /\ n <= Len(s)
  OBVIOUS
<1>2. \A i \in 1 .. Len(s) : s[i] \in S
  OBVIOUS
<1>3. \A i \in n + 1 .. Len(s) : s[i] \in S
  BY <1>1, <1>2
<1>4. \A i \in 1 .. n : s[i] \in S
  BY <1>1, <1>2
<1>5. /\ SubSeq(s, 1, n) \in Seq(S)
      /\ Len(SubSeq(s, 1, n)) = IF 1 <= n THEN n - 1 + 1 ELSE 0
      /\ \A i \in 1 .. n - 1 + 1 : SubSeq(s, 1, n)[i] = s[1 + i - 1]
  <2>1. 1 \in Int /\ n \in Int
    BY <1>1
  <2> QED
    BY <1>4, <2>1, SubSeqProperties
<1>6. /\ Cut(s, n) \in Seq(S)
      /\ Len(Cut(s, n)) = IF n + 1 <= Len(s) THEN Len(s) - (n + 1) + 1 ELSE 0
      /\ \A i \in 1 .. Len(s) - (n + 1) + 1 : Cut(s, n)[i] = s[n + 1 + i - 1]
  <2>1. n + 1 \in Int /\ Len(s) \in Int
    BY <1>1
  <2> QED
    BY <1>3, <2>1, SubSeqProperties DEF Cut
<1>7. \A i \in 1 .. n : 1 + i - 1 = i /\ i \in 1 .. n - 1 + 1
  BY <1>1
<1>8. \A i \in 1 .. Len(s) - n : n + 1 + i - 1 = n + i /\ i \in 1 .. Len(s) - (n + 1) + 1
  BY <1>1
<1>9. (IF 1 <= n THEN n - 1 + 1 ELSE 0) = n
  BY <1>1
<1>10. (IF n + 1 <= Len(s) THEN Len(s) - (n + 1) + 1 ELSE 0) = Len(s) - n
  BY <1>1
<1> QED
  BY <1>5, <1>6, <1>7, <1>8, <1>9, <1>10

(* Appending lengthens what is behind a cut, and not what is before it.    *)
LEMMA CutAppend ==
  ASSUME NEW S, NEW s \in Seq(S), NEW c \in S, NEW n \in 0 .. Len(s)
  PROVE  /\ SubSeq(Append(s, c), 1, n) = SubSeq(s, 1, n)
         /\ Cut(Append(s, c), n) = Append(Cut(s, n), c)
PROOF
<1> DEFINE u == Append(s, c)
<1>1. /\ u \in Seq(S) /\ Len(u) = Len(s) + 1
      /\ \A i \in 1 .. Len(s) : u[i] = s[i]
      /\ u[Len(s) + 1] = c
      /\ Len(s) \in Nat /\ n \in Nat /\ n <= Len(s)
  OBVIOUS
<1> HIDE DEF u
<1>2. n \in 0 .. Len(u)
  BY <1>1
<1>3. /\ SubSeq(s, 1, n) \in Seq(S) /\ Len(SubSeq(s, 1, n)) = n
      /\ \A i \in 1 .. n : SubSeq(s, 1, n)[i] = s[i]
      /\ Cut(s, n) \in Seq(S) /\ Len(Cut(s, n)) = Len(s) - n
      /\ \A i \in 1 .. Len(s) - n : Cut(s, n)[i] = s[n + i]
  BY CutJoins
<1>4. /\ SubSeq(u, 1, n) \in Seq(S) /\ Len(SubSeq(u, 1, n)) = n
      /\ \A i \in 1 .. n : SubSeq(u, 1, n)[i] = u[i]
      /\ Cut(u, n) \in Seq(S) /\ Len(Cut(u, n)) = Len(u) - n
      /\ \A i \in 1 .. Len(u) - n : Cut(u, n)[i] = u[n + i]
  BY <1>1, <1>2, CutJoins
<1>5. SubSeq(u, 1, n) = SubSeq(s, 1, n)
  <2> DEFINE x == SubSeq(u, 1, n)
             y == SubSeq(s, 1, n)
  <2>1. x \in Seq(S) /\ y \in Seq(S) /\ Len(x) = n /\ Len(y) = n
    BY <1>3, <1>4
  <2>2. \A i \in 1 .. n : x[i] = y[i]
    BY <1>1, <1>3, <1>4
  <2> HIDE DEF x, y
  <2>3. x = y
    BY <2>1, <2>2, SeqEqual
  <2> QED
    BY <2>3 DEF x, y
<1>6. Cut(u, n) = Append(Cut(s, n), c)
  <2> DEFINE x == Cut(u, n)
             y == Cut(s, n)
  <2>1. /\ x \in Seq(S) /\ y \in Seq(S) /\ Len(x) = Len(y) + 1
        /\ Len(y) = Len(s) - n
        /\ \A i \in 1 .. Len(y) : y[i] = s[n + i]
        /\ \A i \in 1 .. Len(y) + 1 : x[i] = u[n + i]
    BY <1>1, <1>3, <1>4
  <2> HIDE DEF x, y
  <2>2. x[Len(y) + 1] = c
    BY <1>1, <2>1
  <2>3. \A i \in 1 .. Len(y) : x[i] = y[i]
    BY <1>1, <2>1
  <2> DEFINE z == Append(y, c)
  <2>4. /\ z \in Seq(S) /\ Len(z) = Len(y) + 1
        /\ \A i \in 1 .. Len(y) : z[i] = y[i]
        /\ z[Len(y) + 1] = c
    BY <2>1
  <2> HIDE DEF z
  <2>5. \A i \in 1 .. Len(x) : x[i] = z[i]
    <3>1. Len(y) \in Nat /\ Len(x) = Len(y) + 1
      BY <2>1
    <3>2. \A k \in Nat : \A i \in 1 .. k + 1 : i \in 1 .. k \/ i = k + 1
      OBVIOUS
    <3>3. \A i \in 1 .. Len(x) : i \in 1 .. Len(y) \/ i = Len(y) + 1
      BY <3>1, <3>2, Zenon
    <3> QED
      BY <2>2, <2>3, <2>4, <3>3, Zenon
  <2>6. x = z
    BY <2>1, <2>4, <2>5, SeqEqual
  <2> QED
    BY <2>6 DEF x, y, z
<1> QED
  BY <1>5, <1>6 DEF u

(* A sequence ends with what was put at its end.                           *)
LEMMA ConcatSuffix ==
  ASSUME NEW S, NEW s \in Seq(S), NEW m \in Seq(S)
  PROVE  IsSuffix(m, s \o m)
PROOF
<1> DEFINE u == s \o m
           n == Len(m)
           x == Reverse(m)
           y == Reverse(u)
<1>1. /\ u \in Seq(S) /\ Len(u) = Len(s) + n
      /\ \A i \in 1 .. n : u[Len(s) + i] = m[i]
      /\ Len(s) \in Nat /\ n \in Nat
  BY ConcatJoins DEF Joins
<1> HIDE DEF u
<1>2. x \in Seq(S) /\ Len(x) = n /\ \A i \in 1 .. n : x[i] = m[n - i + 1]
  BY DEF Reverse
<1>3. y \in Seq(S) /\ Len(y) = Len(u) /\ \A i \in 1 .. Len(u) : y[i] = u[Len(u) - i + 1]
  BY <1>1 DEF Reverse
<1> HIDE DEF x, y, n
<1>4. n \in 0 .. Len(x) /\ n \in 0 .. Len(y)
  BY <1>1, <1>2, <1>3
<1>5. /\ SubSeq(x, 1, n) \in Seq(S) /\ Len(SubSeq(x, 1, n)) = n
      /\ \A i \in 1 .. n : SubSeq(x, 1, n)[i] = x[i]
  BY <1>2, <1>4, CutJoins
<1>6. /\ SubSeq(y, 1, n) \in Seq(S) /\ Len(SubSeq(y, 1, n)) = n
      /\ \A i \in 1 .. n : SubSeq(y, 1, n)[i] = y[i]
  BY <1>3, <1>4, CutJoins
<1>7. \A i \in 1 .. n : x[i] = y[i]
  <2> TAKE i \in 1 .. n
  <2>1. /\ i \in 1 .. Len(u) /\ Len(u) - i + 1 = Len(s) + (n - i + 1)
        /\ n - i + 1 \in 1 .. n
    BY <1>1
  <2> QED
    BY <1>1, <1>2, <1>3, <2>1
<1> DEFINE v == SubSeq(x, 1, n)
           w == SubSeq(y, 1, n)
<1>8. v \in Seq(S) /\ w \in Seq(S) /\ Len(v) = Len(w) /\ \A i \in 1 .. Len(v) : v[i] = w[i]
  BY <1>5, <1>6, <1>7
<1> HIDE DEF v, w
<1>9. v = w
  BY <1>8, SeqEqual
<1>10. Len(x) <= Len(y) /\ SubSeq(x, 1, Len(x)) = SubSeq(y, 1, Len(x))
  BY <1>1, <1>2, <1>3, <1>9 DEF v, w
<1> QED
  BY <1>10 DEF IsSuffix, IsPrefix, x, y, u

-----------------------------------------------------------------------------
(* Texts. *)

(* What is printed is printable.                                           *)
LEMMA TextsPrintable ==
  /\ KeyChars \subseteq Printable
  /\ Message \in Seq(Printable)
  /\ Texts = <<BootTexts[1], BootTexts[2], BootTexts[3], Greeting>>
  /\ BootTexts[1] \in Seq(Printable) /\ BootTexts[2] \in Seq(Printable)
  /\ BootTexts[3] \in Seq(Printable) /\ Greeting \in Seq(Printable)
PROOF
<1>1. KeyChars \subseteq Printable /\ Range(Message) \subseteq Printable
  BY DEF Printable
<1>2. \A s \in Seq(KeyChars) : s \in Seq(Printable)
  BY <1>1, SeqMonotonic
<1>3. Message \in Seq(Printable)
  BY <1>1, ConsoleAssumption, SeqMonotonic, Zenon
<1>4. /\ BootTexts \in Seq(Seq(KeyChars)) /\ Len(BootTexts) = 3
      /\ Greeting \in Seq(KeyChars)
  BY ConsoleAssumption
<1>5. /\ BootTexts[1] \in Seq(KeyChars) /\ BootTexts[2] \in Seq(KeyChars)
      /\ BootTexts[3] \in Seq(KeyChars)
  <2> DEFINE S == Seq(KeyChars)
  <2>1. BootTexts \in Seq(S) /\ Len(BootTexts) = 3
    BY <1>4
  <2> HIDE DEF S
  <2>2. BootTexts[1] \in S /\ BootTexts[2] \in S /\ BootTexts[3] \in S
    BY <2>1
  <2> QED
    BY <2>2 DEF S
<1>6. Texts = <<BootTexts[1], BootTexts[2], BootTexts[3], Greeting>>
  <2> DEFINE S == Seq(KeyChars)
             t == <<BootTexts[1], BootTexts[2], BootTexts[3], Greeting>>
  <2>1. t \in Seq(S) /\ Len(t) = 4
    BY <1>4, <1>5
  <2>2. /\ Texts \in Seq(S) /\ Len(Texts) = 4 /\ Texts[4] = Greeting
        /\ Texts[1] = BootTexts[1] /\ Texts[2] = BootTexts[2] /\ Texts[3] = BootTexts[3]
    <3>1. BootTexts \in Seq(S) /\ Greeting \in S /\ Len(BootTexts) = 3
      BY <1>4
    <3> HIDE DEF S
    <3>2. /\ Append(BootTexts, Greeting) \in Seq(S)
          /\ Len(Append(BootTexts, Greeting)) = Len(BootTexts) + 1
          /\ Append(BootTexts, Greeting)[Len(BootTexts) + 1] = Greeting
          /\ \A i \in 1 .. Len(BootTexts) : Append(BootTexts, Greeting)[i] = BootTexts[i]
      <4>1. Appends(Append(BootTexts, Greeting), BootTexts, Greeting, S)
        BY <3>1, AppendSeq, Zenon
      <4> QED
        BY <4>1, Zenon DEF Appends
    <3> DEFINE a == Append(BootTexts, Greeting)
    <3> HIDE DEF a
    <3>3. a \in Seq(S) /\ Len(a) = 4 /\ a[4] = Greeting /\ a[1] = BootTexts[1]
          /\ a[2] = BootTexts[2] /\ a[3] = BootTexts[3]
      BY <3>1, <3>2 DEF a
    <3> QED
      BY <3>3 DEF Texts, a
  <2>3. \A i \in 1 .. 4 : i = 1 \/ i = 2 \/ i = 3 \/ i = 4
    OBVIOUS
  <2>4. \A i \in 1 .. Len(t) : t[i] = Texts[i]
    BY <2>1, <2>2, <2>3
  <2> HIDE DEF S, t
  <2>5. t = Texts
    BY <2>1, <2>2, <2>4, SeqEqual
  <2> QED
    BY <2>5 DEF t
<1> QED
  BY <1>1, <1>2, <1>3, <1>4, <1>5, <1>6, Zenon

(* Each text is printed after the ones before it.                          *)
LEMMA NextText ==
  ASSUME NEW n \in 1 .. 4
  PROVE  /\ Texts[n] \in Seq(Printable) /\ BootText(n) \in Seq(Printable)
         /\ n > 1 => BootText(n) = BootText(n - 1) \o Texts[n]
PROOF
<1> DEFINE two == BootTexts[1] \o BootTexts[2]
           three == two \o BootTexts[3]
           four == three \o Greeting
<1>1. two \in Seq(Printable)
  BY TextsPrintable, ConcatJoins, Zenon
<1>2. three \in Seq(Printable)
  BY <1>1, TextsPrintable, ConcatJoins, Zenon
<1>3. four \in Seq(Printable)
  BY <1>2, TextsPrintable, ConcatJoins, Zenon
<1>4. /\ BootText(1) = BootTexts[1] /\ BootText(2) = two /\ BootText(3) = three
      /\ BootText(4) = four
  BY DEF BootText
<1>5. /\ Texts[1] = BootTexts[1] /\ Texts[2] = BootTexts[2] /\ Texts[3] = BootTexts[3]
      /\ Texts[4] = Greeting
  BY TextsPrintable
<1>6. /\ BootText(2) = BootText(1) \o Texts[2] /\ BootText(3) = BootText(2) \o Texts[3]
      /\ BootText(4) = BootText(3) \o Texts[4]
  BY <1>4, <1>5, Zenon
<1>7. /\ BootText(1) \in Seq(Printable) /\ BootText(2) \in Seq(Printable)
      /\ BootText(3) \in Seq(Printable) /\ BootText(4) \in Seq(Printable)
  BY <1>1, <1>2, <1>3, <1>4, TextsPrintable, Zenon
<1>8. /\ Texts[1] \in Seq(Printable) /\ Texts[2] \in Seq(Printable)
      /\ Texts[3] \in Seq(Printable) /\ Texts[4] \in Seq(Printable)
  BY <1>5, TextsPrintable, Zenon
<1> HIDE DEF two, three, four
<1>9. n = 1 \/ (n = 2 /\ n - 1 = 1) \/ (n = 3 /\ n - 1 = 2) \/ (n = 4 /\ n - 1 = 3)
  OBVIOUS
<1>10. ~(1 > 1)
  OBVIOUS
<1> QED
  BY <1>6, <1>7, <1>8, <1>9, <1>10, Zenon

(* The first text is sent before the port is set up for the second.        *)
LEMMA FirstTextSent ==
  ASSUME Types, PortState, boot >= 2
  PROVE  Len(Texts[1]) \in 0 .. Len(sent)
PROOF
<1>1. Texts[1] \in Seq(Printable)
  BY NextText
<1>2. Len(Texts[1]) \in Nat
  BY <1>1
<1>3. Len(sent) \in Nat
  BY DEF Types
<1>4. Len(sent) >= Len(Texts[1])
  BY DEF PortState
<1> QED
  BY <1>2, <1>3, <1>4

-----------------------------------------------------------------------------
(* The stack. *)

(* The top frame goes on, with text, at the step at.                       *)
Went(text, at) ==
  /\ stack' \in Seq(Frame) /\ Len(stack') = Len(stack)
  /\ \A i \in 1 .. Len(stack) : i # Len(stack) => stack'[i] = stack[i]
  /\ Top' = Running(text, at)

(* Goto does that. *)
LEMMA GotoWent ==
  ASSUME Types, NEW text, NEW at, Running(text, at) \in Frame, Goto(text, at)
  PROVE  Went(text, at)
PROOF
<1>1. stack \in Seq(Frame) /\ Len(stack) \in 1 .. Len(stack)
  BY DEF Types
<1> DEFINE s == [stack EXCEPT ![Len(stack)] = Running(text, at)]
<1>2. /\ s \in Seq(Frame) /\ Len(s) = Len(stack)
      /\ \A j \in 1 .. Len(stack) :
           s[j] = IF j = Len(stack) THEN Running(text, at) ELSE stack[j]
  BY <1>1, ExceptSeq
<1>3. stack' = s
  BY DEF Goto
<1> HIDE DEF s
<1> QED
  BY <1>1, <1>2, <1>3 DEF Went, Top

(* It may also stay where it is.                                           *)
LEMMA StayWent ==
  ASSUME Types, stack' = stack
  PROVE  Went(Top.text, Top.at)
PROOF
<1>1. stack \in Seq(Frame) /\ Len(stack) \in 1 .. Len(stack) /\ stack[Len(stack)] \in Frame
  BY DEF Types
<1>2. \A f \in Frame : f = Running(f.text, f.at)
  BY DEF Frame, Running
<1>3. Top = Running(Top.text, Top.at)
  BY <1>1, <1>2 DEF Top
<1> QED
  BY <1>1, <1>3 DEF Went, Top

(* The frames below the top are as they were, and the top is as it should  *)
(* be.                                                                     *)
LEMMA WentFrames ==
  ASSUME Types, Frames, NEW text, NEW at, Went(text, at),
         boot' = boot \/ Len(stack) = 1,
         FrameOK(Top, Len(stack) = 1)'
  PROVE  Frames'
PROOF
<1>1. Len(stack) \in Nat /\ Len(stack') = Len(stack)
  BY DEF Types, Went
<1> SUFFICES ASSUME NEW i \in 1 .. Len(stack)
             PROVE  FrameOK(stack[i], i = 1)'
  BY <1>1 DEF Frames
<1>2. CASE i = Len(stack)
  <2>1. stack'[i] = Top' /\ (i = 1) = (Len(stack') = 1)
    BY <1>1, <1>2 DEF Top
  <2> QED
    BY <2>1 DEF FrameOK
<1>3. CASE i # Len(stack)
  <2>1. stack'[i] = stack[i] /\ boot' = boot
    BY <1>1, <1>3 DEF Went
  <2>2. FrameOK(stack[i], i = 1)
    BY DEF Frames
  <2> QED
    BY <2>1, <2>2 DEF FrameOK
<1> QED
  BY <1>2, <1>3

(* The bottom frame is the top one while no exception runs.                *)
LEMMA Bottom ==
  ASSUME Types
  PROVE  /\ Len(stack) \in Nat /\ Len(stack) >= 1
         /\ Top \in Frame /\ Top.text \in Seq(Printable)
         /\ Undisturbed => stack[1] = Top
PROOF
<1>1. stack \in Seq(Frame) /\ Len(stack) \in 1 .. Len(stack) /\ stack[Len(stack)] \in Frame
  BY DEF Types
<1> QED
  BY <1>1 DEF Top, Frame, Undisturbed

-----------------------------------------------------------------------------
(* Steps that print nothing and type nothing. *)

(* The top frame is one of the frames. *)
LEMMA TopFrameOK ==
  ASSUME Types, Frames
  PROVE  FrameOK(Top, Len(stack) = 1)
PROOF
<1>1. Len(stack) \in 1 .. Len(stack)
  BY DEF Types
<1> QED
  BY <1>1 DEF Frames, Top

(* The top frame goes on to the step at, if it may be there.               *)
MayGo(at) ==
  /\ Running(Top.text, at) \in Frame
  /\ FrameOK(Running(Top.text, at), Len(stack) = 1)
  /\ boot = 1 /\ at # "serial_init" => setup = 1
  /\ at = "outb" => port.holding = << >>
  /\ at # "hlt" => Top.at # "hlt"

(* Nothing else changes that the invariant is about, but for the answer of *)
(* the driver and for a halt.                                              *)
Quiet(at) ==
  /\ Went(Top.text, at)
  /\ queue' = queue /\ boot' = boot /\ setup' = setup /\ port' = port /\ line' = line
  /\ typed' = typed /\ sent' = sent
  /\ answer' \in KeyChars \cup {NUL, Waiting}
  /\ halted' \in BOOLEAN
  /\ halted' => Len(stack) > 1 /\ Top.text = << >>

(* Such a step keeps the invariant.                                        *)
LEMMA QuietInv ==
  ASSUME Inv, NEW at, MayGo(at), Quiet(at)
  PROVE  Inv'
PROOF
<1>0. Types /\ Frames /\ Course /\ Announced /\ PortState /\ EchoedInOrder /\ LineCarries
  BY DEF Inv
<1>1. /\ Len(stack') = Len(stack) /\ Top'.text = Top.text /\ Top'.at = at
      /\ stack' \in Seq(Frame)
  BY DEF Quiet, Went, Running
<1>2. Types'
  BY <1>0, <1>1 DEF Types, Quiet, PortOK, IsPort
<1>3. Frames'
  <2>1. FrameOK(Top, Len(stack) = 1)'
    BY <1>1 DEF MayGo, FrameOK, Quiet, Running
  <2> QED
    BY <1>0, <2>1, WentFrames DEF Quiet
<1>4. Course'
  BY <1>0, <1>1 DEF Course, Quiet, MayGo
<1>5. Announced'
  BY <1>0, <1>1 DEF Announced, Quiet, MayGo
<1>6. PortState'
  BY <1>0, <1>1 DEF PortState, Quiet, MayGo
<1>7. EchoedInOrder'
  <2>1. stack'[1].text = stack[1].text \/ ~(Len(stack) = 1)
    BY <1>0, <1>1, <1>2, Bottom DEF Undisturbed, Top
  <2> QED
    BY <1>0, <1>1, <2>1 DEF EchoedInOrder, Undisturbed, Quiet
<1>8. LineCarries'
  BY <1>0 DEF LineCarries, Quiet
<1> QED
  BY <1>2, <1>3, <1>4, <1>5, <1>6, <1>7, <1>8 DEF Inv

(* A step of _start or of kernel_main's loop runs in the only frame, which *)
(* has nothing to print, after the text it follows.                        *)
LEMMA Placed ==
  ASSUME Inv, NEW step, At(step),
         step \in {"serial_init", "lidt", "terminal_clear", "set_cursor", "render", "getchar"}
  PROVE  Len(stack) = 1 /\ Top.text = << >> /\ <<step, boot>> \in Between /\ halted = FALSE
PROOF
<1>1. Types /\ Frames /\ Len(stack) \in 1 .. Len(stack)
  BY DEF Inv, Types
<1>2. FrameOK(Top, Len(stack) = 1) /\ Top.at = step /\ step \notin Printing \cup {"hlt"}
  BY <1>1 DEF Frames, Top, At, Printing
<1>3. halted = FALSE
  BY <1>1 DEF At, Types
<1> QED
  BY <1>2, <1>3 DEF FrameOK

(* The first frame may go on from a text to the step that follows it.      *)
LEMMA FirstMayGo ==
  ASSUME Types, Len(stack) = 1, Top.text = << >>, Top.at # "hlt",
         NEW at \in {"serial_init", "lidt", "terminal_clear", "set_cursor", "render", "getchar"},
         <<at, boot>> \in Between, boot = 1 => at = "serial_init"
  PROVE  MayGo(at)
PROOF
<1>1. Top.text \in Seq(Printable)
  BY Bottom
<1>2. Running(Top.text, at) \in Frame
  BY <1>1 DEF Running, Frame
<1>3. at \notin Printing
  BY DEF Printing
<1>4. FrameOK(Running(Top.text, at), Len(stack) = 1)
  BY <1>3 DEF FrameOK, Running
<1> QED
  BY <1>2, <1>4 DEF MayGo

(* The parts of the state that these steps leave alone.                    *)
Rest ==
  /\ queue' = queue /\ answer' = answer /\ boot' = boot
  /\ setup' = setup /\ port' = port /\ line' = line
  /\ typed' = typed /\ sent' = sent

(* A step of the top frame that changes only where it is.                  *)
LEMMA GoInv ==
  ASSUME Inv, NEW at, MayGo(at), Goto(Top.text, at), Rest, halted' = halted, ~halted
  PROVE  Inv'
PROOF
<1>1. Types /\ Types
  BY DEF Inv
<1>2. Went(Top.text, at)
  BY <1>1, GotoWent DEF MayGo
<1>3. Quiet(at)
  BY <1>1, <1>2 DEF Quiet, Rest, Types
<1> QED
  BY <1>3, QuietInv

(* The terminal's part of a character is done, and the port comes next.    *)
LEMMA WriteInv == ASSUME Inv, terminal_write PROVE Inv'
PROOF
<1>1. Types /\ Top \in Frame
  BY Bottom DEF Inv
<1>2. MayGo("wait_transmit")
  BY <1>1 DEF MayGo, FrameOK, Running, Frame, Printing, terminal_write, At, Inv, Course
<1>3. Rest /\ halted' = halted /\ ~halted /\ Goto(Top.text, "wait_transmit")
  BY DEF terminal_write, Rest, driver, serial, At
<1> QED
  BY <1>2, <1>3, GoInv

(* The port can take a byte.                                               *)
LEMMA WaitInv == ASSUME Inv, wait_transmit PROVE Inv'
PROOF
<1>1. Types /\ Top \in Frame /\ Len(stack) \in 1 .. Len(stack)
  BY Bottom DEF Inv, Types
<1>2. FrameOK(Top, Len(stack) = 1) /\ Top.at = "wait_transmit"
  BY <1>1 DEF Inv, Frames, Top, wait_transmit, At
<1>3. MayGo("outb")
  BY <1>1, <1>2 DEF MayGo, FrameOK, Running, Frame, Printing, wait_transmit, At, Inv, Course,
                    Empty
<1>4. Rest /\ halted' = halted /\ ~halted /\ Goto(Top.text, "outb")
  BY DEF wait_transmit, Rest, driver, serial, At
<1> QED
  BY <1>3, <1>4, GoInv

(* terminal_clear and terminal_render print nothing.                       *)
LEMMA ClearInv == ASSUME Inv, terminal_clear PROVE Inv'
PROOF
<1>1. Types /\ Top \in Frame
  BY Bottom DEF Inv
<1>2. Len(stack) = 1 /\ Top.text = << >> /\ <<"terminal_clear", boot>> \in Between
  BY Placed DEF terminal_clear
<1>3. boot = 3
  BY <1>2 DEF Between
<1>4. MayGo("set_cursor")
  BY <1>1, <1>2, <1>3 DEF MayGo, FrameOK, Running, Frame, Printing, Between, terminal_clear, At
<1>5. Rest /\ halted' = halted /\ ~halted /\ Goto(Top.text, "set_cursor")
  BY <1>2 DEF terminal_clear, Rest, driver, serial, At
<1> QED
  BY <1>4, <1>5, GoInv

(* terminal_render prints nothing either.                                  *)
LEMMA RenderInv == ASSUME Inv, Render PROVE Inv'
PROOF
<1>1. Types /\ Top \in Frame
  BY Bottom DEF Inv
<1>2. Len(stack) = 1 /\ Top.text = << >> /\ <<"render", boot>> \in Between
  BY Placed DEF Render
<1>3. boot = 4
  BY <1>2 DEF Between
<1>4. MayGo("getchar")
  BY <1>1, <1>2, <1>3 DEF MayGo, FrameOK, Running, Frame, Printing, Between, Render, At
<1>5. Rest /\ halted' = halted /\ ~halted /\ Goto(Top.text, "getchar")
  BY <1>2 DEF Render, Rest, driver, serial, At
<1> QED
  BY <1>4, <1>5, GoInv

(* A text is printed: the first frame goes on, an exception halts.         *)
LEMMA PrintedInv == ASSUME Inv, Printed PROVE Inv'
PROOF
<1>0. Len(stack) \in Nat /\ Len(stack) >= 1
  BY Bottom DEF Inv
<1>1. Types /\ Top \in Frame /\ Top.text = << >> /\ Top.at = "write" /\ ~halted
  BY Bottom DEF Inv, Printed, At
<1>2. Rest
  BY DEF Printed, Rest, driver, serial
<1>3. CASE Len(stack) = 1
  <2>1. PICK step \in {"serial_init", "lidt", "terminal_clear", "set_cursor", "render", "getchar"} :
          step = AfterText[boot] /\ <<step, boot>> \in Between /\ (boot = 1 => step = "serial_init")
    <3>1. boot = 1 \/ boot = 2 \/ boot = 3 \/ boot = 4
      BY <1>1 DEF Types
    <3> QED
      BY <3>1 DEF AfterText, Between
  <2>2. MayGo(step)
    <3>1. Top.at # "hlt"
      BY <1>1
    <3> QED
      BY <1>1, <1>3, <2>1, <3>1, FirstMayGo
  <2>3. Goto(Top.text, step) /\ halted' = halted
    BY <1>1, <1>3, <2>1 DEF Printed
  <2> QED
    BY <1>1, <1>2, <2>2, <2>3, GoInv
<1>4. CASE Len(stack) # 1
  <2>1. stack' = stack /\ halted' = TRUE
    BY <1>4 DEF Printed
  <2>2. Went(Top.text, Top.at)
    BY <1>1, <2>1, StayWent
  <2>3. MayGo("write")
    BY <1>1, <1>4 DEF MayGo, FrameOK, Running, Frame, Printing, Inv, Course
  <2>4. Quiet("write")
    <3>0. Len(stack) > 1
      BY <1>0, <1>4
    <3>1. Went(Top.text, "write")
      BY <1>1, <2>2 DEF Went
    <3>2. answer \in KeyChars \cup {NUL, Waiting}
      BY <1>1 DEF Types
    <3> QED
      BY <1>1, <1>2, <2>1, <3>0, <3>1, <3>2 DEF Quiet, Rest
  <2> QED
    BY <2>3, <2>4, QuietInv
<1> QED
  BY <1>3, <1>4

-----------------------------------------------------------------------------
(* Printing a character. *)

(* A register's good character is one, or there is none.                   *)
LEMMA GoodType ==
  ASSUME NEW register, Register(register)
  PROVE  /\ Good(register) \in Seq(Printable)
         /\ Bad(register) \/ register = << >> => Good(register) = << >>
PROOF
<1>1. CASE register = << >>
  BY <1>1 DEF Good
<1>2. CASE \E b \in Byte : register = <<b>>
  <2>1. PICK b \in Byte : register = <<b>>
    BY <1>2
  <2>2. register # << >> /\ register[1] = b /\ b.char \in Printable
    BY <2>1 DEF Byte
  <2> QED
    BY <2>2 DEF Good, Bad
<1> QED
  BY <1>1, <1>2 DEF Register

(* The port as it is whenever something is printed.                        *)
LEMMA PortPrinting ==
  ASSUME Inv, Top.at \in Printing
  PROVE  /\ port.dlab = FALSE
         /\ boot = 1 => Settings(port) = <<Unknown, Unknown, Unknown>>
         /\ boot # 1 => Settings(port) = Wanted
PROOF
<1>1. setup \in 1 .. 8 /\ boot \in 1 .. 4
  BY DEF Inv, Types
<1>2. (boot = 1 => setup = 1) /\ (boot # 1 => setup = 8)
  BY <1>1 DEF Inv, Course, Printing
<1>3. <<port.dlab, port.low, port.high, port.format>> = Divisor[setup]
  BY DEF Inv, PortState
<1>4. Divisor[1] = <<FALSE, Unknown, Unknown, Unknown>> /\ Divisor[8] = <<FALSE, 3, 0, 3>>
  BY DEF Divisor
<1>5. CASE boot = 1
  <2>1. <<port.dlab, port.low, port.high, port.format>> = <<FALSE, Unknown, Unknown, Unknown>>
    BY <1>2, <1>3, <1>4, <1>5, Zenon
  <2> QED
    BY <1>5, <2>1 DEF Settings
<1>6. CASE boot # 1
  <2>1. <<port.dlab, port.low, port.high, port.format>> = <<FALSE, 3, 0, 3>>
    BY <1>2, <1>3, <1>4, <1>6, Zenon
  <2> QED
    BY <1>6, <2>1 DEF Settings, Wanted
<1> QED
  BY <1>5, <1>6

(* What a write to the data register does then.                            *)
LEMMA GivePrinting ==
  ASSUME Inv, Top.at = "outb", NEW c \in Printable, port' = Give(port, c)
  PROVE  /\ PortOK'
         /\ port'.dlab = port.dlab /\ port'.low = port.low /\ port'.high = port.high
         /\ port'.format = port.format /\ port'.shifting = port.shifting
         /\ port'.holding = <<[char |-> c, settings |-> Settings(port)]>>
         /\ boot = 1 => Bad(port'.holding)
         /\ boot # 1 => Good(port'.holding) = <<c>>
PROOF
<1>1. /\ port.dlab = FALSE
      /\ boot = 1 => Settings(port) = <<Unknown, Unknown, Unknown>>
      /\ boot # 1 => Settings(port) = Wanted
  BY PortPrinting DEF Printing
<1> DEFINE b == [char |-> c, settings |-> Settings(port)]
<1>2. b \in Byte /\ b.char = c /\ b.settings = Settings(port)
  BY <1>1 DEF Byte
<1>3. PortOK
  BY DEF Inv, Types
<1>4. port' = [port EXCEPT !.holding = <<b>>]
  BY <1>1 DEF Give
<1> HIDE DEF b
<1>5. /\ port'.dlab = port.dlab /\ port'.low = port.low /\ port'.high = port.high
      /\ port'.format = port.format /\ port'.shifting = port.shifting
      /\ port'.holding = <<b>>
      /\ port' = [f \in Fields |-> port'[f]]
  BY <1>3, <1>4 DEF PortOK, IsPort, Fields
<1>6. Register(port'.holding) /\ Register(port'.shifting) /\ port'.dlab \in BOOLEAN
  BY <1>2, <1>3, <1>5 DEF PortOK, IsPort, Register
<1>7. PortOK'
  BY <1>5, <1>6 DEF PortOK, IsPort
<1>8. boot = 1 => Bad(port'.holding)
  <2>1. <<Unknown, Unknown, Unknown>> # Wanted
    BY SettingsAssumption DEF Wanted
  <2> QED
    BY <1>1, <1>2, <1>5, <2>1 DEF Bad
<1>9. boot # 1 => Good(port'.holding) = <<c>>
  BY <1>1, <1>2, <1>5 DEF Good
<1> QED
  BY <1>5, <1>7, <1>8, <1>9 DEF b

(* A character goes to the port: it leaves the text and joins what is      *)
(* sent.                                                                   *)
LEMMA PutcharInv == ASSUME Inv, serial_putchar PROVE Inv'
PROOF
<1> DEFINE t == Top.text
           c == Head(t)
<1>0. Types /\ Frames /\ Course /\ Announced /\ PortState /\ EchoedInOrder /\ LineCarries
  BY DEF Inv
<1>1. /\ Len(stack) \in Nat /\ Len(stack) >= 1 /\ t \in Seq(Printable)
      /\ Undisturbed => stack[1] = Top
  BY <1>0, Bottom
<1>2. Top.at = "outb" /\ halted = FALSE /\ t # << >>
  <2>1. Top.at = "outb" /\ halted = FALSE
    BY <1>0 DEF serial_putchar, At, Types
  <2>2. FrameOK(Top, Len(stack) = 1)
    BY <1>0, TopFrameOK
  <2> QED
    BY <2>1, <2>2 DEF FrameOK
<1>3. /\ sent' = Append(sent, c) /\ port' = Give(port, c)
      /\ Goto(Tail(t), "write")
      /\ queue' = queue /\ answer' = answer /\ boot' = boot /\ setup' = setup
      /\ line' = line /\ halted' = halted /\ typed' = typed
  BY DEF serial_putchar, driver
<1>4. c \in Printable /\ Tail(t) \in Seq(Printable) /\ sent \in Seq(Printable)
  BY <1>0, <1>1, <1>2 DEF Types
<1>5. sent' \in Seq(Printable) /\ sent' \o Tail(t) = sent \o t
  <2>1. PassedOn(sent, t, Printable)
    BY <1>1, <1>2, <1>4, PassOn, Zenon
  <2> QED
    BY <1>3, <2>1, Zenon DEF PassedOn
<1> HIDE DEF t, c
<1>6. Went(Tail(t), "write")
  <2>1. Running(Tail(t), "write") \in Frame
    BY <1>4 DEF Running, Frame, Printing
  <2> QED
    BY <1>0, <1>3, <2>1, GotoWent
<1>7. /\ Len(stack') = Len(stack) /\ stack' \in Seq(Frame)
      /\ Top'.text = Tail(t) /\ Top'.at = "write"
  BY <1>6 DEF Went, Running
<1>8. /\ PortOK'
      /\ port'.dlab = port.dlab /\ port'.low = port.low /\ port'.high = port.high
      /\ port'.format = port.format /\ port'.shifting = port.shifting
      /\ boot = 1 => Bad(port'.holding)
      /\ boot # 1 => Good(port'.holding) = <<c>>
  BY <1>2, <1>3, <1>4, GivePrinting
<1>9. Types'
  BY <1>0, <1>3, <1>5, <1>7, <1>8 DEF Types
<1>10. Frames'
  <2>1. FrameOK(Top, Len(stack) = 1)'
    BY <1>7 DEF FrameOK, Printing
  <2> QED
    <3>1. boot' = boot \/ Len(stack) = 1
      BY <1>3
    <3> QED
      BY <1>0, <1>6, <2>1, <3>1, WentFrames
<1>11. Course'
  BY <1>0, <1>2, <1>3, <1>7 DEF Course
<1>12. Len(sent') = Len(sent) + 1 /\ Len(sent) \in Nat
  BY <1>3, <1>4
<1>13. Announced'
  <2> SUFFICES ASSUME Len(stack) > 1
               PROVE  \E n \in 0 .. Len(sent') : sent' \o Tail(t) = SubSeq(sent', 1, n) \o Message
    BY <1>7 DEF Announced
  <2>1. PICK n \in 0 .. Len(sent) : sent \o t = SubSeq(sent, 1, n) \o Message
    BY <1>0, <1>2 DEF Announced, t
  <2>2. SubSeq(sent', 1, n) = SubSeq(sent, 1, n)
    BY <1>3, <1>4, CutAppend
  <2>3. n \in 0 .. Len(sent')
    BY <1>12
  <2> QED
    BY <1>5, <2>1, <2>2, <2>3
<1>14. PortState'
  <2>1. port'.dlab = port.dlab /\ <<port.dlab, port.low, port.high, port.format>> = Divisor[setup]
    BY <1>0, <1>8 DEF PortState
  <2>2. <<port'.dlab, port'.low, port'.high, port'.format>> = Divisor[setup']
    BY <1>3, <1>8, <2>1
  <2>3. boot' = 1 => line' = << >> /\ Bad(port'.holding) /\ Bad(port'.shifting)
    BY <1>0, <1>3, <1>8 DEF PortState
  <2>4. boot' >= 2 => Len(sent') >= Len(Texts[1])
    <3>1. Len(Texts[1]) \in Nat /\ Len(sent) \in Nat /\ Len(sent') = Len(sent) + 1
      BY <1>12, NextText
    <3>2. boot >= 2 => Len(sent) >= Len(Texts[1])
      BY <1>0 DEF PortState
    <3> QED
      BY <1>3, <3>1, <3>2
  <2> QED
    BY <1>7, <2>2, <2>3, <2>4 DEF PortState
<1>15. EchoedInOrder'
  <2> SUFFICES ASSUME Undisturbed
               PROVE  sent' \o stack'[1].text \o queue = BootText(boot) \o typed
    BY <1>3, <1>7 DEF EchoedInOrder, Undisturbed
  <2>1. stack'[1].text = Tail(t)
    BY <1>7 DEF Top, Undisturbed
  <2>2. sent \o t \o queue = BootText(boot) \o typed
    BY <1>0, <1>1 DEF EchoedInOrder, t
  <2> QED
    BY <1>5, <2>1, <2>2
<1>16. LineCarries'
  <2> SUFFICES ASSUME boot >= 2
               PROVE  line \o Good(port'.shifting) \o Good(port'.holding) =
                        Cut(sent', Len(Texts[1]))
    BY <1>3 DEF LineCarries, Cut
  <2> DEFINE a == line \o Good(port.shifting)
             n == Len(Texts[1])
  <2>1. a \in Seq(Printable)
    <3>1. Good(port.shifting) \in Seq(Printable)
      BY <1>0, GoodType DEF Types, PortOK, IsPort
    <3> QED
      BY <1>0, <3>1, ConcatJoins DEF Types
  <2>2. port.holding = << >> /\ Good(port.holding) = << >>
    BY <1>0, <1>2 DEF PortState, Good
  <2>3. n \in 0 .. Len(sent)
    BY <1>0, FirstTextSent
  <2>4. a \o << >> = Cut(sent, n)
    BY <1>0, <2>2 DEF LineCarries, Cut
  <2>5. Good(port'.shifting) = Good(port.shifting) /\ Good(port'.holding) = <<c>>
    BY <1>8
  <2>6. Cut(sent', n) = Append(Cut(sent, n), c)
    BY <1>3, <1>4, <2>3, CutAppend
  <2> HIDE DEF a, n
  <2>7. a \o << >> = a /\ a \o <<c>> = Append(a, c)
    BY <1>4, <2>1, ConcatEmptySeq, AppendConcat
  <2> QED
    BY <2>4, <2>5, <2>6, <2>7 DEF a, n
<1> QED
  BY <1>9, <1>10, <1>11, <1>13, <1>14, <1>15, <1>16 DEF Inv

-----------------------------------------------------------------------------
(* The steps of _start and of the loop that begin to print. *)

(* While nothing was typed and one text is printed, all that was sent is   *)
(* the texts.                                                              *)
LEMMA AllSent ==
  ASSUME Inv, boot < 4, Len(stack) = 1, Top.text = << >>
  PROVE  sent = BootText(boot) /\ sent \in Seq(Printable)
PROOF
<1>1. Types /\ Course /\ EchoedInOrder /\ Undisturbed /\ boot \in 1 .. 4
  BY DEF Inv, Undisturbed, Types
<1>2. stack[1].text = << >> /\ queue = << >> /\ typed = << >>
  BY <1>1, Bottom DEF Course
<1>3. sent \o << >> \o << >> = BootText(boot) \o << >>
  BY <1>1, <1>2 DEF EchoedInOrder
<1>4. sent \in Seq(Printable) /\ BootText(boot) \in Seq(Printable)
  BY <1>1, NextText DEF Types
<1>5. sent \o << >> = sent /\ BootText(boot) \o << >> = BootText(boot)
  BY <1>4, ConcatEmptySeq
<1> QED
  BY <1>3, <1>4, <1>5

(* The next text comes.                                                    *)
LEMMA PrintsInv ==
  ASSUME Inv, NEW n \in 2 .. 4, boot = n - 1, setup = 8, Len(stack) = 1, Top.text = << >>,
         halted = FALSE, Prints(n),
         queue' = queue, answer' = answer, setup' = setup, port' = port, line' = line,
         halted' = halted, typed' = typed, sent' = sent
  PROVE  Inv'
PROOF
<1>0. Types /\ Frames /\ Course /\ Announced /\ PortState /\ EchoedInOrder /\ LineCarries
  BY DEF Inv
<1>1. /\ Texts[n] \in Seq(Printable) /\ BootText(n) \in Seq(Printable)
      /\ BootText(n) = BootText(n - 1) \o Texts[n]
  <2>1. n \in 1 .. 4 /\ n > 1
    OBVIOUS
  <2> QED
    BY <2>1, NextText, Zenon
<1>2. Goto(Texts[n], "write") /\ boot' = n
  BY DEF Prints
<1>3. Went(Texts[n], "write")
  <2>1. Running(Texts[n], "write") \in Frame
    BY <1>1 DEF Running, Frame, Printing
  <2> QED
    BY <1>0, <1>2, <2>1, GotoWent
<1>4. /\ Len(stack') = 1 /\ stack' \in Seq(Frame)
      /\ Top'.text = Texts[n] /\ Top'.at = "write" /\ stack'[1] = Top'
  BY <1>3 DEF Went, Running, Top
<1>5. queue = << >> /\ typed = << >> /\ boot < 4
  BY <1>0 DEF Course
<1>6. Types'
  BY <1>0, <1>2, <1>4 DEF Types, PortOK, IsPort
<1>7. Frames'
  <2>1. FrameOK(Top, Len(stack) = 1)'
    BY <1>4 DEF FrameOK, Printing
  <2> QED
    BY <1>0, <1>3, <2>1, WentFrames
<1>8. Course'
  BY <1>2, <1>4, <1>5 DEF Course
<1>9. Announced'
  BY <1>4 DEF Announced
<1>10. sent = BootText(n - 1) /\ sent \in Seq(Printable)
  BY <1>5, AllSent
<1>11. EchoedInOrder'
  <2>1. sent \o Texts[n] \o << >> = BootText(n) \o << >>
    BY <1>1, <1>10
  <2> QED
    BY <1>2, <1>4, <1>5, <2>1 DEF EchoedInOrder
<1>12. n = 2 \/ (n # 2 /\ boot >= 2)
  OBVIOUS
<1>13. n = 2 => sent = Texts[1] /\ boot = 1
  BY <1>10, TextsPrintable DEF BootText
<1>14. PortState'
  <2>1. boot' >= 2 => Len(sent') >= Len(Texts[1])
    <3>1. Len(sent) \in Nat
      BY <1>10
    <3> QED
      BY <1>0, <1>12, <1>13, <3>1 DEF PortState
  <2>2. boot' # 1
    BY <1>2
  <2> QED
    BY <1>0, <1>4, <2>1, <2>2 DEF PortState
<1>15. LineCarries'
  <2>1. CASE n = 2
    <3>1. line = << >> /\ Good(port.shifting) = << >> /\ Good(port.holding) = << >>
      BY <1>0, <1>13, <2>1, GoodType DEF PortState, Types, PortOK, IsPort
    <3>2. SubSeq(sent, Len(Texts[1]) + 1, Len(sent)) = << >>
      <4>1. Len(sent) \in Nat /\ Texts[1] = sent
        BY <1>10, <1>13, <2>1
      <4>2. \A k \in Nat : k + 1 \in Int /\ k \in Int /\ k < k + 1
        OBVIOUS
      <4>3. SubSeq(sent, Len(sent) + 1, Len(sent)) = << >>
        BY <4>1, <4>2, SubSeqEmpty, Zenon
      <4> QED
        BY <4>1, <4>3, Zenon
    <3>3. << >> \o << >> \o << >> = << >>
      BY EmptySeq, ConcatEmptySeq
    <3>4. line' = line /\ port' = port /\ sent' = sent
      OBVIOUS
    <3> QED
      BY <3>1, <3>2, <3>3, <3>4, Zenon DEF LineCarries
  <2>2. CASE n # 2
    BY <1>0, <1>12, <2>2 DEF LineCarries
  <2> QED
    BY <2>1, <2>2
<1> QED
  BY <1>6, <1>7, <1>8, <1>9, <1>11, <1>14, <1>15 DEF Inv

-----------------------------------------------------------------------------
(* Setting the port up. *)

(* A write of a setup register gives a port with the same contents, or     *)
(* empties the holding register; and then the bytes on their way may be    *)
(* spoilt, which makes none of them good.                                  *)
Unready(p) == IsPort(p) /\ Bad(p.holding) /\ Bad(p.shifting)

SameSettings(p, q) ==
  p.dlab = q.dlab /\ p.low = q.low /\ p.high = q.high /\ p.format = q.format

(* Spoiling leaves a byte in its register, but never a good one.           *)
LEMMA SpoiltRegister ==
  ASSUME NEW register, Register(register)
  PROVE  Register(Spoiled(register)) /\ Bad(Spoiled(register))
PROOF
<1>1. CASE register = << >>
  <2>1. Spoiled(<< >>) = << >>
    BY DEF Spoiled
  <2> QED
    BY <1>1, <2>1 DEF Register, Bad
<1>2. CASE \E b \in Byte : register = <<b>>
  <2>1. PICK b \in Byte : register = <<b>>
    BY <1>2
  <2> DEFINE d == [b EXCEPT !.settings = Changed]
  <2>2. d \in Byte /\ d.settings = Changed
    BY DEF Byte
  <2>3. Spoiled(register) = <<d>>
    <3>1. DOMAIN <<b>> = {1}
      OBVIOUS
    <3>2. Spoiled(<<b>>) = [n \in {1} |-> d]
      BY <3>1 DEF Spoiled
    <3> HIDE DEF d
    <3>3. <<d>> = [n \in {1} |-> d]
      OBVIOUS
    <3> QED
      BY <2>1, <3>2, <3>3
  <2> HIDE DEF d
  <2>4. <<d>>[1] = d /\ d.settings # Wanted
    BY <2>2, SettingsAssumption
  <2>5. Register(<<d>>)
    BY <2>2 DEF Register
  <2>6. Bad(<<d>>)
    BY <2>4 DEF Bad
  <2> QED
    BY <2>3, <2>5, <2>6
<1> QED
  BY <1>1, <1>2 DEF Register

(* Spoiling changes no setting, and a port that is not ready stays so.     *)
LEMMA SpoiltPort ==
  ASSUME NEW p, Unready(p), NEW before
  PROVE  Unready(Spoil(p, before)) /\ SameSettings(Spoil(p, before), p)
PROOF
<1> DEFINE q == [p EXCEPT !.holding = Spoiled(p.holding), !.shifting = Spoiled(p.shifting)]
<1>1. IsPort(p) /\ Bad(p.holding) /\ Bad(p.shifting)
  BY DEF Unready
<1>2. /\ q = [f \in Fields |-> q[f]]
      /\ SameSettings(q, p)
      /\ q.holding = Spoiled(p.holding) /\ q.shifting = Spoiled(p.shifting)
  BY <1>1 DEF IsPort, SameSettings, Fields
<1> HIDE DEF q
<1>3. /\ Register(q.holding) /\ Bad(q.holding)
      /\ Register(q.shifting) /\ Bad(q.shifting)
  BY <1>1, <1>2, SpoiltRegister DEF IsPort
<1>4. Unready(q)
  BY <1>1, <1>2, <1>3 DEF Unready, IsPort, SameSettings
<1>5. Spoil(p, before) = p \/ Spoil(p, before) = q
  BY DEF Spoil, q
<1>6. SameSettings(p, p)
  BY DEF SameSettings
<1> QED
  BY <1>2, <1>4, <1>5, <1>6

(* What a write to a register does to the settings.                        *)
Written(q, p, register, value) ==
  /\ Unready(q)
  /\ q.dlab = (IF register = 3 THEN value >= 128 ELSE p.dlab)
  /\ q.low = (IF register = 0 THEN value ELSE p.low)
  /\ q.high = (IF register = 1 /\ p.dlab THEN value ELSE p.high)
  /\ q.format = (IF register = 3 THEN value % 128 ELSE p.format)

(* A write changes the settings like that.                                 *)
LEMMA OutbWritten ==
  ASSUME NEW p, Unready(p), NEW register \in 0 .. 4, NEW value \in 0 .. 255
  PROVE  Written(Outb(p, register, value), p, register, value)
PROOF
<1> DEFINE w == CASE register = 0 -> [p EXCEPT !.low = value]
                  [] register = 1 /\ p.dlab -> [p EXCEPT !.high = value]
                  [] register = 2 /\ (value \div 4) % 2 = 1 -> [p EXCEPT !.holding = << >>]
                  [] register = 3 -> [p EXCEPT !.dlab = value >= 128, !.format = value % 128]
                  [] OTHER -> p
           f == value % 128
<1>1. IsPort(p) /\ Bad(p.holding) /\ Bad(p.shifting)
  BY DEF Unready
<1>2. (value >= 128) \in BOOLEAN
  OBVIOUS
<1>3. Written(w, p, register, value)
  <2> HIDE DEF f
  <2>1. CASE register = 0
    <3>1. w = [p EXCEPT !.low = value]
      BY <2>1
    <3> HIDE DEF w
    <3> QED
      BY <1>1, <2>1, <3>1 DEF Written, Unready, IsPort, Fields
  <2>2. CASE register = 1 /\ p.dlab
    <3>1. w = [p EXCEPT !.high = value]
      BY <2>2
    <3> HIDE DEF w
    <3> QED
      BY <1>1, <2>2, <3>1 DEF Written, Unready, IsPort, Fields
  <2>3. CASE register = 2 /\ (value \div 4) % 2 = 1
    <3>1. w = [p EXCEPT !.holding = << >>]
      BY <2>3
    <3>2. Register(<< >>) /\ Bad(<< >>)
      BY DEF Register, Bad
    <3> HIDE DEF w
    <3> QED
      BY <1>1, <2>3, <3>1, <3>2 DEF Written, Unready, IsPort, Fields
  <2>4. CASE register = 3
    <3>1. w = [p EXCEPT !.dlab = value >= 128, !.format = f]
      BY <2>4 DEF f
    <3> HIDE DEF w
    <3>2. /\ w = [n \in Fields |-> w[n]]
          /\ w.dlab = (value >= 128) /\ w.format = f /\ w.low = p.low /\ w.high = p.high
          /\ w.holding = p.holding /\ w.shifting = p.shifting
      BY <1>1, <3>1 DEF IsPort, Fields
    <3>3. Unready(w)
      BY <1>1, <1>2, <3>2 DEF Unready, IsPort
    <3> QED
      BY <2>4, <3>2, <3>3 DEF Written, f
  <2>5. CASE ~(register = 0) /\ ~(register = 1 /\ p.dlab) /\ ~(register = 3)
             /\ ~(register = 2 /\ (value \div 4) % 2 = 1)
    <3>1. w = p
      BY <2>5
    <3> HIDE DEF w
    <3> QED
      BY <2>5, <3>1 DEF Written
  <2> QED
    BY <2>1, <2>2, <2>3, <2>4, <2>5
<1>4. Outb(p, register, value) = Spoil(w, p)
  BY DEF Outb
<1> HIDE DEF w, f
<1>5. Unready(Spoil(w, p)) /\ SameSettings(Spoil(w, p), w)
  BY <1>3, SpoiltPort DEF Written
<1> QED
  BY <1>3, <1>4, <1>5 DEF Written, SameSettings

(* Each write of serial_init leaves the settings that Divisor says.        *)
LEMMA SetupWrites ==
  ASSUME NEW p, Unready(p), NEW n \in 1 .. 7,
         <<p.dlab, p.low, p.high, p.format>> = Divisor[n],
         NEW q, q = Outb(p, serial_init[n][1], serial_init[n][2])
  PROVE  Unready(q) /\ <<q.dlab, q.low, q.high, q.format>> = Divisor[n + 1]
PROOF
<1>1. CASE n = 1
  <2>1. serial_init[n] = <<1, 0>> /\ n + 1 = 2
    BY <1>1 DEF serial_init
  <2>2. Divisor[n] = <<FALSE, Unknown, Unknown, Unknown>> /\ Divisor[2] = <<FALSE, Unknown, Unknown, Unknown>>
    BY <1>1 DEF Divisor
  <2>3. Written(q, p, 1, 0)
    <3>1. q = Outb(p, 1, 0)
      BY <2>1
    <3> QED
      BY <3>1, OutbWritten
  <2>4. p.dlab = FALSE /\ p.low = Unknown /\ p.high = Unknown /\ p.format = Unknown
    <3>1. <<p.dlab, p.low, p.high, p.format>> = <<FALSE, Unknown, Unknown, Unknown>>
      BY <2>2, Zenon
    <3> QED
      BY <3>1
  <2>5. Unready(q) /\ q.dlab = FALSE /\ q.low = Unknown /\ q.high = Unknown /\ q.format = Unknown
    BY <2>3, <2>4 DEF Written
  <2> QED
    BY <2>1, <2>2, <2>5, Zenon
<1>2. CASE n = 2
  <2>1. serial_init[n] = <<3, 128>> /\ n + 1 = 3
    BY <1>2 DEF serial_init
  <2>2. Divisor[n] = <<FALSE, Unknown, Unknown, Unknown>> /\ Divisor[3] = <<TRUE, Unknown, Unknown, 0>>
    BY <1>2 DEF Divisor
  <2>3. Written(q, p, 3, 128)
    <3>1. q = Outb(p, 3, 128)
      BY <2>1
    <3> QED
      BY <3>1, OutbWritten
  <2>4. p.dlab = FALSE /\ p.low = Unknown /\ p.high = Unknown /\ p.format = Unknown
    <3>1. <<p.dlab, p.low, p.high, p.format>> = <<FALSE, Unknown, Unknown, Unknown>>
      BY <2>2, Zenon
    <3> QED
      BY <3>1
  <2>5. Unready(q) /\ q.dlab = TRUE /\ q.low = Unknown /\ q.high = Unknown /\ q.format = 0
    <3>1. 128 % 128 = 0 /\ (128 >= 128) = TRUE
      OBVIOUS
    <3>2. q.dlab = (128 >= 128) /\ q.format = 128 % 128
      BY <2>3 DEF Written
    <3>3. q.dlab = TRUE /\ q.format = 0
      BY <3>1, <3>2, Zenon
    <3>4. Unready(q) /\ q.low = p.low /\ q.high = p.high
      BY <2>3 DEF Written
    <3> QED
      BY <2>4, <3>3, <3>4
  <2> QED
    BY <2>1, <2>2, <2>5, Zenon
<1>3. CASE n = 3
  <2>1. serial_init[n] = <<0, 3>> /\ n + 1 = 4
    BY <1>3 DEF serial_init
  <2>2. Divisor[n] = <<TRUE, Unknown, Unknown, 0>> /\ Divisor[4] = <<TRUE, 3, Unknown, 0>>
    BY <1>3 DEF Divisor
  <2>3. Written(q, p, 0, 3)
    <3>1. q = Outb(p, 0, 3)
      BY <2>1
    <3> QED
      BY <3>1, OutbWritten
  <2>4. p.dlab = TRUE /\ p.low = Unknown /\ p.high = Unknown /\ p.format = 0
    <3>1. <<p.dlab, p.low, p.high, p.format>> = <<TRUE, Unknown, Unknown, 0>>
      BY <2>2, Zenon
    <3> QED
      BY <3>1
  <2>5. Unready(q) /\ q.dlab = TRUE /\ q.low = 3 /\ q.high = Unknown /\ q.format = 0
    BY <2>3, <2>4 DEF Written
  <2> QED
    BY <2>1, <2>2, <2>5, Zenon
<1>4. CASE n = 4
  <2>1. serial_init[n] = <<1, 0>> /\ n + 1 = 5
    BY <1>4 DEF serial_init
  <2>2. Divisor[n] = <<TRUE, 3, Unknown, 0>> /\ Divisor[5] = <<TRUE, 3, 0, 0>>
    BY <1>4 DEF Divisor
  <2>3. Written(q, p, 1, 0)
    <3>1. q = Outb(p, 1, 0)
      BY <2>1
    <3> QED
      BY <3>1, OutbWritten
  <2>4. p.dlab = TRUE /\ p.low = 3 /\ p.high = Unknown /\ p.format = 0
    <3>1. <<p.dlab, p.low, p.high, p.format>> = <<TRUE, 3, Unknown, 0>>
      BY <2>2, Zenon
    <3> QED
      BY <3>1
  <2>5. Unready(q) /\ q.dlab = TRUE /\ q.low = 3 /\ q.high = 0 /\ q.format = 0
    BY <2>3, <2>4 DEF Written
  <2> QED
    BY <2>1, <2>2, <2>5, Zenon
<1>5. CASE n = 5
  <2>1. serial_init[n] = <<3, 3>> /\ n + 1 = 6
    BY <1>5 DEF serial_init
  <2>2. Divisor[n] = <<TRUE, 3, 0, 0>> /\ Divisor[6] = <<FALSE, 3, 0, 3>>
    BY <1>5 DEF Divisor
  <2>3. Written(q, p, 3, 3)
    <3>1. q = Outb(p, 3, 3)
      BY <2>1
    <3> QED
      BY <3>1, OutbWritten
  <2>4. p.dlab = TRUE /\ p.low = 3 /\ p.high = 0 /\ p.format = 0
    <3>1. <<p.dlab, p.low, p.high, p.format>> = <<TRUE, 3, 0, 0>>
      BY <2>2, Zenon
    <3> QED
      BY <3>1
  <2>5. Unready(q) /\ q.dlab = FALSE /\ q.low = 3 /\ q.high = 0 /\ q.format = 3
    <3>1. 3 % 128 = 3 /\ (3 >= 128) = FALSE
      OBVIOUS
    <3>2. q.dlab = (3 >= 128) /\ q.format = 3 % 128
      BY <2>3 DEF Written
    <3>3. q.dlab = FALSE /\ q.format = 3
      BY <3>1, <3>2, Zenon
    <3>4. Unready(q) /\ q.low = p.low /\ q.high = p.high
      BY <2>3 DEF Written
    <3> QED
      BY <2>4, <3>3, <3>4
  <2> QED
    BY <2>1, <2>2, <2>5, Zenon
<1>6. CASE n = 6
  <2>1. serial_init[n] = <<2, 199>> /\ n + 1 = 7
    BY <1>6 DEF serial_init
  <2>2. Divisor[n] = <<FALSE, 3, 0, 3>> /\ Divisor[7] = <<FALSE, 3, 0, 3>>
    BY <1>6 DEF Divisor
  <2>3. Written(q, p, 2, 199)
    <3>1. q = Outb(p, 2, 199)
      BY <2>1
    <3> QED
      BY <3>1, OutbWritten
  <2>4. p.dlab = FALSE /\ p.low = 3 /\ p.high = 0 /\ p.format = 3
    <3>1. <<p.dlab, p.low, p.high, p.format>> = <<FALSE, 3, 0, 3>>
      BY <2>2, Zenon
    <3> QED
      BY <3>1
  <2>5. Unready(q) /\ q.dlab = FALSE /\ q.low = 3 /\ q.high = 0 /\ q.format = 3
    BY <2>3, <2>4 DEF Written
  <2> QED
    BY <2>1, <2>2, <2>5, Zenon
<1>7. CASE n = 7
  <2>1. serial_init[n] = <<4, 11>> /\ n + 1 = 8
    BY <1>7 DEF serial_init
  <2>2. Divisor[n] = <<FALSE, 3, 0, 3>> /\ Divisor[8] = <<FALSE, 3, 0, 3>>
    BY <1>7 DEF Divisor
  <2>3. Written(q, p, 4, 11)
    <3>1. q = Outb(p, 4, 11)
      BY <2>1
    <3> QED
      BY <3>1, OutbWritten
  <2>4. p.dlab = FALSE /\ p.low = 3 /\ p.high = 0 /\ p.format = 3
    <3>1. <<p.dlab, p.low, p.high, p.format>> = <<FALSE, 3, 0, 3>>
      BY <2>2, Zenon
    <3> QED
      BY <3>1
  <2>5. Unready(q) /\ q.dlab = FALSE /\ q.low = 3 /\ q.high = 0 /\ q.format = 3
    BY <2>3, <2>4 DEF Written
  <2> QED
    BY <2>1, <2>2, <2>5, Zenon
<1> QED
  BY <1>1, <1>2, <1>3, <1>4, <1>5, <1>6, <1>7

(* serial_init writes, and then the second text comes.                     *)
LEMMA SerialInitInv == ASSUME Inv, SerialInit PROVE Inv'
PROOF
<1>0. Types /\ Frames /\ Course /\ Announced /\ PortState /\ EchoedInOrder /\ LineCarries
  BY DEF Inv
<1>1. /\ Len(stack) = 1 /\ Top.text = << >> /\ <<"serial_init", boot>> \in Between
      /\ halted = FALSE /\ Top.at = "serial_init"
  BY Placed DEF SerialInit, At
<1>2. boot = 1
  BY <1>1 DEF Between
<1>3. /\ queue' = queue /\ answer' = answer /\ halted' = halted
      /\ typed' = typed /\ sent' = sent /\ line' = line
  BY DEF SerialInit, driver
<1>4. Len(serial_init) = 7 /\ setup \in 1 .. 8
  BY <1>0 DEF serial_init, Types
<1>5. CASE setup <= 7
  <2>1. /\ port' = Outb(port, serial_init[setup][1], serial_init[setup][2])
        /\ setup' = setup + 1 /\ boot' = boot /\ stack' = stack
    BY <1>4, <1>5 DEF SerialInit
  <2>2. Unready(port) /\ <<port.dlab, port.low, port.high, port.format>> = Divisor[setup]
    BY <1>0, <1>2 DEF Types, PortOK, PortState, Unready
  <2>3. setup \in 1 .. 7 /\ setup + 1 \in 1 .. 8
    BY <1>4, <1>5
  <2>4. Unready(port') /\ <<port'.dlab, port'.low, port'.high, port'.format>> = Divisor[setup + 1]
    BY <2>1, <2>2, <2>3, SetupWrites
  <2>5. Types'
    BY <1>0, <1>3, <2>1, <2>3, <2>4 DEF Types, PortOK, Unready
  <2>6. Frames'
    BY <1>0, <2>1 DEF Frames, FrameOK
  <2>0. Top' = Top /\ Len(stack') = 1
    BY <1>1, <2>1 DEF Top
  <2>7. Course'
    BY <1>0, <1>1, <1>2, <1>3, <2>0, <2>1 DEF Course
  <2>8. Announced' /\ PortState'
    BY <1>0, <1>1, <1>2, <1>3, <2>0, <2>1, <2>4 DEF Announced, PortState, Unready
  <2>9. EchoedInOrder'
    BY <1>0, <1>3, <2>1 DEF EchoedInOrder, Undisturbed
  <2>10. LineCarries'
    BY <1>2, <2>1 DEF LineCarries
  <2> QED
    BY <2>5, <2>6, <2>7, <2>8, <2>9, <2>10 DEF Inv
<1>6. CASE ~(setup <= 7)
  <2>1. Prints(2) /\ port' = port /\ setup' = setup
    BY <1>4, <1>6 DEF SerialInit
  <2>2. setup = 8 /\ 2 \in 2 .. 4 /\ boot = 2 - 1
    BY <1>2, <1>4, <1>6
  <2> QED
    BY <1>1, <1>3, <2>1, <2>2, PrintsInv
<1> QED
  BY <1>5, <1>6

(* The texts after it come.                                                *)
LEMMA LoadGatesInv == ASSUME Inv, LoadGates PROVE Inv'
PROOF
<1>1. /\ Len(stack) = 1 /\ Top.text = << >> /\ <<"lidt", boot>> \in Between
      /\ halted = FALSE
  BY Placed DEF LoadGates
<1>2. boot = 2 /\ setup = 8
  BY <1>1 DEF Between, Inv, Course
<1>3. /\ queue' = queue /\ answer' = answer /\ setup' = setup /\ port' = port /\ line' = line
      /\ halted' = halted /\ typed' = typed /\ sent' = sent /\ Prints(3)
  BY DEF LoadGates, driver, serial
<1>4. 3 \in 2 .. 4 /\ boot = 3 - 1
  BY <1>2
<1> QED
  BY <1>1, <1>2, <1>3, <1>4, PrintsInv

(* The greeting comes when the cursor is in the corner.                    *)
LEMMA SetCursorInv == ASSUME Inv, SetCursor PROVE Inv'
PROOF
<1>1. /\ Len(stack) = 1 /\ Top.text = << >> /\ <<"set_cursor", boot>> \in Between
      /\ halted = FALSE
  BY Placed DEF SetCursor
<1>2. boot = 3 /\ setup = 8
  BY <1>1 DEF Between, Inv, Course
<1>3. /\ queue' = queue /\ answer' = answer /\ setup' = setup /\ port' = port /\ line' = line
      /\ halted' = halted /\ typed' = typed /\ sent' = sent /\ Prints(4)
  BY DEF SetCursor, driver, serial
<1>4. 4 \in 2 .. 4 /\ boot = 4 - 1
  BY <1>2
<1> QED
  BY <1>1, <1>2, <1>3, <1>4, PrintsInv

(* kernel_main asks for a key, and gets one or not.                        *)
LEMMA GetcharInv == ASSUME Inv, Getchar PROVE Inv'
PROOF
<1>0. Types /\ Frames /\ Course /\ Announced /\ PortState /\ EchoedInOrder /\ LineCarries
  BY DEF Inv
<1>1. /\ Len(stack) = 1 /\ Top.text = << >> /\ <<"getchar", boot>> \in Between
      /\ halted = FALSE /\ Top.at = "getchar"
  BY Placed DEF Getchar, At
<1>2. boot = 4
  BY <1>1 DEF Between
<1>3. /\ boot' = boot /\ setup' = setup /\ port' = port /\ line' = line
      /\ halted' = halted /\ typed' = typed /\ sent' = sent
  BY DEF Getchar, serial
<1>4. CASE (Driver!Call \/ Driver!Nothing) /\ stack' = stack
  <2>1. queue' = queue /\ answer' \in {NUL, Waiting}
    BY <1>4 DEF Driver!Call, Driver!Nothing
  <2>2. Went(Top.text, Top.at)
    BY <1>0, <1>4, StayWent
  <2>3. Went(Top.text, "getchar")
    BY <1>1, <2>2 DEF Went
  <2>4. Top.at # "hlt" /\ boot # 1
    BY <1>1, <1>2
  <2>5. MayGo("getchar")
    BY <1>0, <1>1, <2>4, FirstMayGo
  <2>6. Quiet("getchar")
    BY <1>1, <1>3, <2>1, <2>3 DEF Quiet
  <2> QED
    BY <2>5, <2>6, QuietInv
<1>5. CASE Driver!Take /\ Goto(<<answer'>>, "write")
  <2> DEFINE c == Head(queue)
  <2>1. queue # << >> /\ answer' = c /\ queue' = Tail(queue)
    BY <1>5 DEF Driver!Take
  <2>2. /\ c \in KeyChars /\ Tail(queue) \in Seq(KeyChars) /\ Len(Tail(queue)) <= Capacity
        /\ queue \in Seq(Printable)
    <3>1. queue \in Seq(KeyChars) /\ Len(queue) <= Capacity /\ Capacity \in Nat
      BY <1>0, ConsoleAssumption DEF Types
    <3>2. c \in KeyChars /\ Tail(queue) \in Seq(KeyChars) /\ Len(Tail(queue)) = Len(queue) - 1
      BY <2>1, <3>1
    <3>3. queue \in Seq(Printable)
      BY <3>1, TextsPrintable, SeqMonotonic
    <3> QED
      BY <3>1, <3>2, <3>3
  <2>3. c \in Printable /\ <<c>> \in Seq(Printable) /\ Tail(queue) \in Seq(Printable)
        /\ queue = <<c>> \o Tail(queue)
    BY <2>1, <2>2, HeadTail, TextsPrintable
  <2> HIDE DEF c
  <2>4. Went(<<c>>, "write")
    <3>1. Running(<<c>>, "write") \in Frame
      BY <2>3 DEF Running, Frame, Printing
    <3>2. Goto(<<c>>, "write")
      BY <1>5, <2>1
    <3> QED
      BY <1>0, <3>1, <3>2, GotoWent
  <2>5. /\ Len(stack') = 1 /\ stack' \in Seq(Frame)
        /\ Top'.text = <<c>> /\ Top'.at = "write" /\ stack'[1] = Top'
    BY <1>1, <2>4 DEF Went, Running, Top
  <2>6. Types'
    BY <1>0, <1>1, <1>3, <2>1, <2>2, <2>5 DEF Types, PortOK
  <2>7. Frames'
    <3>1. FrameOK(Top, Len(stack) = 1)'
      BY <2>5 DEF FrameOK, Printing
    <3> QED
      BY <1>0, <1>1, <2>4, <3>1, WentFrames
  <2>8. Course' /\ Announced'
    BY <1>0, <1>1, <1>2, <1>3, <2>5 DEF Course, Announced
  <2>9. PortState'
    BY <1>0, <1>3, <2>5 DEF PortState
  <2>10. EchoedInOrder'
    <3>1. sent \in Seq(Printable) /\ sent \o << >> = sent
      BY <1>0, ConcatEmptySeq DEF Types
    <3>2. stack[1].text = << >>
      BY <1>1 DEF Top
    <3>3. sent \o queue = BootText(boot) \o typed
      BY <1>0, <1>1, <3>1, <3>2 DEF EchoedInOrder, Undisturbed
    <3>4. Regrouped(sent, <<c>>, Tail(queue))
      BY <2>3, <3>1, Regroup, Zenon
    <3>5. (sent \o <<c>>) \o Tail(queue) = sent \o queue
      BY <2>3, <3>4, Zenon DEF Regrouped
    <3> QED
      BY <1>3, <2>1, <2>5, <3>3, <3>5 DEF EchoedInOrder
  <2>11. LineCarries'
    BY <1>0, <1>3 DEF LineCarries
  <2> QED
    BY <2>6, <2>7, <2>8, <2>9, <2>10, <2>11 DEF Inv
<1> QED
  BY <1>4, <1>5 DEF Getchar

-----------------------------------------------------------------------------
(* What comes in between. *)

(* A key is typed. *)
LEMMA KeyInv == ASSUME Inv, Key PROVE Inv'
PROOF
<1>0. Types /\ Frames /\ Course /\ Announced /\ PortState /\ EchoedInOrder /\ LineCarries
  BY DEF Inv
<1>1. /\ Len(stack) = 1 /\ boot = 4
      /\ boot' = boot /\ setup' = setup /\ port' = port /\ line' = line
      /\ halted' = halted /\ sent' = sent /\ stack' = stack
      /\ typed' = Append(typed, Last(queue'))
  BY DEF Key, serial
<1>2. PICK c \in KeyChars : queue' = Append(queue, c) /\ Len(queue) < Capacity /\ answer' = answer
  BY DEF Key, Driver!Typed
<1>3. /\ queue \in Seq(KeyChars) /\ Capacity \in Nat /\ typed \in Seq(KeyChars)
      /\ sent \in Seq(Printable) /\ stack[1].text \in Seq(Printable)
  BY <1>0, <1>1, ConsoleAssumption, Bottom DEF Types, Undisturbed
<1>4. Last(queue') = c /\ queue' \in Seq(KeyChars) /\ Len(queue') <= Capacity
  BY <1>2, <1>3 DEF Last
<1>5. typed' = Append(typed, c) /\ typed' \in Seq(KeyChars)
  BY <1>1, <1>3, <1>4
<1>6. Types'
  BY <1>0, <1>1, <1>2, <1>4, <1>5 DEF Types, PortOK
<1>7. Frames'
  BY <1>0, <1>1 DEF Frames, FrameOK
<1>8. Top' = Top
  BY <1>1 DEF Top
<1>9. Course' /\ Announced'
  <2>1. Len(stack') = 1 /\ boot' = 4 /\ halted = FALSE
    BY <1>0, <1>1 DEF Course, Types
  <2>2. setup' = 8
    BY <1>0, <1>1 DEF Course
  <2>3. halted' = FALSE
    BY <1>1, <2>1
  <2>4. ~(Len(stack') > 1) /\ ~(boot' < 4) /\ boot' # 1
    BY <2>1
  <2> QED
    BY <2>2, <2>3, <2>4, Zenon DEF Course, Announced
<1>10. PortState'
  BY <1>0, <1>1, <1>8 DEF PortState
<1>11. EchoedInOrder'
  <2> DEFINE a == sent \o stack[1].text
             b == BootText(4)
  <2>1. a \in Seq(Printable) /\ b \in Seq(Printable) /\ c \in Printable
    BY <1>3, ConcatJoins, NextText, TextsPrintable
  <2>2. queue \in Seq(Printable) /\ typed \in Seq(Printable)
    BY <1>3, TextsPrintable, SeqMonotonic
  <2>3. a \o queue = b \o typed
    BY <1>0, <1>1 DEF EchoedInOrder, Undisturbed
  <2> HIDE DEF a, b
  <2>4. Append(queue, c) = queue \o <<c>> /\ Append(typed, c) = typed \o <<c>>
    BY <2>1, <2>2, AppendConcat
  <2>5. <<c>> \in Seq(Printable)
    BY <2>1
  <2>6. Regrouped(a, queue, <<c>>) /\ Regrouped(b, typed, <<c>>)
    BY <2>1, <2>2, <2>5, Regroup, Zenon
  <2>7. a \o Append(queue, c) = b \o Append(typed, c)
    BY <2>3, <2>4, <2>6, Zenon DEF Regrouped
  <2> QED
    BY <1>1, <1>2, <1>5, <2>7, Zenon DEF EchoedInOrder, Undisturbed, a, b
<1>12. LineCarries'
  BY <1>0, <1>1 DEF LineCarries
<1> QED
  BY <1>6, <1>7, <1>9, <1>10, <1>11, <1>12 DEF Inv

(* An exception comes, with its message or without a word.                 *)
LEMMA EnterInv ==
  ASSUME Inv, boot >= 3, Len(stack) < MaxFrames, Rest,
         NEW frame \in {Running(Message, "write"), Running(<< >>, "hlt")},
         stack' = Append(stack, frame),
         halted' \in BOOLEAN, halted' => frame = Running(<< >>, "hlt")
  PROVE  Inv'
PROOF
<1>0. Types /\ Frames /\ Course /\ Announced /\ PortState /\ EchoedInOrder /\ LineCarries
  BY DEF Inv
<1>1. /\ queue' = queue /\ answer' = answer /\ boot' = boot
      /\ setup' = setup /\ port' = port /\ line' = line
      /\ typed' = typed /\ sent' = sent
  BY DEF Rest
<1>2. /\ frame \in Frame
      /\ frame.at \in {"write", "hlt"}
      /\ frame.at = "hlt" => frame.text = << >>
      /\ frame.at # "hlt" => frame.text = Message
      /\ halted' => frame.text = << >>
  <2>1. Message \in Seq(Printable) /\ << >> \in Seq(Printable)
    BY TextsPrintable
  <2>2. CASE frame = Running(Message, "write")
    <3>1. frame.text = Message /\ frame.at = "write" /\ "write" # "hlt"
      BY <2>2 DEF Running
    <3>2. frame \in Frame
      BY <2>1, <2>2 DEF Running, Frame, Printing
    <3>3. frame # Running(<< >>, "hlt")
      BY <3>1 DEF Running
    <3> QED
      BY <3>1, <3>2, <3>3
  <2>3. CASE frame = Running(<< >>, "hlt")
    <3>1. frame.text = << >> /\ frame.at = "hlt"
      BY <2>3 DEF Running
    <3>2. frame \in Frame
      BY <2>1, <2>3 DEF Running, Frame
    <3> QED
      BY <3>1, <3>2
  <2> QED
    BY <2>2, <2>3
<1>3. /\ stack \in Seq(Frame) /\ Len(stack) \in 1 .. MaxFrames /\ MaxFrames \in Nat
  BY <1>0, ConsoleAssumption DEF Types
<1>4. /\ stack' \in Seq(Frame) /\ Len(stack') = Len(stack) + 1
      /\ \A i \in 1 .. Len(stack) : stack'[i] = stack[i]
      /\ stack'[Len(stack) + 1] = frame
  <2>1. Appends(Append(stack, frame), stack, frame, Frame)
    BY <1>2, <1>3, AppendSeq, Zenon
  <2> QED
    BY <2>1, Zenon DEF Appends
<1>5. Len(stack') > 1 /\ Len(stack') \in 1 .. MaxFrames /\ Top' = frame
  <2>1. Top' = stack'[Len(stack')]
    BY DEF Top
  <2>2. \A m, n \in Nat : n \in 1 .. m /\ n < m => n + 1 \in 1 .. m /\ n + 1 > 1
    OBVIOUS
  <2>3. Len(stack) \in Nat
    BY <1>3
  <2>4. Len(stack) + 1 \in 1 .. MaxFrames /\ Len(stack) + 1 > 1
    BY <1>3, <2>2, <2>3, Zenon
  <2> QED
    BY <1>4, <2>1, <2>4, Zenon
<1>6. Types'
  BY <1>0, <1>1, <1>4, <1>5 DEF Types, PortOK
<1>7. Frames'
  <2>1. Len(stack) \in Nat /\ Len(stack) >= 1
    BY <1>3
  <2> SUFFICES ASSUME NEW i \in 1 .. Len(stack) + 1
               PROVE  FrameOK(stack[i], i = 1)'
    BY <1>4 DEF Frames
  <2>2. CASE i \in 1 .. Len(stack)
    BY <1>0, <1>1, <1>4, <2>2 DEF Frames, FrameOK
  <2>3. CASE i = Len(stack) + 1
    <3>1. stack'[i] = frame /\ i # 1
      BY <1>4, <2>1, <2>3
    <3> QED
      BY <1>2, <3>1 DEF FrameOK, Printing
  <2> QED
    BY <2>1, <2>2, <2>3
<1>8. Course'
  <2>1. boot' >= 3 /\ boot' # 1 /\ boot' > 1 /\ boot > 1 /\ ~(boot < 3)
    BY <1>0, <1>1 DEF Types
  <2> QED
    BY <1>0, <1>1, <1>2, <1>5, <2>1 DEF Course
<1>9. Announced'
  <2> SUFFICES ASSUME frame.at # "hlt"
               PROVE  \E n \in 0 .. Len(sent) : sent \o Message = SubSeq(sent, 1, n) \o Message
    BY <1>1, <1>2, <1>5 DEF Announced
  <2>1. sent \in Seq(Printable) /\ Len(sent) \in 0 .. Len(sent)
    BY <1>0 DEF Types
  <2>2. SubSeq(sent, 1, Len(sent)) = sent
    BY <2>1, SubSeqFull
  <2> QED
    BY <2>1, <2>2
<1>10. PortState'
  BY <1>0, <1>1, <1>2, <1>5 DEF PortState
<1>11. EchoedInOrder'
  BY <1>5 DEF EchoedInOrder, Undisturbed
<1>12. LineCarries'
  BY <1>0, <1>1 DEF LineCarries
<1> QED
  BY <1>6, <1>7, <1>8, <1>9, <1>10, <1>11, <1>12 DEF Inv

(* The four kinds of exceptions. *)
LEMMA ExceptionsInv ==
  ASSUME Inv, Exception \/ NMI \/ DivideError \/ FatalException
  PROVE  Inv'
PROOF
<1>1. Rest /\ boot >= 3 /\ Len(stack) < MaxFrames
  BY DEF Exception, NMI, DivideError, FatalException, Interruptible, Rest, driver, serial
<1>2. halted \in BOOLEAN
  BY DEF Inv, Types
<1>3. CASE Exception \/ NMI \/ DivideError
  <2>1. stack' = Append(stack, Running(Message, "write")) /\ halted' = FALSE
    BY <1>2, <1>3 DEF Exception, NMI, DivideError, Interruptible, Enter
  <2> QED
    BY <1>1, <2>1, EnterInv
<1>4. CASE FatalException
  <2>1. stack' = Append(stack, Running(<< >>, "hlt")) /\ halted' = TRUE
    BY <1>4 DEF FatalException
  <2> QED
    BY <1>1, <2>1, EnterInv
<1> QED
  BY <1>3, <1>4

(* The port goes on. *)
LEMMA TransmitInv == ASSUME Inv, Transmit PROVE Inv'
PROOF
<1> DEFINE g == Good(port.shifting)
           h == Good(port.holding)
<1>0. Types /\ Frames /\ Course /\ Announced /\ PortState /\ EchoedInOrder /\ LineCarries
  BY DEF Inv
<1>1. /\ queue' = queue /\ answer' = answer /\ boot' = boot /\ setup' = setup
      /\ stack' = stack /\ halted' = halted /\ typed' = typed /\ sent' = sent
  BY DEF Transmit, Take, Transmitted, driver
<1>2. /\ g \in Seq(Printable) /\ h \in Seq(Printable) /\ line \in Seq(Printable)
      /\ IsPort(port) /\ Good(<< >>) = << >>
      /\ Bad(port.holding) => h = << >>
      /\ Bad(port.shifting) => g = << >>
  BY <1>0, GoodType DEF Types, PortOK, IsPort, Good
<1>3. Top' = Top
  BY <1>1 DEF Top
<1>4. /\ Frames' /\ Course' /\ Announced' /\ EchoedInOrder'
  BY <1>0, <1>1, <1>3 DEF Frames, FrameOK, Course, Announced, EchoedInOrder, Undisturbed
<1>5. CASE Take
  <2>1. /\ line' = line /\ port.shifting = << >>
        /\ SameSettings(port', port) /\ IsPort(port')
        /\ port'.shifting = port.holding /\ port'.holding = << >>
    BY <1>2, <1>5 DEF Take, CanShift, Shift, IsPort, Fields, Register, SameSettings
  <2>2. Types'
    BY <1>0, <1>1, <2>1 DEF Types, PortOK
  <2>3. PortState'
    BY <1>0, <1>1, <1>3, <2>1 DEF PortState, SameSettings, Bad
  <2>4. LineCarries'
    <3>1. g = << >> /\ Good(port'.shifting) = h /\ Good(port'.holding) = << >>
      BY <1>2, <2>1
    <3>2. line \o << >> = line /\ line \o h \in Seq(Printable)
      BY <1>2, ConcatEmptySeq, ConcatJoins
    <3>3. (line \o h) \o << >> = line \o h
      BY <3>2, ConcatEmptySeq
    <3> HIDE DEF g, h
    <3>4. line \o h \o << >> = (line \o << >>) \o h
      BY <3>2, <3>3, Zenon
    <3> QED
      BY <1>0, <1>1, <2>1, <3>1, <3>4 DEF LineCarries, g, h
  <2> QED
    BY <1>4, <2>2, <2>3, <2>4 DEF Inv
<1>6. CASE Transmitted
  <2>1. /\ line' = line \o g /\ SameSettings(port', port) /\ IsPort(port')
        /\ port'.shifting = << >> /\ port'.holding = port.holding
    BY <1>2, <1>6 DEF Transmitted, Sent, IsPort, Fields, Register, SameSettings
  <2>2. line' \in Seq(Printable)
    BY <1>2, <2>1, ConcatJoins
  <2>3. Types'
    BY <1>0, <1>1, <2>1, <2>2 DEF Types, PortOK
  <2>4. boot = 1 => line' = << >>
    BY <1>0, <1>2, <2>1, ConcatEmptySeq DEF PortState
  <2>5. PortState'
    BY <1>0, <1>1, <1>3, <2>1, <2>4 DEF PortState, SameSettings, Bad
  <2>6. LineCarries'
    <3>1. Good(port'.shifting) = << >> /\ Good(port'.holding) = h
      BY <1>2, <2>1
    <3>2. line' \o << >> = line \o g
      BY <2>1, <2>2, ConcatEmptySeq
    <3> HIDE DEF g, h
    <3>3. line' \o << >> \o h = (line \o g) \o h
      BY <3>2, Zenon
    <3> QED
      BY <1>0, <1>1, <3>1, <3>3 DEF LineCarries, g, h
  <2> QED
    BY <1>4, <2>3, <2>5, <2>6 DEF Inv
<1> QED
  BY <1>5, <1>6 DEF Transmit

-----------------------------------------------------------------------------
(* The invariant holds. *)

(* It holds when terminal_initialize is about to print.                    *)
LEMMA InitInv == Init => Inv
PROOF
<1> SUFFICES ASSUME Init PROVE Inv
  OBVIOUS
<1>1. /\ queue = << >> /\ answer = NUL
      /\ stack = <<Running(Texts[1], "write")>>
      /\ boot = 1 /\ setup = 1 /\ halted = FALSE
      /\ typed = << >> /\ sent = << >> /\ line = << >>
  BY DEF Init, Driver!Init
<1>2. /\ port = Handover
      /\ port.dlab = FALSE /\ port.low = Unknown /\ port.high = Unknown
      /\ port.format = Unknown /\ port.holding = << >> /\ port.shifting = << >>
  BY DEF Init, Handover
<1>3. Texts[1] \in Seq(Printable) /\ BootText(1) = Texts[1]
  BY NextText, TextsPrintable DEF BootText
<1>4. Running(Texts[1], "write") \in Frame
  BY <1>3 DEF Running, Frame, Printing
<1>5. /\ Len(stack) = 1 /\ stack \in Seq(Frame) /\ Top = stack[1]
      /\ stack[1].text = Texts[1] /\ stack[1].at = "write"
  BY <1>1, <1>4 DEF Top, Running
<1>6. PortOK
  BY <1>2 DEF PortOK, IsPort, Fields, Register, Handover
<1>7. Types
  <2>1. Capacity \in Nat /\ MaxFrames \in Nat \ {0}
    BY ConsoleAssumption
  <2>2. Len(stack) \in 1 .. MaxFrames
    BY <1>5, <2>1
  <2>3. << >> \in Seq(KeyChars) /\ << >> \in Seq(Printable) /\ Len(queue) <= Capacity
    BY <1>1, <2>1
  <2>4. queue \in Seq(KeyChars) /\ typed \in Seq(KeyChars)
    BY <1>1, <2>3
  <2>5. sent \in Seq(Printable) /\ line \in Seq(Printable)
    BY <1>1, <2>3
  <2>6. boot \in 1 .. 4 /\ setup \in 1 .. 8 /\ halted \in BOOLEAN
    <3>1. boot = 1 /\ setup = 1
      BY <1>1, Zenon
    <3>2. 1 \in 1 .. 4 /\ 1 \in 1 .. 8
      OBVIOUS
    <3>3. boot \in 1 .. 4 /\ setup \in 1 .. 8
      BY <3>1, <3>2, Zenon
    <3>4. halted \in BOOLEAN
      BY <1>1, Zenon
    <3> QED
      BY <3>3, <3>4
  <2>7. answer \in KeyChars \cup {NUL, Waiting}
    BY <1>1
  <2> QED
    BY <1>5, <1>6, <2>2, <2>3, <2>4, <2>5, <2>6, <2>7, Zenon DEF Types
<1>8. Frames
  BY <1>5 DEF Frames, FrameOK, Printing
<1>9. Course /\ Announced
  BY <1>1, <1>5 DEF Course, Announced
<1>10. PortState
  <2>1. Divisor[1] = <<FALSE, Unknown, Unknown, Unknown>>
    BY DEF Divisor
  <2>2. <<port.dlab, port.low, port.high, port.format>> = Divisor[setup]
    BY <1>1, <1>2, <2>1
  <2> QED
    BY <1>1, <1>2, <1>5, <2>2 DEF PortState, Bad
<1>11. EchoedInOrder
  <2>1. << >> \o Texts[1] = Texts[1] /\ Texts[1] \o << >> = Texts[1]
    BY <1>3, ConcatEmptySeq
  <2> QED
    BY <1>1, <1>3, <1>5, <2>1 DEF EchoedInOrder
<1>12. LineCarries
  BY <1>1 DEF LineCarries
<1> QED
  BY <1>7, <1>8, <1>9, <1>10, <1>11, <1>12 DEF Inv

(* Every step keeps it. *)
LEMMA StepInv == Inv /\ [Next]_vars => Inv'
PROOF
<1> SUFFICES ASSUME Inv, [Next]_vars PROVE Inv'
  OBVIOUS
<1>1. CASE Kernel
  BY <1>1, WriteInv, WaitInv, PutcharInv, PrintedInv, SerialInitInv, LoadGatesInv, ClearInv,
     SetCursorInv, RenderInv, GetcharInv, Zenon DEF Kernel
<1>2. CASE UNCHANGED vars
  <2>1. /\ queue' = queue /\ answer' = answer /\ stack' = stack /\ boot' = boot
        /\ setup' = setup /\ port' = port /\ halted' = halted
        /\ typed' = typed /\ sent' = sent /\ line' = line
    BY <1>2 DEF vars, driver
  <2>2. Top' = Top
    BY <2>1 DEF Top
  <2>3. Types' /\ Frames'
    BY <2>1 DEF Inv, Types, PortOK, Frames, FrameOK
  <2>4. Course' /\ Announced' /\ PortState'
    BY <2>1, <2>2 DEF Inv, Course, Announced, PortState
  <2>5. EchoedInOrder' /\ LineCarries'
    BY <2>1 DEF Inv, EchoedInOrder, Undisturbed, LineCarries
  <2> QED
    BY <2>3, <2>4, <2>5 DEF Inv
<1> QED
  BY <1>1, <1>2, KeyInv, ExceptionsInv, TransmitInv, Zenon DEF Next

(* The invariant holds in every reachable state.                           *)
THEOREM InvHolds == Spec => []Inv
PROOF
<1> QED
  BY InitInv, StepInv, PTL DEF Spec

-----------------------------------------------------------------------------
(* The terminal. *)

(* The proofs about the terminal, for the colours and the cursor position  *)
(* that the console uses.                                                  *)
TP == INSTANCE TerminalProofs WITH
        Colors <- {DefaultBg, DefaultFg}, CursorPositions <- {<<0, 0>>}, isInit <- TRUE

(* What they assume holds here. *)
LEMMA TerminalFits == TP!SizesAssumption /\ TP!DataAssumption
PROOF
<1>1. TP!SizesAssumption
  BY TerminalAssumption DEF TP!SizesAssumption
<1>2. TP!DataAssumption
  BY TerminalAssumption DEF TP!DataAssumption, Characters
<1> QED
  BY <1>1, <1>2

(* The grid, as the console sees it and as the proofs do.                  *)
LEMMA SameTypes == Term!TypeOK = TP!TypeOK /\ Term!TypeOK' = TP!TypeOK'
PROOF
<1> USE DEF Term!TypeOK, TP!TypeOK, Term!Positions, TP!Positions, Term!Rows, TP!Rows,
            Term!Columns, TP!Columns, Term!Cells, TP!Cells
<1>1. Term!TypeOK = TP!TypeOK
  OBVIOUS
<1>2. Term!TypeOK' = TP!TypeOK'
  OBVIOUS
<1> QED
  BY <1>1, <1>2

(* An operation of the terminal keeps its types.                           *)
LEMMA OperationType ==
  ASSUME Term!TypeOK, TP!Next
  PROVE  Term!TypeOK'
PROOF
<1>1. TP!TypeOK
  BY SameTypes
<1>2. TP!TypeOK'
  BY <1>1, TerminalFits, TP!TypeStep
<1> QED
  BY <1>2, SameTypes

(* The operations the console uses are the terminal's.                     *)
LEMMA SameOperations ==
  /\ \A c : Term!terminal_putchar(c) => TP!terminal_putchar(c)
  /\ Term!terminal_newLine => TP!terminal_newLine
  /\ Term!terminal_indent => TP!terminal_indent
  /\ Term!terminal_clear => TP!terminal_clear
  /\ Term!terminal_render => TP!terminal_render
  /\ Term!terminal_setCursorPosition(0, 0) => TP!terminal_setCursorPosition(0, 0)
PROOF
<1> USE DEF Term!terminal_isSafe, TP!terminal_isSafe, Term!cursor, TP!cursor,
            Term!colors, TP!colors, Term!cells, TP!cells, Term!Positions, TP!Positions,
            Term!Rows, TP!Rows, Term!Columns, TP!Columns, Term!TerminalChar, TP!TerminalChar,
            Term!ToNextRow, TP!ToNextRow, Term!OnLastRow, TP!OnLastRow,
            Term!Scrolled, TP!Scrolled
<1>1. \A c : Term!terminal_putchar(c) => TP!terminal_putchar(c)
  BY DEF Term!terminal_putchar, TP!terminal_putchar, Term!Put, TP!Put
<1>2. Term!terminal_newLine => TP!terminal_newLine
  BY DEF Term!terminal_newLine, TP!terminal_newLine
<1>3. Term!terminal_indent => TP!terminal_indent
  BY <1>2 DEF Term!terminal_indent, TP!terminal_indent, Term!NextTab, TP!NextTab
<1>4. Term!terminal_clear => TP!terminal_clear
  BY DEF Term!terminal_clear, TP!terminal_clear
<1>5. Term!terminal_render => TP!terminal_render
  BY DEF Term!terminal_render, TP!terminal_render
<1>6. Term!terminal_setCursorPosition(0, 0) => TP!terminal_setCursorPosition(0, 0)
  BY DEF Term!terminal_setCursorPosition, TP!terminal_setCursorPosition
<1> QED
  BY <1>1, <1>2, <1>3, <1>4, <1>5, <1>6

(* The terminal's part in a step of the console.                           *)
LEMMA TerminalPart ==
  ASSUME Inv, [Next]_vars
  PROVE  UNCHANGED terminal \/ TP!Next \/ DivideError
PROOF
<1>1. CASE terminal_write
  <2> DEFINE c == Head(Top.text)
  <2>1. c \in Printable
    <3>1. Top.text \in Seq(Printable) /\ Top.text # << >>
      BY <1>1, Bottom DEF Inv, terminal_write
    <3> QED
      BY <3>1
  <2>2. TerminalWrite(c)
    BY <1>1 DEF terminal_write
  <2>3. c \notin {Newline, Tab} => c \in Characters
    BY <2>1 DEF Characters, Printable
  <2> HIDE DEF c
  <2> QED
    BY <2>2, <2>3, SameOperations DEF TerminalWrite, TP!Next, TP!Operation
<1>2. CASE terminal_clear
  BY <1>2, SameOperations DEF terminal_clear, TP!Next, TP!Operation
<1>3. CASE Render
  BY <1>3, SameOperations DEF Render, TP!Next, TP!Operation
<1>4. CASE SetCursor
  <2>1. TP!terminal_setCursorPosition(0, 0)
    BY <1>4, SameOperations DEF SetCursor
  <2>2. <<0, 0>> \in {<<0, 0>>} /\ <<0, 0>>[1] = 0 /\ <<0, 0>>[2] = 0
    OBVIOUS
  <2> QED
    BY <2>1, <2>2 DEF TP!Next, TP!Operation
<1>5. CASE wait_transmit \/ serial_putchar \/ Printed \/ SerialInit \/ LoadGates \/ Getchar
  BY <1>5 DEF wait_transmit, serial_putchar, Printed, SerialInit, LoadGates, Getchar
<1>6. CASE Key \/ Exception \/ NMI \/ FatalException \/ Transmit
  BY <1>6 DEF Key, Exception, NMI, FatalException, Transmit, Take, Transmitted
<1>7. CASE UNCHANGED vars
  BY <1>7 DEF vars
<1> QED
  BY <1>1, <1>2, <1>3, <1>4, <1>5, <1>6, <1>7, Zenon DEF Next, Kernel

(* The terminal keeps its types through every step of the console.         *)
LEMMA TerminalStep ==
  ASSUME Inv, Term!TypeOK, [Next]_vars
  PROVE  Term!TypeOK'
PROOF
<1>1. CASE UNCHANGED terminal
  BY <1>1 DEF terminal, Term!TypeOK
<1>2. CASE TP!Next
  BY <1>2, OperationType
<1>3. CASE DivideError
  BY <1>3 DEF DivideError, Term!TypeOK
<1> QED
  BY <1>1, <1>2, <1>3, TerminalPart

(* The terminal starts with its types. *)
LEMMA TerminalInit == Init => Term!TypeOK
PROOF
<1> SUFFICES ASSUME Term!terminal_initialize PROVE Term!TypeOK
  BY DEF Init
<1>1. Term!Blank \in Term!Cells
  BY TerminalFits DEF Term!Blank, Term!Cells, TP!DataAssumption
<1> QED
  BY <1>1 DEF Term!terminal_initialize, Term!TypeOK

-----------------------------------------------------------------------------
(* Induction over natural numbers, in a form that takes a set.             *)

(* Every nonempty set of natural numbers has a least element.              *)
LEMMA Least ==
  ASSUME NEW T \in SUBSET Nat, NEW n \in T
  PROVE  \E m \in T : \A k \in T : m <= k
PROOF
<1> DEFINE Below == { 0 .. k : k \in T }
<1>1. Below \subseteq FiniteSubsetsOf(Nat) /\ Below # {}
  <2>1. \A k \in T : 0 .. k \in SUBSET Nat /\ IsFiniteSet(0 .. k)
    BY FS_Interval
  <2> QED BY <2>1 DEF FiniteSubsetsOf
<1>2. IsWellFoundedOn(StrictSubsetOrdering(Nat), FiniteSubsetsOf(Nat))
  BY FS_StrictSubsetOrderingWellFounded
<1>3. PICK X \in Below : \A Y \in Below : <<Y, X>> \notin StrictSubsetOrdering(Nat)
  <2> HIDE DEF Below
  <2> QED BY <1>1, <1>2, WFMin, Zenon
<1>4. PICK m \in T : X = 0 .. m
  OBVIOUS
<1>5. ASSUME NEW k \in T, k < m PROVE FALSE
  <2>1. 0 .. k \in SUBSET Nat /\ 0 .. m \in SUBSET Nat
    OBVIOUS
  <2>2. 0 .. k \subseteq 0 .. m /\ m \notin 0 .. k /\ m \in 0 .. m
    BY <1>5
  <2>3. <<0 .. k, 0 .. m>> \in StrictSubsetOrdering(Nat)
    BY <2>1, <2>2 DEF StrictSubsetOrdering
  <2> QED BY <1>3, <1>4, <2>3
<1>6. \A k \in T : m <= k
  BY <1>5
<1> QED BY <1>6

(* Induction over a set of natural numbers.                                *)
LEMMA Induction ==
  ASSUME NEW S, 0 \in S, \A n \in Nat : n \in S => n + 1 \in S
  PROVE  Nat \subseteq S
PROOF
<1> SUFFICES ASSUME NEW n \in Nat \ S PROVE FALSE
  OBVIOUS
<1>1. PICK m \in Nat \ S : \A k \in Nat \ S : m <= k
  <2> DEFINE T == Nat \ S
  <2>1. T \in SUBSET Nat /\ n \in T
    OBVIOUS
  <2> HIDE DEF T
  <2>2. \E m \in T : \A k \in T : m <= k
    BY <2>1, Least
  <2> QED BY <2>2 DEF T
<1>2. m # 0 /\ m - 1 \in Nat /\ m - 1 \in S
  <2>1. m # 0
    OBVIOUS
  <2>2. m - 1 \in Nat /\ ~(m <= m - 1)
    BY <2>1
  <2> QED BY <1>1, <2>1, <2>2
<1>3. (m - 1) + 1 = m
  OBVIOUS
<1> QED BY <1>2, <1>3

(* A value that is changed once for each of n steps.                       *)
Changes(f, S, n, first, step) ==
  f \in [0 .. n -> S] /\ f[0] = first /\ \A i \in 1 .. n : f[i] = step[i][f[i - 1]]

(* It has a history, by induction over the number of steps.                *)
LEMMA Stepwise ==
  ASSUME NEW S, NEW n \in Nat, NEW first \in S, NEW step \in [1 .. n -> [S -> S]]
  PROVE  \E f : Changes(f, S, n, first, step)
PROOF
<1> DEFINE Upto(f, m) == f[0] = first /\ \A i \in 1 .. m : f[i] = step[i][f[i - 1]]
           Holds == { m \in Nat : m <= n => \E f \in [0 .. m -> S] : Upto(f, m) }
<1>1. 0 \in Holds
  <2>1. [i \in 0 .. 0 |-> first] \in [0 .. 0 -> S] /\ Upto([i \in 0 .. 0 |-> first], 0)
    OBVIOUS
  <2> QED BY <2>1
<1>2. ASSUME NEW m \in Nat, m \in Holds PROVE m + 1 \in Holds
  <2> SUFFICES ASSUME m + 1 <= n PROVE \E f \in [0 .. m + 1 -> S] : Upto(f, m + 1)
    OBVIOUS
  <2>1. PICK f \in [0 .. m -> S] : Upto(f, m)
    BY <1>2
  <2> DEFINE next == step[m + 1][f[m]]
             g == [i \in 0 .. m + 1 |-> IF i = m + 1 THEN next ELSE f[i]]
  <2>2. next \in S
    <3>1. m + 1 \in 1 .. n /\ f[m] \in S
      OBVIOUS
    <3>2. step[m + 1] \in [S -> S]
      BY <3>1
    <3> QED BY <3>1, <3>2
  <2>3. g \in [0 .. m + 1 -> S]
    BY <2>2
  <2>4. g[0] = first
    BY <2>1
  <2>5. ASSUME NEW i \in 1 .. m + 1 PROVE g[i] = step[i][g[i - 1]]
    <3>1. CASE i = m + 1
      <4>1. g[i] = step[i][f[m]] /\ g[i - 1] = f[m]
        BY <3>1
      <4> QED BY <4>1
    <3>2. CASE i # m + 1
      <4>1. i \in 1 .. m /\ g[i] = f[i] /\ g[i - 1] = f[i - 1]
        BY <3>2
      <4> QED BY <2>1, <4>1
    <3> QED BY <3>1, <3>2
  <2> HIDE DEF g
  <2>6. Upto(g, m + 1)
    BY <2>4, <2>5
  <2> QED BY <2>3, <2>6
<1> HIDE DEF Holds
<1>3. n \in Holds
  BY <1>1, <1>2, Induction
<1>4. n <= n
  OBVIOUS
<1> QED BY <1>3, <1>4 DEF Holds, Changes

-----------------------------------------------------------------------------
(* The page. *)

Places == Nat \X (0 .. VGA_WIDTH - 1)

Before(p, q) == p[1] < q[1] \/ (p[1] = q[1] /\ p[2] < q[2])

(* The next character's place is on the page, behind the last one's.       *)
LEMMA AfterPlace ==
  ASSUME NEW p \in Places, NEW c
  PROVE  After(p, c) \in Places /\ Before(p, After(p, c))
PROOF
<1>1. /\ VGA_WIDTH \in Nat \ {0} /\ TabStop \in Nat \ {0}
      /\ p[1] \in Nat /\ p[2] \in Nat /\ p[2] < VGA_WIDTH
  BY TerminalAssumption DEF Places
<1>2. NextRow(p) \in Places /\ Before(p, NextRow(p))
  BY <1>1 DEF NextRow, Places, Before
<1> DEFINE stop == TabStop * ((p[2] \div TabStop) + 1)
           column == IF c = Tab THEN stop ELSE p[2] + 1
<1>3. stop \in Nat /\ stop > p[2]
  <2> DEFINE x == p[2]
             n == TabStop
  <2>1. x \in Nat /\ n \in Nat \ {0}
    BY <1>1
  <2> HIDE DEF x, n
  <2> DEFINE q == x \div n
             r == x % n
  <2>2. q \in Nat /\ r \in 0 .. n - 1 /\ x = n * q + r
    BY <2>1, Z3
  <2> HIDE DEF q, r
  <2>3. n * (q + 1) = n * q + n /\ n * q \in Nat
    BY <2>1, <2>2
  <2>4. n * (q + 1) \in Nat /\ n * (q + 1) > x
    BY <2>1, <2>2, <2>3
  <2> QED
    BY <2>4 DEF x, n, q
<1> HIDE DEF stop
<1>4. column \in Nat /\ column > p[2]
  BY <1>1, <1>3
<1> HIDE DEF column
<1>5. column < VGA_WIDTH => <<p[1], column>> \in Places /\ Before(p, <<p[1], column>>)
  BY <1>1, <1>4 DEF Places, Before
<1>6. After(p, c) = NextRow(p) \/ (column < VGA_WIDTH /\ After(p, c) = <<p[1], column>>)
  BY <1>1, <1>4 DEF After, column, stop
<1> QED
  BY <1>2, <1>5, <1>6

(* One place before another. *)
LEMMA BeforeOrder ==
  ASSUME NEW p \in Places, NEW q \in Places, NEW r \in Places
  PROVE  ~Before(p, p) /\ (Before(p, q) /\ Before(q, r) => Before(p, r))
  BY DEF Places, Before

(* The places of a text, one per character.                                *)
Walks(text, f) ==
  f = [i \in 0 .. Len(text) |-> IF i = 0 THEN <<0, 0>> ELSE After(f[i - 1], text[i])]

(* They start in the corner, and each character takes them one further.    *)
Path(text) ==
  /\ PlaceAfter(text, 0) = <<0, 0>>
  /\ \A n \in 0 .. Len(text) : PlaceAfter(text, n) \in Places
  /\ \A n \in 1 .. Len(text) : PlaceAfter(text, n) = After(PlaceAfter(text, n - 1), text[n])

(* That is where the characters of a text go.                              *)
LEMMA PathOf ==
  ASSUME NEW S, NEW text \in Seq(S)
  PROVE  Path(text)
PROOF
<1> DEFINE l == Len(text)
           step == [n \in 1 .. l |-> [p \in Places |-> After(p, text[n])]]
           place == CHOOSE f : Walks(text, f)
<1>1. l \in Nat /\ <<0, 0>> \in Places
  BY TerminalAssumption DEF Places
<1> HIDE DEF l
<1>2. step \in [1 .. l -> [Places -> Places]]
  BY AfterPlace
<1>3. PICK f \in [0 .. l -> Places] : f[0] = <<0, 0>> /\ \A n \in 1 .. l : f[n] = step[n][f[n - 1]]
  <2> HIDE DEF step, place
  <2>1. \E f : Changes(f, Places, l, <<0, 0>>, step)
    BY <1>1, <1>2, Stepwise
  <2> QED
    BY <2>1 DEF Changes
<1>4. ASSUME NEW n \in 1 .. l PROVE f[n] = After(f[n - 1], text[n])
  <2>1. f[n - 1] \in Places
    BY <1>1
  <2> QED
    BY <1>3, <2>1
<1>5. Walks(text, f)
  <2>1. f = [n \in 0 .. l |-> f[n]]
    OBVIOUS
  <2>2. ASSUME NEW n \in 0 .. l
        PROVE  f[n] = IF n = 0 THEN <<0, 0>> ELSE After(f[n - 1], text[n])
    <3>1. CASE n = 0
      BY <1>3, <3>1
    <3>2. CASE n # 0
      <4>1. n \in 1 .. l
        BY <1>1, <3>2
      <4> QED
        BY <1>4, <3>2, <4>1
    <3> QED
      BY <3>1, <3>2
  <2> QED
    BY <2>1, <2>2 DEF Walks, l
<1>6. Walks(text, place)
  BY <1>5
<1>7. \A n : PlaceAfter(text, n) = place[n]
  BY DEF PlaceAfter, Walks
<1> HIDE DEF place, step
<1>8. ASSUME NEW n \in 0 .. l
      PROVE  place[n] = IF n = 0 THEN <<0, 0>> ELSE After(place[n - 1], text[n])
  BY <1>6, <1>8 DEF Walks, l
<1> DEFINE Holds == { n \in Nat : n \in 0 .. l => place[n] = f[n] }
<1>9. 0 \in Holds
  BY <1>3, <1>8
<1>10. ASSUME NEW n \in Nat, n \in Holds PROVE n + 1 \in Holds
  <2> SUFFICES ASSUME n + 1 \in 0 .. l PROVE place[n + 1] = f[n + 1]
    OBVIOUS
  <2>1. place[n] = f[n]
    BY <1>1, <1>10
  <2>2. n + 1 # 0 /\ (n + 1) - 1 = n /\ n + 1 \in 1 .. l
    BY <1>1
  <2>3. place[n + 1] = After(place[n], text[n + 1])
    BY <1>8, <2>2
  <2>4. f[n + 1] = After(f[n], text[n + 1])
    BY <1>4, <2>2
  <2> QED
    BY <2>1, <2>3, <2>4
<1> HIDE DEF Holds
<1>11. \A n \in 0 .. l : place[n] = f[n]
  <2>1. Nat \subseteq Holds
    BY <1>9, <1>10, Induction
  <2>2. \A n \in 0 .. l : n \in Holds
    BY <1>1, <2>1
  <2> QED
    BY <2>2 DEF Holds
<1>12. \A n \in 1 .. l : n \in 0 .. l /\ n - 1 \in 0 .. l
  BY <1>1
<1>13. \A n \in 0 .. l : PlaceAfter(text, n) = f[n] /\ f[n] \in Places
  BY <1>7, <1>11
<1>14. 0 \in 0 .. l
  BY <1>1
<1> QED
  BY <1>3, <1>4, <1>12, <1>13, <1>14 DEF Path, l

End(text) == PlaceAfter(text, Len(text))

(* No two characters have the same place: each is behind the earlier ones. *)
LEMMA PlacesGrow ==
  ASSUME NEW S, NEW text \in Seq(S), NEW n \in 0 .. Len(text), NEW m \in 0 .. n - 1
  PROVE  Before(PlaceAfter(text, m), PlaceAfter(text, n))
PROOF
<1> DEFINE l == Len(text)
           p(k) == PlaceAfter(text, k)
           Holds == { k \in Nat : k <= l => \A j \in 0 .. k - 1 : Before(p(j), p(k)) }
<1>1. l \in Nat /\ n \in 0 .. l /\ m \in 0 .. n - 1
  OBVIOUS
<1>2. /\ \A k \in 0 .. l : p(k) \in Places
      /\ \A k \in 1 .. l : p(k) = After(p(k - 1), text[k])
  BY PathOf DEF Path
<1> HIDE DEF l, p
<1>3. 0 \in Holds
  OBVIOUS
<1>4. ASSUME NEW k \in Nat, k \in Holds PROVE k + 1 \in Holds
  <2> SUFFICES ASSUME k + 1 <= l, NEW j \in 0 .. k PROVE Before(p(j), p(k + 1))
    OBVIOUS
  <2>1. /\ k + 1 \in 1 .. l /\ k + 1 \in 0 .. l /\ (k + 1) - 1 = k /\ k \in 0 .. l /\ j \in 0 .. l
    BY <1>1
  <2>2. p(k + 1) = After(p(k), text[k + 1]) /\ p(k) \in Places
    BY <1>2, <2>1
  <2>3. Before(p(k), p(k + 1)) /\ p(k + 1) \in Places
    BY <2>2, AfterPlace
  <2>4. CASE j = k
    BY <2>3, <2>4
  <2>5. CASE j # k
    <3>1. j \in 0 .. k - 1 /\ k <= l
      BY <1>1, <2>5
    <3>2. Before(p(j), p(k))
      BY <1>4, <3>1
    <3>3. p(j) \in Places
      BY <1>2, <2>1
    <3> QED
      BY <2>2, <2>3, <3>2, <3>3, BeforeOrder
  <2> QED
    BY <2>4, <2>5
<1> HIDE DEF Holds
<1>5. n \in Holds
  <2>1. Nat \subseteq Holds
    BY <1>3, <1>4, Induction
  <2>2. n \in Nat
    BY <1>1
  <2> QED
    BY <2>1, <2>2
<1>6. n <= l
  BY <1>1
<1> QED
  BY <1>1, <1>5, <1>6 DEF Holds, p

(* Appending a character moves no other.                                   *)
Extends(u, text, c) ==
  /\ Len(u) = Len(text) + 1
  /\ \A n \in 0 .. Len(text) : PlaceAfter(u, n) = PlaceAfter(text, n)
  /\ \A i \in 1 .. Len(text) : u[i] = text[i]
  /\ u[Len(u)] = c
  /\ End(u) = After(End(text), c)

(* That is what appending does. *)
LEMMA AppendExtends ==
  ASSUME NEW S, NEW text \in Seq(S), NEW c \in S
  PROVE  Append(text, c) \in Seq(S) /\ Extends(Append(text, c), text, c)
PROOF
<1> DEFINE l == Len(text)
           u == Append(text, c)
           p(k) == PlaceAfter(text, k)
           q(k) == PlaceAfter(u, k)
           Holds == { k \in Nat : k <= l => q(k) = p(k) }
<1>1. l \in Nat
  OBVIOUS
<1>2. u \in Seq(S) /\ Len(u) = l + 1 /\ u[l + 1] = c /\ \A i \in 1 .. l : u[i] = text[i]
  BY AppendSeq DEF Appends
<1>3. p(0) = <<0, 0>> /\ \A k \in 1 .. l : p(k) = After(p(k - 1), text[k])
  BY PathOf DEF Path
<1> HIDE DEF u, l
<1>4. q(0) = <<0, 0>> /\ \A k \in 1 .. l + 1 : q(k) = After(q(k - 1), u[k])
  BY <1>2, PathOf DEF Path
<1> HIDE DEF p, q
<1>5. 0 \in Holds
  BY <1>3, <1>4
<1>6. ASSUME NEW k \in Nat, k \in Holds PROVE k + 1 \in Holds
  <2> SUFFICES ASSUME k + 1 <= l PROVE q(k + 1) = p(k + 1)
    OBVIOUS
  <2>1. k + 1 \in 1 .. l /\ k + 1 \in 1 .. l + 1 /\ (k + 1) - 1 = k /\ k <= l
    BY <1>1
  <2>2. q(k) = p(k) /\ u[k + 1] = text[k + 1]
    BY <1>2, <1>6, <2>1
  <2>3. q(k + 1) = After(q(k), u[k + 1])
    BY <1>4, <2>1
  <2>4. p(k + 1) = After(p(k), text[k + 1])
    BY <1>3, <2>1
  <2> QED
    BY <2>2, <2>3, <2>4
<1> HIDE DEF Holds
<1>7. \A k \in 0 .. l : q(k) = p(k)
  <2>1. Nat \subseteq Holds
    BY <1>5, <1>6, Induction
  <2>2. \A k \in 0 .. l : k \in Holds /\ k <= l
    BY <1>1, <2>1
  <2> QED
    BY <2>2 DEF Holds
<1>8. q(l + 1) = After(p(l), c)
  <2>1. l + 1 \in 1 .. l + 1 /\ (l + 1) - 1 = l /\ l \in 0 .. l
    BY <1>1
  <2>2. q(l + 1) = After(q(l), u[l + 1])
    BY <1>4, <2>1
  <2> QED
    BY <1>2, <1>7, <2>1, <2>2
<1>9. q(Len(u)) = After(p(l), c) /\ u[Len(u)] = c
  BY <1>2, <1>8
<1> QED
  BY <1>2, <1>7, <1>9 DEF Extends, End, p, q, l, u

(* On the page, nothing is at the end of the text or behind it.            *)
LEMMA PageBehind ==
  ASSUME NEW S, NEW text \in Seq(S), NEW place, ~Before(place, End(text))
  PROVE  PageChar(text, place) = Space
PROOF
<1>1. ASSUME NEW i \in 1 .. Len(text) PROVE PlaceAfter(text, i - 1) # place
  <2>1. Len(text) \in 0 .. Len(text) /\ i - 1 \in 0 .. Len(text) - 1
    OBVIOUS
  <2>2. Before(PlaceAfter(text, i - 1), End(text))
    BY <2>1, PlacesGrow DEF End
  <2> QED
    BY <2>2
<1> QED
  BY <1>1 DEF PageChar

(* A character that is appended takes the place at the end of the text,    *)
(* which was empty, if it is printable, and no other place changes.        *)
LEMMA PageAppend ==
  ASSUME NEW S, NEW text \in Seq(S), NEW c \in S, NEW place
  PROVE  PageChar(Append(text, c), place) =
           IF c \notin {Newline, Tab} /\ place = End(text) THEN c ELSE PageChar(text, place)
PROOF
<1> DEFINE l == Len(text)
           u == Append(text, c)
           there(t) == { i \in 1 .. Len(t) :
                           t[i] \notin {Newline, Tab} /\ PlaceAfter(t, i - 1) = place }
<1>0. l \in Nat
  OBVIOUS
<1>1. Extends(u, text, c)
  BY AppendExtends
<1> HIDE DEF u
<1>2. /\ \A t : there(t) = {} => PageChar(t, place) = Space
      /\ \A t : there(t) # {} => PageChar(t, place) = t[CHOOSE i \in there(t) : TRUE]
  BY DEF PageChar
<1>3. Len(u) = l + 1 /\ u[l + 1] = c /\ \A i \in 1 .. l : u[i] = text[i]
  BY <1>1 DEF Extends
<1>4. /\ \A i \in 1 .. l : PlaceAfter(u, i - 1) = PlaceAfter(text, i - 1)
      /\ PlaceAfter(u, l) = End(text)
  <2>1. \A i \in 1 .. l : i - 1 \in 0 .. l
    BY <1>0
  <2>2. l \in 0 .. l
    BY <1>0
  <2> QED
    BY <1>1, <2>1, <2>2 DEF Extends, End
<1>5. there(text) = { i \in 1 .. l : text[i] \notin {Newline, Tab}
                                     /\ PlaceAfter(text, i - 1) = place }
  OBVIOUS
<1>6. there(u) = { i \in 1 .. l + 1 : u[i] \notin {Newline, Tab}
                                      /\ PlaceAfter(u, i - 1) = place }
  BY <1>3
<1> HIDE DEF there, l
<1>7. \A i : i \in 1 .. l + 1 <=> i \in 1 .. l \/ i = l + 1
  BY <1>0
<1>8. (l + 1) - 1 = l /\ l + 1 \notin 1 .. l
  BY <1>0
<1>9. \A i : i \in there(u) <=>
        \/ i \in there(text)
        \/ i = l + 1 /\ c \notin {Newline, Tab} /\ place = End(text)
  BY <1>3, <1>4, <1>5, <1>6, <1>7, <1>8
<1>10. CASE c \notin {Newline, Tab} /\ place = End(text)
  <2>1. there(text) = {}
    <3>1. ASSUME NEW i \in 1 .. l PROVE PlaceAfter(text, i - 1) # place
      <4>1. Len(text) \in 0 .. Len(text) /\ i - 1 \in 0 .. Len(text) - 1
        BY <1>0 DEF l
      <4>2. Before(PlaceAfter(text, i - 1), End(text)) /\ End(text) \in Places
        BY <4>1, PlacesGrow, PathOf DEF End, Path
      <4> QED
        BY <1>10, <4>2, BeforeOrder
    <3> QED
      BY <1>5, <3>1
  <2>2. there(u) = {l + 1}
    BY <1>9, <1>10, <2>1
  <2>3. (CHOOSE i \in there(u) : TRUE) = l + 1 /\ there(u) # {}
    BY <2>2
  <2>4. PageChar(u, place) = c
    BY <1>2, <1>3, <2>3
  <2> QED
    BY <1>10, <2>4 DEF u
<1>11. CASE ~(c \notin {Newline, Tab} /\ place = End(text))
  <2>1. there(u) = there(text)
    BY <1>9, <1>11
  <2>2. there(text) # {} => u[CHOOSE i \in there(text) : TRUE] = text[CHOOSE i \in there(text) : TRUE]
    <3> DEFINE k == CHOOSE i \in there(text) : TRUE
    <3>1. there(text) # {} => k \in 1 .. l
      BY <1>5
    <3> HIDE DEF k
    <3>2. there(text) # {} => u[k] = text[k]
      BY <1>3, <3>1
    <3> QED
      BY <3>2 DEF k
  <2>3. PageChar(u, place) = PageChar(text, place)
    BY <1>2, <2>1, <2>2
  <2> QED
    BY <1>11, <2>3 DEF u
<1> QED
  BY <1>10, <1>11

-----------------------------------------------------------------------------
(* The window. *)

(* A grid and a cursor are what the text has come to.                      *)
Displays(grid, row, column, text) ==
  /\ grid = Window(text)
  /\ row = End(text)[1] - FirstRow(text) /\ column = End(text)[2]

(* The cursor is in the window, and below it is nothing.                   *)
LEMMA WindowCursor ==
  ASSUME NEW S, NEW text \in Seq(S)
  PROVE  /\ End(text) \in Places /\ End(text) = <<End(text)[1], End(text)[2]>>
         /\ FirstRow(text) \in Nat
         /\ End(text)[1] - FirstRow(text) \in 0 .. VGA_HEIGHT - 1
         /\ End(text)[2] \in 0 .. VGA_WIDTH - 1
         /\ FirstRow(text) = IF End(text)[1] < VGA_HEIGHT THEN 0 ELSE End(text)[1] - VGA_HEIGHT + 1
PROOF
<1> DEFINE e == End(text)
           f == FirstRow(text)
<1>1. f = IF e[1] < VGA_HEIGHT THEN 0 ELSE e[1] - VGA_HEIGHT + 1
  BY DEF FirstRow, End
<1>2. e \in Places
  <2>1. Len(text) \in 0 .. Len(text)
    OBVIOUS
  <2> QED
    BY <2>1, PathOf DEF Path, End
<1> HIDE DEF e, f
<1>3. e = <<e[1], e[2]>> /\ e[1] \in Nat /\ e[2] \in 0 .. VGA_WIDTH - 1
  BY <1>2 DEF Places
<1>4. VGA_HEIGHT \in Nat \ {0}
  BY TerminalAssumption
<1>5. f \in Nat /\ e[1] - f \in 0 .. VGA_HEIGHT - 1
  BY <1>1, <1>3, <1>4
<1> QED
  BY <1>1, <1>2, <1>3, <1>5 DEF e, f

(* What a cell of the page looks like.                                     *)
Cell(text, place) ==
  [character |-> PageChar(text, place), bgColor |-> DefaultBg, fgColor |-> DefaultFg]

(* A character in the colours in use is one in the default colours.        *)
InDefaults == backgroundColor = DefaultBg /\ foregroundColor = DefaultFg

(* Going to the next row moves the window, from a grid that shows the text *)
(* in the window's old place.                                              *)
LEMMA RowShown ==
  ASSUME NEW S, NEW text \in Seq(S), NEW u \in Seq(S), End(u) = NextRow(End(text)),
         InDefaults, terminal_row = End(text)[1] - FirstRow(text),
         NEW dirty, Term!ToNextRow(View(u, FirstRow(text)), dirty)
  PROVE  Displays(terminal_buffer', terminal_row', terminal_column', u)
PROOF
<1> DEFINE e == End(text)[1]
           f == FirstRow(text)
           g == FirstRow(u)
           H == VGA_HEIGHT
<1>1. /\ e \in Nat /\ f \in Nat /\ e - f \in 0 .. H - 1
      /\ f = IF e < H THEN 0 ELSE e - H + 1
      /\ H \in Nat \ {0}
  BY WindowCursor, TerminalAssumption DEF Places
<1>2. End(u) = <<e + 1, 0>> /\ End(u)[1] = e + 1 /\ End(u)[2] = 0
  BY DEF NextRow
<1>3. g = IF e + 1 < H THEN 0 ELSE e + 1 - H + 1
  <2> DEFINE x == End(u)[1]
  <2>1. g = IF x < H THEN 0 ELSE x - H + 1
    BY WindowCursor
  <2>2. x = e + 1
    BY <1>2
  <2>3. e \in Nat /\ H \in Nat
    BY <1>1
  <2> HIDE DEF x, e, g, H
  <2> QED
    BY <2>1, <2>2, <2>3
<1>4. /\ terminal_row = e - f /\ terminal_column' = 0
      /\ terminal_row' = IF terminal_row + 1 = H THEN terminal_row ELSE terminal_row + 1
      /\ terminal_buffer' = IF terminal_row + 1 = H THEN Term!Scrolled(View(u, f)) ELSE View(u, f)
  BY DEF Term!ToNextRow, Term!OnLastRow
<1> HIDE DEF e, f, g, H
<1>5. terminal_row' = (e + 1) - g /\ (terminal_row + 1 = H => g = f + 1)
      /\ (terminal_row + 1 # H => g = f)
  BY <1>1, <1>3, <1>4
<1>6. CASE terminal_row + 1 = H
  <2>1. ASSUME NEW p \in Term!Positions
        PROVE  Term!Scrolled(View(u, f))[p] = Cell(u, <<p[1] + g, p[2]>>)
    <3>1. p[1] \in 0 .. H - 1 /\ p[2] \in 0 .. VGA_WIDTH - 1
      BY DEF Term!Positions, Term!Rows, Term!Columns, H
    <3>2. CASE p[1] < H - 1
      <4>1. <<p[1] + 1, p[2]>> \in Term!Positions
        BY <1>1, <3>1, <3>2 DEF Term!Positions, Term!Rows, Term!Columns, H
      <4>2. View(u, f)[<<p[1] + 1, p[2]>>] = Cell(u, <<p[1] + 1 + f, p[2]>>)
        BY <4>1 DEF View, Cell
      <4>3. p[1] + 1 + f = p[1] + g
        <5>1. \A r \in Int : r + 1 + f = r + (f + 1)
          BY <1>1
        <5>2. p[1] \in Int
          BY <3>1
        <5> QED
          BY <1>5, <1>6, <5>1, <5>2
      <4>4. Term!Scrolled(View(u, f))[p] = View(u, f)[<<p[1] + 1, p[2]>>]
        BY <3>2 DEF Term!Scrolled, H
      <4> QED
        BY <4>2, <4>3, <4>4
    <3>3. CASE ~(p[1] < H - 1)
      <4>1. Term!Scrolled(View(u, f))[p] = Term!TerminalChar(Space)
        BY <3>3 DEF Term!Scrolled, H
      <4>2. p[1] + g = e + 1
        <5>1. \A r \in 0 .. H - 1 : ~(r < H - 1) => r + (f + 1) = e + 1
          BY <1>1, <1>4, <1>6
        <5> QED
          BY <1>5, <1>6, <3>1, <3>3, <5>1
      <4>3. ~Before(<<p[1] + g, p[2]>>, End(u))
        BY <1>1, <1>2, <3>1, <4>2 DEF Before
      <4>4. PageChar(u, <<p[1] + g, p[2]>>) = Space
        BY <4>3, PageBehind
      <4> QED
        BY <4>1, <4>4 DEF Term!TerminalChar, Cell, InDefaults
    <3> QED
      BY <3>2, <3>3
  <2>2. Term!Scrolled(View(u, f)) = [p \in Term!Positions |-> Cell(u, <<p[1] + g, p[2]>>)]
    <3>1. Term!Scrolled(View(u, f)) = [p \in Term!Positions |-> Term!Scrolled(View(u, f))[p]]
      BY DEF Term!Scrolled
    <3> QED
      BY <2>1, <3>1
  <2>3. terminal_buffer' = Window(u)
    BY <1>4, <1>6, <2>2 DEF Window, View, Cell, g
  <2> QED
    BY <1>2, <1>4, <1>5, <2>3 DEF Displays, g
<1>7. CASE terminal_row + 1 # H
  <2>1. terminal_buffer' = Window(u)
    BY <1>4, <1>5, <1>7 DEF Window, g
  <2> QED
    BY <1>2, <1>4, <1>5, <2>1 DEF Displays, g
<1> QED
  BY <1>6, <1>7

(* In the same place, the window shows a text and a control character as   *)
(* it shows the text.                                                      *)
LEMMA ControlView ==
  ASSUME NEW S, NEW text \in Seq(S), NEW c \in S, c \in {Newline, Tab}, NEW first
  PROVE  View(Append(text, c), first) = View(text, first)
PROOF
<1>1. \A place : PageChar(Append(text, c), place) = PageChar(text, place)
  BY PageAppend
<1> QED
  BY <1>1 DEF View

(* A printable character is put where the text ends.                       *)
LEMMA PutView ==
  ASSUME NEW S, NEW text \in Seq(S), NEW c \in S, c \notin {Newline, Tab}, InDefaults,
         Displays(terminal_buffer, terminal_row, terminal_column, text)
  PROVE  Term!Put(c) = View(Append(text, c), FirstRow(text))
PROOF
<1> DEFINE u == Append(text, c)
           f == FirstRow(text)
           e == End(text)
<1>1. /\ e = <<e[1], e[2]>> /\ e[1] \in Nat /\ f \in Nat
      /\ terminal_row = e[1] - f /\ terminal_column = e[2]
  BY WindowCursor DEF Displays, Places
<1>2. \A place : PageChar(u, place) = IF place = e THEN c ELSE PageChar(text, place)
  BY PageAppend
<1>3. terminal_buffer = [p \in Term!Positions |-> Cell(text, <<p[1] + f, p[2]>>)]
  BY DEF Displays, Window, View, Cell
<1> HIDE DEF u, f, e
<1>4. ASSUME NEW p \in Term!Positions
      PROVE  (p = Term!cursor) <=> (<<p[1] + f, p[2]>> = e)
  <2>1. p = <<p[1], p[2]>> /\ p[1] \in Int
    BY DEF Term!Positions, Term!Rows, Term!Columns
  <2>2. p[1] + f = e[1] <=> p[1] = terminal_row
    BY <1>1, <2>1
  <2>3. p = Term!cursor <=> p[1] = terminal_row /\ p[2] = terminal_column
    BY <2>1 DEF Term!cursor
  <2>4. <<p[1] + f, p[2]>> = e <=> p[1] + f = e[1] /\ p[2] = e[2]
    BY <1>1
  <2> QED
    BY <1>1, <2>2, <2>3, <2>4
<1>5. Term!Put(c) = [p \in Term!Positions |->
                       IF p = Term!cursor THEN Term!TerminalChar(c)
                                          ELSE Cell(text, <<p[1] + f, p[2]>>)]
  BY <1>3 DEF Term!Put
<1>6. ASSUME NEW p \in Term!Positions
      PROVE  (IF p = Term!cursor THEN Term!TerminalChar(c) ELSE Cell(text, <<p[1] + f, p[2]>>))
               = Cell(u, <<p[1] + f, p[2]>>)
  BY <1>2, <1>4 DEF Cell, Term!TerminalChar, InDefaults
<1>7. View(u, f) = [p \in Term!Positions |-> Cell(u, <<p[1] + f, p[2]>>)]
  BY DEF View, Cell
<1> QED
  BY <1>5, <1>6, <1>7 DEF u, f

(* The next tab stop, as terminal_indent counts it.                        *)
LEMMA TabStops ==
  ASSUME terminal_column \in Nat
  PROVE  Term!NextTab = TabStop * ((terminal_column \div TabStop) + 1)
PROOF
<1> DEFINE x == terminal_column
           n == TabStop
<1>1. x \in Nat /\ n \in Nat \ {0}
  BY TerminalAssumption
<1>2. Term!NextTab = x + (n - (x % n))
  BY DEF Term!NextTab
<1> HIDE DEF x, n
<1> DEFINE q == x \div n
           r == x % n
<1>3. q \in Nat /\ r \in 0 .. n - 1 /\ x = n * q + r
  BY <1>1, Z3
<1> HIDE DEF q, r
<1>4. n * (q + 1) = n * q + n /\ n * q \in Nat
  BY <1>1, <1>3
<1>5. x + (n - r) = n * (q + 1)
  BY <1>1, <1>3, <1>4
<1> QED
  BY <1>2, <1>5 DEF x, n, q, r

(* The terminal's part of a character takes a grid that displays a text to *)
(* one that displays the text with the character.                          *)
LEMMA WriteShown ==
  ASSUME NEW S, NEW text \in Seq(S), NEW c \in S, InDefaults, TerminalWrite(c),
         Displays(terminal_buffer, terminal_row, terminal_column, text)
  PROVE  Displays(terminal_buffer', terminal_row', terminal_column', Append(text, c))
PROOF
<1> DEFINE u == Append(text, c)
           e == End(text)
           f == FirstRow(text)
           W == VGA_WIDTH
<1>1. /\ e \in Places /\ e[1] \in Nat /\ e[2] \in 0 .. W - 1 /\ f \in Nat
      /\ e[1] - f \in 0 .. VGA_HEIGHT - 1
      /\ terminal_row = e[1] - f /\ terminal_column = e[2]
      /\ terminal_buffer = View(text, f)
  BY WindowCursor DEF Displays, Places, Window
<1>2. u \in Seq(S) /\ End(u) = After(e, c)
  BY AppendExtends DEF Extends
<1>3. VGA_WIDTH \in Nat \ {0} /\ VGA_HEIGHT \in Nat \ {0} /\ Newline # Tab
  BY TerminalAssumption
<1>4. FirstRow(u) = f \/ End(u)[1] # e[1]
  BY <1>2, WindowCursor
<1> HIDE DEF u, e, f
<1>5. Term!terminal_isSafe
  BY <1>1, <1>3 DEF Term!terminal_isSafe
<1>6. \A dirty : Term!ToNextRow(View(u, f), dirty) /\ End(u) = NextRow(e)
         => Displays(terminal_buffer', terminal_row', terminal_column', u)
  BY <1>1, <1>2, RowShown DEF e, f
<1>7. CASE c = Newline
  <2>1. Term!terminal_newLine
    BY <1>3, <1>5, <1>7 DEF TerminalWrite
  <2>2. View(u, f) = terminal_buffer
    BY <1>1, <1>7, ControlView DEF u
  <2>3. Term!ToNextRow(View(u, f), dirty_buffer)
    BY <2>1, <2>2 DEF Term!terminal_newLine
  <2>4. End(u) = NextRow(e)
    BY <1>2, <1>7 DEF After
  <2> QED
    BY <1>6, <2>3, <2>4 DEF u
<1>8. CASE c = Tab
  <2> DEFINE stop == TabStop * ((e[2] \div TabStop) + 1)
  <2>1. Term!terminal_indent
    BY <1>3, <1>5, <1>8 DEF TerminalWrite
  <2>2. View(u, f) = terminal_buffer
    BY <1>1, <1>8, ControlView DEF u
  <2>3. Term!NextTab = stop
    BY <1>1, TabStops
  <2>4. End(u) = IF stop >= VGA_WIDTH THEN NextRow(e) ELSE <<e[1], stop>>
    BY <1>2, <1>3, <1>8 DEF After
  <2> HIDE DEF stop
  <2>5. stop \in Int
    <3>1. TabStop \in Nat \ {0} /\ e[2] \in Nat
      BY <1>1, TerminalAssumption
    <3> QED
      BY <3>1 DEF stop
  <2>6. CASE stop >= VGA_WIDTH
    <3>1. Term!ToNextRow(View(u, f), dirty_buffer)
      BY <1>3, <2>1, <2>2, <2>3, <2>5, <2>6 DEF Term!terminal_indent, Term!terminal_newLine
    <3> QED
      BY <1>6, <2>4, <2>6, <3>1 DEF u
  <2>7. CASE ~(stop >= VGA_WIDTH)
    <3>1. /\ terminal_column' = stop /\ terminal_row' = terminal_row
          /\ terminal_buffer' = terminal_buffer
      BY <2>1, <2>3, <2>7 DEF Term!terminal_indent, Term!cells
    <3>2. End(u)[1] = e[1] /\ End(u)[2] = stop
      BY <2>4, <2>7
    <3> QED
      BY <1>1, <1>4, <2>2, <3>1, <3>2 DEF Displays, Window, u
  <2> QED
    BY <2>6, <2>7
<1>9. CASE c \notin {Newline, Tab}
  <2>1. Term!terminal_putchar(c)
    BY <1>5, <1>9 DEF TerminalWrite
  <2>2. Term!Put(c) = View(u, f)
    BY <1>9, PutView DEF u, f
  <2>3. End(u) = IF e[2] + 1 >= VGA_WIDTH THEN NextRow(e) ELSE <<e[1], e[2] + 1>>
    BY <1>2, <1>9 DEF After
  <2>4. CASE terminal_column + 1 = VGA_WIDTH
    <3>1. Term!ToNextRow(View(u, f), dirty_buffer \cup {Term!cursor})
      BY <2>1, <2>2, <2>4 DEF Term!terminal_putchar
    <3>2. End(u) = NextRow(e)
      BY <1>1, <1>3, <2>3, <2>4
    <3> QED
      BY <1>6, <3>1, <3>2 DEF u
  <2>5. CASE terminal_column + 1 # VGA_WIDTH
    <3>1. /\ terminal_column' = terminal_column + 1 /\ terminal_row' = terminal_row
          /\ terminal_buffer' = View(u, f)
      BY <2>1, <2>2, <2>5 DEF Term!terminal_putchar
    <3>2. ~(e[2] + 1 >= VGA_WIDTH)
      BY <1>1, <1>3, <2>5
    <3>3. End(u)[1] = e[1] /\ End(u)[2] = e[2] + 1
      BY <2>3, <3>2
    <3> QED
      BY <1>1, <1>4, <3>1, <3>3 DEF Displays, Window, u
  <2> QED
    BY <2>4, <2>5
<1> QED
  BY <1>7, <1>8, <1>9

-----------------------------------------------------------------------------
(* The invariant of the screen. *)

(* What is printed before kernel_main is not on the screen any more.       *)
Start == Len(BootText(3))

(* A character is in the grid before it is sent.                           *)
WithHeld(text, frame) ==
  IF frame.at \in {"wait_transmit", "outb"} THEN Append(text, Head(frame.text)) ELSE text

Shown == WithHeld(Cut(sent, Start), Top)

(* What terminal_clear leaves. *)
Cleared == Top.at = "set_cursor" => terminal_buffer = [p \in Term!Positions |-> Term!Blank]

(* Everything printed since then is in the grid.                           *)
Current ==
  boot = 4 =>
    /\ Start \in 0 .. Len(sent)
    /\ Displays(terminal_buffer, terminal_row, terminal_column, Shown)

(* Nothing is left to draw while kernel_main waits for a key.              *)
Drawn == Term!CleanIsShown /\ (Top.at = "getchar" => dirty_buffer = {})

ScreenInv ==
  /\ Term!TypeOK /\ InDefaults
  /\ Undisturbed => Cleared /\ Current /\ Drawn

(* The top frame after a step. *)
LEMMA GotoTop ==
  ASSUME Types, NEW text, NEW at, Goto(text, at)
  PROVE  Len(stack') = Len(stack) /\ Top' = Running(text, at)
PROOF
<1> DEFINE S == Frame \cup {Running(text, at)}
           s == [stack EXCEPT ![Len(stack)] = Running(text, at)]
<1>1. stack \in Seq(S) /\ Len(stack) \in 1 .. Len(stack) /\ Running(text, at) \in S
  <2>1. stack \in Seq(Frame) /\ Frame \subseteq S /\ Len(stack) \in 1 .. Len(stack)
    BY DEF Types
  <2> HIDE DEF S
  <2>2. stack \in Seq(S)
    BY <2>1, SeqMonotonic
  <2> QED
    BY <2>1, <2>2 DEF S
<1> HIDE DEF S
<1>2. /\ Len(s) = Len(stack)
      /\ \A j \in 1 .. Len(stack) :
           s[j] = IF j = Len(stack) THEN Running(text, at) ELSE stack[j]
  BY <1>1, ExceptSeq
<1> HIDE DEF s
<1>3. stack' = s
  BY DEF Goto, s
<1> QED
  BY <1>1, <1>2, <1>3 DEF Top

(* What is clean is shown, as the console sees it and as the proofs do.    *)
LEMMA SameClean ==
  /\ Term!CleanIsShown = TP!CleanIsShown
  /\ Term!CleanIsShown' = TP!CleanIsShown'
  BY DEF Term!CleanIsShown, TP!CleanIsShown, Term!Positions, TP!Positions, Term!Rows, TP!Rows,
         Term!Columns, TP!Columns

(* Exceptions come, but they do not go. *)
LEMMA StackGrows ==
  ASSUME Inv, [Next]_vars, Undisturbed'
  PROVE  Undisturbed /\ ~(Exception \/ NMI \/ DivideError \/ FatalException)
PROOF
<1>1. Types /\ stack \in Seq(Frame) /\ Len(stack) \in Nat /\ Len(stack) >= 1
  BY Bottom DEF Inv, Types
<1>2. ASSUME NEW frame, stack' = Append(stack, frame) PROVE FALSE
  <2> DEFINE S == Frame \cup {frame}
  <2>1. stack \in Seq(S) /\ frame \in S
    <3>1. Frame \subseteq S /\ frame \in S
      OBVIOUS
    <3> HIDE DEF S
    <3> QED
      BY <1>1, <3>1, SeqMonotonic
  <2> HIDE DEF S
  <2>2. Len(stack') = Len(stack) + 1
    BY <1>2, <2>1, AppendSeq DEF Appends
  <2> QED
    BY <1>1, <2>2 DEF Undisturbed
<1>3. ASSUME NEW text, NEW at, Goto(text, at) PROVE Undisturbed
  BY <1>1, <1>3, GotoTop DEF Undisturbed
<1>4. stack' = stack => Undisturbed
  BY DEF Undisturbed
<1>5. ~(Exception \/ NMI \/ DivideError \/ FatalException)
  BY <1>2 DEF Exception, NMI, DivideError, FatalException, Enter
<1>6. CASE terminal_write \/ wait_transmit \/ serial_putchar \/ LoadGates \/ terminal_clear
           \/ SetCursor \/ Render
  BY <1>3, <1>5, <1>6 DEF terminal_write, wait_transmit, serial_putchar, LoadGates, terminal_clear,
                    SetCursor, Render, Prints
<1>7. CASE Printed \/ SerialInit \/ Getchar
  BY <1>3, <1>4, <1>5, <1>7 DEF Printed, SerialInit, Getchar, Prints
<1>8. CASE Key \/ Transmit \/ UNCHANGED vars
  BY <1>4, <1>5, <1>8 DEF Key, Transmit, Take, Transmitted, vars
<1> QED
  BY <1>5, <1>6, <1>7, <1>8, Zenon DEF Next, Kernel

(* The colours are never changed. *)
LEMMA DefaultsStep ==
  ASSUME InDefaults, [Next]_vars
  PROVE  InDefaults'
PROOF
<1> SUFFICES backgroundColor' = backgroundColor /\ foregroundColor' = foregroundColor
  BY DEF InDefaults
<1> USE DEF Term!colors
<1>1. Term!terminal_newLine => UNCHANGED Term!colors
  BY DEF Term!terminal_newLine
<1>2. CASE terminal_write
  <2>1. TerminalWrite(Head(Top.text))
    BY <1>2 DEF terminal_write
  <2> QED
    BY <1>1, <2>1 DEF TerminalWrite, terminal, Term!terminal_indent, Term!terminal_putchar
<1>3. CASE terminal_clear \/ SetCursor \/ Render \/ DivideError
  BY <1>3 DEF terminal_clear, Term!terminal_clear, SetCursor, Term!terminal_setCursorPosition,
              Render, Term!terminal_render, DivideError
<1>4. CASE UNCHANGED terminal
  BY <1>4 DEF terminal
<1>5. CASE wait_transmit \/ serial_putchar \/ Printed \/ SerialInit \/ LoadGates \/ Getchar
  BY <1>4, <1>5 DEF wait_transmit, serial_putchar, Printed, SerialInit, LoadGates, Getchar
<1>6. CASE Key \/ Exception \/ NMI \/ FatalException \/ Transmit \/ UNCHANGED vars
  BY <1>4, <1>6 DEF Key, Exception, NMI, FatalException, Transmit, Take, Transmitted, vars
<1> QED
  BY <1>2, <1>3, <1>5, <1>6, Zenon DEF Next, Kernel

(* Clean cells stay shown until an exception clears the screen.            *)
LEMMA CleanStep ==
  ASSUME Inv, Term!TypeOK, Term!CleanIsShown, [Next]_vars, ~DivideError
  PROVE  Term!CleanIsShown'
PROOF
<1>1. CASE UNCHANGED terminal
  BY <1>1 DEF terminal, Term!CleanIsShown
<1>2. CASE TP!Next
  <2>1. TP!Inv
    BY SameTypes, SameClean DEF TP!Inv
  <2>2. TP!CleanIsShown'
    BY <1>2, <2>1, TerminalFits, TP!CleanStep
  <2> QED
    BY <2>2, SameClean
<1> QED
  BY <1>1, <1>2, TerminalPart

(* A step that leaves the grid and what was printed.                       *)
LEMMA StayCurrent ==
  ASSUME Current, boot' = boot, sent' = sent,
         UNCHANGED <<terminal_buffer, terminal_row, terminal_column>>,
         WithHeld(Cut(sent, Start), Top') = WithHeld(Cut(sent, Start), Top)
  PROVE  Current'
PROOF
<1>1. Shown' = Shown
  BY DEF Shown, Cut
<1> QED
  BY <1>1 DEF Current

(* Printing a character shows it.                                          *)
LEMMA WriteCurrent ==
  ASSUME Inv, InDefaults, Current, terminal_write
  PROVE  Cleared' /\ Current' /\ Top'.at # "getchar"
PROOF
<1> DEFINE c == Head(Top.text)
           printed == Cut(sent, Start)
<1>1. Types /\ Top.text \in Seq(Printable) /\ Top.text # << >> /\ Top.at = "write"
      /\ TerminalWrite(c) /\ Goto(Top.text, "wait_transmit") /\ sent' = sent /\ boot' = boot
  BY Bottom DEF Inv, terminal_write, At
<1>2. c \in Printable
  BY <1>1
<1>3. Top' = Running(Top.text, "wait_transmit")
  BY <1>1, GotoTop
<1>4. Top'.at = "wait_transmit" /\ Top'.text = Top.text
  BY <1>3 DEF Running
<1>5. Cleared' /\ Top'.at # "getchar"
  BY <1>4 DEF Cleared
<1>6. CASE boot = 4
  <2>1. Start \in 0 .. Len(sent) /\ Shown = printed
        /\ Displays(terminal_buffer, terminal_row, terminal_column, printed)
    BY <1>1, <1>6 DEF Current, Shown, WithHeld
  <2>2. printed \in Seq(Printable)
    BY <1>1, <2>1, CutJoins DEF Types
  <2>3. Shown' = Append(printed, c)
    BY <1>1, <1>4 DEF Shown, WithHeld, Cut
  <2> HIDE DEF c, printed
  <2>4. Displays(terminal_buffer', terminal_row', terminal_column', Append(printed, c))
    BY <1>1, <1>2, <2>1, <2>2, WriteShown
  <2> QED
    BY <1>1, <1>5, <2>1, <2>3, <2>4 DEF Current
<1>7. CASE boot # 4
  BY <1>1, <1>5, <1>7 DEF Current
<1> QED
  BY <1>6, <1>7

(* Sending a character changes nothing on the screen.                      *)
LEMMA PutcharCurrent ==
  ASSUME Inv, Current, serial_putchar
  PROVE  Cleared' /\ Current' /\ Top'.at # "getchar"
PROOF
<1> DEFINE c == Head(Top.text)
<1>1. Types /\ Frames /\ Top.text \in Seq(Printable) /\ Top.at = "outb"
      /\ Goto(Tail(Top.text), "write") /\ sent' = Append(sent, c) /\ boot' = boot
      /\ UNCHANGED <<terminal_buffer, terminal_row, terminal_column>>
  BY Bottom DEF Inv, serial_putchar, At, terminal
<1>2. Top.text # << >>
  BY <1>1, TopFrameOK DEF FrameOK
<1>3. c \in Printable /\ sent \in Seq(Printable)
  BY <1>1, <1>2 DEF Types
<1>4. Top' = Running(Tail(Top.text), "write")
  BY <1>1, GotoTop
<1>5. Top'.at = "write"
  BY <1>4 DEF Running
<1>6. Cleared' /\ Top'.at # "getchar"
  BY <1>5 DEF Cleared
<1>7. CASE boot = 4
  <2>1. Start \in 0 .. Len(sent) /\ Shown = Append(Cut(sent, Start), c)
        /\ Displays(terminal_buffer, terminal_row, terminal_column, Shown)
    BY <1>1, <1>7 DEF Current, Shown, WithHeld
  <2> HIDE DEF c
  <2>2. Cut(sent', Start) = Append(Cut(sent, Start), c)
    BY <1>1, <1>3, <2>1, CutAppend
  <2>3. Shown' = Cut(sent', Start)
    BY <1>5 DEF Shown, WithHeld, Cut, Start, BootText
  <2>4. Start \in 0 .. Len(sent')
    <3>1. Len(sent') = Len(sent) + 1 /\ Len(sent) \in Nat
      BY <1>1, <1>3
    <3> QED
      BY <2>1, <3>1
  <2> QED
    BY <1>1, <1>6, <2>1, <2>2, <2>3, <2>4 DEF Current
<1>8. CASE boot # 4
  BY <1>1, <1>6, <1>8 DEF Current
<1> QED
  BY <1>7, <1>8

(* An empty page.                                                          *)
LEMMA EmptyPage ==
  Displays([p \in Term!Positions |-> Term!Blank], 0, 0, << >>)
PROOF
<1>1. << >> \in Seq({}) /\ Len(<< >>) = 0
  OBVIOUS
<1>2. End(<< >>) = <<0, 0>>
  BY <1>1, PathOf DEF Path, End
<1>3. FirstRow(<< >>) = 0
  BY <1>2, TerminalAssumption DEF FirstRow, End
<1>4. \A place : PageChar(<< >>, place) = Space
  BY DEF PageChar
<1>5. Window(<< >>) = [p \in Term!Positions |-> Term!Blank]
  BY <1>4 DEF Window, View, Term!Blank
<1> QED
  BY <1>2, <1>3, <1>5 DEF Displays

(* kernel_main starts with an empty page.                                  *)
LEMMA SetCursorCurrent ==
  ASSUME Inv, Cleared, Undisturbed, SetCursor
  PROVE  Cleared' /\ Current' /\ Top'.at # "getchar"
PROOF
<1>1. Types /\ Course /\ EchoedInOrder /\ Top.at = "set_cursor" /\ Top.text = << >>
      /\ stack[1] = Top /\ boot' = 4 /\ Goto(Texts[4], "write") /\ sent' = sent
  BY Placed, Bottom DEF Inv, SetCursor, At, Prints
<1>2. boot = 3
  <2>1. <<"set_cursor", boot>> \in Between
    BY Placed DEF SetCursor
  <2> QED
    BY <2>1 DEF Between
<1>3. terminal_buffer' = [p \in Term!Positions |-> Term!Blank] /\ terminal_row' = 0
      /\ terminal_column' = 0
  BY <1>1 DEF Cleared, SetCursor, Term!terminal_setCursorPosition, Term!cells
<1>4. Top'.at = "write"
  <2>1. Top' = Running(Texts[4], "write")
    BY <1>1, GotoTop
  <2> QED
    BY <2>1 DEF Running
<1>5. sent = BootText(3) /\ sent \in Seq(Printable)
  <2>1. queue = << >> /\ typed = << >>
    BY <1>1, <1>2 DEF Course
  <2>2. sent \o << >> \o << >> = BootText(3) \o << >>
    BY <1>1, <1>2, <2>1 DEF EchoedInOrder
  <2>3. sent \in Seq(Printable) /\ BootText(3) \in Seq(Printable)
    BY <1>1, NextText DEF Types
  <2>4. sent \o << >> = sent /\ BootText(3) \o << >> = BootText(3)
    BY <2>3, ConcatEmptySeq
  <2> QED
    BY <2>2, <2>3, <2>4
<1>6. Start = Len(sent) /\ Start \in 0 .. Len(sent)
  BY <1>5 DEF Start
<1>7. Cut(sent, Start) = << >>
  <2>1. Cut(sent, Start) \in Seq(Printable) /\ Len(Cut(sent, Start)) = Len(sent) - Start
    BY <1>5, <1>6, CutJoins
  <2>2. Len(sent) - Start = 0
    BY <1>5, <1>6
  <2> DEFINE x == Cut(sent, Start)
  <2> HIDE DEF x
  <2>3. x \in Seq(Printable) /\ Len(x) = 0
    BY <2>1, <2>2 DEF x
  <2>4. x = << >>
    BY <2>3
  <2> QED
    BY <2>4 DEF x
<1>8. Shown' = << >>
  BY <1>1, <1>4, <1>7 DEF Shown, WithHeld, Cut
<1>9. Current'
  BY <1>1, <1>3, <1>6, <1>8, EmptyPage DEF Current
<1> QED
  BY <1>4, <1>9 DEF Cleared

(* The steps of _start and of kernel_main that print nothing.              *)
Aside ==
  \/ wait_transmit \/ Printed \/ SerialInit \/ LoadGates \/ terminal_clear \/ Render
  \/ Getchar \/ Key \/ Transmit \/ UNCHANGED vars

(* They show nothing either, and nothing is left to draw when they come to *)
(* wait for a key.                                                         *)
LEMMA AsideCurrent ==
  ASSUME Inv, Undisturbed, Undisturbed', Cleared, Current, InDefaults, Aside
  PROVE  /\ Cleared' /\ Current'
         /\ Top'.at = "getchar" =>
              dirty_buffer' = {} \/ (Top.at = "getchar" /\ dirty_buffer' = dirty_buffer)
PROOF
<1> DEFINE Idle == Top'.at = "getchar" =>
                     dirty_buffer' = {} \/ (Top.at = "getchar" /\ dirty_buffer' = dirty_buffer)
<1>1. Types /\ Top.text \in Seq(Printable) /\ boot \in 1 .. 4
  BY Bottom DEF Inv, Types
<1>2. ASSUME NEW text, NEW at, Goto(text, at)
      PROVE  Top'.at = at /\ Top'.text = text
  <2>1. Top' = Running(text, at)
    BY <1>1, <1>2, GotoTop
  <2> QED
    BY <2>1 DEF Running
<1>3. CASE wait_transmit
  <2>1. Top.at = "wait_transmit" /\ Top'.at = "outb" /\ Top'.text = Top.text
    BY <1>2, <1>3 DEF wait_transmit, At
  <2>2. WithHeld(Cut(sent, Start), Top') = WithHeld(Cut(sent, Start), Top)
    BY <2>1 DEF WithHeld
  <2>3. Current'
    BY <1>3, <2>2, StayCurrent DEF wait_transmit, terminal
  <2> QED
    BY <2>1, <2>3 DEF Cleared
<1>4. ASSUME Top.at \notin {"wait_transmit", "outb"}, Top'.at \notin {"wait_transmit", "outb"}
      PROVE  WithHeld(Cut(sent, Start), Top') = WithHeld(Cut(sent, Start), Top)
  BY <1>4 DEF WithHeld
<1>5. CASE Printed
  <2>1. Top.at = "write" /\ boot' = boot /\ sent' = sent
        /\ UNCHANGED <<terminal_buffer, terminal_row, terminal_column>>
        /\ Goto(<< >>, AfterText[boot])
    BY <1>5 DEF Printed, At, terminal, Undisturbed
  <2>2. Top'.at = AfterText[boot]
    BY <1>2, <2>1
  <2>3. Top'.at \notin {"wait_transmit", "outb", "set_cursor", "getchar"}
    <3>1. boot = 1 \/ boot = 2 \/ boot = 3 \/ boot = 4
      BY <1>1
    <3> QED
      BY <2>2, <3>1 DEF AfterText
  <2>4. Current'
    BY <1>4, <2>1, <2>3, StayCurrent
  <2> QED
    BY <2>3, <2>4 DEF Cleared
<1>6. ASSUME stack' = stack, boot' = boot, sent' = sent, UNCHANGED terminal
      PROVE  Cleared' /\ Current' /\ Idle
  <2>1. Top' = Top
    BY <1>6 DEF Top
  <2>2. Current'
    BY <1>6, <2>1, StayCurrent DEF terminal
  <2> QED
    BY <1>6, <2>1, <2>2 DEF Cleared, terminal
<1>7. ASSUME NEW n \in 2 .. 3, Prints(n) PROVE Cleared' /\ Current' /\ Idle
  <2>1. boot' # 4 /\ Top'.at = "write"
    BY <1>2, <1>7 DEF Prints
  <2> QED
    BY <2>1 DEF Cleared, Current
<1>8. CASE SerialInit
  <2>1. UNCHANGED terminal /\ sent' = sent
    BY <1>8 DEF SerialInit
  <2>2. (boot' = boot /\ stack' = stack) \/ Prints(2)
    BY <1>8 DEF SerialInit
  <2> QED
    BY <1>6, <1>7, <2>1, <2>2
<1>9. CASE LoadGates
  BY <1>7, <1>9 DEF LoadGates
<1>10. CASE terminal_clear
  <2>1. Top'.at = "set_cursor" /\ boot' = boot
    BY <1>2, <1>10 DEF terminal_clear
  <2>2. <<"terminal_clear", boot>> \in Between
    BY <1>10, Placed DEF terminal_clear
  <2>3. boot' # 4
    BY <2>1, <2>2 DEF Between
  <2>4. terminal_buffer' = [p \in Term!Positions |-> Term!Blank]
    BY <1>10 DEF terminal_clear, Term!terminal_clear, Term!TerminalChar, Term!Blank, InDefaults
  <2> QED
    BY <2>1, <2>3, <2>4 DEF Cleared, Current
<1>11. CASE Render
  <2>1. Top.at = "render" /\ Top'.at = "getchar" /\ boot' = boot /\ sent' = sent
        /\ UNCHANGED <<terminal_buffer, terminal_row, terminal_column>> /\ dirty_buffer' = {}
    BY <1>2, <1>11 DEF Render, At, Term!terminal_render
  <2>2. Current'
    BY <1>4, <2>1, StayCurrent
  <2> QED
    BY <2>1, <2>2 DEF Cleared
<1>12. CASE Getchar
  <2>1. UNCHANGED terminal /\ boot' = boot /\ sent' = sent /\ Top.at = "getchar"
    BY <1>12 DEF Getchar, At
  <2>2. CASE stack' = stack
    BY <1>6, <2>1, <2>2
  <2>3. CASE stack' # stack
    <3>1. Goto(<<answer'>>, "write")
      BY <1>12, <2>3 DEF Getchar
    <3>2. Top'.at = "write"
      BY <1>2, <3>1
    <3>3. Current'
      BY <1>4, <2>1, <3>2, StayCurrent DEF terminal
    <3> QED
      BY <3>2, <3>3 DEF Cleared
  <2> QED
    BY <2>2, <2>3
<1>13. CASE Key \/ Transmit \/ UNCHANGED vars
  BY <1>6, <1>13 DEF Key, Transmit, Take, Transmitted, vars
<1> QED
  BY <1>3, <1>5, <1>8, <1>9, <1>10, <1>11, <1>12, <1>13 DEF Aside

(* Every step keeps the invariant. *)
LEMMA ScreenStep == Inv /\ ScreenInv /\ [Next]_vars => ScreenInv'
PROOF
<1> SUFFICES ASSUME Inv, ScreenInv, [Next]_vars PROVE ScreenInv'
  OBVIOUS
<1>1. Term!TypeOK' /\ InDefaults'
  BY TerminalStep, DefaultsStep DEF ScreenInv
<1>2. ASSUME Undisturbed' PROVE Cleared' /\ Current' /\ Drawn'
  <2>1. Undisturbed /\ ~(Exception \/ NMI \/ DivideError \/ FatalException)
    BY <1>2, StackGrows
  <2>2. Cleared /\ Current /\ Drawn /\ InDefaults /\ Term!TypeOK
    BY <2>1 DEF ScreenInv
  <2>3. Term!CleanIsShown'
    BY <2>1, <2>2, CleanStep DEF Drawn
  <2>4. CASE terminal_write \/ serial_putchar \/ SetCursor
    BY <2>1, <2>2, <2>3, <2>4, WriteCurrent, PutcharCurrent, SetCursorCurrent DEF Drawn
  <2>5. CASE Aside
    <3>1. /\ Cleared' /\ Current'
          /\ Top'.at = "getchar" =>
               dirty_buffer' = {} \/ (Top.at = "getchar" /\ dirty_buffer' = dirty_buffer)
      BY <1>2, <2>1, <2>2, <2>5, AsideCurrent
    <3> QED
      BY <2>2, <2>3, <3>1 DEF Drawn
  <2> QED
    BY <2>1, <2>4, <2>5, Zenon DEF Next, Kernel, Aside
<1> QED
  BY <1>1, <1>2 DEF ScreenInv

(* It holds before anything is printed. *)
LEMMA ScreenInit == Init => ScreenInv
PROOF
<1> SUFFICES ASSUME Init PROVE ScreenInv
  OBVIOUS
<1>1. Term!TypeOK
  BY TerminalInit
<1>2. InDefaults /\ Term!CleanIsShown
  BY DEF Init, Term!terminal_initialize, InDefaults, Term!CleanIsShown
<1>3. boot = 1 /\ Top.at = "write"
  <2>1. stack = <<Running(Texts[1], "write")>> /\ boot = 1
    BY DEF Init
  <2>2. Top = Running(Texts[1], "write")
    BY <2>1 DEF Top
  <2> QED
    BY <2>1, <2>2 DEF Running
<1> QED
  BY <1>1, <1>2, <1>3 DEF ScreenInv, Cleared, Current, Drawn

-----------------------------------------------------------------------------
(* Theorems. *)

(* The characters of an exception's message are its range, and its types   *)
(* follow from the invariant.                                              *)
LEMMA InvTypes == Inv /\ Term!TypeOK => TypeOK
PROOF
<1> SUFFICES ASSUME Inv, Term!TypeOK PROVE TypeOK
  OBVIOUS
<1>1. Types /\ PortState /\ LineCarries
  BY DEF Inv
<1>2. \A i \in 1 .. Len(stack) :
        /\ stack[i].text \in Seq(Printable)
        /\ stack[i].at \in {"write", "wait_transmit", "outb", "hlt", "getchar",
                           "set_cursor"} \cup Range(AfterText)
  <2>1. {"serial_init", "lidt", "terminal_clear", "render"} \subseteq Range(AfterText)
    BY DEF AfterText, Range
  <2> TAKE i \in 1 .. Len(stack)
  <2>2. stack[i] \in Frame
    BY <1>1 DEF Types
  <2> QED
    BY <2>1, <2>2 DEF Frame, Printing
<1>3. Len(port.holding) <= 1 /\ Len(port.shifting) <= 1 /\ port.dlab \in BOOLEAN
  <2>1. \A r : Register(r) => Len(r) <= 1
    <3>1. Len(<< >>) <= 1 /\ \A b : Len(<<b>>) <= 1
      OBVIOUS
    <3> QED
      BY <3>1, Zenon DEF Register
  <2> QED
    BY <1>1, <2>1 DEF Types, PortOK, IsPort
<1>4. Len(line) <= Len(sent)
  <2> DEFINE g == Good(port.shifting)
             h == Good(port.holding)
             n == Len(Texts[1])
  <2>1. /\ g \in Seq(Printable) /\ h \in Seq(Printable) /\ line \in Seq(Printable)
        /\ sent \in Seq(Printable) /\ boot \in 1 .. 4
    BY <1>1, GoodType DEF Types, PortOK, IsPort
  <2>2. Len(line) \in Nat /\ Len(sent) \in Nat /\ Len(g) \in Nat /\ Len(h) \in Nat
    BY <2>1
  <2>3. CASE boot = 1
    BY <1>1, <2>2, <2>3 DEF PortState
  <2>4. CASE boot # 1
    <3>1. boot >= 2
      BY <2>1, <2>4
    <3>2. n \in 0 .. Len(sent)
      BY <1>1, <3>1, FirstTextSent
    <3>3. line \o g \o h = Cut(sent, n)
      BY <1>1, <3>1 DEF LineCarries, Cut
    <3> HIDE DEF g, h, n
    <3>4. Len(Cut(sent, n)) = Len(sent) - n
      <4>1. sent \in Seq(Printable)
        BY <2>1
      <4> QED BY <3>2, <4>1, CutJoins
    <3>5. line \o g \in Seq(Printable) /\ Len(line \o g) = Len(line) + Len(g)
      BY <2>1, ConcatJoins DEF Joins
    <3>6. Len(line \o g \o h) = Len(line \o g) + Len(h)
      BY <2>1, <3>5, ConcatJoins DEF Joins
    <3>7. Len(line) + Len(g) + Len(h) = Len(sent) - n
      BY <3>3, <3>4, <3>5, <3>6, Zenon
    <3>8. n \in Nat
      BY <3>2
    <3> QED
      BY <2>2, <3>7, <3>8
  <2> QED
    BY <2>3, <2>4
<1>5. setup \in 1 .. Len(serial_init) + 1
  BY <1>1 DEF Types, serial_init
<1> QED
  BY <1>1, <1>2, <1>3, <1>4, <1>5 DEF Types, TypeOK, Printable

(* A message that has been announced and has nothing left to print has     *)
(* just been sent.                                                         *)
LEMMA InvMessage == Inv => MessageSent
PROOF
<1> SUFFICES ASSUME Inv, halted, Top.at # "hlt" PROVE IsSuffix(Message, sent)
  BY DEF MessageSent
<1>1. Types /\ Course /\ Announced
  BY DEF Inv
<1>2. Len(stack) > 1 /\ Top.text = << >>
  BY <1>1 DEF Course
<1>3. PICK n \in 0 .. Len(sent) : sent \o << >> = SubSeq(sent, 1, n) \o Message
  BY <1>1, <1>2 DEF Announced
<1>4. sent \in Seq(Printable) /\ Message \in Seq(Printable) /\ sent \o << >> = sent
  BY <1>1, TextsPrintable, ConcatEmptySeq DEF Types
<1>5. SubSeq(sent, 1, n) \in Seq(Printable)
  BY <1>4, CutJoins
<1>6. IsSuffix(Message, SubSeq(sent, 1, n) \o Message)
  BY <1>4, <1>5, ConcatSuffix
<1> QED
  BY <1>3, <1>4, <1>6

(* Every variable has its type; the port never holds more than one byte    *)
(* in a register, and what arrived was sent.                               *)
THEOREM TypeCorrect == Spec => []TypeOK
PROOF
<1>1. Init => Inv /\ Term!TypeOK
  BY InitInv, TerminalInit
<1>2. Inv /\ Term!TypeOK /\ [Next]_vars => Inv' /\ Term!TypeOK'
  BY StepInv, TerminalStep
<1> QED
  BY <1>1, <1>2, InvTypes, PTL DEF Spec

(* Until an exception comes, every character the driver accepted is in     *)
(* exactly one place, in the order typed.                                  *)
THEOREM EchoInOrder == Spec => []EchoedInOrder
PROOF
<1>1. Inv => EchoedInOrder
  BY DEF Inv
<1> QED
  BY <1>1, InvHolds, PTL

(* Everything printed since serial_init is on the line, or in the port on  *)
(* its way there, in order and as serial_init has set.                     *)
THEOREM LineCarriesAll == Spec => []LineCarries
PROOF
<1>1. Inv => LineCarries
  BY DEF Inv
<1> QED
  BY <1>1, InvHolds, PTL

(* A kernel that stops at an unhandled exception has just sent its message *)
(* in one piece.                                                           *)
THEOREM MessageAlwaysSent == Spec => []MessageSent
PROOF
<1> QED
  BY InvMessage, InvHolds, PTL

(* While kernel_main waits for a key, the screen shows the last rows of    *)
(* what was printed since terminal_clear.                                  *)
THEOREM ScreenAlwaysShowsEcho == Spec => []ScreenShowsEcho
PROOF
<1>1. Inv /\ ScreenInv => ScreenShowsEcho
  <2> SUFFICES ASSUME Inv, ScreenInv, ~halted, Undisturbed, Top.at = "getchar"
               PROVE  screen = Window(Cut(sent, Start))
    BY DEF ScreenShowsEcho, Cut, Start
  <2>1. boot = 4
    <3>1. <<"getchar", boot>> \in Between
      BY Placed DEF At
    <3> QED
      BY <3>1 DEF Between
  <2>2. terminal_buffer = Window(Cut(sent, Start))
    BY <2>1 DEF ScreenInv, Current, Shown, WithHeld, Displays
  <2>3. screen = terminal_buffer
    <3>1. \A p \in Term!Positions : screen[p] = terminal_buffer[p]
      BY DEF ScreenInv, Drawn, Term!CleanIsShown
    <3>2. /\ screen = [p \in Term!Positions |-> screen[p]]
          /\ terminal_buffer = [p \in Term!Positions |-> terminal_buffer[p]]
      BY DEF ScreenInv, Term!TypeOK
    <3> QED
      BY <3>1, <3>2
  <2> QED
    BY <2>2, <2>3
<1>2. Init => Inv /\ ScreenInv
  BY InitInv, ScreenInit
<1>3. Inv /\ ScreenInv /\ [Next]_vars => Inv' /\ ScreenInv'
  BY StepInv, ScreenStep
<1> QED
  BY <1>1, <1>2, <1>3, PTL DEF Spec
=============================================================================
