---------------------------- MODULE FormatProofs ----------------------------
(***************************************************************************)
(* Proofs about vsprintf. The digit buffers hold every number, for every   *)
(* width of the integers and every size of the buffers that SizeAssumption *)
(* allows: what is left of a number is always below the power of the base  *)
(* whose exponent is the room left for digits, so that with no room left   *)
(* it is 0, and the loop ends. Reading stays inside any format, and the    *)
(* length of what is written inside an int. What is written is what the    *)
(* format says, piece by piece and digit by digit; and what is written of  *)
(* a number is read as the same number.                                    *)
(***************************************************************************)
EXTENDS Format, SequenceTheorems, FiniteSetTheorems, TLAPS

(* How many digits fit, beside the NUL and a sign.                         *)
Room(letters) ==
  IF Last(letters) = "d" THEN BufferSize(letters) - 2 ELSE BufferSize(letters) - 1

Args == Seq(Arg)

NumberInv ==
  number # NoNumber =>
    /\ number \in [letters : Conversions, value : Nat, text : Seq(AnyDigit), negative : BOOLEAN]
    /\ number.negative => Last(number.letters) = "d"
    /\ Len(number.text) <= Room(number.letters)
    /\ number.value < Power[Base(number.letters)][Room(number.letters) - Len(number.text)]

Inv == ap \in Args /\ NumberInv

(* Half the range of the integers that a conversion takes.                 *)
Half(letters) == IF Len(letters) = 1 THEN IntHalf ELSE LongHalf

(* A directive has one to three letters, and ends with its conversion's.   *)
LEMMA LettersOf ==
  ASSUME NEW letters \in Conversions
  PROVE  Len(letters) \in 1 .. 3 /\ Last(letters) \in {"d", "u", "x", "X"}
  BY SMTT(30) DEF Conversions, Last

(* The room for digits, and how it bounds the numbers of a directive.      *)
LEMMA Rooms ==
  ASSUME NEW letters \in Conversions
  PROVE  /\ Base(letters) \in {10, 16}
         /\ Room(letters) \in 1 .. LongSize
         /\ Room(letters) + 1 <= BufferSize(letters)
         /\ Half(letters) \in Nat \ {0}
         /\ Last(letters) = "d" => /\ Room(letters) + 2 <= BufferSize(letters)
                                   /\ Half(letters) < Power[Base(letters)][Room(letters)]
         /\ Last(letters) # "d" => 2 * Half(letters) <= Power[Base(letters)][Room(letters)]
  <1>1. Len(letters) \in 1 .. 3 /\ Last(letters) \in {"d", "u", "x", "X"}
    BY LettersOf
  <1>2. Base(letters) \in {10, 16} /\ (Last(letters) = "d" => Base(letters) = 10)
    BY <1>1 DEF Base, Hexadecimal
  <1>3. CASE Len(letters) = 1 /\ Last(letters) = "d"
    <2>1. Half(letters) = IntHalf /\ BufferSize(letters) = IntSize /\ Room(letters) = IntSize - 2
      BY <1>3 DEF Half, BufferSize, Room
    <2> QED BY <1>2, <1>3, <2>1, SizeAssumption, WidthAssumption DEF Fit
  <1>4. CASE Len(letters) = 1 /\ Last(letters) # "d"
    <2>1. Half(letters) = IntHalf /\ BufferSize(letters) = UIntSize /\ Room(letters) = UIntSize - 1
      BY <1>4 DEF Half, BufferSize, Room
    <2> QED BY <1>2, <1>4, <2>1, SizeAssumption, WidthAssumption DEF Fit
  <1>5. CASE Len(letters) # 1 /\ Last(letters) = "d"
    <2>1. Half(letters) = LongHalf /\ BufferSize(letters) = LongSize /\ Room(letters) = LongSize - 2
      BY <1>1, <1>5 DEF Half, BufferSize, Room
    <2> QED BY <1>2, <1>5, <2>1, SizeAssumption, WidthAssumption DEF Fit
  <1>6. CASE Len(letters) # 1 /\ Last(letters) # "d"
    <2>1. Half(letters) = LongHalf /\ BufferSize(letters) = LongSize /\ Room(letters) = LongSize - 1
      BY <1>1, <1>6 DEF Half, BufferSize, Room
    <2> QED BY <1>2, <1>6, <2>1, SizeAssumption, WidthAssumption DEF Fit
  <1> QED BY <1>3, <1>4, <1>5, <1>6

(* A remainder is below its divisor, also that of a negative number.       *)
LEMMA ModRange ==
  ASSUME NEW m \in Nat \ {0}, NEW y \in Int
  PROVE  y % m \in 0 .. m - 1
  OBVIOUS

(* The range of a wrapped integer, and of its unsigned counterpart.        *)
LEMMA WrapRange ==
  ASSUME NEW half \in Nat \ {0}, NEW x \in Int
  PROVE  /\ Wrap(x, half) \in -half .. half - 1
         /\ Wrap(x, half) % (2 * half) \in 0 .. 2 * half - 1
  <1>1. 2 * half \in Nat \ {0} /\ x + half \in Int
    OBVIOUS
  <1>2. (x + half) % (2 * half) \in 0 .. 2 * half - 1
    BY <1>1, ModRange
  <1>3. Wrap(x, half) \in -half .. half - 1
    <2> DEFINE y == (x + half) % (2 * half)
    <2>1. y \in 0 .. 2 * half - 1 /\ Wrap(x, half) = y - half
      BY <1>2 DEF Wrap
    <2> HIDE DEF y
    <2> QED BY <2>1
  <1>4. Wrap(x, half) \in Int
    BY <1>3
  <1> QED BY <1>1, <1>3, <1>4, ModRange

(* The smallest number has the largest magnitude.                          *)
LEMMA MagnitudeRange ==
  ASSUME NEW half \in Nat \ {0}, NEW v \in -half .. half - 1
  PROVE  Magnitude(v, half) \in 0 .. half
  <1>1. CASE v < 0
    <2>1. v % (2 * half) = v + 2 * half
      BY <1>1
    <2>2. (-(v + 2 * half)) % (2 * half) = -v
      BY <1>1
    <2> QED BY <1>1, <2>1, <2>2 DEF Magnitude
  <1>2. CASE ~(v < 0)
    BY <1>2 DEF Magnitude
  <1> QED BY <1>1, <1>2

(* va_arg yields a number that fits the buffer of its directive.           *)
LEMMA ConvertFits ==
  ASSUME Inv, NEW letters \in Conversions, Convert(letters, Half(letters))
  PROVE  Inv'
  <1>1. Half(letters) \in Nat \ {0}
    BY Rooms
  <1>2. ap # << >> /\ ap' = Tail(ap)
    BY DEF Convert, Take
  <1>3. Head(ap) \in Arg /\ ap' \in Args
    <2> DEFINE S == Arg
    <2>1. ap \in Seq(S)
      BY DEF Inv, Args
    <2> HIDE DEF S
    <2>2. Head(ap) \in S /\ Tail(ap) \in Seq(S)
      BY <1>2, <2>1, HeadTailProperties
    <2> QED BY <1>2, <2>2 DEF S, Args
  <1> DEFINE v == Wrap(Head(ap).int, Half(letters))
  <1>4. v \in -Half(letters) .. Half(letters) - 1 /\ v % (2 * Half(letters)) \in 0 .. 2 * Half(letters) - 1
    <2>1. Head(ap).int \in Int
      BY <1>3 DEF Arg
    <2> QED BY <1>1, <2>1, WrapRange
  <1> HIDE DEF v
  <1>5. PICK value \in Nat, negative \in BOOLEAN :
          /\ number' = [letters |-> letters, text |-> << >>, negative |-> negative, value |-> value]
          /\ value < Power[Base(letters)][Room(letters)]
          /\ negative => Last(letters) = "d"
    <2>1. CASE Last(letters) = "d"
      <3>1. Magnitude(v, Half(letters)) \in 0 .. Half(letters)
        BY <1>1, <1>4, MagnitudeRange
      <3>2. number' = [letters |-> letters, text |-> << >>, negative |-> v < 0,
                       value |-> Magnitude(v, Half(letters))]
        BY <2>1 DEF Convert, v
      <3>3. Half(letters) < Power[Base(letters)][Room(letters)] /\ Power[Base(letters)][Room(letters)] \in Nat
        BY <2>1, Rooms, SizeAssumption DEF ArePowers
      <3> DEFINE n == Magnitude(v, Half(letters))
          sign == v < 0
      <3>4. n \in Nat /\ n < Power[Base(letters)][Room(letters)] /\ sign \in BOOLEAN
        BY <1>1, <3>1, <3>3
      <3>5. number' = [letters |-> letters, text |-> << >>, negative |-> sign, value |-> n]
        BY <3>2
      <3> HIDE DEF n, sign
      <3> QED BY <2>1, <3>4, <3>5
    <2>2. CASE Last(letters) # "d"
      <3>1. number' = [letters |-> letters, text |-> << >>, negative |-> FALSE,
                       value |-> v % (2 * Half(letters))]
        BY <2>2 DEF Convert, v
      <3>2. 2 * Half(letters) <= Power[Base(letters)][Room(letters)] /\ Power[Base(letters)][Room(letters)] \in Nat
        BY <2>2, Rooms, SizeAssumption DEF ArePowers
      <3> DEFINE n == v % (2 * Half(letters))
      <3>3. n \in 0 .. 2 * Half(letters) - 1
        BY <1>4
      <3>4. number' = [letters |-> letters, text |-> << >>, negative |-> FALSE, value |-> n]
        BY <3>1
      <3> HIDE DEF n
      <3>5. n \in Nat /\ n < Power[Base(letters)][Room(letters)]
        BY <1>1, <3>2, <3>3
      <3> QED BY <3>4, <3>5
    <2> QED BY <2>1, <2>2
  <1>6. /\ number' \in [letters : Conversions, value : Nat, text : Seq(AnyDigit), negative : BOOLEAN]
        /\ Len(number'.text) = 0
    BY <1>5
  <1>7. Room(letters) \in 1 .. LongSize /\ Room(letters) - 0 = Room(letters)
    BY Rooms
  <1> QED BY <1>3, <1>5, <1>6, <1>7 DEF Inv, NumberInv

(* One digit more, and what is left is below a power one lower.            *)
LEMMA DigitFits ==
  ASSUME Inv, NEW n \in 1 .. 3, ToStr(n), number # NoNumber
  PROVE  Inv'
  <1> DEFINE letters == number.letters
             base    == Base(letters)
             text    == number.text
             left    == Room(letters) - Len(text)
             digit   == DigitOf(number.value % base, letters)
  <1>1. /\ number \in [letters : Conversions, value : Nat, text : Seq(AnyDigit), negative : BOOLEAN]
        /\ number.negative => Last(letters) = "d"
        /\ Len(text) <= Room(letters) /\ number.value < Power[base][left]
    BY DEF Inv, NumberInv
  <1>2. base \in {10, 16} /\ Room(letters) \in 1 .. LongSize
    BY <1>1, Rooms
  <1>3. Len(text) \in Nat /\ left \in 0 .. LongSize /\ LongSize \in Nat
    <2>1. text \in Seq(AnyDigit) /\ LongSize \in Nat
      BY <1>1, SizeAssumption DEF Fit
    <2>2. Len(text) \in Nat
      BY <2>1
    <2> DEFINE room == Room(letters)
    <2>3. room \in 1 .. LongSize /\ Len(text) <= room /\ left = room - Len(text)
      BY <1>1, <1>2
    <2> HIDE DEF room, left
    <2> QED BY <2>1, <2>2, <2>3
  <1>4. left # 0
    <2>1. CASE text = << >>
      BY <1>2, <2>1
    <2>2. CASE number.value # 0
      BY <1>1, <1>2, <2>2, SizeAssumption DEF ArePowers
    <2> QED BY <2>1, <2>2 DEF ToStr, Converting
  <1>5. /\ left - 1 \in 0 .. LongSize - 1 /\ Power[base][left - 1] \in Nat
        /\ Power[base][left] = base * Power[base][left - 1]
    <2>1. left - 1 \in 0 .. LongSize - 1 /\ left = (left - 1) + 1
      <3> HIDE DEF left
      <3> QED BY <1>3, <1>4
    <2> DEFINE k == left - 1
    <2> HIDE DEF left, base
    <2>2. k \in 0 .. LongSize - 1 /\ k \in 0 .. LongSize /\ left = k + 1
      BY <1>3, <2>1
    <2> HIDE DEF k
    <2>3. Power[base][k] \in Nat /\ Power[base][k + 1] = base * Power[base][k]
      BY <1>2, <2>2, SizeAssumption DEF ArePowers
    <2> QED BY <2>2, <2>3 DEF k
  <1>6. number.value \div base \in Nat /\ number.value \div base < Power[base][left - 1]
    <2> HIDE DEF left, base
    <2>1. CASE base = 10
      BY <1>1, <1>5, <2>1
    <2>2. CASE base = 16
      BY <1>1, <1>5, <2>2
    <2> QED BY <1>2, <2>1, <2>2
  <1>7. digit \in AnyDigit
    <2>1. number.value % base \in 0 .. 15
      <3> HIDE DEF base
      <3>1. number.value % base \in 0 .. base - 1
        <4>1. base \in Nat \ {0} /\ number.value \in Int
          BY <1>1, <1>2
        <4> QED BY <4>1, ModRange
      <3> QED BY <1>2, <3>1
    <2> QED BY <2>1 DEF AnyDigit, DigitOf, Range, Lower, Capital, Decimals
  <1>8. <<digit>> \o text \in Seq(AnyDigit) /\ Len(<<digit>> \o text) = Len(text) + 1
    <2>1. text \in Seq(AnyDigit) /\ <<digit>> \in Seq(AnyDigit) /\ Len(<<digit>>) = 1
      BY <1>1, <1>7
    <2> HIDE DEF digit, text
    <2> QED BY <2>1, ConcatProperties
  <1>9. /\ number' = [number EXCEPT !.text = <<digit>> \o text, !.value = number.value \div base]
        /\ ap' = ap
    BY DEF ToStr
  <1>10. /\ number' \in [letters : Conversions, value : Nat, text : Seq(AnyDigit), negative : BOOLEAN]
         /\ number'.letters = letters /\ number'.negative = number.negative
         /\ number'.value = number.value \div base /\ Len(number'.text) = Len(text) + 1
    <2> HIDE DEF digit, text, base
    <2> QED BY <1>1, <1>6, <1>8, <1>9 DEF text
  <1>11. Len(text) + 1 <= Room(letters) /\ Room(letters) - (Len(text) + 1) = left - 1
    <2> DEFINE room == Room(letters)
    <2>1. room \in Int /\ Len(text) <= room /\ room - Len(text) # 0 /\ Len(text) \in Nat
      BY <1>1, <1>2, <1>3, <1>4
    <2> HIDE DEF room
    <2>2. Len(text) + 1 <= room /\ room - (Len(text) + 1) = (room - Len(text)) - 1
      BY <2>1
    <2> QED BY <2>2 DEF room
  <1> HIDE DEF digit, text, base, left
  <1> QED BY <1>1, <1>6, <1>9, <1>10, <1>11 DEF Inv, NumberInv, base, letters

-----------------------------------------------------------------------------
(* Induction over natural numbers, in a form that takes a set.             *)

(* Every nonempty set of natural numbers has a least element.              *)
LEMMA Least ==
  ASSUME NEW T \in SUBSET Nat, NEW n \in T
  PROVE  \E m \in T : \A k \in T : m <= k
  <1> DEFINE Below == { 0 .. k : k \in T }
  <1>1. Below \subseteq FiniteSubsetsOf(Nat) /\ Below # {}
    <2>1. \A k \in T : 0 .. k \in SUBSET Nat /\ IsFiniteSet(0 .. k)
      BY FS_Interval
    <2> QED BY <2>1 DEF FiniteSubsetsOf
  <1>2. IsWellFoundedOn(StrictSubsetOrdering(Nat), FiniteSubsetsOf(Nat))
    BY FS_StrictSubsetOrderingWellFounded
  <1>3. PICK X \in Below : \A Y \in Below : <<Y, X>> \notin StrictSubsetOrdering(Nat)
    <2> HIDE DEF Below
    <2> QED BY <1>1, <1>2, WFMin, Zenon
  <1>4. PICK m \in T : X = 0 .. m
    OBVIOUS
  <1>5. ASSUME NEW k \in T, k < m PROVE FALSE
    <2>1. 0 .. k \in SUBSET Nat /\ 0 .. m \in SUBSET Nat
      OBVIOUS
    <2>2. 0 .. k \subseteq 0 .. m /\ m \notin 0 .. k /\ m \in 0 .. m
      BY <1>5
    <2>3. <<0 .. k, 0 .. m>> \in StrictSubsetOrdering(Nat)
      BY <2>1, <2>2 DEF StrictSubsetOrdering
    <2> QED BY <1>3, <1>4, <2>3
  <1>6. \A k \in T : m <= k
    BY <1>5
  <1> QED BY <1>6

(* Induction over a set of natural numbers.                                *)
LEMMA Induction ==
  ASSUME NEW S, 0 \in S, \A n \in Nat : n \in S => n + 1 \in S
  PROVE  Nat \subseteq S
  <1> SUFFICES ASSUME NEW n \in Nat \ S PROVE FALSE
    OBVIOUS
  <1>1. PICK m \in Nat \ S : \A k \in Nat \ S : m <= k
    <2> DEFINE T == Nat \ S
    <2>1. T \in SUBSET Nat /\ n \in T
      OBVIOUS
    <2> HIDE DEF T
    <2>2. \E m \in T : \A k \in T : m <= k
      BY <2>1, Least
    <2> QED BY <2>2 DEF T
  <1>2. m # 0 /\ m - 1 \in Nat /\ m - 1 \in S
    <2>1. m # 0
      OBVIOUS
    <2>2. m - 1 \in Nat /\ ~(m <= m - 1)
      BY <2>1
    <2> QED BY <1>1, <2>1, <2>2
  <1>3. (m - 1) + 1 = m
    OBVIOUS
  <1> QED BY <1>2, <1>3

-----------------------------------------------------------------------------
(* Numbers read from text. *)

(* What is read from a string.                                             *)
LEMMA OfString ==
  ASSUME NEW s
  PROVE  /\ atoi(<<s>>) = Read(s, IntHalf)
         /\ atol(<<s>>) = Read(s, LongHalf) /\ atoll(<<s>>) = Read(s, LongHalf)
  BY DEF atoi, atol, atoll, Null

(* Adding a multiple of n does not change a remainder.                     *)
LEMMA ModPeriod ==
  ASSUME NEW n \in Nat \ {0}, NEW x \in Int, NEW k \in Int
  PROVE  (x + n * k) % n = x % n
  <1> DEFINE q == x \div n
             r == x % n
             q2 == (x + n * k) \div n
             r2 == (x + n * k) % n
  <1>1. q \in Int /\ r \in 0 .. n - 1 /\ x = n * q + r
    BY Z3
  <1>2. q2 \in Int /\ r2 \in 0 .. n - 1 /\ x + n * k = n * q2 + r2
    <2>1. x + n * k \in Int
      BY Z3
    <2> DEFINE y == x + n * k
    <2> HIDE DEF y
    <2>2. y \in Int
      BY <2>1 DEF y
    <2>3. y \div n \in Int /\ y % n \in 0 .. n - 1 /\ y = n * (y \div n) + (y % n)
      BY <2>2, Z3
    <2> QED BY <2>3 DEF y
  <1> HIDE DEF q, r, q2, r2
  <1>3. n * (q + k - q2) = r2 - r
    BY <1>1, <1>2, Z3
  <1> DEFINE d == q + k - q2
  <1>4. d \in Int /\ n * d = r2 - r
    BY <1>1, <1>2, <1>3
  <1> HIDE DEF d
  <1>5. d < 1
    <2> SUFFICES ASSUME d >= 1 PROVE FALSE
      BY <1>4
    <2>1. n * d >= n
      BY <1>4, Z3
    <2> QED BY <1>1, <1>2, <1>4, <2>1
  <1>6. d > -1
    <2> SUFFICES ASSUME d <= -1 PROVE FALSE
      BY <1>4
    <2>1. n * d <= -n
      BY <1>4, Z3
    <2> QED BY <1>1, <1>2, <1>4, <2>1
  <1>7. d = 0
    BY <1>4, <1>5, <1>6
  <1>8. n * 0 = 0
    OBVIOUS
  <1>9. r2 = r
    BY <1>1, <1>2, <1>4, <1>7, <1>8
  <1> QED BY <1>9 DEF r, r2

(* Wrapping around early makes no difference to a sum or a product.        *)
LEMMA WrapAgain ==
  ASSUME NEW half \in Nat \ {0}, NEW x \in Int, NEW y \in Int
  PROVE  /\ Wrap(Wrap(x, half) + y, half) = Wrap(x + y, half)
         /\ Wrap(Wrap(x, half) * 10, half) = Wrap(x * 10, half)
         /\ Wrap(-Wrap(x, half), half) = Wrap(-x, half)
         /\ x \in -half .. half - 1 => Wrap(x, half) = x
  <1> DEFINE n == 2 * half
             w == Wrap(x, half)
             k == (x + half) \div n
  <1>1. n \in Nat \ {0} /\ x + half \in Int
    OBVIOUS
  <1>2. k \in Int /\ w = ((x + half) % n) - half /\ x + half = n * k + ((x + half) % n)
    <2> DEFINE z == x + half
    <2>1. z \in Int
      OBVIOUS
    <2> HIDE DEF n, z
    <2>2. z \div n \in Int /\ z = n * (z \div n) + (z % n)
      BY <1>1, <2>1, Z3
    <2>3. w = (z % n) - half
      BY DEF Wrap, n, z
    <2> QED BY <2>2, <2>3 DEF z
  <1>3. w \in Int
    BY WrapRange
  <1>4. ASSUME NEW a \in Int, NEW b \in Int, NEW j \in Int, a = b + n * j
        PROVE  Wrap(a, half) = Wrap(b, half)
    <2>1. a + half = (b + half) + n * j
      <3> DEFINE m == n * j
      <3>1. m \in Int
        BY <1>1, Z3
      <3>2. a = b + m
        BY <1>4
      <3> HIDE DEF m
      <3>3. a + half = (b + half) + m
        BY <3>1, <3>2
      <3> QED BY <3>3 DEF m
    <2>2. b + half \in Int
      OBVIOUS
    <2> DEFINE z == b + half
    <2> HIDE DEF n, z
    <2>3. z \in Int /\ a + half = z + n * j
      BY <2>1, <2>2 DEF z
    <2>4. (z + n * j) % n = z % n
      BY <1>1, <1>4, <2>3, ModPeriod
    <2>5. (a + half) % n = z % n
      BY <2>3, <2>4
    <2> QED BY <2>5 DEF Wrap, n, z
  <1> DEFINE m == n * k
  <1>5. m \in Int /\ x = w + m
    <2>1. m \in Int
      BY <1>1, <1>2, Z3
    <2> DEFINE r == (x + half) % n
    <2>2. r \in Int
      BY <1>1, ModRange
    <2> HIDE DEF r, m
    <2>3. w = r - half /\ x + half = m + r
      BY <1>2 DEF r, m
    <2> HIDE DEF w
    <2> QED BY <2>1, <2>2, <2>3
  <1> HIDE DEF w, n, k
  <1>6. Wrap(w + y, half) = Wrap(x + y, half)
    <2>1. x + y = (w + y) + n * k
      <3> HIDE DEF m
      <3>1. x + y = (w + y) + m
        BY <1>3, <1>5
      <3> QED BY <3>1 DEF m
    <2> QED BY <1>2, <1>3, <1>4, <2>1
  <1>7. Wrap(w * 10, half) = Wrap(x * 10, half)
    <2>1. x * 10 = w * 10 + n * (k * 10)
      BY <1>1, <1>2, <1>3, <1>5, Z3
    <2>2. w * 10 \in Int /\ k * 10 \in Int /\ x * 10 \in Int
      BY <1>2, <1>3
    <2> QED BY <1>4, <2>1, <2>2
  <1>8. Wrap(-w, half) = Wrap(-x, half)
    <2>1. -w = -x + n * k
      <3> HIDE DEF m
      <3>1. -w = -x + m
        BY <1>3, <1>5
      <3> QED BY <3>1 DEF m
    <2> QED BY <1>2, <1>3, <1>4, <2>1
  <1>9. ASSUME x \in -half .. half - 1 PROVE w = x
    <2>1. (x + half) % n = x + half
      BY <1>9 DEF n
    <2> QED BY <1>2, <2>1
  <1> QED BY <1>6, <1>7, <1>8, <1>9 DEF w

(* A value that is changed once for each of n steps.                       *)
Changes(f, S, n, first, step) ==
  f \in [0 .. n -> S] /\ f[0] = first /\ \A i \in 1 .. n : f[i] = step[i][f[i - 1]]

(* It has a history, by induction over the number of steps.                *)
LEMMA Stepwise ==
  ASSUME NEW S, NEW n \in Nat, NEW first \in S, NEW step \in [1 .. n -> [S -> S]]
  PROVE  \E f : Changes(f, S, n, first, step)
  <1> DEFINE Upto(f, m) == f[0] = first /\ \A i \in 1 .. m : f[i] = step[i][f[i - 1]]
             Good == { m \in Nat : m <= n => \E f \in [0 .. m -> S] : Upto(f, m) }
  <1>1. 0 \in Good
    <2>1. [i \in 0 .. 0 |-> first] \in [0 .. 0 -> S] /\ Upto([i \in 0 .. 0 |-> first], 0)
      OBVIOUS
    <2> QED BY <2>1
  <1>2. ASSUME NEW m \in Nat, m \in Good PROVE m + 1 \in Good
    <2> SUFFICES ASSUME m + 1 <= n PROVE \E f \in [0 .. m + 1 -> S] : Upto(f, m + 1)
      OBVIOUS
    <2>1. PICK f \in [0 .. m -> S] : Upto(f, m)
      BY <1>2
    <2> DEFINE next == step[m + 1][f[m]]
               g == [i \in 0 .. m + 1 |-> IF i = m + 1 THEN next ELSE f[i]]
    <2>2. next \in S
      <3>1. m + 1 \in 1 .. n /\ f[m] \in S
        OBVIOUS
      <3>2. step[m + 1] \in [S -> S]
        BY <3>1
      <3> QED BY <3>1, <3>2
    <2>3. g \in [0 .. m + 1 -> S]
      BY <2>2
    <2>4. g[0] = first
      BY <2>1
    <2>5. ASSUME NEW i \in 1 .. m + 1 PROVE g[i] = step[i][g[i - 1]]
      <3>1. CASE i = m + 1
        <4>1. g[i] = step[i][f[m]] /\ g[i - 1] = f[m]
          BY <3>1
        <4> QED BY <4>1
      <3>2. CASE i # m + 1
        <4>1. i \in 1 .. m /\ g[i] = f[i] /\ g[i - 1] = f[i - 1]
          BY <3>2
        <4> QED BY <2>1, <4>1
      <3> QED BY <3>1, <3>2
    <2> HIDE DEF g
    <2>6. Upto(g, m + 1)
      BY <2>4, <2>5
    <2> QED BY <2>3, <2>6
  <1> HIDE DEF Good
  <1>3. n \in Good
    BY <1>1, <1>2, Induction
  <1>4. n <= n
    OBVIOUS
  <1> QED BY <1>3, <1>4 DEF Good, Changes

(* The value of a character is that of a decimal digit, or -1.             *)
LEMMA CharValues ==
  /\ \A c : CharValue(c) \in -1 .. 9
  /\ \A k \in 0 .. 9 : CharValue(Decimals[k + 1]) = k
  <1>1. ASSUME NEW c PROVE CharValue(c) \in -1 .. 9
    <2> DEFINE T == { i \in 1 .. Len(Decimals) : Decimals[i] = c }
    <2>1. CharValue(c) = (IF T # {} THEN Min(T) ELSE 0) - 1
      BY DEF CharValue, SelectInSeq
    <2>2. T \subseteq 1 .. 10
      BY DEF Decimals
    <2> HIDE DEF T
    <2>3. T # {} => Min(T) \in T
      <3>1. T \in SUBSET Nat
        BY <2>2
      <3>2. T # {} => \E i \in T : \A j \in T : i <= j
        BY <3>1, Least
      <3> QED BY <3>2 DEF Min
    <2>4. CASE T = {}
      BY <2>1, <2>4
    <2>5. CASE T # {}
      <3>1. Min(T) \in 1 .. 10 /\ CharValue(c) = Min(T) - 1
        BY <2>1, <2>2, <2>3, <2>5
      <3> QED BY <3>1
    <2> QED BY <2>4, <2>5
  <1>2. ASSUME NEW k \in 0 .. 9 PROVE CharValue(Decimals[k + 1]) = k
    <2> DEFINE T == { i \in 1 .. Len(Decimals) : Decimals[i] = Decimals[k + 1] }
    <2>1. CharValue(Decimals[k + 1]) = (IF T # {} THEN Min(T) ELSE 0) - 1
      BY DEF CharValue, SelectInSeq
    <2>2. T = {k + 1}
      <3>1. k \in {0, 1, 2, 3, 4, 5, 6, 7, 8, 9}
        OBVIOUS
      <3>2. ASSUME NEW i \in 1 .. 10 PROVE Decimals[i] = Decimals[k + 1] <=> i = k + 1
        BY <3>1 DEF Decimals
      <3>3. Len(Decimals) = 10 /\ k + 1 \in 1 .. 10
        BY DEF Decimals
      <3> QED BY <3>2, <3>3
    <2> HIDE DEF T
    <2>3. Min(T) = k + 1
      BY <2>2 DEF Min
    <2> QED BY <2>1, <2>2, <2>3
  <1> QED BY <1>1, <1>2

(* The values of a text's beginnings.                                      *)
Values(f, digits, half) ==
  f = [n \in 0 .. Len(digits) |-> IF n = 0 THEN 0 ELSE Shifted(f[n - 1], digits[n], half)]

(* They start with 0, stay in range and change by a character at a time.   *)
Reaches(f, digits, half, v) ==
  /\ f \in [0 .. Len(digits) -> -half .. half - 1] /\ f[0] = 0
  /\ \A n \in 1 .. Len(digits) : f[n] = Shifted(f[n - 1], digits[n], half)
  /\ v = f[Len(digits)]

(* The value of a text is reached character by character.                  *)
LEMMA ValueSteps ==
  ASSUME NEW half \in Nat \ {0}, NEW S, NEW digits \in Seq(S)
  PROVE  \E f : Reaches(f, digits, half, Value(digits, half))
  <1> DEFINE range == -half .. half - 1
             l == Len(digits)
             step == [n \in 1 .. l |-> [v \in range |-> Shifted(v, digits[n], half)]]
             value == CHOOSE f : Values(f, digits, half)
  <1>1. l \in Nat /\ 0 \in range
    OBVIOUS
  <1>2. ASSUME NEW v \in range, NEW c PROVE Shifted(v, c, half) \in range
    <2> DEFINE w == Wrap(v * 10, half)
    <2>1. w \in range /\ CharValue(c) \in -1 .. 9
      <3>1. v * 10 \in Int
        OBVIOUS
      <3> QED BY <3>1, WrapRange, CharValues
    <2>2. w + CharValue(c) \in Int
      <3> HIDE DEF w
      <3> QED BY <2>1
    <2> HIDE DEF w
    <2>3. Wrap(w + CharValue(c), half) \in range
      BY <2>2, WrapRange
    <2> QED BY <2>3 DEF Shifted, w
  <1> HIDE DEF range, l
  <1>3. step \in [1 .. l -> [range -> range]]
    BY <1>2
  <1>4. PICK f \in [0 .. l -> range] : f[0] = 0 /\ \A n \in 1 .. l : f[n] = step[n][f[n - 1]]
    <2> HIDE DEF step, value
    <2>1. \E f : Changes(f, range, l, 0, step)
      BY <1>1, <1>3, Stepwise
    <2> QED BY <2>1 DEF Changes
  <1>5. ASSUME NEW n \in 1 .. l PROVE f[n] = Shifted(f[n - 1], digits[n], half)
    <2>1. f[n - 1] \in range
      BY <1>1
    <2> QED BY <1>4, <2>1
  <1>6. Values(f, digits, half)
    <2>1. f = [n \in 0 .. l |-> f[n]]
      OBVIOUS
    <2>2. ASSUME NEW n \in 0 .. l
          PROVE  f[n] = IF n = 0 THEN 0 ELSE Shifted(f[n - 1], digits[n], half)
      <3>1. CASE n = 0
        BY <1>4, <3>1
      <3>2. CASE n # 0
        <4>1. n \in 1 .. l
          BY <1>1, <3>2
        <4> QED BY <1>5, <3>2, <4>1
      <3> QED BY <3>1, <3>2
    <2> QED BY <2>1, <2>2 DEF Values, l
  <1>7. Values(value, digits, half)
    BY <1>6
  <1>8. Value(digits, half) = value[l]
    BY DEF Value, Values, l
  <1> HIDE DEF value
  <1>9. ASSUME NEW n \in 0 .. l
        PROVE  value[n] = IF n = 0 THEN 0 ELSE Shifted(value[n - 1], digits[n], half)
    BY <1>7, <1>9 DEF Values, l
  <1> DEFINE Good == { n \in Nat : n \in 0 .. l => value[n] = f[n] }
  <1>10. 0 \in Good
    BY <1>4, <1>9
  <1>11. ASSUME NEW n \in Nat, n \in Good PROVE n + 1 \in Good
    <2> SUFFICES ASSUME n + 1 \in 0 .. l PROVE value[n + 1] = f[n + 1]
      OBVIOUS
    <2>1. value[n] = f[n]
      BY <1>1, <1>11
    <2>2. n + 1 # 0 /\ (n + 1) - 1 = n /\ n + 1 \in 1 .. l
      BY <1>1
    <2>3. value[n + 1] = Shifted(value[n], digits[n + 1], half)
      BY <1>9, <2>2
    <2>4. f[n + 1] = Shifted(f[n], digits[n + 1], half)
      BY <1>5, <2>2
    <2> QED BY <2>1, <2>3, <2>4
  <1> HIDE DEF Good
  <1>12. l \in Good
    BY <1>1, <1>10, <1>11, Induction
  <1>13. value[l] = f[l]
    BY <1>1, <1>12 DEF Good
  <1>14. f \in [0 .. Len(digits) -> -half .. half - 1]
    BY DEF l, range
  <1> QED BY <1>4, <1>5, <1>8, <1>13, <1>14 DEF l, Reaches

(* What is read from a text is an integer of the width.                    *)
LEMMA ReadRange ==
  ASSUME NEW half \in Nat \ {0}, NEW S, NEW text \in Seq(S)
  PROVE  Read(text, half) \in -half .. half - 1
  <1>1. ASSUME NEW digits \in Seq(S) PROVE Value(digits, half) \in -half .. half - 1
    <2>1. Len(digits) \in 0 .. Len(digits)
      OBVIOUS
    <2>2. PICK f : Reaches(f, digits, half, Value(digits, half))
      BY ValueSteps
    <2> QED BY <2>1, <2>2 DEF Reaches
  <1> DEFINE isNegative == text # << >> /\ text[1] = "-"
             digits == IF isNegative THEN Tail(text) ELSE text
             v == Value(digits, half)
  <1>2. v \in -half .. half - 1
    <2>1. text # << >> => Tail(text) \in Seq(S)
      OBVIOUS
    <2>2. digits \in Seq(S)
      BY <2>1
    <2> HIDE DEF digits
    <2> QED BY <1>1, <2>2
  <1>3. Read(text, half) \in {0, v, Wrap(-v, half)}
    BY DEF Read
  <1> HIDE DEF v
  <1>4. -v \in Int /\ 0 \in -half .. half - 1
    BY <1>2
  <1>5. Wrap(-v, half) \in -half .. half - 1
    BY <1>4, WrapRange
  <1> QED BY <1>2, <1>3, <1>4, <1>5

(* Absolute values. *)
LEMMA AbsoluteValue ==
  ASSUME NEW v \in LongRange
  PROVE  llabs(v) \in LongRange /\ llabs(v) = IF v < 0 /\ v # -LongHalf THEN -v ELSE v
  BY WidthAssumption DEF llabs, Absolute, LongRange

(* What kernel_main passes with the format Shown.                          *)
LEMMA ShownTyped ==
  ASSUME NEW s \in Seq(STRING)
  PROVE  LET first  == [text |-> s, int |-> 0]
             int(v) == [text |-> << >>, int |-> v]
             n      == atoll(<<s>>)
         IN /\ n \in LongRange /\ llabs(n) \in LongRange
            /\ first \in Arg /\ int(n) \in Arg /\ int(llabs(n)) \in Arg
            /\ ShownArgs(s) \in Seq(Arg) /\ Len(ShownArgs(s)) = 3 /\ ShownArgs(s)[1] = first
            /\ ShownArgs(s)[2] = int(n) /\ ShownArgs(s)[3] = int(llabs(n))
  <1> DEFINE n == atoll(<<s>>)
             m == llabs(n)
             int(v) == [text |-> << >>, int |-> v]
             first == [text |-> s, int |-> 0]
             args == ShownArgs(s)
  <1>1. n \in LongRange /\ m \in LongRange
    <2>1. n \in LongRange
      BY WidthAssumption, ReadRange, OfString DEF LongRange
    <2> HIDE DEF n
    <2> QED BY <2>1, AbsoluteValue
  <1> HIDE DEF n, m
  <1>2. int(n) \in Arg /\ int(m) \in Arg /\ first \in Arg
    <2>1. << >> \in Seq(STRING) /\ n \in Int /\ m \in Int
      BY <1>1, WidthAssumption DEF LongRange
    <2> QED BY <2>1 DEF Arg
  <1>3. args = << first, int(n), int(m) >>
    BY DEF ShownArgs, n, m
  <1>4. args \in Seq(Arg) /\ Len(args) = 3 /\ args[1] = first /\ args[2] = int(n) /\ args[3] = int(m)
    <2> HIDE DEF first, int, args
    <2> QED BY <1>2, <1>3
  <1> HIDE DEF args
  <1> QED BY <1>1, <1>2, <1>4 DEF args, m, n

(* Counting arguments piece by piece.                                      *)
LEMMA TakenSteps ==
  ASSUME NEW pieces, NEW i \in Nat
  PROVE  /\ Taken(pieces, 0) = 0 /\ Taken(pieces, i) \in 0 .. i
         /\ Taken(pieces, i + 1) = IF TakesArgument(pieces[i + 1]) THEN Taken(pieces, i) + 1
                                                                   ELSE Taken(pieces, i)
  <1> DEFINE Takers(n) == { j \in 1 .. n : TakesArgument(pieces[j]) }
  <1>1. IsFiniteSet(Takers(i)) /\ Cardinality(Takers(i)) \in 0 .. i
    <2>1. IsFiniteSet(1 .. i) /\ Cardinality(1 .. i) = i
      <3>1. Cardinality(1 .. i) = IF 1 > i THEN 0 ELSE i - 1 + 1
        BY FS_Interval
      <3> QED BY <3>1, FS_Interval
    <2>2. Takers(i) \in SUBSET (1 .. i)
      OBVIOUS
    <2>3. IsFiniteSet(Takers(i)) /\ Cardinality(Takers(i)) <= i
      BY <2>1, <2>2, FS_Subset
    <2>4. Cardinality(Takers(i)) \in Nat
      BY <2>3, FS_CardinalityType
    <2> QED BY <2>3, <2>4
  <1>2. Takers(0) = {}
    OBVIOUS
  <1>3. Cardinality({}) = 0
    BY FS_EmptySet
  <1>4. Takers(i + 1) = IF TakesArgument(pieces[i + 1]) THEN Takers(i) \cup {i + 1} ELSE Takers(i)
    OBVIOUS
  <1>5. i + 1 \notin Takers(i)
    OBVIOUS
  <1>6. Cardinality(Takers(i) \cup {i + 1}) = Cardinality(Takers(i)) + 1
    BY <1>1, <1>5, FS_AddElement
  <1>7. /\ Taken(pieces, 0) = Cardinality(Takers(0)) /\ Taken(pieces, i) = Cardinality(Takers(i))
        /\ Taken(pieces, i + 1) = Cardinality(Takers(i + 1))
    BY DEF Taken
  <1> HIDE DEF Takers
  <1>8. Taken(pieces, 0) = 0
    BY <1>2, <1>3, <1>7
  <1>9. Taken(pieces, i + 1) = IF TakesArgument(pieces[i + 1]) THEN Taken(pieces, i) + 1 ELSE Taken(pieces, i)
    <2>1. CASE TakesArgument(pieces[i + 1])
      BY <1>4, <1>6, <1>7, <2>1
    <2>2. CASE ~TakesArgument(pieces[i + 1])
      BY <1>4, <1>7, <2>2
    <2> QED BY <2>1, <2>2
  <1> QED BY <1>1, <1>7, <1>8, <1>9

(* A sequence of one element. *)
LEMMA One ==
  ASSUME NEW S, NEW a \in S
  PROVE  <<a>> \in Seq(S) /\ Len(<<a>>) = 1
  OBVIOUS

(* Every argument is a text and an integer.                                *)
LEMMA ArgumentsTyped ==
  ASSUME NEW piece
  PROVE  ArgumentsOf(piece) \subseteq Arg
  <1>1. ASSUME NEW T, T \subseteq Seq(STRING) PROVE TextArgs(T) \subseteq Arg
    BY <1>1 DEF TextArgs, Arg
  <1>2. ASSUME NEW I, I \subseteq Int PROVE IntArgs(I) \subseteq Arg
    <2>1. << >> \in Seq(STRING)
      OBVIOUS
    <2>2. ASSUME NEW n \in I PROVE [text |-> << >>, int |-> n] \in Arg
      BY <1>2, <2>1 DEF Arg
    <2> QED BY <2>2 DEF IntArgs
  <1>3. { <<c>> : c \in Letters } \subseteq Seq(STRING) /\ Strings \subseteq Seq(STRING)
    <2>1. Letters \subseteq STRING /\ Strings \subseteq Seq(STRING)
      BY CallerAssumption
    <2>2. ASSUME NEW c \in Letters PROVE <<c>> \in Seq(STRING)
      <3>1. c \in STRING
        BY <2>1
      <3> QED BY <3>1, One, Zenon
    <2> QED BY <2>1, <2>2
  <1>4. Ints \subseteq Int /\ Longs \subseteq Int /\ UInts \subseteq Int /\ ULongs \subseteq Int
    BY WidthAssumption DEF INT_MAX, LongRange
  <1>5. /\ TextArgs({ <<c>> : c \in Letters }) \subseteq Arg /\ TextArgs(Strings) \subseteq Arg
        /\ IntArgs(Ints) \subseteq Arg /\ IntArgs(Longs) \subseteq Arg
        /\ IntArgs(UInts) \subseteq Arg /\ IntArgs(ULongs) \subseteq Arg
    BY <1>1, <1>2, <1>3, <1>4
  <1> DEFINE wide == Len(piece) > 2
  <1>6. ArgumentsOf(piece) \in
          { {}, TextArgs({ <<c>> : c \in Letters }), TextArgs(Strings),
            IntArgs(Ints), IntArgs(Longs), IntArgs(UInts), IntArgs(ULongs) }
    BY Zenon DEF ArgumentsOf
  <1> QED BY <1>5, <1>6

(* So a list of arguments for a format is a sequence of such.              *)
LEMMA ListsTyped ==
  ASSUME NEW pieces \in Seq(Seq(STRING)), NEW args \in ArgumentLists(pieces)
  PROVE  args \in Seq(Arg) /\ Len(args) = Taken(pieces, Len(pieces))
  <1> DEFINE n == Taken(pieces, Len(pieces))
             S == UNION { ArgumentsOf(p) : p \in Range(pieces) }
  <1>1. n \in Nat
    BY TakenSteps
  <1>2. S \subseteq Arg
    BY ArgumentsTyped
  <1>3. args \in [1 .. n -> S]
    BY DEF ArgumentLists
  <1> HIDE DEF n, S
  <1>4. args \in [1 .. n -> Arg]
    BY <1>2, <1>3
  <1>5. args \in Seq(Arg) /\ Len(args) = n
    BY <1>1, <1>4
  <1> QED BY <1>5 DEF n

(* The buffer's invariant of the whole function.                           *)
LEMMA InvIsInvariant == Spec => []Inv
  <1>1. Init => Inv
    BY DEF Init, Inv, NumberInv, Args
  <1>2. Inv /\ [Next]_vars => Inv'
    <2> SUFFICES ASSUME Inv, [Next]_vars PROVE Inv'
      OBVIOUS
    <2>1. CASE Caller
      <3>1. PICK pieces \in Formats : \E args \in ArgumentLists(pieces) : Call(pieces, args)
        BY <2>1 DEF Caller
      <3>2. ap' \in Args /\ number' = number
        <4>1. pieces \in Seq(Seq(STRING))
          BY CallerAssumption
        <4> QED BY <3>1, <4>1, ListsTyped DEF Call, Args
      <3> QED BY <3>2 DEF Inv, NumberInv
    <2>2. CASE Demonstration
      <3>1. PICK s \in Cases : ap' = ShownArgs(s) /\ number' = number
        BY <2>2 DEF Demonstration, Call
      <3>2. s \in Seq(STRING)
        BY CallerAssumption
      <3>3. ap' \in Args
        BY <3>1, <3>2, ShownTyped DEF Args
      <3> QED BY <3>1, <3>3 DEF Inv, NumberInv
    <2>3. CASE Char \/ String
      <3>1. ap # << >> /\ ap' = Tail(ap) /\ number' = number
        BY <2>3 DEF Char, String, Take
      <3>2. ap' \in Args
        BY <3>1, HeadTailProperties DEF Inv, Args
      <3> QED BY <3>1, <3>2 DEF Inv, NumberInv
    <2>4. CASE TakeInt \/ TakeUInt \/ TakeLong \/ TakeULong \/ TakeLongLong \/ TakeULongLong
      <3>1. \E letters \in Conversions : Convert(letters, Half(letters))
        BY <2>4 DEF TakeInt, TakeUInt, TakeLong, TakeULong, TakeLongLong, TakeULongLong,
                    Conversions, Hexadecimal, Half
      <3> QED BY <3>1, ConvertFits
    <2>5. CASE uint_to_str \/ ulong_to_str \/ ulonglong_to_str
      <3>1. PICK n \in 1 .. 3 : ToStr(n)
        BY <2>5 DEF uint_to_str, ulong_to_str, ulonglong_to_str
      <3>2. number # NoNumber
        BY <3>1 DEF ToStr, Converting, NoNumber
      <3> QED BY <3>1, <3>2, DigitFits
    <2>6. CASE Converted
      BY <2>6 DEF Converted, Inv, NumberInv
    <2>7. CASE Ordinary \/ LongUnknown \/ Unknown \/ Return \/ UNCHANGED vars
      BY <2>7 DEF Ordinary, LongUnknown, Unknown, Return, vars, Inv, NumberInv
    <2> QED BY <2>1, <2>2, <2>3, <2>4, <2>5, <2>6, <2>7 DEF Next, vsprintf
  <1> QED BY <1>1, <1>2, PTL DEF Spec

(* No number, in any base and of any width, overruns the digit buffer of   *)
(* its directive.                                                          *)
THEOREM DigitBufferHoldsAlways == Spec => []DigitBufferHolds
  <1>1. Inv => DigitBufferHolds
    <2> SUFFICES ASSUME Inv, number # NoNumber
                 PROVE  Len(Signed) + 1 <= BufferSize(number.letters)
      BY DEF DigitBufferHolds
    <2> DEFINE letters == number.letters
               text == number.text
    <2>1. /\ letters \in Conversions /\ text \in Seq(AnyDigit)
          /\ number.negative => Last(letters) = "d"
          /\ Len(text) <= Room(letters)
      BY DEF Inv, NumberInv
    <2>2. /\ Room(letters) \in Nat /\ Room(letters) + 1 <= BufferSize(letters)
          /\ Last(letters) = "d" => Room(letters) + 2 <= BufferSize(letters)
          /\ BufferSize(letters) \in Nat
      BY <2>1, Rooms, SizeAssumption, SMTT(30) DEF BufferSize, Fit
    <2>3. Len(Signed) = IF number.negative THEN Len(text) + 1 ELSE Len(text)
      BY <2>1, ConcatProperties DEF Signed
    <2>4. Len(text) \in Nat
      BY <2>1
    <2> HIDE DEF letters, text
    <2> QED BY <2>1, <2>2, <2>3, <2>4 DEF letters
  <1> QED BY <1>1, InvIsInvariant, PTL

-----------------------------------------------------------------------------
(* Flattening a format. *)

(* The function that FlattenSeq takes the last value of.                   *)
Flattens(f, seqs) ==
  f = [i \in 1 .. Len(seqs) |-> IF i = 1 THEN seqs[i] ELSE f[i - 1] \o seqs[i]]

(* There is one, by induction over the number of sequences.                *)
LEMMA FlattenExists ==
  ASSUME NEW S, NEW seqs \in Seq(Seq(S)), Len(seqs) # 0
  PROVE  \E f \in [1 .. Len(seqs) -> Seq(S)] : Flattens(f, seqs)
  <1> DEFINE Upto(f, n) == \A i \in 1 .. n : f[i] = IF i = 1 THEN seqs[i] ELSE f[i - 1] \o seqs[i]
             Good == { n \in Nat : n <= Len(seqs) => \E f \in [1 .. n -> Seq(S)] : Upto(f, n) }
  <1>1. 0 \in Good
    <2>1. [i \in 1 .. 0 |-> << >>] \in [1 .. 0 -> Seq(S)] /\ Upto([i \in 1 .. 0 |-> << >>], 0)
      OBVIOUS
    <2> QED BY <2>1
  <1>2. ASSUME NEW n \in Nat, n \in Good PROVE n + 1 \in Good
    <2> HIDE DEF Upto
    <2> SUFFICES ASSUME n + 1 <= Len(seqs)
                 PROVE  \E f \in [1 .. n + 1 -> Seq(S)] : Upto(f, n + 1)
      BY DEF Good
    <2>1. PICK f \in [1 .. n -> Seq(S)] : Upto(f, n)
      BY <1>2 DEF Good
    <2> DEFINE last == IF n = 0 THEN seqs[n + 1] ELSE f[n] \o seqs[n + 1]
               g == [i \in 1 .. n + 1 |-> IF i = n + 1 THEN last ELSE f[i]]
    <2>2. n + 1 \in 1 .. Len(seqs) /\ seqs[n + 1] \in Seq(S)
      OBVIOUS
    <2>3. last \in Seq(S)
      <3>1. CASE n = 0
        BY <2>2, <3>1
      <3>2. CASE n # 0
        <4>1. f[n] \in Seq(S)
          BY <3>2
        <4> QED BY <2>2, <3>2, <4>1, ConcatProperties
      <3> QED BY <3>1, <3>2
    <2>4. g \in [1 .. n + 1 -> Seq(S)]
      BY <2>3
    <2>5. ASSUME NEW i \in 1 .. n + 1
          PROVE g[i] = IF i = 1 THEN seqs[i] ELSE g[i - 1] \o seqs[i]
      <3>1. CASE i = n + 1
        <4>1. g[i] = last
          BY <3>1
        <4>2. n # 0 => g[i - 1] = f[n]
          BY <3>1
        <4> HIDE DEF g
        <4>3. CASE n = 0
          BY <3>1, <4>1, <4>3
        <4>4. CASE n # 0
          <5>1. last = f[n] \o seqs[n + 1]
            BY <4>4
          <5> HIDE DEF last
          <5>2. g[i] = g[i - 1] \o seqs[i]
            BY <3>1, <4>1, <4>2, <4>4, <5>1, Zenon
          <5>3. i # 1
            BY <3>1, <4>4
          <5> QED BY <5>2, <5>3
        <4> QED BY <4>3, <4>4
      <3>2. CASE i # n + 1
        <4>1. i \in 1 .. n /\ g[i] = f[i] /\ (i # 1 => g[i - 1] = f[i - 1])
          BY <3>2
        <4>2. f[i] = IF i = 1 THEN seqs[i] ELSE f[i - 1] \o seqs[i]
          BY <2>1, <4>1 DEF Upto
        <4> HIDE DEF g
        <4>3. CASE i = 1
          BY <4>1, <4>2, <4>3
        <4>4. CASE i # 1
          BY <4>1, <4>2, <4>4
        <4> QED BY <4>3, <4>4
      <3> QED BY <3>1, <3>2
    <2> HIDE DEF g
    <2>6. Upto(g, n + 1)
      BY <2>5 DEF Upto
    <2> QED BY <2>4, <2>6
  <1> HIDE DEF Good
  <1>3. Nat \subseteq Good
    BY <1>1, <1>2, Induction
  <1>4. Len(seqs) \in Nat /\ Len(seqs) <= Len(seqs)
    OBVIOUS
  <1>5. PICK f \in [1 .. Len(seqs) -> Seq(S)] : Upto(f, Len(seqs))
    <2>1. Len(seqs) \in Good
      BY <1>3, <1>4
    <2> QED BY <1>4, <2>1 DEF Good
  <1>6. Flattens(f, seqs)
    <2>1. f = [i \in 1 .. Len(seqs) |-> f[i]]
      OBVIOUS
    <2>2. \A i \in 1 .. Len(seqs) : f[i] = IF i = 1 THEN seqs[i] ELSE f[i - 1] \o seqs[i]
      BY <1>5
    <2> QED BY <2>1, <2>2 DEF Flattens
  <1> QED BY <1>6

(* All its values are sequences over the set of the elements.              *)
LEMMA FlattenUnique ==
  ASSUME NEW S, NEW seqs \in Seq(Seq(S)), NEW f, Flattens(f, seqs)
  PROVE  \A i \in 1 .. Len(seqs) : f[i] \in Seq(S)
  <1> DEFINE Good == { n \in Nat : n \in 1 .. Len(seqs) => f[n] \in Seq(S) }
  <1>1. 0 \in Good
    OBVIOUS
  <1>2. ASSUME NEW n \in Nat, n \in Good PROVE n + 1 \in Good
    <2> SUFFICES ASSUME n + 1 \in 1 .. Len(seqs) PROVE f[n + 1] \in Seq(S)
      OBVIOUS
    <2>1. f[n + 1] = IF n + 1 = 1 THEN seqs[n + 1] ELSE f[(n + 1) - 1] \o seqs[n + 1]
      BY DEF Flattens
    <2>2. seqs[n + 1] \in Seq(S)
      OBVIOUS
    <2>3. CASE n = 0
      BY <2>1, <2>2, <2>3
    <2>4. CASE n # 0
      <3>1. f[n] \in Seq(S) /\ (n + 1) - 1 = n
        BY <1>2, <2>4
      <3>2. f[n] \o seqs[n + 1] \in Seq(S)
        BY <2>2, <3>1, ConcatProperties
      <3> QED BY <2>1, <2>4, <3>1, <3>2
    <2> QED BY <2>3, <2>4
  <1> HIDE DEF Good
  <1>3. Nat \subseteq Good
    BY <1>1, <1>2, Induction
  <1> QED BY <1>3 DEF Good

(* So flattening gives a sequence over the set of the elements.            *)
LEMMA FlattenType ==
  ASSUME NEW S, NEW seqs \in Seq(Seq(S))
  PROVE  FlattenSeq(seqs) \in Seq(S)
  <1>1. CASE Len(seqs) = 0
    <2>1. seqs = << >>
      BY <1>1
    <2>2. FlattenSeq(seqs) = << >>
      BY <1>1, <2>1 DEF FlattenSeq
    <2> QED BY <2>2
  <1>2. CASE Len(seqs) # 0
    <2> DEFINE flatten == CHOOSE f : Flattens(f, seqs)
    <2>1. FlattenSeq(seqs) = flatten[Len(seqs)]
      BY <1>2 DEF FlattenSeq, Flattens
    <2>2. Flattens(flatten, seqs)
      BY <1>2, FlattenExists
    <2> HIDE DEF flatten
    <2>3. Len(seqs) \in 1 .. Len(seqs)
      BY <1>2
    <2> QED BY <2>1, <2>2, <2>3, FlattenUnique
  <1> QED BY <1>1, <1>2

-----------------------------------------------------------------------------
(* Types. *)

(* The caller has not begun to read before it calls; a number in           *)
(* conversion belongs to the directive that is read.                       *)
Reading ==
  /\ format \in Seq(AnyChar) /\ pos \in 1 .. Len(format) + 1
  /\ status = "idle" => pos = 1 /\ number = NoNumber
  /\ number # NoNumber => status = "busy" /\ pos + Len(number.letters) <= Len(format)

Writing ==
  /\ str \in Seq(AnyChar) /\ Len(str) <= INT_MAX
  /\ status \in {"idle", "busy", "returned"} /\ result \in -1 .. INT_MAX

Small == number.value \in 0 .. 2 * LongHalf - 1

Types == Reading /\ Writing /\ Small

(* A sequence over a set is one over any larger set.                       *)
LEMMA Widen ==
  ASSUME NEW S, NEW T, S \subseteq T
  PROVE  Seq(S) \subseteq Seq(T)
  OBVIOUS

(* The largest int is a natural number.                                    *)
LEMMA IntRange == INT_MAX \in Nat
  BY WidthAssumption DEF INT_MAX

(* Whatever is emitted keeps the length within an int, and the place       *)
(* within the format.                                                      *)
LEMMA EmitTypes ==
  ASSUME Types, status # "idle", NEW text \in Seq(AnyChar), NEW next \in 1 .. Len(format) + 1,
         Emit(text, next), format' = format
  PROVE  Writing' /\ pos' \in 1 .. Len(format') + 1 /\ status' # "idle"
  <1>1. str \in Seq(AnyChar) /\ Len(str) \in Nat /\ Len(str) <= INT_MAX /\ INT_MAX \in Nat
    BY IntRange DEF Types, Writing
  <1>2. Len(text) \in Nat
    OBVIOUS
  <1>3. CASE INT_MAX - Len(str) < Len(text)
    <2>1. status' = "returned" /\ result' = -1 /\ str' = str /\ pos' = pos
      BY <1>3 DEF Emit, written
    <2> QED BY <1>1, <2>1 DEF Types, Reading, Writing, INT_MAX
  <1>4. CASE ~(INT_MAX - Len(str) < Len(text))
    <2>1. str' = str \o text /\ pos' = next /\ status' = status /\ result' = result
      BY <1>4 DEF Emit, written
    <2>2. str \o text \in Seq(AnyChar) /\ Len(str \o text) = Len(str) + Len(text)
      BY <1>1, ConcatProperties
    <2>3. Len(str) + Len(text) <= INT_MAX
      BY <1>1, <1>2, <1>4
    <2> QED BY <2>1, <2>2, <2>3 DEF Types, Writing, INT_MAX
  <1> QED BY <1>3, <1>4

(* Only a step that emits, or that stays where it is, and leaves no number *)
(* in conversion.                                                          *)
LEMMA EmitStep ==
  ASSUME Types, status # "idle", NEW text \in Seq(AnyChar), NEW next \in 1 .. Len(format) + 1,
         Emit(text, next), format' = format, number' = NoNumber
  PROVE  Types'
  <1>1. Writing' /\ pos' \in 1 .. Len(format') + 1 /\ status' # "idle"
    BY EmitTypes
  <1>2. Reading'
    BY <1>1 DEF Types, Reading
  <1>3. Small'
    BY WidthAssumption DEF Small, NoNumber
  <1> QED BY <1>1, <1>2, <1>3 DEF Types

(* A run of ordinary characters has an end behind its start, at the latest *)
(* that of the format: the first % behind it, or the end.                  *)
LEMMA RunEnds ==
  ASSUME format \in Seq(AnyChar), NEW i \in 1 .. Len(format)
  PROVE  RunEnd(i) \in i + 1 .. Len(format) + 1
  <1> DEFINE T == { j \in i + 1 .. Len(format) + 1 : At(j) = "%" \/ j = Len(format) + 1 }
             EndsAt(j) == At(j) \in {"%", "NUL"} /\ \A k \in i + 1 .. j - 1 : format[k] # "%"
  <1>1. T \in SUBSET Nat /\ Len(format) + 1 \in T
    OBVIOUS
  <1>2. PICK m \in T : \A k \in T : m <= k
    <2> HIDE DEF T
    <2> QED BY <1>1, Least
  <1>3. m \in i + 1 .. Len(format) + 1 /\ At(m) \in {"%", "NUL"}
    BY DEF At
  <1>4. ASSUME NEW k \in i + 1 .. m - 1 PROVE format[k] # "%"
    <2>1. k \in i + 1 .. Len(format) + 1 /\ k <= Len(format) /\ ~(m <= k)
      BY <1>3
    <2>2. k \notin T
      BY <1>2, <2>1
    <2>3. At(k) # "%"
      BY <2>1, <2>2
    <2> QED BY <2>1, <2>3 DEF At
  <1>5. \E j \in i + 1 .. Len(format) + 1 : EndsAt(j)
    BY <1>3, <1>4
  <1>6. RunEnd(i) = CHOOSE j \in i + 1 .. Len(format) + 1 : EndsAt(j)
    BY DEF RunEnd
  <1> HIDE DEF EndsAt
  <1> QED BY <1>5, <1>6

(* The letters of a directive do not end the format.                       *)
Spelled(letters) ==
  Len(letters) \in 0 .. 3 /\ \A i \in 1 .. Len(letters) : letters[i] # "NUL"

(* All the letters that the code looks for are.                            *)
LEMMA AllSpelled ==
  /\ \A letters \in Conversions : Spelled(letters)
  /\ Spelled(<<"c">>) /\ Spelled(<<"s">>) /\ Spelled(<<"l">>) /\ Spelled(<<"l", "l">>)
  BY DEF Conversions, Spelled

(* A directive that is read lies within the format.                        *)
LEMMA DirectiveInside ==
  ASSUME Types, NEW letters, Spelled(letters), Directive(letters)
  PROVE  /\ status = "busy" /\ number = NoNumber
         /\ pos + Len(letters) <= Len(format)
         /\ After(letters) \in 1 .. Len(format) + 1
  <1>1. pos \in 1 .. Len(format) + 1 /\ format \in Seq(AnyChar) /\ Len(letters) \in Nat
    BY DEF Types, Reading, Spelled
  <1>2. pos <= Len(format)
    BY <1>1 DEF Directive, At
  <1>3. Len(letters) = 0 => pos + Len(letters) <= Len(format)
    BY <1>1, <1>2
  <1>4. ASSUME Len(letters) # 0 PROVE pos + Len(letters) <= Len(format)
    <2>1. Len(letters) \in 1 .. Len(letters)
      BY <1>1, <1>4
    <2>2. At(pos + Len(letters)) = letters[Len(letters)] /\ letters[Len(letters)] # "NUL"
      BY <2>1 DEF Directive, Spelled
    <2> QED BY <1>1, <2>2 DEF At
  <1>5. pos + Len(letters) <= Len(format)
    BY <1>3, <1>4
  <1> QED BY <1>1, <1>5 DEF Directive, Busy, After

(* The conversion of a number starts. *)
LEMMA ConvertTypes ==
  ASSUME Inv, Types, NEW letters \in Conversions, Convert(letters, Half(letters))
  PROVE  Types'
  <1>1. Spelled(letters)
    BY AllSpelled
  <1>2. status = "busy" /\ pos + Len(letters) <= Len(format)
    BY <1>1, DirectiveInside DEF Convert
  <1>3. /\ format' = format /\ pos' = pos /\ status' = status
        /\ str' = str /\ result' = result
    BY DEF Convert
  <1>4. number'.letters = letters
    BY DEF Convert
  <1>5. Reading'
    BY <1>2, <1>3, <1>4 DEF Types, Reading
  <1>6. Writing'
    BY <1>3 DEF Types, Writing, INT_MAX
  <1> DEFINE v == Wrap(Head(ap).int, Half(letters))
  <1>7. Half(letters) \in Nat \ {0} /\ Half(letters) <= LongHalf
    BY WidthAssumption DEF Half
  <1>8. v \in -Half(letters) .. Half(letters) - 1 /\ v % (2 * Half(letters)) \in 0 .. 2 * Half(letters) - 1
    <2> DEFINE S == Arg
    <2>1. ap \in Seq(S) /\ ap # << >>
      BY DEF Inv, Args, Convert, Take
    <2> HIDE DEF S
    <2>2. Head(ap) \in S
      BY <2>1, HeadTailProperties
    <2>3. Head(ap).int \in Int
      BY <2>2 DEF S, Arg
    <2> QED BY <1>7, <2>3, WrapRange
  <1>9. number'.value = Magnitude(v, Half(letters)) \/ number'.value = v % (2 * Half(letters))
    BY DEF Convert, v
  <1> HIDE DEF v
  <1>10. Magnitude(v, Half(letters)) \in 0 .. 2 * Half(letters) - 1
    <2> DEFINE half == Half(letters)
               n == Magnitude(v, half)
    <2>1. n \in 0 .. half
      BY <1>7, <1>8, MagnitudeRange
    <2>2. half \in Nat \ {0}
      BY <1>7
    <2> HIDE DEF half, n
    <2>3. n \in 0 .. 2 * half - 1
      BY <2>1, <2>2
    <2> QED BY <2>3 DEF half, n
  <1>11. number'.value \in 0 .. 2 * Half(letters) - 1
    BY <1>8, <1>9, <1>10
  <1>12. Small'
    <2> DEFINE half == Half(letters)
               n == number'.value
    <2>1. half \in Nat /\ half <= LongHalf /\ n \in 0 .. 2 * half - 1 /\ LongHalf \in Nat
      BY <1>7, <1>11, WidthAssumption
    <2> HIDE DEF half, n
    <2>2. n \in 0 .. 2 * LongHalf - 1
      BY <2>1
    <2> QED BY <2>2 DEF Small, n
  <1> QED BY <1>5, <1>6, <1>12 DEF Types

(* A digit makes the value smaller. *)
LEMMA DigitTypes ==
  ASSUME Inv, Types, NEW n \in 1 .. 3, ToStr(n), number # NoNumber
  PROVE  Types'
  <1> DEFINE base == Base(number.letters)
  <1>1. /\ number \in [letters : Conversions, value : Nat, text : Seq(AnyDigit), negative : BOOLEAN]
        /\ base \in {10, 16}
    <2>1. number \in [letters : Conversions, value : Nat, text : Seq(AnyDigit), negative : BOOLEAN]
      BY DEF Inv, NumberInv
    <2>2. number.letters \in Conversions
      BY <2>1
    <2> QED BY <2>1, <2>2, Rooms
  <1> HIDE DEF base
  <1>2. number'.letters = number.letters /\ number'.value = number.value \div base
    BY <1>1 DEF ToStr, base
  <1>3. number.value \div base \in 0 .. number.value
    <2> DEFINE v == number.value
    <2>1. v \in Nat
      BY <1>1
    <2> HIDE DEF v
    <2>2. v \div 10 \in 0 .. v /\ v \div 16 \in 0 .. v
      BY <2>1
    <2> QED BY <1>1, <2>2 DEF v
  <1>4. Small'
    BY <1>1, <1>2, <1>3, WidthAssumption DEF Types, Small
  <1>5. Reading' /\ Writing'
    BY <1>2 DEF ToStr, Types, Reading, Writing, INT_MAX
  <1> QED BY <1>4, <1>5 DEF Types

(* A call starts with a format. *)
LEMMA CallTypes ==
  ASSUME Types, status = "idle", NEW pieces \in Seq(Seq(AnyChar)), NEW args, Call(pieces, args)
  PROVE  Types'
  <1>1. format' \in Seq(AnyChar)
    BY FlattenType DEF Call
  <1>2. /\ pos' = 1 /\ number' = NoNumber /\ number = NoNumber /\ status' = "busy"
        /\ str' = str /\ result' = result
    BY DEF Call, Types, Reading
  <1>3. Reading' /\ Writing'
    BY <1>1, <1>2 DEF Types, Reading, Writing, INT_MAX
  <1> QED BY <1>2, <1>3 DEF Types, Small

(* The format of kernel_main. *)
LEMMA ShownCharacters == Shown \in Seq(Seq(AnyChar))
  <1> DEFINE S == Seq(AnyChar)
  <1>1. <<"%", "s">> \in S /\ <<"=">> \in S /\ <<"%", "l", "l", "d">> \in S
    <2>1. {"%", "=", "s", "l", "d"} \subseteq AnyChar
      BY DEF AnyChar
    <2> QED BY <2>1
  <1> HIDE DEF S
  <1>2. Shown \in Seq(S)
    BY <1>1 DEF Shown
  <1> QED BY <1>2 DEF S

(* The pieces of a caller's format are made of characters.                 *)
LEMMA CallerCharacters ==
  ASSUME NEW pieces \in Formats
  PROVE  pieces \in Seq(Seq(AnyChar))
  <1>1. pieces \in Seq(Seq(STRING))
    BY CallerAssumption
  <1>2. Seq(STRING) \subseteq Seq(AnyChar)
    BY Widen DEF AnyChar
  <1> QED BY <1>1, <1>2, Widen

(* The types are invariant, with the buffer's invariant. *)
LEMMA TypesIsInvariant == Spec => [](Inv /\ Types)
  <1>1. Init => Types
    BY IntRange, WidthAssumption DEF Init, Types, Reading, Writing, Small, NoNumber
  <1>2. Inv /\ Types /\ [Next]_vars => Types'
    <2> SUFFICES ASSUME Inv, Types, [Next]_vars PROVE Types'
      OBVIOUS
    <2>t. /\ format \in Seq(AnyChar) /\ Len(format) \in Nat
          /\ pos \in 1 .. Len(format) + 1
      BY DEF Types, Reading
    <2>1. CASE Caller
      <3>1. PICK pieces \in Formats : \E args \in ArgumentLists(pieces) : Call(pieces, args)
        BY <2>1 DEF Caller
      <3>2. pieces \in Seq(Seq(AnyChar)) /\ status = "idle"
        BY <2>1, CallerCharacters DEF Caller
      <3> QED BY <3>1, <3>2, CallTypes
    <2>2. CASE Demonstration
      <3>1. status = "idle" /\ \E args : Call(Shown, args)
        BY <2>2 DEF Demonstration
      <3> QED BY <3>1, ShownCharacters, CallTypes
    <2>3. CASE Char \/ String
      <3>1. PICK letters \in { <<"c">>, <<"s">> } :
              /\ Directive(letters) /\ Emit(Head(ap).text, After(letters))
              /\ ap # << >> /\ format' = format /\ number' = number
        BY <2>3 DEF Char, String, Take
      <3>2. Spelled(letters)
        BY AllSpelled
      <3>3. Head(ap).text \in Seq(AnyChar)
        <4> DEFINE S == Arg
        <4>1. ap \in Seq(S)
          BY DEF Inv, Args
        <4> HIDE DEF S
        <4>2. Head(ap) \in S
          BY <3>1, <4>1, HeadTailProperties
        <4>3. Head(ap).text \in Seq(STRING) /\ STRING \subseteq AnyChar
          BY <4>2 DEF S, Arg, AnyChar
        <4> QED BY <4>3, Widen
      <3>4. status # "idle" /\ After(letters) \in 1 .. Len(format) + 1 /\ number = NoNumber
        BY <3>1, <3>2, DirectiveInside
      <3> QED BY <3>1, <3>3, <3>4, EmitStep
    <2>4. CASE TakeInt \/ TakeUInt \/ TakeLong \/ TakeULong \/ TakeLongLong \/ TakeULongLong
      <3>1. \E letters \in Conversions : Convert(letters, Half(letters))
        BY <2>4 DEF TakeInt, TakeUInt, TakeLong, TakeULong, TakeLongLong, TakeULongLong,
                    Conversions, Hexadecimal, Half
      <3> QED BY <3>1, ConvertTypes
    <2>5. CASE uint_to_str \/ ulong_to_str \/ ulonglong_to_str
      <3>1. PICK n \in 1 .. 3 : ToStr(n)
        BY <2>5 DEF uint_to_str, ulong_to_str, ulonglong_to_str
      <3>2. number # NoNumber
        BY <3>1 DEF ToStr, Converting, NoNumber
      <3> QED BY <3>1, <3>2, DigitTypes
    <2>6. CASE Converted
      <3>1. /\ number # NoNumber /\ number' = NoNumber /\ format' = format
            /\ Emit(Signed, After(number.letters))
        BY <2>6 DEF Converted
      <3>2. number.letters \in Conversions /\ number.text \in Seq(AnyDigit)
        BY <3>1 DEF Inv, NumberInv
      <3>3. Signed \in Seq(AnyChar)
        <4>1. AnyDigit \subseteq AnyChar /\ "-" \in AnyChar
          BY DEF AnyChar
        <4>2. number.text \in Seq(AnyChar)
          BY <3>2, <4>1, Widen
        <4>3. <<"-">> \in Seq(AnyChar)
          BY <4>1
        <4> QED BY <4>2, <4>3, ConcatProperties DEF Signed
      <3>4. status # "idle" /\ pos + Len(number.letters) <= Len(format)
        BY <3>1 DEF Types, Reading
      <3>5. After(number.letters) \in 1 .. Len(format) + 1
        <4>1. Len(number.letters) \in 1 .. 3
          BY <3>2, LettersOf
        <4> DEFINE n == Len(number.letters)
        <4> HIDE DEF n
        <4>2. pos + n + 1 \in 1 .. Len(format) + 1
          BY <2>t, <3>4, <4>1 DEF n
        <4> QED BY <4>2 DEF After, n
      <3> QED BY <3>1, <3>3, <3>4, <3>5, EmitStep
    <2>7. CASE Ordinary
      <3> DEFINE start == IF At(pos) = "%" THEN pos + 1 ELSE pos
      <3>1. /\ Emit(SubSeq(format, start, RunEnd(start) - 1), RunEnd(start))
            /\ status # "idle" /\ number' = NoNumber /\ format' = format
        BY <2>7 DEF Ordinary, Busy
      <3>2. start \in 1 .. Len(format)
        <4>1. pos <= Len(format)
          BY <2>7, <2>t DEF Ordinary, At
        <4>2. At(pos) = "%" => pos + 1 <= Len(format)
          BY <2>7, <2>t DEF Ordinary, At
        <4> QED BY <2>t, <4>1, <4>2
      <3> HIDE DEF start
      <3>3. RunEnd(start) \in start + 1 .. Len(format) + 1
        BY <2>t, <3>2, RunEnds
      <3>4. RunEnd(start) - 1 \in Int /\ RunEnd(start) - 1 <= Len(format)
            /\ RunEnd(start) \in 1 .. Len(format) + 1
        BY <2>t, <3>2, <3>3
      <3> DEFINE last == RunEnd(start) - 1
      <3>5. last \in Int /\ last <= Len(format)
        BY <3>4
      <3> HIDE DEF last
      <3>6. \A i \in start .. last : format[i] \in AnyChar
        BY <2>t, <3>2, <3>5
      <3>7. SubSeq(format, start, last) \in Seq(AnyChar)
        BY <3>2, <3>5, <3>6, SubSeqProperties
      <3> QED BY <3>1, <3>4, <3>7, EmitStep DEF last
    <2>8. CASE Unknown
      <3>1. /\ Emit(SubSeq(format, pos, Len(format)), Len(format) + 1)
            /\ status # "idle" /\ number' = NoNumber /\ format' = format
        BY <2>8 DEF Unknown, Directive, Busy
      <3>2. SubSeq(format, pos, Len(format)) \in Seq(AnyChar)
        <4>1. \A i \in pos .. Len(format) : format[i] \in AnyChar
          BY <2>t
        <4> QED BY <2>t, <4>1, SubSeqProperties
      <3>3. Len(format) + 1 \in 1 .. Len(format) + 1
        BY <2>t
      <3> QED BY <3>1, <3>2, <3>3, EmitStep
    <2>9. CASE LongUnknown
      <3>1. PICK l \in { <<"l">>, <<"l", "l">> } :
              /\ Directive(l) /\ pos' = After(l)
              /\ UNCHANGED <<format, str, number, status, result>>
        BY <2>9 DEF LongUnknown
      <3>2. Spelled(l)
        BY AllSpelled
      <3>3. status = "busy" /\ number = NoNumber /\ After(l) \in 1 .. Len(format) + 1
        BY <3>1, <3>2, DirectiveInside
      <3> QED BY <3>1, <3>3 DEF Types, Reading, Writing, Small, INT_MAX
    <2>10. CASE Return
      BY <2>10, IntRange DEF Return, Busy, Types, Reading, Writing, Small, INT_MAX, written
    <2>11. CASE UNCHANGED vars
      BY <2>11 DEF vars, Types, Reading, Writing, Small, INT_MAX
    <2> QED BY <2>1, <2>2, <2>3, <2>4, <2>5, <2>6, <2>7, <2>8, <2>9, <2>10, <2>11
            DEF Next, vsprintf
  <1> QED BY <1>1, <1>2, InvIsInvariant, PTL DEF Spec

(* What the history holds of the call. *)
Calls == [pieces : Seq(Seq(AnyChar)), args : Args]

(* A call is of a format and arguments, and stays as it is.                *)
LEMMA CallIsTyped == Spec => [](call \in Calls)
  <1>1. Init => call \in Calls
    BY DEF Init, Calls, Args
  <1>2. Inv' /\ call \in Calls /\ [Next]_vars => (call \in Calls)'
    <2> SUFFICES ASSUME Inv', call \in Calls, [Next]_vars PROVE call' \in Calls
      OBVIOUS
    <2>1. ASSUME NEW pieces \in Seq(Seq(AnyChar)), NEW args, Call(pieces, args)
          PROVE  call' \in Calls
      BY <2>1 DEF Call, Calls, Inv
    <2>2. CASE Caller
      BY <2>1, <2>2, CallerCharacters DEF Caller
    <2>3. CASE Demonstration
      BY <2>1, <2>3, ShownCharacters DEF Demonstration
    <2>4. CASE UNCHANGED call
      BY <2>4
    <2>5. CASE TakeInt \/ TakeUInt \/ TakeLong \/ TakeULong \/ TakeLongLong \/ TakeULongLong
      BY <2>4, <2>5 DEF TakeInt, TakeUInt, TakeLong, TakeULong, TakeLongLong, TakeULongLong, Convert
    <2> QED BY <2>2, <2>3, <2>4, <2>5 DEF Next, vsprintf, Ordinary, Char, String, Converted,
               uint_to_str, ulong_to_str, ulonglong_to_str, ToStr, LongUnknown, Unknown, Return, vars
  <1> QED BY <1>1, <1>2, InvIsInvariant, PTL DEF Spec

(* Every variable has its type: no text, and no run or directive of the    *)
(* format, leads beyond the format's end or makes the length more than an  *)
(* int, whatever the format is.                                            *)
THEOREM TypeCorrect == Spec => []TypeOK
  <1>1. Inv /\ Types /\ call \in Calls => TypeOK
    <2> SUFFICES ASSUME Inv, Types, call \in Calls PROVE TypeOK
      OBVIOUS
    <2>1. number = NoNumber \/ number \in [letters : Conversions, value : Nat, text : Seq(AnyDigit), negative : BOOLEAN]
      BY DEF Inv, NumberInv
    <2>2. number.letters \in { << >> } \cup Conversions
      BY <2>1 DEF NoNumber
    <2>3. number.text \in Seq(AnyDigit)
      <3>1. CASE number = NoNumber
        <4>1. number.text = << >>
          BY <3>1 DEF NoNumber
        <4> QED BY <4>1
      <3>2. CASE number # NoNumber
        BY <2>1, <3>2
      <3> QED BY <3>1, <3>2
    <2>4. number.negative \in BOOLEAN
      <3>1. CASE number = NoNumber
        BY <3>1 DEF NoNumber
      <3>2. CASE number # NoNumber
        BY <2>1, <3>2
      <3> QED BY <3>1, <3>2
    <2>5. ap \in Seq(Arg) /\ call \in [pieces : Seq(Seq(AnyChar)), args : Seq(Arg)]
      BY DEF Inv, Calls, Args
    <2> QED BY <2>2, <2>3, <2>4, <2>5 DEF Types, Reading, Writing, Small, TypeOK
  <1> QED BY <1>1, TypesIsInvariant, CallIsTyped, PTL

(* The widths and the buffer sizes of the code satisfy SizeAssumption.     *)
THEOREM CodeSizesFit ==
  ASSUME NEW power, ArePowers(power, 21)
  PROVE  Fit(2147483648, 9223372036854775808, 12, 11, 21, power)
  <1>1. ASSUME NEW b \in {10, 16}, NEW n \in 0 .. 16
        PROVE  power[b][n + 4] = b * b * b * b * power[b][n]
    <2>1. \A k \in 0 .. 20 : power[b][k + 1] = b * power[b][k]
      BY DEF ArePowers
    <2>2. /\ power[b][n + 1] = b * power[b][n] /\ power[b][n + 2] = b * power[b][n + 1]
          /\ power[b][n + 3] = b * power[b][n + 2] /\ power[b][n + 4] = b * power[b][n + 3]
      BY <2>1
    <2>3. power[b][n] \in Nat
      BY DEF ArePowers
    <2> QED BY <2>2, <2>3
  <1>2. /\ power[10][4] = 10000 /\ power[10][8] = 100000000
        /\ power[16][4] = 65536 /\ power[16][8] = 4294967296
    BY <1>1 DEF ArePowers
  <1>3. power[10][12] = 1000000000000 /\ power[10][16] = 10000000000000000
    BY <1>1, <1>2
  <1>4. power[10][20] = 100000000000000000000
    BY <1>1, <1>3
  <1>5. power[16][12] = 281474976710656 /\ power[16][16] = 18446744073709551616
    BY <1>1, <1>2
  <1>6. power[16][20] = 1208925819614629174706176
    BY <1>1, <1>5
  <1>7. \A b \in {10, 16}, k \in 0 .. 20 : power[b][k + 1] = b * power[b][k] /\ power[b][k] \in Nat
    BY DEF ArePowers
  <1>8. power[10][10] = 10000000000 /\ power[16][10] = 1099511627776
    <2>1. /\ power[10][9] = 10 * power[10][8] /\ power[10][10] = 10 * power[10][9]
          /\ power[16][9] = 16 * power[16][8] /\ power[16][10] = 16 * power[16][9]
      BY <1>7
    <2> QED BY <1>2, <2>1
  <1>9. power[10][19] = 10000000000000000000
    <2>1. power[10][20] = 10 * power[10][19] /\ power[10][19] \in Nat
      BY <1>7
    <2> QED BY <1>4, <2>1
  <1> QED BY <1>4, <1>6, <1>8, <1>9 DEF Fit

-----------------------------------------------------------------------------
(***************************************************************************)
(* Rendered: what is written is what the format says. First, sequences that*)
(* are joined, and the digits of a number; then the pieces of a format and *)
(* their texts; then the invariant, RenderInv, and the actions.            *)
(***************************************************************************)

(* One sequence more at the end. *)
LEMMA FlattenMore ==
  ASSUME NEW S, NEW s \in Seq(Seq(S)), NEW t \in Seq(Seq(S)), Len(s) = Len(t) + 1,
         \A i \in 1 .. Len(t) : t[i] = s[i]
  PROVE  FlattenSeq(s) = FlattenSeq(t) \o s[Len(t) + 1]
  <1> DEFINE n == Len(t)
             f == CHOOSE h : Flattens(h, s)
             g == CHOOSE h : Flattens(h, t)
  <1>1. n \in Nat /\ Len(s) = n + 1 /\ s[n + 1] \in Seq(S)
    OBVIOUS
  <1>2. Flattens(f, s) /\ FlattenSeq(s) = f[n + 1]
    <2>1. Flattens(f, s)
      BY <1>1, FlattenExists
    <2>2. FlattenSeq(s) = f[Len(s)]
      BY <1>1 DEF FlattenSeq, Flattens
    <2> HIDE DEF f
    <2> QED BY <1>1, <2>1, <2>2
  <1>3. n # 0 => Flattens(g, t) /\ FlattenSeq(t) = g[n]
    <2>1. n # 0 => Flattens(g, t)
      BY <1>1, FlattenExists
    <2>2. n # 0 => FlattenSeq(t) = g[Len(t)]
      BY DEF FlattenSeq, Flattens
    <2> QED BY <2>1, <2>2
  <1> HIDE DEF f, g
  <1>4. ASSUME n # 0 PROVE f[n] = g[n]
    <2> DEFINE Good == { i \in Nat : i \in 1 .. n => f[i] = g[i] }
    <2>1. 0 \in Good
      OBVIOUS
    <2>2. ASSUME NEW i \in Nat, i \in Good PROVE i + 1 \in Good
      <3> SUFFICES ASSUME i + 1 \in 1 .. n PROVE f[i + 1] = g[i + 1]
        OBVIOUS
      <3>1. f[i + 1] = IF i + 1 = 1 THEN s[i + 1] ELSE f[(i + 1) - 1] \o s[i + 1]
        <4>1. i + 1 \in 1 .. Len(s)
          BY <1>1
        <4> QED BY <1>2, <4>1 DEF Flattens
      <3>2. g[i + 1] = IF i + 1 = 1 THEN t[i + 1] ELSE g[(i + 1) - 1] \o t[i + 1]
        BY <1>3, <1>4 DEF Flattens
      <3>3. t[i + 1] = s[i + 1] /\ (i + 1) - 1 = i
        OBVIOUS
      <3>4. CASE i = 0
        BY <3>1, <3>2, <3>3, <3>4
      <3>5. CASE i # 0
        <4>1. f[i] = g[i]
          BY <2>2, <3>5
        <4>2. i + 1 # 1
          BY <3>5
        <4> QED BY <3>1, <3>2, <3>3, <4>1, <4>2
      <3> QED BY <3>4, <3>5
    <2> HIDE DEF Good
    <2>3. n \in Good
      BY <1>1, <2>1, <2>2, Induction
    <2> QED BY <1>1, <1>4, <2>3 DEF Good
  <1>5. f[n + 1] = IF n + 1 = 1 THEN s[n + 1] ELSE f[(n + 1) - 1] \o s[n + 1]
    <2>1. n + 1 \in 1 .. Len(s)
      BY <1>1
    <2> QED BY <1>2, <2>1 DEF Flattens
  <1>6. CASE n = 0
    <2>1. FlattenSeq(s) = s[n + 1]
      BY <1>2, <1>5, <1>6
    <2>2. t = << >> /\ FlattenSeq(t) = << >>
      <3>1. t = << >>
        BY <1>6
      <3> QED BY <1>6, <3>1 DEF FlattenSeq
    <2> QED BY <1>1, <2>1, <2>2, ConcatEmptySeq
  <1>7. CASE n # 0
    <2>1. (n + 1) - 1 = n /\ n + 1 # 1
      BY <1>1, <1>7
    <2>2. f[n + 1] = f[n] \o s[n + 1]
      BY <1>5, <2>1
    <2> QED BY <1>2, <1>3, <1>4, <1>7, <2>2
  <1> QED BY <1>6, <1>7

(* The first k of a list of texts, one after the other.                    *)
Joined(texts, k) == FlattenSeq([i \in 1 .. k |-> texts[i]])

(* Joining begins with nothing and goes on text by text.                   *)
LEMMA JoinedSteps ==
  ASSUME NEW S, NEW texts \in Seq(Seq(S))
  PROVE  /\ Joined(texts, 0) = << >>
         /\ Joined(texts, Len(texts)) = FlattenSeq(texts)
         /\ \A k \in 0 .. Len(texts) : Joined(texts, k) \in Seq(S)
         /\ \A k \in 0 .. Len(texts) - 1 :
              Joined(texts, k + 1) = Joined(texts, k) \o texts[k + 1]
  <1> DEFINE First(k) == [i \in 1 .. k |-> texts[i]]
  <1>1. ASSUME NEW k \in 0 .. Len(texts) PROVE First(k) \in Seq(Seq(S)) /\ Len(First(k)) = k
    OBVIOUS
  <1>2. Joined(texts, 0) = << >>
    <2>1. First(0) = << >> /\ Len(First(0)) = 0
      OBVIOUS
    <2> QED BY <2>1 DEF Joined, FlattenSeq
  <1>3. Joined(texts, Len(texts)) = FlattenSeq(texts)
    <2>1. First(Len(texts)) = texts
      OBVIOUS
    <2> QED BY <2>1 DEF Joined
  <1>4. ASSUME NEW k \in 0 .. Len(texts) PROVE Joined(texts, k) \in Seq(S)
    BY <1>1, FlattenType DEF Joined
  <1>5. ASSUME NEW k \in 0 .. Len(texts) - 1
        PROVE  Joined(texts, k + 1) = Joined(texts, k) \o texts[k + 1]
    <2>1. k \in 0 .. Len(texts) /\ k + 1 \in 0 .. Len(texts) /\ k + 1 \in 1 .. k + 1 /\ k \in Nat
      OBVIOUS
    <2>2. /\ First(k) \in Seq(Seq(S)) /\ First(k + 1) \in Seq(Seq(S))
          /\ Len(First(k)) = k /\ Len(First(k + 1)) = k + 1
      BY <1>1, <2>1
    <2>3. \A i \in 1 .. k : First(k)[i] = First(k + 1)[i]
      BY <2>1
    <2>4. First(k + 1)[k + 1] = texts[k + 1]
      BY <2>1
    <2>5. Joined(texts, k) = FlattenSeq(First(k)) /\ Joined(texts, k + 1) = FlattenSeq(First(k + 1))
      BY DEF Joined
    <2> HIDE DEF First
    <2>6. FlattenSeq(First(k + 1)) = FlattenSeq(First(k)) \o First(k + 1)[k + 1]
      BY <2>2, <2>3, FlattenMore
    <2> QED BY <2>4, <2>5, <2>6
  <1> QED BY <1>2, <1>3, <1>4, <1>5

(* Where the texts are. *)
LEMMA JoinedPlaces ==
  ASSUME NEW S, NEW texts \in Seq(Seq(S)), NEW k \in 0 .. Len(texts), NEW m \in k .. Len(texts)
  PROVE  /\ Len(Joined(texts, k)) <= Len(Joined(texts, m))
         /\ \A i \in 1 .. Len(Joined(texts, k)) : Joined(texts, m)[i] = Joined(texts, k)[i]
  <1> DEFINE J(j) == Joined(texts, j)
             Starts(j) == /\ Len(J(k)) <= Len(J(j))
                          /\ \A i \in 1 .. Len(J(k)) : J(j)[i] = J(k)[i]
             Good == { d \in Nat : k + d <= Len(texts) => Starts(k + d) }
  <1>1. \A j \in 0 .. Len(texts) : J(j) \in Seq(S) /\ Len(J(j)) \in Nat
    <2>1. \A j \in 0 .. Len(texts) : J(j) \in Seq(S)
      BY JoinedSteps
    <2> HIDE DEF J
    <2> QED BY <2>1
  <1>2. \A j \in 0 .. Len(texts) - 1 : J(j + 1) = J(j) \o texts[j + 1] /\ texts[j + 1] \in Seq(S)
    <2>1. \A j \in 0 .. Len(texts) - 1 : J(j + 1) = J(j) \o texts[j + 1]
      BY JoinedSteps
    <2>2. \A j \in 0 .. Len(texts) - 1 : texts[j + 1] \in Seq(S)
      OBVIOUS
    <2> QED BY <2>1, <2>2
  <1> HIDE DEF J
  <1>3. 0 \in Good
    <2>1. k + 0 = k
      OBVIOUS
    <2> QED BY <1>1, <2>1
  <1>4. ASSUME NEW d \in Nat, d \in Good PROVE d + 1 \in Good
    <2> SUFFICES ASSUME k + (d + 1) <= Len(texts) PROVE Starts(k + (d + 1))
      OBVIOUS
    <2> DEFINE j == k + d
    <2>1. j \in 0 .. Len(texts) - 1 /\ j \in 0 .. Len(texts) /\ k + (d + 1) = j + 1
      OBVIOUS
    <2>2. Starts(j)
      BY <1>4, <2>1
    <2>3. J(j + 1) = J(j) \o texts[j + 1] /\ texts[j + 1] \in Seq(S) /\ J(j) \in Seq(S)
      BY <1>1, <1>2, <2>1
    <2>4. /\ Len(J(j + 1)) = Len(J(j)) + Len(texts[j + 1])
          /\ \A i \in 1 .. Len(J(j)) : J(j + 1)[i] = J(j)[i]
      <3> DEFINE u == J(j)
                 v == texts[j + 1]
      <3>1. u \in Seq(S) /\ v \in Seq(S) /\ J(j + 1) = u \o v
        BY <2>3
      <3> HIDE DEF u, v
      <3>2. /\ Len(u \o v) = Len(u) + Len(v)
            /\ \A i \in 1 .. Len(u) + Len(v) : (u \o v)[i] = IF i <= Len(u) THEN u[i] ELSE v[i - Len(u)]
        BY <3>1, ConcatProperties
      <3>3. Len(u) \in Nat /\ Len(v) \in Nat
        BY <3>1
      <3>4. \A i \in 1 .. Len(u) : i \in 1 .. Len(u) + Len(v) /\ i <= Len(u)
        BY <3>3
      <3>5. \A i \in 1 .. Len(u) : (u \o v)[i] = u[i]
        BY <3>2, <3>4, Zenon
      <3>6. /\ Len(J(j + 1)) = Len(u) + Len(v)
            /\ \A i \in 1 .. Len(u) : J(j + 1)[i] = u[i]
        BY <3>1, <3>2, <3>5, Zenon
      <3> QED BY <3>6 DEF u, v
    <2>5. Len(J(k)) \in Nat /\ Len(J(j)) \in Nat /\ Len(texts[j + 1]) \in Nat
      BY <1>1, <2>1, <2>3
    <2> HIDE DEF j
    <2>6. Starts(j + 1)
      BY <2>2, <2>4, <2>5
    <2> QED BY <2>1, <2>6
  <1> HIDE DEF Good
  <1>5. m - k \in Good
    <2>1. m - k \in Nat
      OBVIOUS
    <2> QED BY <1>3, <1>4, <2>1, Induction
  <1>6. k + (m - k) = m /\ m <= Len(texts) /\ m - k \in Nat
    OBVIOUS
  <1>7. Starts(m)
    BY <1>5, <1>6 DEF Good
  <1> QED BY <1>7 DEF J

(* The powers of a base grow. *)
LEMMA PowersGrow ==
  ASSUME NEW b \in {10, 16}
  PROVE  /\ LongSize \in Nat
         /\ \A n \in 0 .. LongSize : Power[b][n] \in Nat \ {0}
         /\ \A n \in 0 .. LongSize : \A k \in 0 .. n : Power[b][k] <= Power[b][n]
  <1> DEFINE p(n) == Power[b][n]
  <1>1. LongSize \in Nat
    BY SizeAssumption DEF Fit
  <1>2. /\ p(0) = 1 /\ \A n \in 0 .. LongSize : p(n) \in Nat
        /\ \A n \in 0 .. LongSize - 1 : p(n + 1) = b * p(n)
    BY SizeAssumption DEF ArePowers
  <1> HIDE DEF p
  <1> DEFINE Good == { n \in Nat : n <= LongSize => p(n) # 0 /\ \A k \in 0 .. n : p(k) <= p(n) }
  <1>3. 0 \in Good
    BY <1>1, <1>2
  <1>4. ASSUME NEW n \in Nat, n \in Good PROVE n + 1 \in Good
    <2> SUFFICES ASSUME n + 1 <= LongSize
                 PROVE  p(n + 1) # 0 /\ \A k \in 0 .. n + 1 : p(k) <= p(n + 1)
      OBVIOUS
    <2>1. n \in 0 .. LongSize - 1 /\ n \in 0 .. LongSize
      BY <1>1
    <2>2. p(n) \in Nat /\ p(n) # 0 /\ p(n + 1) = b * p(n)
      BY <1>2, <1>4, <2>1
    <2>3. p(n) <= p(n + 1) /\ p(n + 1) # 0 /\ p(n + 1) \in Nat
      <3>1. CASE b = 10
        BY <2>2, <3>1
      <3>2. CASE b = 16
        BY <2>2, <3>2
      <3> QED BY <3>1, <3>2
    <2>4. ASSUME NEW k \in 0 .. n + 1 PROVE p(k) <= p(n + 1)
      <3>1. CASE k = n + 1
        BY <2>3, <3>1
      <3>2. CASE k # n + 1
        <4>1. k \in 0 .. n /\ k \in 0 .. LongSize
          <5>1. n + 1 <= LongSize /\ LongSize \in Nat
            BY <1>1
          <5> HIDE DEF p, Good
          <5> QED BY <3>2, <5>1
        <4>2. p(k) <= p(n) /\ p(k) \in Nat
          BY <1>2, <1>4, <2>1, <4>1
        <4> QED BY <2>2, <2>3, <4>2
      <3> QED BY <3>1, <3>2
    <2> QED BY <2>3, <2>4
  <1> HIDE DEF Good
  <1>5. Nat \subseteq Good
    BY <1>3, <1>4, Induction
  <1>6. \A n \in 0 .. LongSize : p(n) # 0 /\ \A k \in 0 .. n : p(k) <= p(n)
    <2>1. \A n \in 0 .. LongSize : n \in Good /\ n <= LongSize
      BY <1>1, <1>5
    <2> QED BY <2>1 DEF Good
  <1> QED BY <1>1, <1>2, <1>6 DEF p

(* Division. *)
LEMMA Quotient ==
  ASSUME NEW a \in Nat, NEW b \in Nat \ {0}
  PROVE  /\ a \div b \in Nat /\ a % b \in 0 .. b - 1
         /\ a \div b = 0 <=> a < b
         /\ a \div 1 = a
  <1>1. a \div b \in Nat /\ a % b \in 0 .. b - 1 /\ a = b * (a \div b) + (a % b)
    BY Z3
  <1>2. a \div b = 0 <=> a < b
    <2>1. \A q, r \in Nat : q >= 1 => b * q + r >= b
      BY Z3
    <2>2. a < b => a \div b = 0
      BY <1>1, <2>1
    <2>3. a \div b = 0 => a < b
      <3>1. b * 0 = 0
        OBVIOUS
      <3> QED BY <1>1, <3>1
    <2> QED BY <2>2, <2>3
  <1> QED BY <1>1, <1>2

(* Dividing twice is dividing by the product.                              *)
LEMMA QuotientTwice ==
  ASSUME NEW a \in Nat, NEW b \in Nat \ {0}, NEW c \in Nat \ {0}
  PROVE  (a \div b) \div c = a \div (c * b)
  <1>1. a \div (b * c) = (a \div b) \div c
    BY Z3
  <1>2. b * c = c * b
    BY Z3
  <1> QED BY <1>1, <1>2

(* The digits that have been written of a number, and the value that is    *)
(* left.                                                                   *)
Digit(v, n, letters) == DigitOf((v \div Power[Base(letters)][n]) % Base(letters), letters)

Digits(text, left, v, letters) ==
  /\ Len(text) \in 0 .. LongSize
  /\ text = [j \in 1 .. Len(text) |-> Digit(v, Len(text) - j, letters)]
  /\ left = v \div Power[Base(letters)][Len(text)]
  /\ Len(text) <= 1 \/ v >= Power[Base(letters)][Len(text) - 1]

(* It begins with none. *)
LEMMA DigitsStart ==
  ASSUME NEW letters \in Conversions, NEW v \in Nat
  PROVE  Digits(<< >>, v, v, letters)
  <1>1. Base(letters) \in {10, 16} /\ LongSize \in Nat
    BY Rooms, PowersGrow
  <1>2. Power[Base(letters)][0] = 1
    BY <1>1, SizeAssumption DEF ArePowers
  <1>3. v \div 1 = v
    OBVIOUS
  <1>4. Len(<< >>) = 0 /\ << >> = [j \in 1 .. 0 |-> Digit(v, 0 - j, letters)]
    OBVIOUS
  <1> QED BY <1>1, <1>2, <1>3, <1>4 DEF Digits

(* The next digit goes to the front. *)
LEMMA DigitsMore ==
  ASSUME NEW letters \in Conversions, NEW v \in Nat, NEW left, NEW S, NEW text \in Seq(S),
         Digits(text, left, v, letters), Len(text) < LongSize, text = << >> \/ left # 0
  PROVE  LET b == Base(letters)
         IN Digits(<<DigitOf(left % b, letters)>> \o text, left \div b, v, letters)
  <1> DEFINE b == Base(letters)
             m == Len(text)
             p(n) == Power[b][n]
             more == <<DigitOf(left % b, letters)>> \o text
  <1>1. /\ b \in {10, 16} /\ LongSize \in Nat /\ m \in 0 .. LongSize - 1
        /\ m \in 0 .. LongSize /\ m + 1 \in 0 .. LongSize
    BY Rooms, PowersGrow DEF Digits
  <1>2. \A n \in 0 .. LongSize : p(n) \in Nat \ {0}
    BY <1>1, PowersGrow
  <1>3. p(m + 1) = b * p(m)
    BY <1>1, SizeAssumption DEF ArePowers
  <1>4. left = v \div p(m)
    BY DEF Digits
  <1>5. left \div b = v \div p(m + 1)
    <2>1. b \in Nat \ {0} /\ p(m) \in Nat \ {0}
      BY <1>1, <1>2
    <2> HIDE DEF p, b, m
    <2>2. (v \div p(m)) \div b = v \div (b * p(m))
      BY <2>1, QuotientTwice
    <2> QED BY <1>3, <1>4, <2>2
  <1>6. m # 0 => v >= p(m)
    <2>1. m # 0 => left # 0
      OBVIOUS
    <2>2. p(m) \in Nat \ {0}
      BY <1>1, <1>2
    <2> HIDE DEF p
    <2>3. left = 0 <=> v < p(m)
      BY <1>4, <2>2, Quotient
    <2> QED BY <2>1, <2>2, <2>3
  <1>7. DigitOf(left % b, letters) = Digit(v, m, letters)
    BY <1>4 DEF Digit
  <1>8. text = [j \in 1 .. m |-> Digit(v, m - j, letters)]
    BY DEF Digits
  <1>9. Len(more) = m + 1 /\ more = [j \in 1 .. m + 1 |-> Digit(v, (m + 1) - j, letters)]
    <2> DEFINE d == Digit(v, m, letters)
               D(j) == Digit(v, m - j, letters)
    <2>1. more = <<d>> \o text
      BY <1>7
    <2>2. text = [j \in 1 .. m |-> D(j)] /\ m \in Nat /\ Len(text) = m
      BY <1>1, <1>8
    <2> HIDE DEF d, D, m, more
    <2>3. Len(more) = m + 1 /\ \A j \in 1 .. m + 1 : more[j] = IF j = 1 THEN d ELSE D(j - 1)
      BY <2>1, <2>2
    <2>4. more = [j \in 1 .. m + 1 |-> more[j]]
      BY <2>1, <2>2, <2>3
    <2>5. \A j \in 1 .. m + 1 : more[j] = Digit(v, (m + 1) - j, letters)
      <3> SUFFICES ASSUME NEW j \in 1 .. m + 1 PROVE more[j] = Digit(v, (m + 1) - j, letters)
        OBVIOUS
      <3>1. CASE j = 1
        <4>1. (m + 1) - j = m
          BY <2>2, <3>1
        <4> QED BY <2>3, <3>1, <4>1 DEF d
      <3>2. CASE j # 1
        <4>1. (m + 1) - j = m - (j - 1)
          BY <2>2
        <4> QED BY <2>3, <3>2, <4>1 DEF D
      <3> QED BY <3>1, <3>2
    <2> QED BY <2>3, <2>4, <2>5
  <1>10. Len(more) <= 1 \/ v >= p(Len(more) - 1)
    <2>1. (m + 1) - 1 = m
      BY <1>1
    <2> HIDE DEF p, more
    <2>2. CASE m = 0
      BY <1>9, <2>2
    <2>3. CASE m # 0
      BY <1>6, <1>9, <2>1, <2>3
    <2> QED BY <2>2, <2>3
  <1> HIDE DEF more, m
  <1>11. Digits(more, left \div b, v, letters)
    BY <1>1, <1>5, <1>9, <1>10 DEF Digits
  <1> QED BY <1>11 DEF more

(* When no value is left they are the numeral. *)
LEMMA DigitsDone ==
  ASSUME NEW letters \in Conversions, NEW v \in Nat, NEW S, NEW text \in Seq(S),
         Digits(text, 0, v, letters), text # << >>
  PROVE  Numeral(v, letters) = text
  <1> DEFINE b == Base(letters)
             m == Len(text)
             p(n) == Power[b][n]
             IsSize(n) == v < p(n) /\ (n = 1 \/ v >= p(n - 1))
  <1>1. b \in {10, 16} /\ LongSize \in Nat /\ m \in 1 .. LongSize
    <2>1. m # 0
      OBVIOUS
    <2> QED BY <2>1, Rooms, PowersGrow DEF Digits
  <1>2. /\ \A n \in 0 .. LongSize : p(n) \in Nat \ {0}
        /\ \A n \in 0 .. LongSize : \A k \in 0 .. n : p(k) <= p(n)
    BY <1>1, PowersGrow
  <1>3. v \div p(m) = 0 /\ (m = 1 \/ v >= p(m - 1))
    BY <1>1 DEF Digits
  <1> HIDE DEF p
  <1>4. IsSize(m)
    <2>1. p(m) \in Nat \ {0}
      BY <1>1, <1>2
    <2>2. v < p(m)
      BY <1>3, <2>1, Quotient
    <2> QED BY <1>3, <2>2
  <1>5. ASSUME NEW n \in 1 .. LongSize, IsSize(n) PROVE n = m
    <2>1. CASE n < m
      <3> HIDE DEF m
      <3>1. m # 1 /\ m - 1 \in 0 .. LongSize /\ n \in 0 .. m - 1
        BY <1>1, <2>1
      <3>2. p(n) <= p(m - 1)
        BY <1>2, <3>1
      <3>4. v >= p(m - 1) /\ v < p(n)
        BY <1>3, <1>5, <3>1
      <3>3. p(n) \in Nat /\ p(m - 1) \in Nat
        <4>1. n \in 0 .. LongSize
          OBVIOUS
        <4> QED BY <1>2, <3>1, <4>1
      <3> QED BY <3>2, <3>3, <3>4
    <2>2. CASE n > m
      <3> HIDE DEF m
      <3>1. n # 1 /\ n - 1 \in 0 .. LongSize /\ m \in 0 .. n - 1
        BY <1>1, <2>2
      <3>2. p(m) <= p(n - 1)
        BY <1>2, <3>1
      <3>4. v >= p(n - 1) /\ v < p(m)
        BY <1>4, <1>5, <3>1
      <3>3. p(m) \in Nat /\ p(n - 1) \in Nat
        <4>1. m \in 0 .. LongSize
          BY <1>1
        <4> QED BY <1>2, <3>1, <4>1
      <3> QED BY <3>2, <3>3, <3>4
    <2> QED BY <1>1, <2>1, <2>2
  <1> DEFINE size == CHOOSE n \in 1 .. LongSize : IsSize(n)
  <1>6. size = m
    <2> HIDE DEF IsSize
    <2> QED BY <1>1, <1>4, <1>5
  <1>7. Numeral(v, letters) = [k \in 1 .. size |-> Digit(v, size - k, letters)]
    BY DEF Numeral, Digit, p
  <1> HIDE DEF size
  <1> QED BY <1>6, <1>7 DEF Digits

(* The letters of all directives, and what a directive is made of.         *)
AllLetters == Conversions \cup { <<"%">>, <<"c">>, <<"s">> }

(* A directive is a % and its letters, and ends with the last of them.     *)
LEMMA Spelling ==
  ASSUME NEW letters \in AllLetters, NEW piece, piece = <<"%">> \o letters
  PROVE  /\ Len(letters) \in 1 .. 3 /\ Len(piece) = Len(letters) + 1
         /\ piece[1] = "%" /\ \A i \in 1 .. Len(letters) : piece[i + 1] = letters[i]
         /\ Last(piece) = Last(letters) /\ Tail(piece) = letters
         /\ Last(letters) = letters[Len(letters)]
  <1> DEFINE S == {"%", "c", "s", "d", "u", "x", "X", "l"}
  <1>1. letters \in Seq(S) /\ Len(letters) \in 1 .. 3
    <2>1. ASSUME NEW a \in S, NEW b \in S, NEW c \in S
          PROVE  /\ <<a>> \in Seq(S) /\ <<a, b>> \in Seq(S) /\ <<a, b, c>> \in Seq(S)
                 /\ Len(<<a>>) = 1 /\ Len(<<a, b>>) = 2 /\ Len(<<a, b, c>>) = 3
      <3> HIDE DEF S
      <3> QED OBVIOUS
    <2>2. \/ \E a \in S : letters = <<a>>
          \/ \E a, b \in S : letters = <<a, b>>
          \/ \E a, b, c \in S : letters = <<a, b, c>>
      BY DEF AllLetters, Conversions
    <2> HIDE DEF S
    <2> QED BY <2>1, <2>2
  <1>2. <<"%">> \in Seq(S) /\ Len(<<"%">>) = 1 /\ <<"%">>[1] = "%"
    OBVIOUS
  <1> DEFINE q == <<"%">>
  <1> HIDE DEF S, q
  <1>3. /\ piece \in Seq(S) /\ Len(piece) = Len(letters) + 1
        /\ piece[1] = "%" /\ \A i \in 1 .. Len(letters) : piece[i + 1] = letters[i]
    <2>1. piece = q \o letters /\ q \in Seq(S) /\ Len(q) = 1 /\ q[1] = "%"
      BY <1>2 DEF q
    <2>2. /\ Len(piece) = Len(q) + Len(letters)
          /\ \A i \in 1 .. Len(q) + Len(letters) : piece[i] = IF i <= Len(q) THEN q[i] ELSE letters[i - Len(q)]
          /\ piece \in Seq(S)
      BY <1>1, <2>1, ConcatProperties
    <2> QED BY <1>1, <2>1, <2>2
  <1>4. Tail(piece) = letters
    <2>1. piece # << >>
      BY <1>1, <1>3
    <2>2. /\ Tail(piece) \in Seq(S) /\ Len(Tail(piece)) = Len(piece) - 1
          /\ \A i \in 1 .. Len(Tail(piece)) : Tail(piece)[i] = piece[i + 1]
      BY <1>3, <2>1, HeadTailProperties
    <2>3. Len(Tail(piece)) = Len(letters)
      BY <1>1, <1>3, <2>2
    <2> QED BY <1>1, <1>3, <2>2, <2>3, SeqEqual
  <1>5. Last(piece) = Last(letters) /\ Last(letters) = letters[Len(letters)]
    <2>1. Last(piece) = piece[Len(letters) + 1] /\ Last(letters) = letters[Len(letters)]
      BY <1>3 DEF Last
    <2> QED BY <1>1, <1>3, <2>1
  <1> QED BY <1>1, <1>3, <1>4, <1>5

(* A number with its last digits. *)
LastDigits(v, size, letters) == [k \in 1 .. size |-> Digit(v, size - k, letters)]

(* A numeral has the digits that the number needs.                         *)
LEMMA NumeralDigits ==
  ASSUME NEW letters \in Conversions, NEW v \in Nat, v < Power[Base(letters)][Room(letters)]
  PROVE  \E size \in 1 .. LongSize :
           /\ v < Power[Base(letters)][size]
           /\ Numeral(v, letters) = LastDigits(v, size, letters)
  <1> DEFINE b == Base(letters)
             p(n) == Power[b][n]
             IsSize(n) == v < p(n) /\ (n = 1 \/ v >= p(n - 1))
             T == { n \in 1 .. LongSize : v < p(n) }
             room == Room(letters)
  <1>1. /\ b \in {10, 16} /\ LongSize \in Nat /\ room \in 1 .. LongSize
        /\ \A n \in 0 .. LongSize : p(n) \in Nat \ {0}
    <2>1. b \in {10, 16} /\ room \in 1 .. LongSize
      BY Rooms
    <2> QED BY <2>1, PowersGrow
  <1>2. v < p(room)
    OBVIOUS
  <1> HIDE DEF p, room
  <1>3. PICK m \in T : \A n \in T : m <= n
    <2>1. T \in SUBSET Nat /\ room \in T
      BY <1>1, <1>2
    <2> HIDE DEF T
    <2> QED BY <2>1, Least
  <1>4. m \in 1 .. LongSize /\ IsSize(m)
    <2>1. m \in 1 .. LongSize /\ v < p(m)
      OBVIOUS
    <2>2. ASSUME m # 1 PROVE v >= p(m - 1)
      <3>1. m - 1 \in 1 .. LongSize /\ ~(m <= m - 1)
        BY <1>1, <2>1, <2>2
      <3>2. m - 1 \notin T
        BY <1>3, <3>1
      <3>3. p(m - 1) \in Nat
        BY <1>1, <3>1
      <3> QED BY <3>1, <3>2, <3>3
    <2> QED BY <2>1, <2>2
  <1> DEFINE size == CHOOSE n \in 1 .. LongSize : IsSize(n)
  <1>5. size \in 1 .. LongSize /\ IsSize(size)
    <2> HIDE DEF IsSize
    <2> QED BY <1>4
  <1>6. Numeral(v, letters) = [k \in 1 .. size |-> Digit(v, size - k, letters)]
    BY DEF Numeral, Digit, p
  <1> HIDE DEF size
  <1> QED BY <1>5, <1>6 DEF p, LastDigits

(* What a numeral is made of.                                              *)
LEMMA NumeralType ==
  ASSUME NEW letters \in Conversions, NEW v \in Nat, v < Power[Base(letters)][Room(letters)]
  PROVE  Numeral(v, letters) \in Seq(AnyDigit)
  <1> DEFINE b == Base(letters)
             p(n) == Power[b][n]
  <1>1. b \in {10, 16} /\ LongSize \in Nat /\ \A n \in 0 .. LongSize : p(n) \in Nat \ {0}
    <2>1. b \in {10, 16}
      BY Rooms
    <2> QED BY <2>1, PowersGrow
  <1>2. PICK size \in 1 .. LongSize : Numeral(v, letters) = LastDigits(v, size, letters)
    BY NumeralDigits
  <1> HIDE DEF p
  <1>3. ASSUME NEW k \in 1 .. size PROVE Digit(v, size - k, letters) \in AnyDigit
    <2>1. size - k \in 0 .. LongSize
      BY <1>1, <1>2
    <2>2. p(size - k) \in Nat \ {0}
      BY <1>1, <2>1
    <2> DEFINE q == v \div p(size - k)
    <2>3. q \in Nat
      BY <2>2, Quotient
    <2>4. Digit(v, size - k, letters) = DigitOf(q % b, letters)
      BY DEF Digit, p
    <2> HIDE DEF q
    <2>5. q % b \in 0 .. 15
      <3>1. b \in Nat \ {0} /\ q \in Int
        BY <1>1, <2>3
      <3> HIDE DEF b
      <3>2. q % b \in 0 .. b - 1
        BY <3>1, ModRange
      <3> QED BY <1>1, <3>2
    <2>6. DigitOf(q % b, letters) \in AnyDigit
      BY <2>5 DEF AnyDigit, DigitOf, Range, Lower, Capital, Decimals
    <2> QED BY <2>4, <2>6
  <1> DEFINE digits == LastDigits(v, size, letters)
  <1>4. digits \in [1 .. size -> AnyDigit]
    BY <1>3 DEF LastDigits
  <1> HIDE DEF digits
  <1>5. digits \in Seq(AnyDigit)
    BY <1>2, <1>4
  <1> QED BY <1>2, <1>5 DEF digits

(* A directive takes an integer of its range.                              *)
Takes(letters, a) ==
  IF Last(letters) = "d" THEN a \in -Half(letters) .. Half(letters) - 1
                         ELSE a \in 0 .. 2 * Half(letters) - 1

Unsigned(a) == IF a < 0 THEN -a ELSE a

(* Such an integer is converted as it is, and has room in the buffer.      *)
LEMMA ConvertValue ==
  ASSUME NEW letters \in Conversions, NEW a, Takes(letters, a)
  PROVE  LET v == Wrap(a, Half(letters))
         IN /\ a \in Int /\ Unsigned(a) \in Nat
            /\ Unsigned(a) < Power[Base(letters)][Room(letters)]
            /\ Last(letters) = "d" => /\ v < 0 <=> a < 0
                                      /\ Magnitude(v, Half(letters)) = Unsigned(a)
            /\ Last(letters) # "d" => a >= 0 /\ v % (2 * Half(letters)) = Unsigned(a)
  <1> DEFINE half == Half(letters)
             power == Power[Base(letters)][Room(letters)]
  <1>1. /\ half \in Nat \ {0}
        /\ Last(letters) = "d" => half < power /\ a \in -half .. half - 1
        /\ Last(letters) # "d" => 2 * half <= power /\ a \in 0 .. 2 * half - 1
    BY Rooms DEF Takes
  <1>2. power \in Nat
    <2>1. Base(letters) \in {10, 16} /\ Room(letters) \in 0 .. LongSize
      BY Rooms, PowersGrow
    <2> QED BY <2>1, PowersGrow
  <1> HIDE DEF half, power
  <1>3. a \in Int /\ Unsigned(a) \in Nat /\ Unsigned(a) < power
    BY <1>1, <1>2 DEF Unsigned
  <1>4. ASSUME Last(letters) = "d"
        PROVE  Wrap(a, half) = a /\ Magnitude(a, half) = Unsigned(a)
    <2>1. (a + half) % (2 * half) = a + half
      BY <1>1, <1>4
    <2>2. Wrap(a, half) = a
      BY <1>1, <1>3, <2>1 DEF Wrap
    <2>3. CASE a < 0
      <3>1. a % (2 * half) = a + 2 * half
        BY <1>1, <1>4, <2>3
      <3>2. (-(a + 2 * half)) % (2 * half) = -a
        BY <1>1, <1>4, <2>3
      <3> QED BY <2>2, <2>3, <3>1, <3>2 DEF Magnitude, Unsigned
    <2>4. CASE ~(a < 0)
      BY <2>2, <2>4 DEF Magnitude, Unsigned
    <2> QED BY <2>2, <2>3, <2>4
  <1>5. ASSUME Last(letters) # "d"
        PROVE  a >= 0 /\ Wrap(a, half) % (2 * half) = Unsigned(a)
    <2>1. CASE a < half
      <3>1. (a + half) % (2 * half) = a + half
        BY <1>1, <1>5, <2>1
      <3>2. a % (2 * half) = a
        BY <1>1, <1>5, <2>1
      <3> QED BY <1>1, <1>3, <1>5, <3>1, <3>2 DEF Wrap, Unsigned
    <2>2. CASE a >= half
      <3>1. (a + half) % (2 * half) = a - half
        BY <1>1, <1>5, <2>2
      <3>2. (a - 2 * half) % (2 * half) = a
        BY <1>1, <1>5, <2>2
      <3>3. Wrap(a, half) = a - 2 * half
        BY <1>1, <1>3, <3>1 DEF Wrap
      <3> QED BY <1>1, <1>5, <3>2, <3>3 DEF Unsigned
    <2> QED BY <1>1, <1>3, <1>5, <2>1, <2>2
  <1> QED BY <1>3, <1>4, <1>5 DEF half, power

(* Two sequences of one element.                                          *)
LEMMA Pair ==
  ASSUME NEW a, NEW b
  PROVE  <<a>> \o <<b>> = <<a, b>>
  <1> DEFINE S == {a, b}
             p == <<a>>
             q == <<b>>
             r == <<a, b>>
  <1>1. p \in Seq(S) /\ q \in Seq(S) /\ r \in Seq(S) /\ Len(p) = 1 /\ Len(q) = 1 /\ Len(r) = 2
        /\ p[1] = a /\ q[1] = b /\ r[1] = a /\ r[2] = b
    OBVIOUS
  <1> HIDE DEF S, p, q, r
  <1>2. p \o q \in Seq(S) /\ Len(p \o q) = 2 /\ (p \o q)[1] = a /\ (p \o q)[2] = b
    BY <1>1, ConcatProperties
  <1>3. p \o q = r
    BY <1>1, <1>2, SeqEqual
  <1> QED BY <1>3 DEF p, q, r

(* What the pieces of a format stand for.                                  *)
LEMMA TextCases ==
  ASSUME NEW piece, NEW arg
  PROVE  /\ piece \in Seq(AnyChar) /\ Plain(piece) => TextOf(piece, arg) = piece
         /\ TextOf(<<"%", "%">>, arg) = <<"%">>
         /\ TextOf(<<"%", "c">>, arg) = arg.text /\ TextOf(<<"%", "s">>, arg) = arg.text
         /\ \A letters \in Conversions :
              piece = <<"%">> \o letters /\ arg.int \in Int =>
                TextOf(piece, arg) = IF arg.int < 0 THEN <<"-">> \o Numeral(Unsigned(arg.int), letters)
                                                    ELSE Numeral(Unsigned(arg.int), letters)
  <1>1. ASSUME piece \in Seq(AnyChar), Plain(piece) PROVE TextOf(piece, arg) = piece
    <2>1. 1 \in DOMAIN piece
      BY <1>1 DEF Plain
    <2>2. piece[1] # "%"
      BY <1>1, <2>1 DEF Plain
    <2> QED BY <2>2 DEF TextOf
  <1>2. /\ TextOf(<<"%", "%">>, arg) = <<"%">>
        /\ TextOf(<<"%", "c">>, arg) = arg.text /\ TextOf(<<"%", "s">>, arg) = arg.text
    <2>1. ASSUME NEW c \in {"%", "c", "s"} PROVE <<"%", c>>[1] = "%" /\ Last(<<"%", c>>) = c
      BY DEF Last
    <2>2. ASSUME NEW p, NEW c \in {"%", "c", "s"}, p[1] = "%", Last(p) = c
          PROVE  TextOf(p, arg) = IF c = "%" THEN <<"%">> ELSE arg.text
      BY <2>2 DEF TextOf
    <2> QED BY <2>1, <2>2
  <1>4. ASSUME NEW letters \in Conversions, piece = <<"%">> \o letters, arg.int \in Int
        PROVE  TextOf(piece, arg) = IF arg.int < 0 THEN <<"-">> \o Numeral(Unsigned(arg.int), letters)
                                                   ELSE Numeral(Unsigned(arg.int), letters)
    <2>1. piece[1] = "%" /\ Last(piece) = Last(letters) /\ Tail(piece) = letters
      BY <1>4, Spelling DEF AllLetters
    <2>2. Last(letters) \in {"d", "u", "x", "X"}
      BY LettersOf
    <2>3. TextOf(piece, arg) = IF arg.int < 0 THEN <<"-">> \o Numeral(-arg.int, letters)
                                              ELSE Numeral(arg.int, letters)
      BY <2>1, <2>2, Zenon DEF TextOf
    <2>4. CASE arg.int < 0
      <3>1. Unsigned(arg.int) = -arg.int
        BY <2>4 DEF Unsigned
      <3> QED BY <2>3, <2>4, <3>1
    <2>5. CASE ~(arg.int < 0)
      <3>1. Unsigned(arg.int) = arg.int
        BY <2>5 DEF Unsigned
      <3> QED BY <2>3, <2>5, <3>1
    <2> QED BY <2>4, <2>5
  <1> QED BY <1>1, <1>2, <1>4

(* An argument that suits a piece.                                         *)
Suits(piece, arg) ==
  /\ arg \in Arg
  /\ \A letters \in Conversions : piece = <<"%">> \o letters => Takes(letters, arg.int)

(* The text of a piece is a sequence of characters.                        *)
LEMMA TextType ==
  ASSUME NEW piece \in Seq(AnyChar), NEW arg, piece \in Directives \/ Plain(piece),
         TakesArgument(piece) => Suits(piece, arg)
  PROVE  TextOf(piece, arg) \in Seq(AnyChar)
  <1>1. CASE Plain(piece)
    BY <1>1, TextCases
  <1>2. CASE piece = <<"%", "%">>
    <2>1. <<"%">> \in Seq(AnyChar)
      BY One DEF AnyChar
    <2> QED BY <1>2, <2>1, TextCases
  <1>3. CASE TakesArgument(piece)
    <2>1. arg \in Arg /\ Suits(piece, arg)
      BY <1>3 DEF Suits
    <2>2. PICK letters \in AllLetters : piece = <<"%">> \o letters
      BY <1>3 DEF TakesArgument, Directives, AllLetters
    <2>3. arg.text \in Seq(AnyChar) /\ arg.int \in Int
      <3>1. STRING \subseteq AnyChar
        BY DEF AnyChar
      <3> QED BY <2>1, <3>1, Widen DEF Arg
    <2>4. CASE letters \in Conversions
      <3> DEFINE a == arg.int
                 n == Numeral(Unsigned(a), letters)
      <3>1. Takes(letters, a)
        BY <2>1, <2>2, <2>4 DEF Suits
      <3>2. n \in Seq(AnyDigit)
        <4>1. Unsigned(a) \in Nat /\ Unsigned(a) < Power[Base(letters)][Room(letters)]
          BY <2>4, <3>1, ConvertValue
        <4> QED BY <2>4, <4>1, NumeralType
      <3>3. n \in Seq(AnyChar)
        <4>1. AnyDigit \subseteq AnyChar
          BY DEF AnyChar
        <4> QED BY <3>2, <4>1, Widen
      <3>4. <<"-">> \o n \in Seq(AnyChar)
        <4>1. <<"-">> \in Seq(AnyChar)
          BY One DEF AnyChar
        <4> QED BY <3>3, <4>1, ConcatProperties
      <3>5. TextOf(piece, arg) = IF a < 0 THEN <<"-">> \o n ELSE n
        BY <2>2, <2>3, <2>4, TextCases
      <3> HIDE DEF n, a
      <3> QED BY <3>3, <3>4, <3>5
    <2>5. CASE letters \in { <<"c">>, <<"s">> }
      <3>1. piece \in { <<"%", "c">>, <<"%", "s">> }
        BY <2>2, <2>5, Pair
      <3> QED BY <2>3, <3>1, TextCases
    <2>6. CASE letters = <<"%">>
      <3>1. piece = <<"%", "%">>
        BY <2>2, <2>6, Pair
      <3> QED BY <1>2, <3>1
    <2> QED BY <2>2, <2>4, <2>5, <2>6 DEF AllLetters
  <1> QED BY <1>1, <1>2, <1>3 DEF TakesArgument

(* The texts of all pieces, and the arguments they are made from.          *)
ArgOf(pieces, args, i) == IF TakesArgument(pieces[i]) THEN args[Taken(pieces, i)] ELSE NoNumber

Texts(pieces, args) == [i \in 1 .. Len(pieces) |-> TextOf(pieces[i], ArgOf(pieces, args, i))]

Suited(pieces, args) ==
  /\ pieces \in Seq(Seq(AnyChar)) /\ args \in Seq(Arg)
  /\ Len(args) = Taken(pieces, Len(pieces))
  /\ \A i \in 1 .. Len(pieces) :
       TakesArgument(pieces[i]) => Suits(pieces[i], args[Taken(pieces, i)])

(* So is each of the texts that are due.                                   *)
LEMMA TextsType ==
  ASSUME NEW pieces, NEW args, Suited(pieces, args), Defined(pieces)
  PROVE  Texts(pieces, args) \in Seq(Seq(AnyChar)) /\ Len(Texts(pieces, args)) = Len(pieces)
  <1>1. pieces \in Seq(Seq(AnyChar)) /\ Len(pieces) \in Nat
    BY DEF Suited
  <1>2. ASSUME NEW i \in 1 .. Len(pieces)
        PROVE  TextOf(pieces[i], ArgOf(pieces, args, i)) \in Seq(AnyChar)
    <2>1. pieces[i] \in Seq(AnyChar) /\ (pieces[i] \in Directives \/ Plain(pieces[i]))
      BY <1>1 DEF Defined
    <2>2. TakesArgument(pieces[i]) => Suits(pieces[i], ArgOf(pieces, args, i))
      BY DEF Suited, ArgOf
    <2> QED BY <2>1, <2>2, TextType
  <1> QED BY <1>1, <1>2 DEF Texts

(* The call, its pieces and the text that is due.                          *)
N == Len(call.pieces)

P(k) == Joined(call.pieces, k)

T(k) == Joined(Texts(call.pieces, call.args), k)

(* Where the pieces are, and what their texts are.                         *)
LEMMA Pieces ==
  ASSUME Suited(call.pieces, call.args), Defined(call.pieces), format = FlattenSeq(call.pieces)
  PROVE  /\ N \in Nat /\ P(0) = << >> /\ T(0) = << >> /\ P(N) = format
         /\ \A k \in 0 .. N : /\ P(k) \in Seq(AnyChar) /\ T(k) \in Seq(AnyChar)
                              /\ Len(P(k)) \in 0 .. Len(format) /\ Len(T(k)) \in 0 .. Len(T(N))
                              /\ T(k) = Reference(k)
         /\ \A k \in 0 .. N - 1 :
              LET piece == call.pieces[k + 1]
                  text  == TextOf(piece, ArgOf(call.pieces, call.args, k + 1))
              IN /\ piece \in Seq(AnyChar) /\ (piece \in Directives \/ Plain(piece))
                 /\ text \in Seq(AnyChar) /\ T(k + 1) = T(k) \o text
                 /\ Len(P(k + 1)) = Len(P(k)) + Len(piece)
                 /\ \A i \in 1 .. Len(piece) : format[Len(P(k)) + i] = piece[i]
  <1> DEFINE p == call.pieces
             t == Texts(call.pieces, call.args)
  <1>1. /\ p \in Seq(Seq(AnyChar)) /\ t \in Seq(Seq(AnyChar)) /\ Len(t) = N /\ N \in Nat /\ Len(p) = N
    <2>1. p \in Seq(Seq(AnyChar)) /\ Len(p) = N
      BY DEF Suited, N
    <2>2. t \in Seq(Seq(AnyChar)) /\ Len(t) = N
      BY TextsType DEF N
    <2> HIDE DEF p, t
    <2> QED BY <2>1, <2>2
  <1>2. /\ Joined(p, 0) = << >> /\ Joined(t, 0) = << >> /\ Joined(p, N) = format
        /\ \A k \in 0 .. N : Joined(p, k) \in Seq(AnyChar) /\ Joined(t, k) \in Seq(AnyChar)
        /\ \A k \in 0 .. N - 1 : /\ Joined(p, k + 1) = Joined(p, k) \o p[k + 1]
                                 /\ Joined(t, k + 1) = Joined(t, k) \o t[k + 1]
    <2> HIDE DEF t
    <2>1. /\ Joined(p, 0) = << >> /\ Joined(p, Len(p)) = FlattenSeq(p)
          /\ \A k \in 0 .. Len(p) : Joined(p, k) \in Seq(AnyChar)
          /\ \A k \in 0 .. Len(p) - 1 : Joined(p, k + 1) = Joined(p, k) \o p[k + 1]
      BY <1>1, JoinedSteps
    <2>2. /\ Joined(t, 0) = << >>
          /\ \A k \in 0 .. Len(t) : Joined(t, k) \in Seq(AnyChar)
          /\ \A k \in 0 .. Len(t) - 1 : Joined(t, k + 1) = Joined(t, k) \o t[k + 1]
      BY <1>1, JoinedSteps
    <2> QED BY <1>1, <2>1, <2>2
  <1>3. ASSUME NEW k \in 0 .. N
        PROVE  /\ Len(Joined(p, k)) \in 0 .. Len(format)
               /\ Len(Joined(t, k)) \in 0 .. Len(Joined(t, N))
               /\ \A i \in 1 .. Len(Joined(p, k)) : format[i] = Joined(p, k)[i]
    <2> HIDE DEF p, t
    <2>1. k \in 0 .. Len(p) /\ N \in k .. Len(p) /\ k \in 0 .. Len(t) /\ N \in k .. Len(t)
      BY <1>1
    <2>2. /\ Len(Joined(p, k)) <= Len(Joined(p, N))
          /\ \A i \in 1 .. Len(Joined(p, k)) : Joined(p, N)[i] = Joined(p, k)[i]
          /\ Len(Joined(t, k)) <= Len(Joined(t, N))
      BY <1>1, <2>1, JoinedPlaces
    <2>3. Len(Joined(p, k)) \in Nat /\ Len(Joined(t, k)) \in Nat /\ Len(format) \in Nat /\ Len(Joined(t, N)) \in Nat
      <3>1. N \in 0 .. N
        BY <1>1
      <3> QED BY <1>2, <3>1
    <2> QED BY <1>2, <2>2, <2>3
  <1>4. ASSUME NEW k \in 0 .. N PROVE T(k) = Reference(k)
    <2>1. \A i \in 1 .. k : t[i] = TextOf(call.pieces[i], ArgOf(call.pieces, call.args, i))
      BY <1>1 DEF Texts, N
    <2>2. [i \in 1 .. k |-> t[i]] = [i \in 1 .. k |-> TextOf(call.pieces[i], ArgOf(call.pieces, call.args, i))]
      BY <2>1
    <2>3. Reference(k) = FlattenSeq([i \in 1 .. k |-> TextOf(call.pieces[i], ArgOf(call.pieces, call.args, i))])
      BY DEF Reference, ArgOf
    <2> HIDE DEF t
    <2> QED BY <2>2, <2>3 DEF T, Joined, t
  <1>5. ASSUME NEW k \in 0 .. N - 1
        PROVE  LET piece == call.pieces[k + 1]
                   text  == TextOf(piece, ArgOf(call.pieces, call.args, k + 1))
               IN /\ piece \in Seq(AnyChar) /\ (piece \in Directives \/ Plain(piece))
                  /\ text \in Seq(AnyChar) /\ T(k + 1) = T(k) \o text
                  /\ Len(P(k + 1)) = Len(P(k)) + Len(piece)
                  /\ \A i \in 1 .. Len(piece) : format[Len(P(k)) + i] = piece[i]
    <2> DEFINE piece == call.pieces[k + 1]
               text  == TextOf(piece, ArgOf(call.pieces, call.args, k + 1))
               J(j) == Joined(p, j)
    <2>1. k \in 0 .. N /\ k + 1 \in 0 .. N /\ k + 1 \in 1 .. N
      BY <1>1
    <2>2. piece \in Seq(AnyChar) /\ (piece \in Directives \/ Plain(piece))
      BY <1>1, <2>1 DEF Defined, N
    <2>3. t[k + 1] = text /\ t[k + 1] \in Seq(AnyChar)
      BY <1>1, <2>1 DEF Texts, N
    <2>4. T(k + 1) = T(k) \o text
      <3> HIDE DEF t, text
      <3> QED BY <1>2, <2>3 DEF T, t
    <2>5. J(k + 1) = J(k) \o piece /\ J(k) \in Seq(AnyChar) /\ J(k + 1) \in Seq(AnyChar)
      BY <1>2, <2>1
    <2>6. \A i \in 1 .. Len(J(k + 1)) : format[i] = J(k + 1)[i]
      BY <1>3, <2>1
    <2> HIDE DEF piece, J, text
    <2>7. /\ Len(J(k + 1)) = Len(J(k)) + Len(piece)
          /\ \A i \in 1 .. Len(J(k)) + Len(piece) :
               J(k + 1)[i] = IF i <= Len(J(k)) THEN J(k)[i] ELSE piece[i - Len(J(k))]
      BY <2>2, <2>5, ConcatProperties
    <2>8. Len(J(k)) \in Nat /\ Len(piece) \in Nat
      BY <2>2, <2>5
    <2>9. ASSUME NEW i \in 1 .. Len(piece) PROVE format[Len(J(k)) + i] = piece[i]
      <3>1. /\ Len(J(k)) + i \in 1 .. Len(J(k)) + Len(piece) /\ ~(Len(J(k)) + i <= Len(J(k)))
            /\ (Len(J(k)) + i) - Len(J(k)) = i
        BY <2>8
      <3> QED BY <2>6, <2>7, <3>1
    <2> QED BY <2>2, <2>3, <2>4, <2>7, <2>9 DEF piece, text, P, J
  <1> HIDE DEF p, t
  <1> QED BY <1>1, <1>2, <1>3, <1>4, <1>5 DEF P, T, p, t

(* The letters of a directive, one by one; none begins with another's.     *)
Alphabet == {"%", "c", "s", "d", "u", "x", "X", "l"}

(* The letters before the last are all l, and the last is none.            *)
LEMMA LetterByLetter ==
  ASSUME NEW l \in AllLetters
  PROVE  /\ l \in Seq(Alphabet) /\ Len(l) \in 1 .. 3
         /\ \A i \in 1 .. Len(l) - 1 : l[i] = "l"
         /\ l[Len(l)] \in Alphabet \ {"l"}
         /\ Len(l) # 1 => l \in Conversions /\ l[Len(l)] \in {"d", "u", "x", "X"}
  <1>1. ASSUME NEW a \in Alphabet, NEW b \in Alphabet, NEW c \in Alphabet
        PROVE  /\ <<a>> \in Seq(Alphabet) /\ <<a, b>> \in Seq(Alphabet) /\ <<a, b, c>> \in Seq(Alphabet)
               /\ Len(<<a>>) = 1 /\ Len(<<a, b>>) = 2 /\ Len(<<a, b, c>>) = 3
               /\ <<a>>[1] = a /\ <<a, b>>[1] = a /\ <<a, b>>[2] = b
               /\ <<a, b, c>>[1] = a /\ <<a, b, c>>[2] = b /\ <<a, b, c>>[3] = c
    OBVIOUS
  <1>2. \/ \E a \in Alphabet \ {"l"} : l = <<a>>
        \/ \E a \in {"d", "u", "x", "X"} : l = <<"l", a>> /\ l \in Conversions
        \/ \E a \in {"d", "u", "x", "X"} : l = <<"l", "l", a>> /\ l \in Conversions
    BY DEF AllLetters, Conversions, Alphabet
  <1>3. "l" \in Alphabet /\ {"d", "u", "x", "X"} \subseteq Alphabet \ {"l"}
    BY DEF Alphabet
  <1>4. CASE \E a \in Alphabet \ {"l"} : l = <<a>>
    BY <1>1, <1>4
  <1>5. CASE \E a \in {"d", "u", "x", "X"} : l = <<"l", a>> /\ l \in Conversions
    <2>1. PICK a \in {"d", "u", "x", "X"} : l = <<"l", a>> /\ l \in Conversions
      BY <1>5
    <2>2. a \in Alphabet \ {"l"}
      BY <1>3
    <2>3. l \in Seq(Alphabet) /\ Len(l) = 2 /\ l[1] = "l" /\ l[2] = a
      BY <1>1, <1>3, <2>1, <2>2
    <2> QED BY <2>1, <2>2, <2>3
  <1>6. CASE \E a \in {"d", "u", "x", "X"} : l = <<"l", "l", a>> /\ l \in Conversions
    <2>1. PICK a \in {"d", "u", "x", "X"} : l = <<"l", "l", a>> /\ l \in Conversions
      BY <1>6
    <2>2. a \in Alphabet \ {"l"}
      BY <1>3
    <2>3. l \in Seq(Alphabet) /\ Len(l) = 3 /\ l[1] = "l" /\ l[2] = "l" /\ l[3] = a
      BY <1>1, <1>3, <2>1, <2>2
    <2> QED BY <2>1, <2>2, <2>3
  <1> QED BY <1>2, <1>4, <1>5, <1>6

(* So no directive is the beginning of another.                            *)
LEMMA PrefixFree ==
  ASSUME NEW l \in AllLetters, NEW m \in AllLetters,
         \A i \in 1 .. Len(l) : i <= Len(m) => l[i] = m[i]
  PROVE  l = m
  <1>1. /\ l \in Seq(Alphabet) /\ Len(l) \in 1 .. 3
        /\ \A i \in 1 .. Len(l) - 1 : l[i] = "l"
        /\ l[Len(l)] # "l"
    BY LetterByLetter
  <1>2. /\ m \in Seq(Alphabet) /\ Len(m) \in 1 .. 3
        /\ \A i \in 1 .. Len(m) - 1 : m[i] = "l"
        /\ m[Len(m)] # "l"
    BY LetterByLetter
  <1>3. CASE Len(l) < Len(m)
    <2> DEFINE a == Len(l)
               b == Len(m)
    <2>1. a \in 1 .. a /\ a <= b /\ a \in 1 .. b - 1
      <3>1. a \in 1 .. 3 /\ b \in 1 .. 3 /\ a < b
        BY <1>1, <1>2, <1>3
      <3> HIDE DEF a, b
      <3> QED BY <3>1
    <2> QED BY <1>1, <1>2, <2>1
  <1>4. CASE Len(m) < Len(l)
    <2> DEFINE a == Len(m)
               b == Len(l)
    <2>1. a \in 1 .. b /\ a \in 1 .. b - 1 /\ a <= a
      <3>1. a \in 1 .. 3 /\ b \in 1 .. 3 /\ a < b
        BY <1>1, <1>2, <1>4
      <3> HIDE DEF a, b
      <3> QED BY <3>1
    <2>2. l[Len(m)] = m[Len(m)]
      BY <1>2, <2>1
    <2> QED BY <1>1, <1>2, <2>1, <2>2
  <1>5. CASE Len(l) = Len(m)
    BY <1>1, <1>2, <1>5, SeqEqual
  <1> QED BY <1>1, <1>2, <1>3, <1>4, <1>5

(* Where a piece begins, its characters are what is read.                  *)
LEMMA Reads ==
  ASSUME Suited(call.pieces, call.args), Defined(call.pieces), format = FlattenSeq(call.pieces),
         NEW k \in 0 .. N, pos = Len(P(k)) + 1
  PROVE  /\ k = N => At(pos) = "NUL"
         /\ k # N => LET piece == call.pieces[k + 1]
                     IN /\ Len(piece) \in Nat \ {0}
                        /\ \A i \in 0 .. Len(piece) - 1 : At(pos + i) = piece[i + 1]
                        /\ Plain(piece) => At(pos) \notin {"%", "NUL"}
                        /\ piece \in Directives => At(pos) = "%"
  <1>1. CASE k = N
    <2>1. Len(P(N)) = Len(format) /\ Len(format) \in Nat
      <3>1. N \in Nat /\ P(N) = format /\ \A j \in 0 .. N : P(j) \in Seq(AnyChar)
        BY Pieces
      <3>2. P(N) \in Seq(AnyChar)
        BY <3>1
      <3> QED BY <3>1, <3>2
    <2> QED BY <1>1, <2>1 DEF At
  <1>2. CASE k # N
    <2> DEFINE piece == call.pieces[k + 1]
    <2>1. k \in 0 .. N - 1 /\ k + 1 \in 0 .. N /\ N \in Nat
      BY <1>2, Pieces
    <2>2. /\ piece \in Seq(AnyChar) /\ (piece \in Directives \/ Plain(piece))
          /\ Len(P(k + 1)) = Len(P(k)) + Len(piece)
          /\ \A i \in 1 .. Len(piece) : format[Len(P(k)) + i] = piece[i]
      BY <2>1, Pieces
    <2>3. Len(P(k + 1)) \in 0 .. Len(format) /\ Len(P(k)) \in 0 .. Len(format)
      BY <2>1, Pieces
    <2>4. piece \in Directives => Len(piece) # 0 /\ piece[1] = "%"
      <3> SUFFICES ASSUME piece \in Directives PROVE Len(piece) # 0 /\ piece[1] = "%"
        OBVIOUS
      <3>1. PICK l \in AllLetters : piece = <<"%">> \o l
        BY DEF Directives, AllLetters
      <3>2. Len(piece) = Len(l) + 1 /\ Len(l) \in 1 .. 3 /\ piece[1] = "%"
        BY <3>1, Spelling
      <3> HIDE DEF piece
      <3> QED BY <3>2
    <2>5. Plain(piece) => Len(piece) # 0 /\ piece[1] \notin {"%", "NUL"}
      <3> HIDE DEF piece
      <3>1. Plain(piece) => Len(piece) # 0
        BY <2>2 DEF Plain
      <3>2. Plain(piece) => 1 \in DOMAIN piece
        BY <2>2, <3>1
      <3> QED BY <3>1, <3>2 DEF Plain
    <2> DEFINE here == Len(P(k))
               size == Len(piece)
    <2>6. size \in Nat \ {0} /\ here \in Nat /\ pos = here + 1 /\ here + size <= Len(format)
          /\ Len(format) \in Nat
      <3>1. size \in Nat /\ size # 0
        BY <2>2, <2>4, <2>5
      <3>2. Len(format) \in Nat
        <4>1. format \in Seq(AnyChar)
          <5>1. N \in 0 .. N
            BY <2>1
          <5> QED BY <5>1, Pieces
        <4> QED BY <4>1
      <3> QED BY <2>2, <2>3, <3>1, <3>2
    <2>7. ASSUME NEW i \in 0 .. size - 1 PROVE At(pos + i) = piece[i + 1]
      <3>1. \A j \in 1 .. size : format[here + j] = piece[j]
        BY <2>2
      <3> HIDE DEF size, here, piece
      <3>2. i + 1 \in 1 .. size /\ pos + i = here + (i + 1) /\ pos + i <= Len(format)
        BY <2>6
      <3> QED BY <3>1, <3>2 DEF At
    <2>8. At(pos) = piece[1]
      <3>1. 0 \in 0 .. size - 1
        <4> HIDE DEF size
        <4> QED BY <2>6
      <3>2. pos + 0 = pos /\ 0 + 1 = 1
        BY <2>6
      <3> QED BY <2>7, <3>1, <3>2
    <2> QED BY <1>2, <2>4, <2>5, <2>6, <2>7, <2>8
  <1> QED BY <1>1, <1>2

(* So a directive is read as itself. *)
LEMMA ReadAsWritten ==
  ASSUME Suited(call.pieces, call.args), Defined(call.pieces), format = FlattenSeq(call.pieces),
         NEW k \in 0 .. N, pos = Len(P(k)) + 1, At(pos) = "%"
  PROVE  /\ k # N
         /\ \E m \in AllLetters :
              /\ call.pieces[k + 1] = <<"%">> \o m
              /\ \A i \in 1 .. Len(m) : At(pos + i) = m[i]
              /\ \A l \in AllLetters : Directive(l) => l = m
  <1> DEFINE piece == call.pieces[k + 1]
  <1>1. k # N
    BY Reads
  <1>2. k \in 0 .. N - 1 /\ N \in Nat
    BY <1>1, Pieces
  <1>3. piece \in Directives
    BY <1>1, <1>2, Pieces, Reads
  <1>4. PICK m \in AllLetters : piece = <<"%">> \o m
    BY <1>3 DEF Directives, AllLetters
  <1>5. Len(m) \in 1 .. 3 /\ Len(piece) = Len(m) + 1 /\ \A i \in 1 .. Len(m) : piece[i + 1] = m[i]
    BY <1>4, Spelling
  <1>6. \A i \in 0 .. Len(piece) - 1 : At(pos + i) = piece[i + 1]
    BY <1>1, Reads
  <1>7. \A i \in 1 .. Len(m) : At(pos + i) = m[i]
    <2> HIDE DEF piece
    <2> SUFFICES ASSUME NEW i \in 1 .. Len(m) PROVE At(pos + i) = m[i]
      OBVIOUS
    <2>1. i \in 0 .. Len(piece) - 1
      BY <1>5
    <2> QED BY <1>5, <1>6, <2>1
  <1>8. ASSUME NEW l \in AllLetters, Directive(l) PROVE l = m
    <2>1. \A i \in 1 .. Len(l) : At(pos + i) = l[i]
      BY <1>8 DEF Directive
    <2>2. Len(l) \in 1 .. 3
      BY LetterByLetter
    <2>3. \A i \in 1 .. Len(l) : i <= Len(m) => l[i] = m[i]
      <3> SUFFICES ASSUME NEW i \in 1 .. Len(l), i <= Len(m) PROVE l[i] = m[i]
        OBVIOUS
      <3>1. i \in 1 .. Len(m)
        BY <1>5, <2>2
      <3> QED BY <1>7, <2>1, <3>1
    <2> QED BY <2>3, PrefixFree
  <1> QED BY <1>1, <1>4, <1>7, <1>8

(* The rest of the code's cases is for what is no directive.               *)
LEMMA NothingUnknown ==
  ASSUME Suited(call.pieces, call.args), Defined(call.pieces), format = FlattenSeq(call.pieces),
         NEW k \in 0 .. N, pos = Len(P(k)) + 1
  PROVE  ~Unknown /\ ~LongUnknown
  <1> SUFFICES ASSUME Unknown \/ LongUnknown PROVE FALSE
    OBVIOUS
  <1>1. At(pos) = "%"
    BY DEF Unknown, LongUnknown, Directive
  <1>2. PICK m \in AllLetters : \A i \in 1 .. Len(m) : At(pos + i) = m[i]
    BY <1>1, ReadAsWritten
  <1>3. /\ Len(m) \in 1 .. 3 /\ \A i \in 1 .. Len(m) - 1 : m[i] = "l"
        /\ m[Len(m)] \in Alphabet \ {"l"}
        /\ Len(m) # 1 => m[Len(m)] \in {"d", "u", "x", "X"}
    BY LetterByLetter
  <1> DEFINE a(i) == At(pos + i)
  <1>4. \/ a(1) \in Alphabet \ {"l"}
        \/ a(1) = "l" /\ a(2) \in {"d", "u", "x", "X"}
        \/ a(1) = "l" /\ a(2) = "l" /\ a(3) \in {"d", "u", "x", "X"}
    <2>1. \A i \in 1 .. Len(m) : a(i) = m[i]
      BY <1>2
    <2> HIDE DEF a
    <2>2. CASE Len(m) = 1
      BY <1>3, <2>1, <2>2
    <2>3. CASE Len(m) = 2
      BY <1>3, <2>1, <2>3
    <2>4. CASE Len(m) = 3
      BY <1>3, <2>1, <2>4
    <2> QED BY <1>3, <2>2, <2>3, <2>4
  <1>5. ~Unknown
    <2>1. Unknown => a(1) \notin Alphabet
      BY DEF Unknown, Alphabet
    <2> HIDE DEF a
    <2> QED BY <1>4, <2>1 DEF Alphabet
  <1>6. ~LongUnknown
    <2>0. pos \in Int
      <3>1. P(k) \in Seq(AnyChar)
        BY Pieces
      <3> QED BY <3>1
    <2>1. LongUnknown => \/ a(1) = "l" /\ a(2) \notin {"d", "u", "x", "X", "l"}
                         \/ a(1) = "l" /\ a(2) = "l" /\ a(3) \notin {"d", "u", "x", "X"}
      <3> SUFFICES ASSUME NEW l \in { <<"l">>, <<"l", "l">> },
                          Directive(l), At(After(l)) \notin {"d", "u", "x", "X"},
                          l = <<"l">> => At(After(l)) # "l"
                   PROVE  \/ a(1) = "l" /\ a(2) \notin {"d", "u", "x", "X", "l"}
                          \/ a(1) = "l" /\ a(2) = "l" /\ a(3) \notin {"d", "u", "x", "X"}
        BY DEF LongUnknown
      <3>1. \A i \in 1 .. Len(l) : a(i) = l[i]
        BY DEF Directive
      <3>2. CASE l = <<"l">>
        <4>1. After(l) = pos + 2
          BY <2>0, <3>2 DEF After
        <4>2. a(1) = "l"
          <5> HIDE DEF a
          <5> QED BY <3>1, <3>2
        <4> QED BY <3>2, <4>1, <4>2
      <3>3. CASE l = <<"l", "l">>
        <4>1. After(l) = pos + 3
          BY <2>0, <3>3 DEF After
        <4>2. a(1) = "l" /\ a(2) = "l"
          <5> HIDE DEF a
          <5> QED BY <3>1, <3>3
        <4> QED BY <3>3, <4>1, <4>2
      <3> QED BY <3>2, <3>3
    <2> HIDE DEF a
    <2> QED BY <1>4, <2>1 DEF Alphabet
  <1> QED BY <1>5, <1>6

(* How far the call is: the texts of the first k pieces are written, and   *)
(* their arguments taken; or the number of the piece after them is being   *)
(* converted, and the digits that are there belong to it.                  *)
ArgsLeft(n) == ap = SubSeq(call.args, n + 1, Len(call.args))

Converts(k) ==
  /\ k # N /\ call.pieces[k + 1] = <<"%">> \o number.letters
  /\ LET a == call.args[Taken(call.pieces, k + 1)].int
     IN /\ number.negative = (a < 0)
        /\ Digits(number.text, number.value, Unsigned(a), number.letters)

Progress(k) ==
  /\ pos = Len(P(k)) + 1 /\ str = T(k)
  /\ IF number = NoNumber THEN ArgsLeft(Taken(call.pieces, k))
                          ELSE ArgsLeft(Taken(call.pieces, k + 1)) /\ Converts(k)

RenderInv ==
  /\ Suited(call.pieces, call.args)
  /\ status = "idle" => str = << >>
  /\ status # "idle" => format = FlattenSeq(call.pieces)
  /\ status = "busy" /\ Defined(call.pieces) => \E k \in 0 .. N : Progress(k)
  /\ Rendered

(* A text that is emitted brings the call to the next piece, or ends it    *)
(* because the whole is too long.                                          *)
LEMMA Emitted ==
  ASSUME Types, RenderInv, Defined(call.pieces), status = "busy",
         NEW k \in 0 .. N, str = T(k),
         NEW m \in 0 .. N, NEW text \in Seq(AnyChar), T(m) = T(k) \o text,
         NEW next, next = Len(P(m)) + 1, Emit(text, next),
         call' = call, format' = format, number' = NoNumber, ArgsLeft(Taken(call.pieces, m))'
  PROVE  RenderInv'
  <1>1. Suited(call.pieces, call.args) /\ format = FlattenSeq(call.pieces)
    BY DEF RenderInv
  <1>2. /\ T(k) \in Seq(AnyChar) /\ Len(T(m)) \in 0 .. Len(T(N)) /\ T(N) = Reference(N)
        /\ Len(T(N)) \in Nat
    <2>1. N \in 0 .. N
      BY <1>1, Pieces
    <2>2. T(N) \in Seq(AnyChar)
      BY <1>1, <2>1, Pieces
    <2> QED BY <1>1, <2>1, <2>2, Pieces
  <1>3. Len(T(m)) = Len(str) + Len(text) /\ Len(str) \in Nat /\ Len(text) \in Nat
    BY <1>2, ConcatProperties
  <1>4. /\ Suited(call.pieces, call.args)' /\ (format = FlattenSeq(call.pieces))'
        /\ (status # "idle")'
    BY <1>1 DEF Emit, Suited
  <1>5. CASE INT_MAX - Len(str) < Len(text)
    <2>1. status' = "returned" /\ result' = -1
      BY <1>5 DEF Emit, written
    <2>2. Len(T(N)) > INT_MAX
      BY <1>2, <1>3, <1>5, IntRange
    <2>3. (Len(Reference(N)) > INT_MAX)'
      BY <1>2, <2>2 DEF Reference, N, INT_MAX
    <2>4. Rendered'
      BY <2>1, <2>3 DEF Rendered, N
    <2> QED BY <1>4, <2>1, <2>4 DEF RenderInv
  <1>6. CASE ~(INT_MAX - Len(str) < Len(text))
    <2>1. /\ status' = "busy" /\ str' = str \o text /\ pos' = next
      BY <1>6 DEF Emit, written
    <2>2. Progress(m)'
      <3>1. P(m)' = P(m) /\ T(m)' = T(m)
        BY DEF P, T
      <3> QED BY <2>1, <3>1 DEF Progress
    <2>3. (m \in 0 .. N)'
      BY DEF N
    <2>4. Rendered'
      BY <2>1 DEF Rendered
    <2> QED BY <1>4, <2>1, <2>2, <2>3, <2>4 DEF RenderInv
  <1> QED BY <1>5, <1>6

(* More of a sequence. *)
LEMMA SubSeqMore ==
  ASSUME NEW S, NEW s \in Seq(S), NEW t \in Seq(S), NEW i \in Nat \ {0}, NEW j \in Nat, i <= j + 1,
         j + Len(t) <= Len(s), \A n \in 1 .. Len(t) : s[j + n] = t[n]
  PROVE  SubSeq(s, i, j + Len(t)) = SubSeq(s, i, j) \o t
  <1> DEFINE m == Len(t)
             u == SubSeq(s, i, j)
             v == SubSeq(s, i, j + m)
             d == (j - i) + 1
  <1>1. /\ m \in Nat /\ i \in Int /\ j \in Int /\ j + m \in Int /\ d \in Nat
        /\ i <= j => j - i + 1 = d
        /\ ~(i <= j) => d = 0
        /\ i <= j + m => (j + m) - i + 1 = d + m
        /\ ~(i <= j + m) => d + m = 0
    OBVIOUS
  <1>2. (\A n \in i .. j + m : s[n] \in S) /\ (\A n \in i .. j : s[n] \in S)
    OBVIOUS
  <1>3. u \in Seq(S) /\ Len(u) = d /\ \A n \in 1 .. d : u[n] = s[i + n - 1]
    <2> HIDE DEF m
    <2> QED BY <1>1, <1>2, SubSeqProperties
  <1>4. v \in Seq(S) /\ Len(v) = d + m /\ \A n \in 1 .. d + m : v[n] = s[i + n - 1]
    <2> HIDE DEF m
    <2>1. /\ v \in Seq(S)
          /\ Len(v) = IF i <= j + m THEN j + m - i + 1 ELSE 0
          /\ \A n \in 1 .. j + m - i + 1 : v[n] = s[i + n - 1]
      BY <1>1, <1>2, SubSeqProperties
    <2>2. j + m - i + 1 = d + m
      BY <1>1
    <2> HIDE DEF v, d
    <2> QED BY <1>1, <2>1, <2>2
  <1>5. \A n \in 1 .. m : s[j + n] = t[n]
    OBVIOUS
  <1>6. i + d = j + 1
    OBVIOUS
  <1> DEFINE w == u \o t
  <1>7. /\ w \in Seq(S) /\ Len(w) = d + m
        /\ \A n \in 1 .. d + m : w[n] = IF n <= d THEN u[n] ELSE t[n - d]
    <2> HIDE DEF u, d
    <2>1. Len(w) = Len(u) + Len(t) /\ w \in Seq(S)
          /\ \A n \in 1 .. Len(u) + Len(t) : w[n] = IF n <= Len(u) THEN u[n] ELSE t[n - Len(u)]
      BY <1>3, ConcatProperties
    <2> QED BY <1>3, <2>1
  <1> HIDE DEF u, v, w, m, d
  <1>8. \A n \in 1 .. d + m : v[n] = w[n]
    <2> SUFFICES ASSUME NEW n \in 1 .. d + m PROVE v[n] = w[n]
      OBVIOUS
    <2>1. CASE n <= d
      <3>1. n \in 1 .. d
        BY <1>1, <2>1
      <3> QED BY <1>3, <1>4, <1>7, <2>1, <3>1
    <2>2. CASE ~(n <= d)
      <3>1. n - d \in 1 .. m /\ i + n - 1 = j + (n - d)
        BY <1>1, <1>6, <2>2
      <3>2. w[n] = t[n - d] /\ v[n] = s[j + (n - d)]
        BY <1>4, <1>7, <2>2, <3>1
      <3> QED BY <1>5, <3>1, <3>2
    <2> QED BY <2>1, <2>2
  <1>9. v = w
    BY <1>4, <1>7, <1>8, SeqEqual
  <1> QED BY <1>9 DEF v, w, u, m

(* A piece that is text, and a doubled %, takes no argument.               *)
LEMMA TakesNone ==
  ASSUME NEW piece, Plain(piece) \/ piece = <<"%", "%">>
  PROVE  ~TakesArgument(piece)
  <1> SUFFICES ASSUME TakesArgument(piece) PROVE FALSE
    OBVIOUS
  <1>1. PICK l \in AllLetters : piece = <<"%">> \o l
    BY DEF TakesArgument, Directives, AllLetters
  <1>2. piece[1] = "%" /\ Len(piece) \in Nat \ {0} /\ 1 \in DOMAIN piece
    <2>1. piece[1] = "%" /\ Len(piece) = Len(l) + 1 /\ Len(l) \in 1 .. 3
      BY <1>1, Spelling
    <2>2. piece \in Seq(Alphabet)
      <3>1. <<"%">> \in Seq(Alphabet) /\ l \in Seq(Alphabet)
        BY LetterByLetter, One DEF Alphabet
      <3> QED BY <1>1, <3>1, ConcatProperties
    <2> QED BY <2>1, <2>2
  <1> QED BY <1>2 DEF Plain, TakesArgument

(* A run of ordinary characters that starts in the piece after the k-th    *)
(* covers the j-th: it is what the pieces' texts are, and has no %.        *)
Covers(start, k, j) ==
  /\ T(j) = T(k) \o SubSeq(format, start, Len(P(j)))
  /\ start <= Len(P(j))
  /\ \A i \in start + 1 .. Len(P(j)) : format[i] \notin {"%", "NUL"}
  /\ Taken(call.pieces, j) = Taken(call.pieces, k)

(* It covers the piece that it starts in, a doubled % from its second one. *)
LEMMA RunBegins ==
  ASSUME Suited(call.pieces, call.args), Defined(call.pieces), format = FlattenSeq(call.pieces),
         NEW k \in 0 .. N, pos = Len(P(k)) + 1, Ordinary
  PROVE  LET start == IF At(pos) = "%" THEN pos + 1 ELSE pos
         IN k # N /\ start \in Nat \ {0} /\ Covers(start, k, k + 1)
  <1> DEFINE start == IF At(pos) = "%" THEN pos + 1 ELSE pos
             piece == call.pieces[k + 1]
             text == TextOf(piece, ArgOf(call.pieces, call.args, k + 1))
             here == Len(P(k))
             size == Len(piece)
  <1>1. k # N
    BY Reads DEF Ordinary
  <1>2. k \in 0 .. N - 1 /\ N \in Nat /\ k + 1 \in 0 .. N
    BY <1>1, Pieces
  <1>3. /\ piece \in Seq(AnyChar) /\ (piece \in Directives \/ Plain(piece))
        /\ text \in Seq(AnyChar) /\ T(k + 1) = T(k) \o text
        /\ Len(P(k + 1)) = here + size
        /\ \A i \in 1 .. size : format[here + i] = piece[i]
    BY <1>2, Pieces
  <1>4. /\ size \in Nat \ {0}
        /\ Plain(piece) => At(pos) \notin {"%", "NUL"}
        /\ piece \in Directives => At(pos) = "%"
    BY <1>1, Reads
  <1>5. format \in Seq(AnyChar) /\ here \in Nat /\ here + size <= Len(format) /\ pos = here + 1
    <2>1. /\ P(N) = format /\ \A j \in 0 .. N : P(j) \in Seq(AnyChar) /\ Len(P(j)) \in 0 .. Len(format)
      BY Pieces
    <2>2. format \in Seq(AnyChar) /\ P(k) \in Seq(AnyChar) /\ Len(P(k + 1)) <= Len(format)
      <3>1. N \in 0 .. N
        BY <1>2
      <3> QED BY <1>2, <2>1, <3>1
    <2> QED BY <1>3, <2>2
  <1>6. Taken(call.pieces, k + 1) = IF TakesArgument(piece) THEN Taken(call.pieces, k) + 1
                                                            ELSE Taken(call.pieces, k)
    <2>1. k \in Nat
      BY <1>2
    <2> QED BY <2>1, TakenSteps
  <1>7. CASE Plain(piece)
    <2>1. start = here + 1
      BY <1>4, <1>5, <1>7
    <2>2. text = piece
      BY <1>3, <1>7, TextCases
    <2>3. SubSeq(format, here + 1, here + size) = piece
      <3> DEFINE s == here + 1
      <3>1. s \in Nat \ {0} /\ s <= here + 1
        BY <1>5
      <3> HIDE DEF piece, s, text, start
      <3>2. SubSeq(format, s, here + size) = SubSeq(format, s, here) \o piece
        <4> HIDE DEF here
        <4> QED BY <1>3, <1>5, <3>1, SubSeqMore
      <3>3. SubSeq(format, s, here) = << >>
        <4>1. here \in Int /\ s \in Int /\ here < s
          BY <1>5 DEF s
        <4> QED BY <4>1, SubSeqEmpty
      <3> QED BY <1>3, <3>2, <3>3, ConcatEmptySeq DEF s
    <2>4. \A i \in start + 1 .. here + size : format[i] \notin {"%", "NUL"}
      <3>1. \A n \in 1 .. size : piece[n] \notin {"%", "NUL"}
        BY <1>3, <1>7 DEF Plain
      <3> HIDE DEF piece, here, size, start, text
      <3> SUFFICES ASSUME NEW i \in start + 1 .. here + size PROVE format[i] \notin {"%", "NUL"}
        OBVIOUS
      <3>2. i - here \in 1 .. size /\ here + (i - here) = i
        BY <1>4, <1>5, <2>1
      <3> QED BY <1>3, <3>1, <3>2
    <2>5. Taken(call.pieces, k + 1) = Taken(call.pieces, k)
      BY <1>6, <1>7, TakesNone
    <2>6. start <= here + size /\ start \in Nat \ {0}
      <3> HIDE DEF here, size, start
      <3> QED BY <1>4, <1>5, <2>1
    <2> HIDE DEF start, here, size, piece, text
    <2> QED BY <1>1, <1>3, <2>1, <2>2, <2>3, <2>4, <2>5, <2>6 DEF Covers, start
  <1>8. CASE piece \in Directives
    <2>1. At(pos) = "%" /\ At(pos + 1) = "%"
      BY <1>4, <1>8 DEF Ordinary
    <2>2. piece = <<"%", "%">>
      <3>1. PICK m \in AllLetters : piece = <<"%">> \o m /\ \A i \in 1 .. Len(m) : At(pos + i) = m[i]
        BY <2>1, ReadAsWritten
      <3>2. /\ m \in Seq(Alphabet) /\ Len(m) \in 1 .. 3 /\ m[1] = "%"
            /\ \A i \in 1 .. Len(m) - 1 : m[i] = "l"
        BY <2>1, <3>1, LetterByLetter
      <3>3. Len(m) = 1
        <4> SUFFICES ASSUME Len(m) # 1 PROVE FALSE
          OBVIOUS
        <4>1. 1 \in 1 .. Len(m) - 1
          <5> DEFINE b == Len(m)
          <5>1. b \in 1 .. 3 /\ b # 1
            BY <3>2
          <5> HIDE DEF b
          <5>2. 1 \in 1 .. b - 1
            BY <5>1
          <5> QED BY <5>2 DEF b
        <4> QED BY <3>2, <4>1
      <3>4. m = <<"%">>
        BY <3>2, <3>3
      <3> HIDE DEF piece
      <3> QED BY <3>1, <3>4, Pair
    <2>3. start = here + 2 /\ text = <<"%">> /\ size = 2 /\ piece[2] = "%"
      <3>1. start = here + 2
        BY <1>5, <2>1
      <3>2. text = <<"%">> /\ size = 2 /\ piece[2] = "%"
        BY <2>2, TextCases
      <3> QED BY <3>1, <3>2
    <2>4. SubSeq(format, here + 2, here + 2) = text
      <3> DEFINE i == here + 2
                 j == here + 1
                 t == <<"%">>
      <3>1. i \in Nat \ {0} /\ j \in Nat /\ i <= j + 1 /\ j \in Int /\ i \in Int /\ j < i
        BY <1>5
      <3>2. t \in Seq(AnyChar) /\ Len(t) = 1 /\ t[1] = "%"
        BY One DEF AnyChar
      <3>3. j + 1 = i /\ j + Len(t) = i /\ j + Len(t) <= Len(format) /\ format[i] = "%"
        <4>1. format[here + 2] = piece[2]
          BY <1>3, <2>3
        <4> HIDE DEF t, here, size, piece
        <4> QED BY <1>5, <2>3, <3>2, <4>1
      <3> HIDE DEF t, i, j
      <3>4. \A n \in 1 .. Len(t) : format[j + n] = t[n]
        BY <3>2, <3>3
      <3>5. SubSeq(format, i, j + Len(t)) = SubSeq(format, i, j) \o t
        BY <1>5, <3>1, <3>2, <3>3, <3>4, SubSeqMore
      <3>6. SubSeq(format, i, j) = << >>
        BY <3>1, SubSeqEmpty
      <3>7. SubSeq(format, i, i) = t
        BY <3>2, <3>3, <3>5, <3>6, ConcatEmptySeq
      <3> QED BY <2>3, <3>7 DEF i, t
    <2>5. Taken(call.pieces, k + 1) = Taken(call.pieces, k)
      BY <1>6, <2>2, TakesNone
    <2> HIDE DEF start, here, size, piece, text
    <2>6. start \in Nat \ {0} /\ here + size = here + 2 /\ start <= here + size
          /\ start + 1 .. here + size = {}
      BY <1>5, <2>3
    <2> QED BY <1>1, <1>3, <2>3, <2>4, <2>5, <2>6 DEF Covers, start
  <1> QED BY <1>3, <1>7, <1>8

(* The lengths of the pieces. *)
LEMMA Lengths ==
  ASSUME Suited(call.pieces, call.args), Defined(call.pieces), format = FlattenSeq(call.pieces)
  PROVE  /\ N \in Nat /\ format \in Seq(AnyChar) /\ Len(format) \in Nat /\ Len(P(N)) = Len(format)
         /\ \A i \in 0 .. N : /\ Len(P(i)) \in Nat /\ Len(P(i)) <= Len(format)
                              /\ T(i) \in Seq(AnyChar)
  <1>1. N \in Nat /\ P(N) = format
    BY Pieces
  <1>2. \A i \in 0 .. N : P(i) \in Seq(AnyChar) /\ Len(P(i)) \in 0 .. Len(format) /\ T(i) \in Seq(AnyChar)
    BY Pieces
  <1>3. format \in Seq(AnyChar) /\ Len(format) \in Nat
    <2>1. N \in 0 .. N
      BY <1>1
    <2>2. format \in Seq(AnyChar)
      BY <1>1, <1>2, <2>1
    <2> QED BY <2>2
  <1> QED BY <1>1, <1>2, <1>3

(* It goes on through text, and ends at a directive or the format's end.   *)
LEMMA RunGoesOn ==
  ASSUME Suited(call.pieces, call.args), Defined(call.pieces), format = FlattenSeq(call.pieces),
         NEW k \in 0 .. N, NEW j \in 0 .. N - 1, NEW start \in Nat \ {0}, Covers(start, k, j),
         Plain(call.pieces[j + 1])
  PROVE  Covers(start, k, j + 1)
  <1> DEFINE piece == call.pieces[j + 1]
             text == TextOf(piece, ArgOf(call.pieces, call.args, j + 1))
             here == Len(P(j))
             size == Len(piece)
             run(n) == SubSeq(format, start, n)
  <1>1. N \in Nat /\ j \in Nat /\ j + 1 \in 0 .. N /\ j \in 0 .. N
    BY Pieces, SMTT(30)
  <1>2. /\ piece \in Seq(AnyChar) /\ text = piece /\ T(j + 1) = T(j) \o piece
        /\ Len(P(j + 1)) = here + size
        /\ \A i \in 1 .. size : format[here + i] = piece[i]
    <2>1. piece \in Seq(AnyChar) /\ T(j + 1) = T(j) \o text
      BY Pieces
    <2>2. text = piece
      BY <2>1, TextCases
    <2> HIDE DEF text
    <2> QED BY <2>1, <2>2, Pieces
  <1>3. /\ format \in Seq(AnyChar) /\ T(k) \in Seq(AnyChar) /\ here \in Nat /\ size \in Nat
        /\ here + size <= Len(format)
    <2>1. /\ format \in Seq(AnyChar) /\ Len(P(j)) \in Nat /\ Len(P(j + 1)) <= Len(format)
          /\ T(k) \in Seq(AnyChar)
      BY <1>1, Lengths
    <2>2. size \in Nat
      BY <1>2
    <2> QED BY <1>2, <2>1, <2>2
  <1>4. /\ T(j) = T(k) \o run(here) /\ start <= here
        /\ \A i \in start + 1 .. here : format[i] \notin {"%", "NUL"}
        /\ Taken(call.pieces, j) = Taken(call.pieces, k)
    BY DEF Covers
  <1>5. T(j + 1) = T(k) \o run(here + size)
    <2>1. run(here + size) = run(here) \o piece
      <3>1. start <= here + 1
        <4> HIDE DEF here
        <4> QED BY <1>3, <1>4
      <3> HIDE DEF here, piece
      <3> QED BY <1>2, <1>3, <3>1, SubSeqMore
    <2>2. run(here) \in Seq(AnyChar)
      <3> HIDE DEF here
      <3>1. \A i \in start .. here : format[i] \in AnyChar
        BY <1>3
      <3> QED BY <1>3, <3>1, SubSeqProperties
    <2> DEFINE a == T(k)
               b == run(here)
    <2> HIDE DEF run, piece, here, size, text
    <2>3. (a \o b) \o piece = a \o (b \o piece)
      <3>1. a \in Seq(AnyChar) /\ b \in Seq(AnyChar) /\ piece \in Seq(AnyChar)
        BY <1>2, <1>3, <2>2
      <3> HIDE DEF a, b
      <3> QED BY <3>1, ConcatAssociative, SMTT(30)
    <2> QED BY <1>2, <1>4, <2>1, <2>3
  <1>6. \A i \in start + 1 .. here + size : format[i] \notin {"%", "NUL"}
    <2>1. \A n \in 1 .. size : piece[n] \notin {"%", "NUL"}
      BY <1>2 DEF Plain
    <2> HIDE DEF piece, here, size, text, run
    <2> SUFFICES ASSUME NEW i \in start + 1 .. here + size PROVE format[i] \notin {"%", "NUL"}
      OBVIOUS
    <2>2. CASE i <= here
      <3>1. i \in start + 1 .. here
        BY <1>3, <2>2
      <3> QED BY <1>4, <3>1
    <2>3. CASE ~(i <= here)
      <3>1. i - here \in 1 .. size /\ here + (i - here) = i
        BY <1>3, <2>3
      <3> QED BY <1>2, <2>1, <3>1
    <2> QED BY <2>2, <2>3
  <1>7. Taken(call.pieces, j + 1) = Taken(call.pieces, k)
    <2>1. ~TakesArgument(piece)
      BY TakesNone
    <2> QED BY <1>1, <1>4, <2>1, TakenSteps
  <1>8. start <= here + size
    <2> HIDE DEF here, size
    <2> QED BY <1>3, <1>4
  <1> HIDE DEF run, piece, here, size, text
  <1> QED BY <1>2, <1>5, <1>6, <1>7, <1>8 DEF Covers, run

(* It ends where a piece begins that is no text, or the format does.       *)
LEMMA RunStops ==
  ASSUME Suited(call.pieces, call.args), Defined(call.pieces), format = FlattenSeq(call.pieces),
         NEW k \in 0 .. N, NEW m \in 0 .. N, NEW start \in Nat \ {0}, Covers(start, k, m),
         m # N => ~Plain(call.pieces[m + 1])
  PROVE  RunEnd(start) = Len(P(m)) + 1
  <1> DEFINE e == Len(P(m)) + 1
             EndsAt(j) == At(j) \in {"%", "NUL"} /\ \A i \in start + 1 .. j - 1 : format[i] # "%"
  <1>1. /\ format \in Seq(AnyChar) /\ Len(format) \in Nat /\ e \in 1 .. Len(format) + 1
        /\ m = N => e = Len(format) + 1
    <2> DEFINE here == Len(P(m))
    <2>1. /\ format \in Seq(AnyChar) /\ Len(format) \in Nat /\ here \in Nat /\ here <= Len(format)
          /\ m = N => here = Len(format)
      BY Lengths
    <2> HIDE DEF here
    <2>2. here + 1 \in 1 .. Len(format) + 1
      BY <2>1
    <2> QED BY <2>1, <2>2 DEF here
  <1>2. m # N => e <= Len(format) /\ At(e) = "%"
    <2> SUFFICES ASSUME m # N PROVE e <= Len(format) /\ At(e) = "%"
      OBVIOUS
    <2> DEFINE piece == call.pieces[m + 1]
    <2>1. m \in 0 .. N - 1 /\ m + 1 \in 0 .. N
      <3>1. N \in Nat
        BY Pieces, Zenon
      <3> HIDE DEF e, EndsAt
      <3>2. \A n \in Nat : m \in 0 .. n /\ m # n => m \in 0 .. n - 1 /\ m + 1 \in 0 .. n
        OBVIOUS
      <3>3. m \in 0 .. N /\ m # N
        OBVIOUS
      <3> QED BY <3>1, <3>2, <3>3, Zenon
    <2>2. piece \in Directives /\ piece \in Seq(AnyChar) /\ Len(P(m + 1)) = Len(P(m)) + Len(piece)
          /\ \A i \in 1 .. Len(piece) : format[Len(P(m)) + i] = piece[i]
      BY <2>1, Pieces
    <2>3. Len(piece) \in Nat \ {0} /\ piece[1] = "%"
      <3>1. PICK l \in AllLetters : piece = <<"%">> \o l
        BY <2>2 DEF Directives, AllLetters
      <3>2. Len(piece) = Len(l) + 1 /\ Len(l) \in 1 .. 3 /\ piece[1] = "%"
        BY <3>1, Spelling
      <3> HIDE DEF piece
      <3> QED BY <3>2
    <2> DEFINE here == Len(P(m))
               size == Len(piece)
    <2>5. format[here + 1] = "%" /\ here \in Nat /\ here + size <= Len(format) /\ size \in Nat \ {0}
      <3>1. size \in Nat \ {0} /\ here \in Nat /\ piece[1] = "%"
            /\ here + size <= Len(format)
        BY <2>1, <2>2, <2>3, Lengths
      <3>2. \A i \in 1 .. size : format[here + i] = piece[i]
        BY <2>2
      <3> HIDE DEF here, size, piece
      <3>3. 1 \in 1 .. size
        BY <3>1
      <3> QED BY <3>1, <3>2, <3>3
    <2>6. e = here + 1
      OBVIOUS
    <2> HIDE DEF e, here, size, piece
    <2> QED BY <1>1, <2>5, <2>6 DEF At
  <1>3. At(e) \in {"%", "NUL"}
    <2>1. m = N => At(e) = "NUL"
      <3> HIDE DEF e
      <3> QED BY <1>1 DEF At
    <2> QED BY <1>2, <2>1
  <1>4. start + 1 <= e /\ \A i \in start + 1 .. e - 1 : format[i] \notin {"%", "NUL"}
    <2> DEFINE here == Len(P(m))
    <2>1. start <= here /\ \A i \in start + 1 .. here : format[i] \notin {"%", "NUL"}
      BY DEF Covers
    <2>2. here \in Nat /\ e = here + 1
      BY Pieces
    <2> HIDE DEF here, e
    <2>3. e - 1 = here
      BY <2>2
    <2> QED BY <2>1, <2>2, <2>3
  <1> HIDE DEF e
  <1>5. e \in start + 1 .. Len(format) + 1 /\ EndsAt(e)
    BY <1>1, <1>3, <1>4
  <1>6. ASSUME NEW j \in start + 1 .. Len(format) + 1, EndsAt(j) PROVE j = e
    <2>1. CASE j < e
      <3>1. j \in start + 1 .. e - 1 /\ j <= Len(format)
        BY <1>1, <2>1
      <3> QED BY <1>4, <1>6, <3>1 DEF At
    <2>2. CASE j > e
      <3>1. e \in start + 1 .. j - 1 /\ e <= Len(format)
        BY <1>1, <1>5, <2>2
      <3>2. format[e] # "%" /\ At(e) = format[e]
        BY <1>6, <3>1 DEF At
      <3>3. m # N
        BY <1>1, <3>1
      <3> QED BY <1>2, <3>2, <3>3
    <2> QED BY <1>1, <2>1, <2>2
  <1>7. RunEnd(start) = CHOOSE j \in start + 1 .. Len(format) + 1 : EndsAt(j)
    BY DEF RunEnd
  <1> HIDE DEF EndsAt
  <1>8. RunEnd(start) = e
    BY <1>5, <1>6, <1>7
  <1> QED BY <1>8 DEF e

(* Ordinary text: a run brings the call to the next directive or the end.  *)
LEMMA OrdinaryRenders ==
  ASSUME Types, RenderInv, Defined(call.pieces), NEW k \in 0 .. N, Progress(k), Ordinary
  PROVE  RenderInv'
  <1> DEFINE start == IF At(pos) = "%" THEN pos + 1 ELSE pos
             Ends == { m \in k + 1 .. N : m = N \/ ~Plain(call.pieces[m + 1]) }
  <1>1. /\ status = "busy" /\ number = NoNumber
        /\ Emit(SubSeq(format, start, RunEnd(start) - 1), RunEnd(start))
        /\ ap' = ap /\ call' = call /\ format' = format /\ number' = number
    BY DEF Ordinary, Busy
  <1>2. Suited(call.pieces, call.args) /\ format = FlattenSeq(call.pieces)
    BY <1>1 DEF RenderInv
  <1>3. pos = Len(P(k)) + 1 /\ str = T(k) /\ ArgsLeft(Taken(call.pieces, k))
    BY <1>1 DEF Progress
  <1>4. k # N /\ start \in Nat \ {0} /\ Covers(start, k, k + 1)
    BY <1>2, <1>3, RunBegins
  <1> HIDE DEF start
  <1>5. N \in Nat /\ k \in Nat /\ k + 1 \in 0 .. N
    BY <1>2, <1>4, Lengths
  <1>6. PICK m \in Ends : \A n \in Ends : m <= n
    <2>1. N \in Ends /\ Ends \in SUBSET Nat
      BY <1>5
    <2> HIDE DEF Ends
    <2> QED BY <2>1, Least
  <1>7. m \in k + 1 .. N /\ m \in 0 .. N /\ (m # N => ~Plain(call.pieces[m + 1]))
    BY <1>5
  <1>8. Covers(start, k, m)
    <2> DEFINE Good == { d \in Nat : k + 1 + d <= m => Covers(start, k, k + 1 + d) }
    <2>1. 0 \in Good
      <3>1. k + 1 + 0 = k + 1
        BY <1>5
      <3> QED BY <1>4, <3>1
    <2>2. ASSUME NEW d \in Nat, d \in Good PROVE d + 1 \in Good
      <3> DEFINE j == k + 1 + d
      <3> SUFFICES ASSUME k + 1 + (d + 1) <= m PROVE Covers(start, k, k + 1 + (d + 1))
        OBVIOUS
      <3>1. /\ k + 1 + (d + 1) = j + 1 /\ j \in 0 .. N - 1 /\ j < m /\ j \in k + 1 .. N /\ j <= m
            /\ j # N /\ ~(m <= j)
        BY <1>5, <1>7
      <3>2. Covers(start, k, j)
        BY <2>2, <3>1
      <3> HIDE DEF j
      <3>3. Plain(call.pieces[j + 1])
        <4>1. j \notin Ends
          BY <1>6, <3>1
        <4> QED BY <3>1, <4>1
      <3> QED BY <1>2, <1>4, <3>1, <3>2, <3>3, RunGoesOn
    <2> HIDE DEF Good
    <2>3. m - (k + 1) \in Nat /\ k + 1 + (m - (k + 1)) = m
      BY <1>5, <1>7
    <2>4. m - (k + 1) \in Good
      BY <2>1, <2>2, <2>3, Induction
    <2>5. Covers(start, k, k + 1 + (m - (k + 1)))
      BY <1>7, <2>3, <2>4 DEF Good
    <2> QED BY <2>3, <2>5
  <1> DEFINE here == Len(P(m))
             text == SubSeq(format, start, here)
  <1>9. RunEnd(start) = here + 1 /\ RunEnd(start) - 1 = here
    <2>1. RunEnd(start) = here + 1
      BY <1>2, <1>4, <1>7, <1>8, RunStops
    <2>2. here \in Nat
      BY <1>2, <1>7, Lengths
    <2> HIDE DEF here
    <2> QED BY <2>1, <2>2
  <1>10. T(m) = T(k) \o text /\ Taken(call.pieces, m) = Taken(call.pieces, k)
    BY <1>8 DEF Covers
  <1>11. text \in Seq(AnyChar)
    <2>1. format \in Seq(AnyChar) /\ here \in Nat /\ here <= Len(format) /\ start \in Nat \ {0}
      BY <1>2, <1>4, <1>7, Lengths
    <2> HIDE DEF here
    <2>2. \A i \in start .. here : format[i] \in AnyChar
      BY <2>1
    <2> QED BY <2>1, <2>2, SubSeqProperties
  <1>12. ArgsLeft(Taken(call.pieces, m))'
    BY <1>1, <1>3, <1>10 DEF ArgsLeft
  <1>13. Emit(text, RunEnd(start))
    BY <1>1, <1>9
  <1> HIDE DEF text, Ends
  <1>14. RunEnd(start) = Len(P(m)) + 1 /\ number' = NoNumber
    BY <1>1, <1>9
  <1> DEFINE next == RunEnd(start)
  <1> HIDE DEF next, here
  <1> QED BY <1>1, <1>3, <1>7, <1>10, <1>11, <1>12, <1>13, <1>14, Emitted DEF next

(* A directive takes the argument that it is due.                          *)
LEMMA DirectiveTakes ==
  ASSUME RenderInv, status = "busy", Defined(call.pieces), NEW k \in 0 .. N, Progress(k),
         NEW l \in AllLetters, l # <<"%">>, Directive(l), Take
  PROVE  LET n == Taken(call.pieces, k + 1)
             piece == call.pieces[k + 1]
         IN /\ k \in 0 .. N - 1 /\ k + 1 \in 0 .. N
            /\ piece = <<"%">> \o l /\ TakesArgument(piece)
            /\ ArgOf(call.pieces, call.args, k + 1) = call.args[n]
            /\ Head(ap) = call.args[n] /\ Suits(piece, call.args[n])
            /\ ap' = SubSeq(call.args, n + 1, Len(call.args))
            /\ After(l) = Len(P(k + 1)) + 1
  <1> DEFINE n == Taken(call.pieces, k + 1)
             piece == call.pieces[k + 1]
  <1>1. /\ Suited(call.pieces, call.args) /\ format = FlattenSeq(call.pieces)
        /\ number = NoNumber /\ At(pos) = "%" /\ ap # << >> /\ ap' = Tail(ap)
    BY DEF RenderInv, Directive, Busy, Take
  <1>2. pos = Len(P(k)) + 1 /\ ap = SubSeq(call.args, Taken(call.pieces, k) + 1, Len(call.args))
    BY <1>1 DEF Progress, ArgsLeft
  <1>3. k # N /\ piece = <<"%">> \o l
    BY <1>1, <1>2, ReadAsWritten
  <1>4. k \in 0 .. N - 1 /\ k + 1 \in 0 .. N /\ k + 1 \in 1 .. N /\ k \in Nat
    BY <1>1, <1>3, Lengths
  <1>5. TakesArgument(piece)
    <2>1. piece \in Directives
      BY <1>3 DEF AllLetters, Directives
    <2>2. piece # <<"%", "%">>
      <3> SUFFICES ASSUME piece = <<"%", "%">> PROVE FALSE
        OBVIOUS
      <3>1. Tail(piece) = l
        BY <1>3, Spelling
      <3>2. <<"%", "%">> = <<"%">> \o <<"%">> /\ <<"%">> \in AllLetters
        BY Pair DEF AllLetters
      <3>3. Tail(<<"%", "%">>) = <<"%">>
        BY <3>2, Spelling
      <3> QED BY <3>1, <3>3
    <2> QED BY <2>1, <2>2 DEF TakesArgument
  <1>6. n = Taken(call.pieces, k) + 1 /\ n \in Nat \ {0}
    <2>1. Taken(call.pieces, k) \in 0 .. k
      BY <1>4, TakenSteps
    <2>2. n = Taken(call.pieces, k) + 1
      BY <1>4, <1>5, TakenSteps
    <2> HIDE DEF n
    <2> QED BY <1>4, <2>1, <2>2
  <1> DEFINE args == call.args
  <1>7. args \in Seq(Arg) /\ ap = SubSeq(args, n, Len(args))
    BY <1>1, <1>2, <1>6 DEF Suited
  <1>8. Head(ap) = args[n] /\ ap' = SubSeq(args, n + 1, Len(args))
    <2> HIDE DEF args, n
    <2>1. n \in Int /\ Len(args) \in Int /\ \A i \in n .. Len(args) : args[i] \in Arg
      BY <1>6, <1>7
    <2>2. /\ ap \in Seq(Arg) /\ Len(ap) = IF n <= Len(args) THEN Len(args) - n + 1 ELSE 0
          /\ \A i \in 1 .. Len(args) - n + 1 : ap[i] = args[n + i - 1]
      BY <1>7, <2>1, SubSeqProperties
    <2>3. n <= Len(args) /\ Len(ap) = Len(args) - n + 1
      <3>1. Len(ap) # 0
        BY <1>1, <2>2
      <3> QED BY <2>2, <3>1
    <2> DEFINE rest == SubSeq(args, n + 1, Len(args))
    <2>4. /\ rest \in Seq(Arg)
          /\ Len(rest) = IF n + 1 <= Len(args) THEN Len(args) - (n + 1) + 1 ELSE 0
          /\ \A i \in 1 .. Len(args) - (n + 1) + 1 : rest[i] = args[(n + 1) + i - 1]
      <3>1. n + 1 \in Int /\ \A i \in n + 1 .. Len(args) : args[i] \in Arg
        BY <2>1, <1>6
      <3> QED BY <2>1, <3>1, SubSeqProperties
    <2>5. /\ Tail(ap) \in Seq(Arg) /\ Len(Tail(ap)) = Len(ap) - 1
          /\ \A i \in 1 .. Len(Tail(ap)) : Tail(ap)[i] = ap[i + 1]
          /\ Head(ap) = ap[1]
      BY <1>1, <2>2, HeadTailProperties
    <2>6. Head(ap) = args[n]
      <3>1. 1 \in 1 .. Len(args) - n + 1 /\ n + 1 - 1 = n
        BY <1>6, <2>1, <2>3
      <3> QED BY <2>2, <2>5, <3>1
    <2>7. Len(Tail(ap)) = Len(args) - n /\ Len(rest) = Len(args) - n
      BY <1>6, <2>1, <2>3, <2>4, <2>5
    <2> HIDE DEF rest
    <2>8. \A i \in 1 .. Len(rest) : Tail(ap)[i] = rest[i]
      <3> SUFFICES ASSUME NEW i \in 1 .. Len(rest) PROVE Tail(ap)[i] = rest[i]
        OBVIOUS
      <3>1. /\ i \in 1 .. Len(Tail(ap)) /\ i + 1 \in 1 .. Len(args) - n + 1
            /\ i \in 1 .. Len(args) - (n + 1) + 1 /\ n + (i + 1) - 1 = (n + 1) + i - 1
        BY <1>6, <2>1, <2>3, <2>7, SMTT(30)
      <3> QED BY <2>2, <2>4, <2>5, <3>1
    <2>9. Tail(ap) = rest
      BY <2>4, <2>5, <2>7, <2>8, SeqEqual
    <2> QED BY <1>1, <2>6, <2>9 DEF rest
  <1>9. Suits(piece, args[n]) /\ ArgOf(call.pieces, args, k + 1) = args[n]
    BY <1>1, <1>4, <1>5 DEF Suited, ArgOf, N
  <1>10. After(l) = Len(P(k + 1)) + 1
    <2>1. Len(P(k + 1)) = Len(P(k)) + Len(piece) /\ Len(P(k)) \in Nat
      BY <1>1, <1>4, Pieces, Lengths
    <2>2. Len(piece) = Len(l) + 1 /\ Len(l) \in 1 .. 3
      BY <1>3, Spelling
    <2> DEFINE a == Len(P(k))
               b == Len(l)
    <2>3. After(l) = (a + 1) + b + 1 /\ Len(P(k + 1)) = a + (b + 1) /\ a \in Nat /\ b \in 1 .. 3
      BY <1>2, <2>1, <2>2 DEF After
    <2> HIDE DEF a, b
    <2> QED BY <2>3
  <1> HIDE DEF piece, n
  <1> QED BY <1>3, <1>4, <1>5, <1>8, <1>9, <1>10 DEF piece, n

(* %c and %s write the argument that is theirs.                            *)
LEMMA TextRenders ==
  ASSUME Types, RenderInv, status = "busy", Defined(call.pieces), NEW k \in 0 .. N, Progress(k),
         Char \/ String
  PROVE  RenderInv'
  <1>1. PICK l \in { <<"c">>, <<"s">> } :
          /\ Directive(l) /\ Emit(Head(ap).text, After(l)) /\ Take
          /\ call' = call /\ format' = format /\ number' = number
    BY DEF Char, String
  <1>2. number = NoNumber /\ l \in AllLetters /\ l # <<"%">>
    <2>1. <<"c">> # <<"%">> /\ <<"s">> # <<"%">>
      OBVIOUS
    <2> QED BY <1>1, <2>1 DEF Directive, Busy, AllLetters
  <1> DEFINE piece == call.pieces[k + 1]
             n == Taken(call.pieces, k + 1)
             text == Head(ap).text
             next == After(l)
             m == k + 1
  <1>3. /\ k \in 0 .. N - 1 /\ m \in 0 .. N /\ piece = <<"%">> \o l
        /\ ArgOf(call.pieces, call.args, m) = Head(ap)
        /\ ap' = SubSeq(call.args, n + 1, Len(call.args)) /\ next = Len(P(m)) + 1
    BY <1>1, <1>2, DirectiveTakes
  <1>4. TextOf(piece, Head(ap)) = text
    <2>1. piece \in { <<"%", "c">>, <<"%", "s">> }
      BY <1>3, Pair
    <2> HIDE DEF piece
    <2> QED BY <2>1, TextCases
  <1>5. text \in Seq(AnyChar) /\ T(m) = T(k) \o text
    <2>1. Suited(call.pieces, call.args) /\ format = FlattenSeq(call.pieces)
      BY DEF RenderInv
    <2>2. LET t == TextOf(piece, ArgOf(call.pieces, call.args, m))
          IN t \in Seq(AnyChar) /\ T(m) = T(k) \o t
      BY <1>3, <2>1, Pieces
    <2> HIDE DEF piece, text
    <2> QED BY <1>3, <1>4, <2>2
  <1>6. ArgsLeft(Taken(call.pieces, m))' /\ str = T(k) /\ number' = NoNumber
    BY <1>1, <1>2, <1>3 DEF ArgsLeft, Progress
  <1>7. Emit(text, next)
    BY <1>1
  <1> HIDE DEF piece, n, text, next, m
  <1> QED BY <1>1, <1>3, <1>5, <1>6, <1>7, Emitted

(* A number starts without digits and with the value of its argument.      *)
LEMMA ConvertRenders ==
  ASSUME Types, RenderInv, status = "busy", Defined(call.pieces), NEW k \in 0 .. N, Progress(k),
         NEW letters \in Conversions, Convert(letters, Half(letters))
  PROVE  RenderInv'
  <1> DEFINE piece == call.pieces[k + 1]
             n == Taken(call.pieces, k + 1)
             arg == call.args[n]
             half == Half(letters)
             v == Wrap(arg.int, half)
  <1>1. /\ Directive(letters) /\ Take /\ number = NoNumber
        /\ call' = call /\ format' = format /\ pos' = pos /\ str' = str /\ status' = status
    BY DEF Convert, Directive, Busy
  <1>2. letters \in AllLetters /\ letters # <<"%">> /\ letters # << >>
    <2>1. Last(letters) \in {"d", "u", "x", "X"} /\ Len(letters) \in 1 .. 3
      BY LettersOf
    <2>2. Last(<<"%">>) = "%"
      BY DEF Last
    <2>3. letters # <<"%">>
      BY <2>1, <2>2
    <2> QED BY <2>1, <2>3 DEF AllLetters
  <1>3. /\ k \in 0 .. N - 1 /\ k + 1 \in 0 .. N /\ piece = <<"%">> \o letters
        /\ Head(ap) = arg /\ Suits(piece, arg)
        /\ ap' = SubSeq(call.args, n + 1, Len(call.args))
    BY <1>1, <1>2, DirectiveTakes
  <1>4. Takes(letters, arg.int)
    <2> HIDE DEF arg, piece
    <2> QED BY <1>3 DEF Suits
  <1> DEFINE a == arg.int
  <1>5. number' = [letters |-> letters, text |-> << >>, negative |-> (a < 0), value |-> Unsigned(a)]
    <2>1. number' = IF Last(letters) = "d"
                    THEN [letters |-> letters, text |-> << >>, negative |-> v < 0,
                          value |-> Magnitude(v, half)]
                    ELSE [letters |-> letters, text |-> << >>, negative |-> FALSE,
                          value |-> v % (2 * half)]
      BY <1>3 DEF Convert
    <2>2. /\ a \in Int
          /\ Last(letters) = "d" => (v < 0) = (a < 0) /\ Magnitude(v, half) = Unsigned(a)
          /\ Last(letters) # "d" => a >= 0 /\ v % (2 * half) = Unsigned(a)
      <3> HIDE DEF arg
      <3> QED BY <1>4, ConvertValue
    <2> HIDE DEF v, a, half, arg
    <2>3. Last(letters) # "d" => (a < 0) = FALSE
      BY <2>2
    <2>4. CASE Last(letters) = "d"
      BY <2>1, <2>2, <2>4, Zenon
    <2>5. CASE Last(letters) # "d"
      BY <2>1, <2>2, <2>3, <2>5, Zenon
    <2> QED BY <2>4, <2>5
  <1>6. number'.letters = letters /\ number'.text = << >> /\ number'.value = Unsigned(a)
        /\ number'.negative = (a < 0) /\ number' # NoNumber
    <2> HIDE DEF a
    <2> QED BY <1>2, <1>5 DEF NoNumber
  <1>7. Digits(<< >>, Unsigned(a), Unsigned(a), letters)
    <2>1. Unsigned(a) \in Nat
      <3> HIDE DEF arg
      <3> QED BY <1>4, ConvertValue
    <2> QED BY <2>1, DigitsStart
  <1>8. Progress(k)'
    <2>1. (pos = Len(P(k)) + 1 /\ str = T(k))'
      BY <1>1 DEF Progress, P, T
    <2>2. ArgsLeft(Taken(call.pieces, k + 1))'
      BY <1>1, <1>3 DEF ArgsLeft
    <2>3. k # N
      <3>1. N \in Nat
        BY Lengths DEF RenderInv
      <3> QED BY <1>3, <3>1
    <2>4. Converts(k)'
      <3> HIDE DEF a
      <3>1. Digits(number'.text, number'.value, Unsigned(a), number'.letters)
        BY <1>6, <1>7
      <3>2. call'.args[Taken(call'.pieces, k + 1)].int = a
        BY <1>1 DEF a
      <3>3. (k # N /\ call.pieces[k + 1] = <<"%">> \o number.letters)'
        BY <1>1, <1>3, <1>6, <2>3 DEF N
      <3> QED BY <1>6, <3>1, <3>2, <3>3 DEF Converts
    <2> QED BY <1>6, <2>1, <2>2, <2>4 DEF Progress
  <1>9. (k \in 0 .. N)' /\ status' = "busy"
    BY <1>1 DEF N
  <1>10. Suited(call.pieces, call.args)' /\ (format = FlattenSeq(call.pieces))'
    BY <1>1 DEF RenderInv, Suited
  <1>11. Rendered'
    BY <1>9 DEF Rendered
  <1> QED BY <1>8, <1>9, <1>10, <1>11 DEF RenderInv

(* The number in conversion is the argument of its directive.              *)
LEMMA ConvertsArgument ==
  ASSUME RenderInv, status = "busy", Defined(call.pieces), NEW k \in 0 .. N,
         number.letters \in Conversions, Converts(k)
  PROVE  LET n == Taken(call.pieces, k + 1)
         IN /\ k \in 0 .. N - 1 /\ k + 1 \in 0 .. N
            /\ ArgOf(call.pieces, call.args, k + 1) = call.args[n]
            /\ Takes(number.letters, call.args[n].int)
  <1> DEFINE letters == number.letters
             piece == call.pieces[k + 1]
             arg == call.args[Taken(call.pieces, k + 1)]
  <1>1. piece = <<"%">> \o letters /\ k # N
    BY DEF Converts
  <1>2. TakesArgument(piece)
    <2>1. piece \in Directives
      BY <1>1 DEF Directives
    <2>2. Tail(piece) = letters
      BY <1>1, Spelling DEF AllLetters
    <2>3. Tail(<<"%", "%">>) = <<"%">>
      <3>1. <<"%", "%">> = <<"%">> \o <<"%">> /\ <<"%">> \in AllLetters
        BY Pair DEF AllLetters
      <3> QED BY <3>1, Spelling
    <2>4. letters # <<"%">>
      <3>1. Last(letters) \in {"d", "u", "x", "X"}
        BY LettersOf
      <3>2. Last(<<"%">>) = "%"
        BY DEF Last
      <3> QED BY <3>1, <3>2
    <2> QED BY <2>1, <2>2, <2>3, <2>4 DEF TakesArgument
  <1>3. k + 1 \in 1 .. N /\ k \in 0 .. N - 1 /\ k + 1 \in 0 .. N
    <2>1. N \in Nat
      BY Lengths DEF RenderInv
    <2> QED BY <1>1, <2>1
  <1>4. Suits(piece, arg)
    BY <1>2, <1>3 DEF RenderInv, Suited, N
  <1>5. Takes(letters, arg.int)
    BY <1>1, <1>4 DEF Suits
  <1> QED BY <1>2, <1>3, <1>5 DEF ArgOf

(* A digit more is the next digit of that value.                           *)
LEMMA DigitRenders ==
  ASSUME Inv, Types, RenderInv, status = "busy", Defined(call.pieces), NEW k \in 0 .. N, Progress(k),
         NEW i \in 1 .. 3, ToStr(i), number # NoNumber
  PROVE  RenderInv'
  <1> DEFINE letters == number.letters
             text == number.text
             b == Base(letters)
             more == <<DigitOf(number.value % b, letters)>> \o text
             a == call.args[Taken(call.pieces, k + 1)].int
  <1>1. /\ letters \in Conversions /\ text \in Seq(AnyDigit)
        /\ number \in [letters : Conversions, value : Nat, text : Seq(AnyDigit), negative : BOOLEAN]
    BY DEF Inv, NumberInv
  <1>2. /\ number' = [number EXCEPT !.text = more, !.value = number.value \div b]
        /\ text = << >> \/ number.value # 0
        /\ call' = call /\ format' = format /\ pos' = pos /\ ap' = ap /\ str' = str
        /\ status' = status
    BY DEF ToStr, Converting
  <1>3. /\ number'.text = more /\ number'.value = number.value \div b
        /\ number'.letters = letters /\ number'.negative = number.negative
    <2> HIDE DEF more, b
    <2> QED BY <1>1, <1>2
  <1>4. number' # NoNumber
    <2>1. Len(letters) \in 1 .. 3
      BY <1>1, LettersOf
    <2> HIDE DEF letters
    <2>2. letters # << >>
      BY <2>1
    <2> QED BY <1>3, <2>2 DEF NoNumber
  <1>5. Len(text) < LongSize
    <2>1. NumberInv'
      BY DigitFits DEF Inv
    <2>2. Len(more) <= Room(letters)
      BY <1>3, <1>4, <2>1 DEF NumberInv
    <2>3. Len(more) = Len(text) + 1 /\ Len(text) \in Nat
      <3> DEFINE d == DigitOf(number.value % b, letters)
                 S == AnyDigit \cup {d}
      <3>1. <<d>> \in Seq(S) /\ Len(<<d>>) = 1
        BY One
      <3>2. text \in Seq(S)
        BY <1>1, Widen
      <3>3. Len(<<d>> \o text) = Len(<<d>>) + Len(text)
        <4> HIDE DEF d, S, text
        <4> QED BY <3>1, <3>2, ConcatProperties
      <3>4. Len(text) \in Nat
        BY <1>1
      <3> HIDE DEF d, S, text
      <3> QED BY <3>1, <3>3, <3>4 DEF d
    <2>4. Room(letters) \in 1 .. LongSize /\ LongSize \in Nat
      BY <1>1, Rooms, PowersGrow
    <2> HIDE DEF more, text, letters
    <2> QED BY <2>2, <2>3, <2>4
  <1>6. Converts(k) /\ pos = Len(P(k)) + 1 /\ str = T(k) /\ ArgsLeft(Taken(call.pieces, k + 1))
    BY DEF Progress
  <1>7. Unsigned(a) \in Nat
    <2>1. Takes(letters, a)
      BY <1>1, <1>6, ConvertsArgument
    <2> HIDE DEF a
    <2> QED BY <1>1, <2>1, ConvertValue
  <1>8. Digits(more, number.value \div b, Unsigned(a), letters)
    <2>1. Digits(text, number.value, Unsigned(a), letters)
      BY <1>6 DEF Converts
    <2> HIDE DEF a, text
    <2> QED BY <1>1, <1>2, <1>5, <1>7, <2>1, DigitsMore DEF text
  <1>9. Progress(k)'
    <2>1. (pos = Len(P(k)) + 1 /\ str = T(k) /\ ArgsLeft(Taken(call.pieces, k + 1)))'
      BY <1>2, <1>6 DEF P, T, ArgsLeft
    <2>2. Converts(k)'
      <3> HIDE DEF a, more, b
      <3>1. Digits(number'.text, number'.value, Unsigned(a), number'.letters)
        BY <1>3, <1>8
      <3>2. call'.args[Taken(call'.pieces, k + 1)].int = a
        BY <1>2 DEF a
      <3>3. (k # N /\ call.pieces[k + 1] = <<"%">> \o number.letters)'
        BY <1>2, <1>3, <1>6 DEF N, Converts
      <3>4. number'.negative = (a < 0)
        BY <1>3, <1>6 DEF Converts, a
      <3> QED BY <3>1, <3>2, <3>3, <3>4 DEF Converts
    <2> QED BY <1>4, <2>1, <2>2 DEF Progress
  <1>10. (k \in 0 .. N)' /\ status' = "busy"
    BY <1>2 DEF N
  <1>11. Suited(call.pieces, call.args)' /\ (format = FlattenSeq(call.pieces))'
    BY <1>2 DEF RenderInv, Suited
  <1>12. Rendered'
    BY <1>10 DEF Rendered
  <1> QED BY <1>9, <1>10, <1>11, <1>12 DEF RenderInv

(* At the end the digits and the sign are the text of the directive.       *)
LEMMA ConvertedRenders ==
  ASSUME Inv, Types, RenderInv, status = "busy", Defined(call.pieces), NEW k \in 0 .. N, Progress(k),
         Converted
  PROVE  RenderInv'
  <1> DEFINE letters == number.letters
             text == number.text
             piece == call.pieces[k + 1]
             arg == call.args[Taken(call.pieces, k + 1)]
             a == arg.int
             m == k + 1
             next == After(letters)
  <1>1. /\ number # NoNumber /\ \A i \in 1 .. 3 : ~Converting(i)
        /\ Emit(Signed, next) /\ number' = NoNumber
        /\ ap' = ap /\ call' = call /\ format' = format
    BY DEF Converted
  <1>2. letters \in Conversions /\ text \in Seq(AnyDigit)
    BY <1>1 DEF Inv, NumberInv
  <1>3. text # << >> /\ number.value = 0
    <2>1. Len(letters) \in 1 .. 3
      BY <1>2, LettersOf
    <2> QED BY <1>1, <2>1 DEF Converting
  <1>4. Converts(k) /\ pos = Len(P(k)) + 1 /\ str = T(k) /\ ArgsLeft(Taken(call.pieces, m))
    BY <1>1 DEF Progress
  <1>5. /\ k \in 0 .. N - 1 /\ m \in 0 .. N
        /\ ArgOf(call.pieces, call.args, m) = arg /\ Takes(letters, a)
    BY <1>2, <1>4, ConvertsArgument
  <1>6. a \in Int /\ Unsigned(a) \in Nat
    <2> HIDE DEF arg
    <2> QED BY <1>2, <1>5, ConvertValue
  <1>7. Numeral(Unsigned(a), letters) = text
    <2>1. Digits(text, 0, Unsigned(a), letters)
      BY <1>3, <1>4 DEF Converts
    <2> HIDE DEF a, text
    <2> QED BY <1>2, <1>3, <1>6, <2>1, DigitsDone
  <1>8. TextOf(piece, arg) = Signed
    <2>1. piece = <<"%">> \o letters /\ number.negative = (a < 0)
      BY <1>4 DEF Converts
    <2>2. TextOf(piece, arg) = IF a < 0 THEN <<"-">> \o Numeral(Unsigned(a), letters)
                                        ELSE Numeral(Unsigned(a), letters)
      <3> HIDE DEF piece, arg, letters
      <3> QED BY <1>2, <1>6, <2>1, TextCases
    <2>3. Signed = IF a < 0 THEN <<"-">> \o text ELSE text
      BY <2>1 DEF Signed
    <2> HIDE DEF piece, arg, a, letters, text
    <2> QED BY <1>7, <2>2, <2>3
  <1>9. Suited(call.pieces, call.args) /\ format = FlattenSeq(call.pieces)
    BY DEF RenderInv
  <1>10. Signed \in Seq(AnyChar) /\ T(m) = T(k) \o Signed /\ Len(P(m)) = Len(P(k)) + Len(piece)
    <2>1. LET t == TextOf(piece, ArgOf(call.pieces, call.args, m))
          IN /\ t \in Seq(AnyChar) /\ T(m) = T(k) \o t
             /\ Len(P(m)) = Len(P(k)) + Len(piece)
      BY <1>5, <1>9, Pieces
    <2> HIDE DEF piece, arg
    <2> QED BY <1>5, <1>8, <2>1
  <1>11. next = Len(P(m)) + 1
    <2>1. Len(piece) = Len(letters) + 1 /\ Len(letters) \in 1 .. 3
      BY <1>2, <1>4, Spelling DEF Converts, AllLetters
    <2>2. Len(P(k)) \in Nat
      BY <1>9, Lengths
    <2> DEFINE here == Len(P(k))
               size == Len(letters)
    <2>3. next = (here + 1) + size + 1 /\ Len(P(m)) = here + (size + 1) /\ here \in Nat /\ size \in 1 .. 3
      BY <1>4, <1>10, <2>1, <2>2 DEF After
    <2> HIDE DEF here, size, next, m
    <2> QED BY <2>3
  <1>12. ArgsLeft(Taken(call.pieces, m))'
    BY <1>1, <1>4 DEF ArgsLeft
  <1> HIDE DEF letters, text, piece, arg, a, m, next
  <1> QED BY <1>1, <1>4, <1>5, <1>10, <1>11, <1>12, Emitted

(* Only at the end of the format does vsprintf return a length.            *)
LEMMA ReturnRenders ==
  ASSUME Types, RenderInv, Defined(call.pieces), NEW k \in 0 .. N, Progress(k), Return
  PROVE  RenderInv'
  <1>1. /\ status = "busy" /\ number = NoNumber /\ At(pos) = "NUL"
        /\ status' = "returned" /\ result' = Len(str)
        /\ format' = format /\ pos' = pos /\ ap' = ap /\ str' = str /\ call' = call
    BY DEF Return, Busy, written
  <1>2. Suited(call.pieces, call.args) /\ format = FlattenSeq(call.pieces)
    BY <1>1 DEF RenderInv
  <1>3. pos = Len(P(k)) + 1 /\ str = T(k) /\ ArgsLeft(Taken(call.pieces, k))
    BY <1>1 DEF Progress
  <1>4. k = N
    <2> SUFFICES ASSUME k # N PROVE FALSE
      OBVIOUS
    <2>1. k \in 0 .. N - 1
      BY <1>2, Lengths
    <2>2. \/ call.pieces[k + 1] \in Directives
          \/ Plain(call.pieces[k + 1])
      BY <1>2, <2>1, Pieces
    <2> QED BY <1>1, <1>2, <1>3, <2>2, Reads
  <1>5. str = Reference(N) /\ Len(str) <= INT_MAX /\ Len(str) \in Nat
    <2>1. T(N) = Reference(N) /\ T(N) \in Seq(AnyChar)
      <3>1. N \in 0 .. N
        BY <1>2, Lengths
      <3> QED BY <1>2, <3>1, Pieces
    <2> QED BY <1>3, <1>4, <2>1 DEF Types, Writing
  <1>6. ap = << >>
    <2> DEFINE n == Len(call.args)
    <2>1. ap = SubSeq(call.args, n + 1, n) /\ n \in Nat
      BY <1>2, <1>3, <1>4 DEF ArgsLeft, Suited, N
    <2> HIDE DEF n
    <2>2. n + 1 \in Int /\ n \in Int /\ n < n + 1
      BY <2>1
    <2> QED BY <2>1, <2>2, SubSeqEmpty
  <1>7. Rendered'
    <2>1. Reference(N)' = Reference(N) /\ INT_MAX' = INT_MAX
      BY <1>1 DEF Reference, N, INT_MAX
    <2>2. ~(Len(Reference(N)) > INT_MAX)
      BY <1>5, IntRange
    <2> QED BY <1>1, <1>5, <1>6, <2>1, <2>2 DEF Rendered, N
  <1>8. Suited(call.pieces, call.args)' /\ (format = FlattenSeq(call.pieces))'
    BY <1>1, <1>2 DEF Suited
  <1> QED BY <1>1, <1>7, <1>8 DEF RenderInv

(* A call begins with nothing written and all arguments.                   *)
LEMMA CallRenders ==
  ASSUME Types, RenderInv, status = "idle", NEW pieces, NEW args, Suited(pieces, args),
         Call(pieces, args)
  PROVE  RenderInv'
  <1>1. /\ format' = FlattenSeq(pieces) /\ ap' = args /\ call'.pieces = pieces /\ call'.args = args
        /\ status' = "busy" /\ pos' = pos /\ str' = str /\ number' = number
    BY DEF Call
  <1>2. pos = 1 /\ str = << >> /\ number = NoNumber
    BY DEF Types, Reading, RenderInv
  <1>3. Rendered'
    BY <1>1 DEF Rendered
  <1>4. Len(pieces) \in Nat /\ args \in Seq(Arg) /\ pieces \in Seq(Seq(AnyChar))
    BY DEF Suited
  <1>5. ASSUME Defined(pieces) PROVE Progress(0)'
    <2>1. Joined(pieces, 0) = << >> /\ Joined(Texts(pieces, args), 0) = << >>
      <3>1. Texts(pieces, args) \in Seq(Seq(AnyChar))
        BY <1>5, TextsType
      <3> QED BY <1>4, <3>1, JoinedSteps
    <2>2. args = SubSeq(args, 0 + 1, Len(args))
      <3>1. 0 + 1 = 1
        OBVIOUS
      <3> QED BY <1>4, <3>1, SubSeqFull
    <2>3. Taken(pieces, 0) = 0
      BY TakenSteps
    <2>4. (pos = Len(P(0)) + 1 /\ str = T(0))'
      <3>1. P(0)' = << >> /\ T(0)' = << >>
        BY <1>1, <2>1 DEF P, T
      <3> QED BY <1>1, <1>2, <3>1
    <2>5. ArgsLeft(Taken(call.pieces, 0))'
      BY <1>1, <2>2, <2>3 DEF ArgsLeft
    <2>6. number' = NoNumber
      BY <1>1, <1>2
    <2> QED BY <2>4, <2>5, <2>6 DEF Progress
  <1>6. (0 \in 0 .. N)'
    BY <1>1, <1>4 DEF N
  <1>7. Suited(call.pieces, call.args)' /\ (format = FlattenSeq(call.pieces))'
    BY <1>1 DEF Suited
  <1>8. Defined(call.pieces)' => Defined(pieces)
    BY <1>1 DEF Defined
  <1> QED BY <1>1, <1>3, <1>5, <1>6, <1>7, <1>8 DEF RenderInv

(* Callers give directives what they take.                                 *)
LEMMA ArgumentsSuit ==
  ASSUME NEW piece, TakesArgument(piece), NEW arg \in ArgumentsOf(piece)
  PROVE  Suits(piece, arg)
  <1>1. arg \in Arg
    BY ArgumentsTyped
  <1>2. ASSUME NEW l \in Conversions, piece = <<"%">> \o l PROVE Takes(l, arg.int)
    <2>1. Last(piece) = Last(l) /\ Len(piece) = Len(l) + 1 /\ Len(l) \in 1 .. 3
      BY <1>2, Spelling DEF AllLetters
    <2>2. Last(l) \in {"d", "u", "x", "X"}
      BY LettersOf
    <2> DEFINE wide == Len(piece) > 2
    <2>3. /\ Last(l) = "d" => arg \in IntArgs(IF wide THEN Longs ELSE Ints)
          /\ Last(l) # "d" => arg \in IntArgs(IF wide THEN ULongs ELSE UInts)
      BY <2>1, <2>2, Zenon DEF ArgumentsOf
    <2>4. Half(l) = IF wide THEN LongHalf ELSE IntHalf
      <3> DEFINE n == Len(l)
      <3>1. Half(l) = (IF n = 1 THEN IntHalf ELSE LongHalf) /\ (wide <=> n + 1 > 2) /\ n \in 1 .. 3
        BY <2>1 DEF Half
      <3> HIDE DEF n, wide
      <3>2. n = 1 <=> ~wide
        BY <3>1
      <3>3. CASE wide
        BY <3>1, <3>2, <3>3
      <3>4. CASE ~wide
        BY <3>1, <3>2, <3>4
      <3> QED BY <3>3, <3>4
    <2> HIDE DEF wide
    <2>5. /\ Last(l) = "d" => arg.int \in IF wide THEN Longs ELSE Ints
          /\ Last(l) # "d" => arg.int \in IF wide THEN ULongs ELSE UInts
      BY <2>3 DEF IntArgs
    <2>6. CASE wide
      BY <2>4, <2>5, <2>6, WidthAssumption DEF Takes, LongRange
    <2>7. CASE ~wide
      BY <2>4, <2>5, <2>7, WidthAssumption DEF Takes, INT_MAX
    <2> QED BY <2>6, <2>7
  <1> QED BY <1>1, <1>2 DEF Suits

(* So every call of theirs suits its format.                               *)
LEMMA CallerSuits ==
  ASSUME NEW pieces \in Formats, NEW args \in ArgumentLists(pieces)
  PROVE  Suited(pieces, args)
  <1>1. pieces \in Seq(Seq(STRING))
    BY CallerAssumption
  <1>2. pieces \in Seq(Seq(AnyChar))
    BY CallerCharacters
  <1>3. args \in Seq(Arg) /\ Len(args) = Taken(pieces, Len(pieces))
    BY <1>1, ListsTyped
  <1>4. ASSUME NEW i \in 1 .. Len(pieces), TakesArgument(pieces[i])
        PROVE  Suits(pieces[i], args[Taken(pieces, i)])
    <2>1. i \in DOMAIN pieces
      BY <1>1
    <2>2. args[Taken(pieces, i)] \in ArgumentsOf(pieces[i])
      BY <1>4, <2>1 DEF ArgumentLists
    <2> QED BY <1>4, <2>2, ArgumentsSuit
  <1> QED BY <1>2, <1>3, <1>4 DEF Suited

(* The directive that kernel_main uses, spelled.                           *)
LEMMA Quadruple == <<"%">> \o <<"l", "l", "d">> = <<"%", "l", "l", "d">>
  <1> DEFINE p == <<"%">>
             q == <<"l", "l", "d">>
             r == <<"%", "l", "l", "d">>
  <1>1. /\ p \in Seq(Alphabet) /\ q \in Seq(Alphabet) /\ r \in Seq(Alphabet)
        /\ Len(p) = 1 /\ Len(q) = 3 /\ Len(r) = 4
        /\ p[1] = "%" /\ q[1] = "l" /\ q[2] = "l" /\ q[3] = "d"
        /\ r[1] = "%" /\ r[2] = "l" /\ r[3] = "l" /\ r[4] = "d"
    BY DEF Alphabet
  <1> HIDE DEF p, q, r
  <1>2. /\ p \o q \in Seq(Alphabet) /\ Len(p \o q) = 4
        /\ (p \o q)[1] = "%" /\ (p \o q)[2] = "l" /\ (p \o q)[3] = "l" /\ (p \o q)[4] = "d"
    <2>1. /\ p \o q \in Seq(Alphabet) /\ Len(p \o q) = Len(p) + Len(q)
          /\ \A i \in 1 .. Len(p) + Len(q) : (p \o q)[i] = IF i <= Len(p) THEN p[i] ELSE q[i - Len(p)]
      BY <1>1, ConcatProperties
    <2>2. \A i \in 1 .. 4 : (p \o q)[i] = IF i <= 1 THEN p[i] ELSE q[i - 1]
      BY <1>1, <2>1
    <2> QED BY <1>1, <2>1, <2>2
  <1>3. p \o q = r
    BY <1>1, <1>2, SeqEqual
  <1> QED BY <1>3 DEF p, q, r

-----------------------------------------------------------------------------
(* Numbers read from text: Value, Read, and what kernel_main shows.        *)

(* A decimal digit has its value, and is no sign.                          *)
LEMMA DecimalDigit ==
  ASSUME NEW letters \in Conversions, Last(letters) = "d", NEW k \in 0 .. 9
  PROVE  /\ DigitOf(k, letters) \in Range(Decimals) /\ DigitOf(k, letters) # "-"
         /\ CharValue(DigitOf(k, letters)) = k
  <1>1. DigitOf(k, letters) = Decimals[k + 1]
    <2>1. DigitOf(k, letters) = Lower[k + 1]
      BY DEF DigitOf
    <2>2. k \in {0, 1, 2, 3, 4, 5, 6, 7, 8, 9}
      OBVIOUS
    <2> QED BY <2>1, <2>2 DEF Lower, Decimals
  <1>2. Decimals[k + 1] \in Range(Decimals)
    BY DEF Decimals, Range
  <1>3. Decimals[k + 1] # "-"
    <2>1. k \in {0, 1, 2, 3, 4, 5, 6, 7, 8, 9}
      OBVIOUS
    <2> QED BY <2>1 DEF Decimals
  <1> QED BY <1>1, <1>2, <1>3, CharValues

(* The value of a decimal numeral is the number.                           *)
LEMMA ValueOfNumeral ==
  ASSUME NEW letters \in Conversions, Last(letters) = "d", NEW half \in Nat \ {0}, NEW v \in Nat,
         NEW size \in 1 .. LongSize, v < Power[10][size], NEW S, NEW text \in Seq(S),
         text = LastDigits(v, size, letters)
  PROVE  Value(text, half) = Wrap(v, half)
  <1> DEFINE p(n) == Power[10][n]
             q(n) == v \div p(size - n)   \* what the first n digits stand for
  <1>1. /\ LongSize \in Nat /\ p(0) = 1 /\ \A n \in 0 .. LongSize : p(n) \in Nat \ {0}
        /\ \A n \in 0 .. LongSize - 1 : p(n + 1) = 10 * p(n)
    BY PowersGrow, SizeAssumption DEF ArePowers
  <1>2. Base(letters) = 10
    BY DEF Base, Hexadecimal
  <1>3. Len(text) = size
    BY <1>1 DEF LastDigits
  <1>4. \A k \in 1 .. size : text[k] = DigitOf((v \div p(size - k)) % 10, letters)
    BY <1>2 DEF Digit, LastDigits
  <1> HIDE DEF p
  <1>5. PICK f \in [0 .. size -> -half .. half - 1] :
          /\ Value(text, half) = f[size] /\ f[0] = 0
          /\ \A n \in 1 .. size : f[n] = Shifted(f[n - 1], text[n], half)
    <2>1. PICK f : Reaches(f, text, half, Value(text, half))
      BY ValueSteps
    <2> QED BY <1>3, <2>1 DEF Reaches
  <1> DEFINE Good == { n \in Nat : n \in 0 .. size => f[n] = Wrap(q(n), half) }
  <1>6. 0 \in Good
    <2>1. q(0) = 0
      <3>1. p(size) \in Nat \ {0} /\ size - 0 = size
        <4>1. size \in 0 .. LongSize
          BY <1>1
        <4> QED BY <1>1, <4>1
      <3>2. v < p(size)
        BY DEF p
      <3> QED BY <3>1, <3>2, Quotient
    <2>2. Wrap(0, half) = 0
      <3>1. 0 \in Int /\ 0 \in -half .. half - 1
        OBVIOUS
      <3> QED BY <3>1, WrapAgain
    <2> QED BY <1>5, <2>1, <2>2
  <1>7. ASSUME NEW n \in Nat, n \in Good PROVE n + 1 \in Good
    <2> SUFFICES ASSUME n + 1 \in 0 .. size PROVE f[n + 1] = Wrap(q(n + 1), half)
      OBVIOUS
    <2> DEFINE m == size - (n + 1)
               r == v \div p(m)
    <2>1. m \in 0 .. LongSize - 1 /\ m + 1 = size - n /\ n + 1 \in 1 .. size /\ n \in 0 .. size
      BY <1>1
    <2>2. p(m) \in Nat \ {0} /\ p(m + 1) = 10 * p(m)
      BY <1>1, <2>1
    <2>3. r \in Nat
      BY <2>2, Quotient
    <2>4. q(n) = r \div 10
      <3> DEFINE d == p(m)
      <3>1. d \in Nat \ {0} /\ 10 \in Nat \ {0}
        BY <2>2
      <3> HIDE DEF d
      <3>2. (v \div d) \div 10 = v \div (10 * d)
        BY <3>1, QuotientTwice
      <3> QED BY <2>1, <2>2, <3>2 DEF d
    <2>5. text[n + 1] = DigitOf(r % 10, letters) /\ f[n] = Wrap(q(n), half)
      BY <1>4, <1>7, <2>1
    <2>6. f[n + 1] = Shifted(f[n], text[n + 1], half)
      <3>1. (n + 1) - 1 = n
        OBVIOUS
      <3> QED BY <1>5, <2>1, <3>1
    <2>7. q(n + 1) = r
      OBVIOUS
    <2> HIDE DEF r, q, m
    <2> DEFINE a == r \div 10
               c == r % 10
    <2>8. a \in Int /\ c \in 0 .. 9 /\ r = a * 10 + c
      BY <2>3
    <2>9. CharValue(text[n + 1]) = c
      <3> HIDE DEF c
      <3>1. text[n + 1] = DigitOf(c, letters)
        BY <2>5 DEF c
      <3> QED BY <2>8, <3>1, DecimalDigit
    <2> HIDE DEF a, c
    <2>10. f[n] = Wrap(a, half)
      BY <2>4, <2>5 DEF a
    <2>11. f[n + 1] = Wrap(Wrap(Wrap(a, half) * 10, half) + c, half)
      BY <2>6, <2>9, <2>10 DEF Shifted
    <2>12. Wrap(Wrap(a, half) * 10, half) = Wrap(a * 10, half)
      BY <2>8, WrapAgain
    <2> DEFINE t == a * 10
    <2>13. t \in Int /\ c \in Int /\ r = t + c
      BY <2>8
    <2> HIDE DEF t
    <2>14. Wrap(Wrap(t, half) + c, half) = Wrap(t + c, half)
      BY <2>13, WrapAgain
    <2> QED BY <2>7, <2>11, <2>12, <2>13, <2>14 DEF t
  <1> HIDE DEF Good
  <1>8. size \in Good
    <2>1. size \in Nat
      BY <1>1
    <2> QED BY <1>6, <1>7, <2>1, Induction
  <1>9. q(size) = v
    <2>1. size - size = 0
      BY <1>1
    <2> QED BY <1>1, <2>1, Quotient
  <1>10. f[size] = Wrap(q(size), half)
    <2>1. size \in Nat /\ size \in 0 .. size
      BY <1>1
    <2> QED BY <1>8, <2>1 DEF Good
  <1> QED BY <1>5, <1>9, <1>10

(* A number that is written in decimal and read again is the same.         *)
LEMMA ReadText ==
  ASSUME NEW letters \in Conversions, Last(letters) = "d", NEW arg, Takes(letters, arg.int)
  PROVE  Read(TextOf(<<"%">> \o letters, arg), Half(letters)) = arg.int
  <1> DEFINE a == arg.int
             half == Half(letters)
             v == Unsigned(a)
             digits == Numeral(v, letters)
             text == TextOf(<<"%">> \o letters, arg)
             minus == <<"-">>
  <1>1. half \in Nat \ {0} /\ a \in -half .. half - 1 /\ a \in Int
    <2>1. half \in Nat \ {0} /\ a \in -half .. half - 1
      BY Rooms DEF Takes
    <2> HIDE DEF half, a
    <2> QED BY <2>1
  <1>2. v \in Nat /\ v < Power[Base(letters)][Room(letters)] /\ (a < 0 => v = -a) /\ (a >= 0 => v = a)
    <2>1. v \in Nat /\ v < Power[Base(letters)][Room(letters)]
      BY ConvertValue
    <2>2. (a < 0 => v = -a) /\ (a >= 0 => v = a)
      BY <1>1 DEF Unsigned
    <2> QED BY <2>1, <2>2
  <1>3. text = IF a < 0 THEN minus \o digits ELSE digits
    BY <1>1, TextCases
  <1>4. Base(letters) = 10 /\ LongSize \in Nat
    BY PowersGrow DEF Base, Hexadecimal
  <1> HIDE DEF a, half, v, text
  <1>5. PICK size \in 1 .. LongSize :
          v < Power[10][size] /\ digits = LastDigits(v, size, letters)
    BY <1>2, <1>4, NumeralDigits
  <1>6. digits \in Seq(AnyDigit) /\ Len(digits) = size
    <2>1. digits \in Seq(AnyDigit)
      BY <1>2, NumeralType
    <2> HIDE DEF digits
    <2> QED BY <1>4, <1>5, <2>1 DEF LastDigits
  <1> HIDE DEF digits
  <1>7. ASSUME NEW k \in 1 .. size
        PROVE  digits[k] \in Range(Decimals) /\ digits[k] # "-"
    <2> DEFINE q == v \div Power[10][size - k]
    <2>1. q \in Nat
      <3>1. size - k \in 0 .. LongSize
        BY <1>4
      <3>2. Power[10][size - k] \in Nat \ {0}
        BY <3>1, PowersGrow
      <3> QED BY <1>2, <3>2, Quotient
    <2>2. digits[k] = DigitOf(q % 10, letters)
      BY <1>4, <1>5 DEF Digit, LastDigits
    <2> HIDE DEF q
    <2>3. q % 10 \in 0 .. 9
      BY <2>1
    <2> QED BY <2>2, <2>3, DecimalDigit
  <1>8. Value(digits, half) = Wrap(v, half)
    <2>1. /\ half \in Nat \ {0} /\ v \in Nat /\ v < Power[10][size] /\ digits \in Seq(AnyDigit)
          /\ digits = LastDigits(v, size, letters)
      BY <1>1, <1>2, <1>5, <1>6
    <2> QED BY <2>1, ValueOfNumeral
  <1>9. ~\E i \in DOMAIN digits : digits[i] \notin Range(Decimals)
    BY <1>6, <1>7
  <1>10. digits # << >> /\ digits[1] # "-"
    <2>1. 1 \in 1 .. size
      BY <1>4
    <2> QED BY <1>6, <1>7, <2>1
  <1>11. CASE a >= 0
    <2>1. text = digits
      BY <1>1, <1>3, <1>11
    <2>2. Read(text, half) = Value(digits, half)
      BY <1>9, <1>10, <2>1 DEF Read
    <2>3. Wrap(a, half) = a /\ v = a
      BY <1>1, <1>2, <1>11, WrapAgain
    <2> QED BY <1>8, <2>2, <2>3 DEF a, half, text
  <1>12. CASE a < 0
    <2>1. text = minus \o digits
      BY <1>3, <1>12
    <2>2. text # << >> /\ text[1] = "-" /\ Tail(text) = digits
      <3> DEFINE S == AnyDigit \cup {"-"}
      <3>1. minus \in Seq(S) /\ Len(minus) = 1 /\ minus[1] = "-"
        OBVIOUS
      <3>2. digits \in Seq(S)
        BY <1>6, Widen
      <3> HIDE DEF S, minus
      <3>3. /\ text \in Seq(S) /\ Len(text) = Len(minus) + Len(digits)
            /\ \A i \in 1 .. Len(minus) + Len(digits) :
                 text[i] = IF i <= Len(minus) THEN minus[i] ELSE digits[i - Len(minus)]
        BY <2>1, <3>1, <3>2, ConcatProperties
      <3>4. text \in Seq(S) /\ Len(text) = 1 + size /\ text[1] = "-"
        BY <1>4, <1>6, <3>1, <3>3
      <3>5. \A i \in 1 .. size : text[i + 1] = digits[i]
        BY <1>4, <1>6, <3>1, <3>3
      <3>6. text # << >>
        BY <1>4, <3>4
      <3>7. /\ Tail(text) \in Seq(S) /\ Len(Tail(text)) = Len(text) - 1
            /\ \A i \in 1 .. Len(Tail(text)) : Tail(text)[i] = text[i + 1]
        BY <3>4, <3>6, HeadTailProperties
      <3>8. Len(Tail(text)) = size
        BY <1>4, <3>4, <3>7
      <3>9. Tail(text) = digits
        BY <1>6, <3>2, <3>5, <3>7, <3>8, SeqEqual
      <3> QED BY <3>4, <3>6, <3>9
    <2>3. Read(text, half) = Wrap(-Wrap(v, half), half)
      BY <1>8, <1>9, <2>2 DEF Read
    <2>4. Wrap(-Wrap(v, half), half) = Wrap(-v, half)
      <3>1. half \in Nat \ {0} /\ v \in Int /\ 0 \in Int
        BY <1>1, <1>2
      <3> QED BY <3>1, WrapAgain
    <2>5. -v = a
      BY <1>1, <1>2, <1>12
    <2>6. Wrap(a, half) = a
      BY <1>1, WrapAgain
    <2> QED BY <2>3, <2>4, <2>5, <2>6 DEF a, half, text
  <1> QED BY <1>1, <1>11, <1>12

(* A text with anything but digits behind its first character reads as 0.  *)
LEMMA ReadNoNumber ==
  ASSUME NEW S, NEW s \in Seq(S), NEW half, NEW i \in 2 .. Len(s), s[i] \notin Range(Decimals)
  PROVE  Read(s, half) = 0
  <1> DEFINE isNegative == s # << >> /\ s[1] = "-"
             digits == IF isNegative THEN Tail(s) ELSE s
  <1>1. \E k \in DOMAIN digits : digits[k] \notin Range(Decimals)
    <2>1. CASE isNegative
      <3>1. /\ Len(Tail(s)) = Len(s) - 1 /\ Tail(s) \in Seq(S)
            /\ \A k \in 1 .. Len(Tail(s)) : Tail(s)[k] = s[k + 1]
        BY <2>1, HeadTailProperties
      <3>2. i - 1 \in 1 .. Len(Tail(s)) /\ (i - 1) + 1 = i
        BY <3>1
      <3>3. Tail(s)[i - 1] \notin Range(Decimals) /\ i - 1 \in DOMAIN Tail(s)
        BY <3>1, <3>2
      <3> QED BY <2>1, <3>3
    <2>2. CASE ~isNegative
      <3>1. i \in DOMAIN s
        OBVIOUS
      <3> QED BY <2>2, <3>1
    <2> QED BY <2>1, <2>2
  <1> QED BY <1>1 DEF Read

(* The directive for a long, spelled. *)
LEMMA Triple == <<"%">> \o <<"l", "d">> = <<"%", "l", "d">>
  <1> DEFINE p == <<"%">>
             q == <<"l", "d">>
             r == <<"%", "l", "d">>
  <1>1. /\ p \in Seq(Alphabet) /\ q \in Seq(Alphabet) /\ r \in Seq(Alphabet)
        /\ Len(p) = 1 /\ Len(q) = 2 /\ Len(r) = 3
        /\ p[1] = "%" /\ q[1] = "l" /\ q[2] = "d"
        /\ r[1] = "%" /\ r[2] = "l" /\ r[3] = "d"
    BY DEF Alphabet
  <1> HIDE DEF p, q, r
  <1>2. /\ p \o q \in Seq(Alphabet) /\ Len(p \o q) = 3
        /\ (p \o q)[1] = "%" /\ (p \o q)[2] = "l" /\ (p \o q)[3] = "d"
    <2>1. /\ p \o q \in Seq(Alphabet) /\ Len(p \o q) = Len(p) + Len(q)
          /\ \A i \in 1 .. Len(p) + Len(q) : (p \o q)[i] = IF i <= Len(p) THEN p[i] ELSE q[i - Len(p)]
      BY <1>1, ConcatProperties
    <2>2. \A i \in 1 .. 3 : (p \o q)[i] = IF i <= 1 THEN p[i] ELSE q[i - 1]
      BY <1>1, <2>1
    <2> QED BY <1>1, <2>1, <2>2
  <1>3. p \o q = r
    BY <1>1, <1>2, SeqEqual
  <1> QED BY <1>3 DEF p, q, r

(* The pieces that kernel_main shows a number with.                        *)
LEMMA ShownPieces ==
  /\ Len(Shown) = 5 /\ Shown \in Seq(Seq(AnyChar)) /\ Defined(Shown)
  /\ Shown[1] = <<"%", "s">> /\ Shown[2] = <<"=">> /\ Shown[3] = <<"%", "l", "l", "d">>
  /\ Shown[4] = <<"=">> /\ Shown[5] = <<"%", "l", "l", "d">>
  /\ TakesArgument(Shown[1]) /\ TakesArgument(Shown[3]) /\ TakesArgument(Shown[5])
  /\ ~TakesArgument(Shown[2]) /\ ~TakesArgument(Shown[4]) /\ Plain(<<"=">>)
  /\ Taken(Shown, 1) = 1 /\ Taken(Shown, 3) = 2 /\ Taken(Shown, 5) = 3
  <1> DEFINE ps == <<"%", "s">>
             eq == <<"=">>
             pd == <<"%", "l", "l", "d">>
  <1>1. Shown = << ps, eq, pd, eq, pd >>
    BY DEF Shown
  <1>2. ps \in Directives /\ pd \in Directives /\ TakesArgument(ps) /\ TakesArgument(pd)
    <2>1. ps \in Directives /\ pd \in Directives
      <3>1. ps = <<"%">> \o <<"s">> /\ pd = <<"%">> \o <<"l", "l", "d">>
        BY Pair, Quadruple
      <3>2. <<"s">> \in AllLetters /\ <<"l", "l", "d">> \in AllLetters
        BY DEF AllLetters, Conversions
      <3> HIDE DEF ps, pd
      <3> QED BY <3>1, <3>2 DEF Directives, AllLetters
    <2>2. ps # <<"%", "%">> /\ pd # <<"%", "%">>
      OBVIOUS
    <2> HIDE DEF ps, pd
    <2> QED BY <2>1, <2>2 DEF TakesArgument
  <1>3. Plain(eq) /\ ~TakesArgument(eq)
    <2>1. Plain(eq)
      BY DEF Plain
    <2> HIDE DEF eq
    <2> QED BY <2>1, TakesNone
  <1> HIDE DEF ps, eq, pd
  <1>5. /\ Len(Shown) = 5 /\ Shown[1] = ps /\ Shown[2] = eq /\ Shown[3] = pd
        /\ Shown[4] = eq /\ Shown[5] = pd
    BY <1>1
  <1>6. Defined(Shown)
    <2>1. DOMAIN Shown = 1 .. 5
      BY <1>5
    <2>2. ASSUME NEW i \in 1 .. 5 PROVE Shown[i] \in Directives \/ Plain(Shown[i])
      <3>1. i \in {1, 2, 3, 4, 5}
        OBVIOUS
      <3> QED BY <1>2, <1>3, <1>5, <3>1
    <2> QED BY <2>1, <2>2 DEF Defined
  <1>7. Taken(Shown, 1) = 1 /\ Taken(Shown, 3) = 2 /\ Taken(Shown, 5) = 3
    <2> DEFINE c(i) == Taken(Shown, i)
    <2>1. /\ c(0) = 0
          /\ \A i \in Nat : c(i + 1) = IF TakesArgument(Shown[i + 1]) THEN c(i) + 1 ELSE c(i)
      BY TakenSteps
    <2> HIDE DEF c
    <2>2. c(0 + 1) = 0 + 1
      BY <1>2, <1>5, <2>1
    <2>3. c(1 + 1) = 1
      BY <1>3, <1>5, <2>1, <2>2
    <2>4. c(2 + 1) = 1 + 1
      BY <1>2, <1>5, <2>1, <2>3
    <2>5. c(3 + 1) = 2
      BY <1>3, <1>5, <2>1, <2>4
    <2>6. c(4 + 1) = 2 + 1
      BY <1>2, <1>5, <2>1, <2>5
    <2> QED BY <2>2, <2>4, <2>6 DEF c
  <1> QED BY <1>2, <1>3, <1>5, <1>6, <1>7, ShownCharacters DEF ps, eq, pd

(* The call of kernel_main suits its format, too.                          *)
LEMMA DemonstrationSuits ==
  ASSUME NEW s \in Seq(STRING)
  PROVE  Suited(Shown, ShownArgs(s))
  <1> DEFINE n == atoll(<<s>>)
             m == llabs(n)
             int(v) == [text |-> << >>, int |-> v]
             first == [text |-> s, int |-> 0]
             args == ShownArgs(s)
  <1>1. n \in LongRange /\ m \in LongRange /\ first \in Arg /\ int(n) \in Arg /\ int(m) \in Arg
    BY ShownTyped
  <1>4. args \in Seq(Arg) /\ Len(args) = 3 /\ args[1] = first /\ args[2] = int(n) /\ args[3] = int(m)
    BY ShownTyped
  <1> HIDE DEF n, m, args
  <1>5. Suits(<<"%", "s">>, first)
    <2> DEFINE ps == <<"%", "s">>
    <2>1. ASSUME NEW l \in Conversions, ps = <<"%">> \o l PROVE FALSE
      <3>1. Last(ps) = Last(l) /\ Last(l) \in {"d", "u", "x", "X"}
        BY <2>1, Spelling, LettersOf DEF AllLetters
      <3>2. Last(ps) = "s"
        BY DEF Last
      <3> QED BY <3>1, <3>2
    <2> HIDE DEF ps
    <2>2. Suits(ps, first)
      BY <1>1, <2>1 DEF Suits
    <2> QED BY <2>2 DEF ps
  <1>6. ASSUME NEW v \in LongRange, int(v) \in Arg PROVE Suits(<<"%", "l", "l", "d">>, int(v))
    <2> DEFINE pd == <<"%", "l", "l", "d">>
    <2>1. ASSUME NEW l \in Conversions, pd = <<"%">> \o l PROVE Takes(l, v)
      <3>1. Last(pd) = Last(l) /\ Len(pd) = Len(l) + 1 /\ Len(l) \in 1 .. 3
        BY <2>1, Spelling DEF AllLetters
      <3>2. Last(pd) = "d" /\ Len(pd) = 4
        BY DEF Last
      <3> DEFINE z == Len(l)
      <3>3. z # 1
        <4>1. 4 = z + 1 /\ z \in 1 .. 3
          BY <3>1, <3>2
        <4> HIDE DEF z
        <4> QED BY <4>1
      <3>4. Half(l) = LongHalf
        BY <3>3 DEF Half
      <3> HIDE DEF pd
      <3> QED BY <3>1, <3>2, <3>4 DEF Takes, LongRange
    <2>2. int(v).int = v
      OBVIOUS
    <2> HIDE DEF pd, int
    <2>3. Suits(pd, int(v))
      BY <1>6, <2>1, <2>2 DEF Suits
    <2> QED BY <2>3 DEF pd
  <1> HIDE DEF first, int
  <1>7. ASSUME NEW i \in 1 .. Len(Shown), TakesArgument(Shown[i])
        PROVE  Suits(Shown[i], args[Taken(Shown, i)])
    <2>1. i \in {1, 3, 5}
      <3>1. i \in {1, 2, 3, 4, 5}
        BY ShownPieces
      <3> QED BY <1>7, <3>1, ShownPieces
    <2>2. Suits(Shown[3], int(n)) /\ Suits(Shown[5], int(m)) /\ Suits(Shown[1], first)
      BY <1>1, <1>5, <1>6, ShownPieces
    <2> QED BY <1>4, <2>1, <2>2, ShownPieces
  <1> QED BY <1>4, <1>7, ShownPieces DEF Suited, args

-----------------------------------------------------------------------------
(* vsprintf acts while it is called, and changes neither the format nor    *)
(* the call.                                                               *)
LEMMA VsprintfCalled ==
  ASSUME Types, vsprintf
  PROVE  status = "busy" /\ format' = format /\ call' = call /\ status' \in {"busy", "returned"}
  <1>1. ASSUME NEW text, NEW next, Emit(text, next), status = "busy"
        PROVE  status' \in {"busy", "returned"}
    BY <1>1 DEF Emit
  <1>2. CASE Ordinary
    BY <1>1, <1>2 DEF Ordinary, Busy
  <1>3. CASE Char \/ String
    BY <1>1, <1>3 DEF Char, String, Directive, Busy
  <1>4. CASE TakeInt \/ TakeUInt \/ TakeLong \/ TakeULong \/ TakeLongLong \/ TakeULongLong
    <2>1. PICK letters, half : Convert(letters, half)
      BY <1>4 DEF TakeInt, TakeUInt, TakeLong, TakeULong, TakeLongLong, TakeULongLong
    <2> QED BY <2>1 DEF Convert, Directive, Busy
  <1>5. CASE uint_to_str \/ ulong_to_str \/ ulonglong_to_str
    <2>1. PICK i \in 1 .. 3 : ToStr(i)
      BY <1>5 DEF uint_to_str, ulong_to_str, ulonglong_to_str
    <2>2. number # NoNumber
      BY <2>1 DEF ToStr, Converting, NoNumber
    <2> QED BY <2>1, <2>2 DEF ToStr, Types, Reading
  <1>6. CASE Converted
    BY <1>1, <1>6 DEF Converted, Types, Reading
  <1>7. CASE Unknown \/ LongUnknown
    BY <1>1, <1>7 DEF Unknown, LongUnknown, Directive, Busy
  <1>8. CASE Return
    BY <1>8 DEF Return, Busy
  <1> QED BY <1>2, <1>3, <1>4, <1>5, <1>6, <1>7, <1>8 DEF vsprintf

(* Every step keeps the text in step with the format. *)
LEMMA RenderInvIsInvariant == Spec => []RenderInv
  <1>1. Init => RenderInv
    <2> SUFFICES ASSUME Init PROVE RenderInv
      OBVIOUS
    <2>1. /\ status = "idle" /\ str = << >>
          /\ call.pieces = << >> /\ call.args = << >>
      BY DEF Init
    <2>2. Suited(<< >>, << >>)
      <3>1. Taken(<< >>, 0) = 0
        BY TakenSteps
      <3> QED BY <3>1 DEF Suited
    <2> QED BY <2>1, <2>2 DEF RenderInv, Rendered
  <1>2. Inv /\ Types /\ RenderInv /\ [Next]_vars => RenderInv'
    <2> SUFFICES ASSUME Inv, Types, RenderInv, [Next]_vars PROVE RenderInv'
      OBVIOUS
    <2>1. CASE Caller
      <3>1. PICK pieces \in Formats : \E args \in ArgumentLists(pieces) : Call(pieces, args)
        BY <2>1 DEF Caller
      <3>2. PICK args \in ArgumentLists(pieces) : Call(pieces, args)
        BY <3>1
      <3>3. Suited(pieces, args) /\ status = "idle"
        BY <2>1, CallerSuits DEF Caller
      <3> QED BY <3>2, <3>3, CallRenders
    <2>2. CASE Demonstration
      <3>1. PICK s \in Cases : Call(Shown, ShownArgs(s))
        BY <2>2 DEF Demonstration
      <3>2. Suited(Shown, ShownArgs(s)) /\ status = "idle"
        BY <2>2, CallerAssumption, DemonstrationSuits DEF Demonstration
      <3> QED BY <3>1, <3>2, CallRenders
    <2>3. CASE vsprintf
      <3>1. status = "busy" /\ format' = format /\ call' = call /\ status' \in {"busy", "returned"}
        BY <2>3, VsprintfCalled
      <3>2. CASE ~Defined(call.pieces)
        BY <3>1, <3>2 DEF RenderInv, Rendered, Suited
      <3>3. CASE Defined(call.pieces)
        <4>1. PICK k \in 0 .. N : Progress(k)
          BY <3>1, <3>3 DEF RenderInv
        <4>2. CASE Ordinary
          BY <3>3, <4>1, <4>2, OrdinaryRenders
        <4>3. CASE Char \/ String
          BY <3>1, <3>3, <4>1, <4>3, TextRenders
        <4>4. CASE TakeInt \/ TakeUInt \/ TakeLong \/ TakeULong \/ TakeLongLong \/ TakeULongLong
          <5>1. \E letters \in Conversions : Convert(letters, Half(letters))
            BY <4>4 DEF TakeInt, TakeUInt, TakeLong, TakeULong, TakeLongLong, TakeULongLong,
                        Conversions, Hexadecimal, Half
          <5> QED BY <3>1, <3>3, <4>1, <5>1, ConvertRenders
        <4>5. CASE uint_to_str \/ ulong_to_str \/ ulonglong_to_str
          <5>1. PICK i \in 1 .. 3 : ToStr(i)
            BY <4>5 DEF uint_to_str, ulong_to_str, ulonglong_to_str
          <5>2. number # NoNumber
            BY <5>1 DEF ToStr, Converting, NoNumber
          <5> QED BY <3>1, <3>3, <4>1, <5>1, <5>2, DigitRenders
        <4>6. CASE Converted
          BY <3>1, <3>3, <4>1, <4>6, ConvertedRenders
        <4>7. CASE Unknown \/ LongUnknown
          <5>1. pos = Len(P(k)) + 1 /\ Suited(call.pieces, call.args) /\ format = FlattenSeq(call.pieces)
            BY <3>1, <4>1 DEF Progress, RenderInv
          <5> QED BY <3>3, <4>7, <5>1, NothingUnknown
        <4>8. CASE Return
          BY <3>3, <4>1, <4>8, ReturnRenders
        <4> QED BY <2>3, <4>2, <4>3, <4>4, <4>5, <4>6, <4>7, <4>8 DEF vsprintf
      <3> QED BY <3>2, <3>3
    <2>4. CASE UNCHANGED vars
      <3>1. /\ format' = format /\ pos' = pos /\ ap' = ap /\ str' = str /\ number' = number
            /\ status' = status /\ result' = result /\ call' = call
        BY <2>4 DEF vars
      <3>2. /\ Suited(call.pieces, call.args)' = Suited(call.pieces, call.args)
            /\ Rendered' = Rendered
        BY <3>1 DEF Suited, Rendered, Reference, INT_MAX
      <3>3. ASSUME NEW k \in 0 .. N, Progress(k) PROVE Progress(k)'
        BY <3>1, <3>3 DEF Progress, P, T, N, ArgsLeft, Converts
      <3>4. N' = N
        BY <3>1 DEF N
      <3> QED BY <3>1, <3>2, <3>3, <3>4 DEF RenderInv
    <2> QED BY <2>1, <2>2, <2>3, <2>4 DEF Next
  <1> QED BY <1>1, <1>2, TypesIsInvariant, PTL DEF Spec

(* printf writes what its format says, for every format that is made of    *)
(* text and directives, every list of arguments that suits it, every       *)
(* width of the integers and all buffers that fit: each number appears     *)
(* with exactly its digits, in its base, with its sign; vsprintf returns   *)
(* the length, or -1 if an int cannot count it; every argument is taken.   *)
THEOREM RenderedAlways == Spec => []Rendered
  <1>1. RenderInv => Rendered
    BY DEF RenderInv
  <1> QED BY <1>1, RenderInvIsInvariant, PTL

-----------------------------------------------------------------------------
(* Numbers that are printed, and read again. *)

(* Five texts, one after the other.                                        *)
LEMMA FiveTexts ==
  ASSUME NEW S, NEW texts \in Seq(Seq(S)), Len(texts) = 5
  PROVE  Joined(texts, 5) = texts[1] \o texts[2] \o texts[3] \o texts[4] \o texts[5]
  <1> DEFINE j(k) == Joined(texts, k)
             t(k) == texts[k]
  <1>1. j(0) = << >> /\ t(1) \in Seq(S)
    <2>1. texts[1] \in Seq(S)
      OBVIOUS
    <2>2. Joined(texts, 0) = << >>
      BY JoinedSteps
    <2> QED BY <2>1, <2>2
  <1>2. ASSUME NEW k \in 0 .. 4, NEW i, i = k + 1 PROVE j(i) = j(k) \o t(i)
    <2>1. \A n \in 0 .. Len(texts) - 1 : Joined(texts, n + 1) = Joined(texts, n) \o texts[n + 1]
      BY JoinedSteps
    <2>2. k \in 0 .. Len(texts) - 1
      OBVIOUS
    <2> QED BY <1>2, <2>1, <2>2
  <1> HIDE DEF j, t
  <1>3. /\ 0 \in 0 .. 4 /\ 1 \in 0 .. 4 /\ 2 \in 0 .. 4 /\ 3 \in 0 .. 4 /\ 4 \in 0 .. 4
        /\ 1 = 0 + 1 /\ 2 = 1 + 1 /\ 3 = 2 + 1 /\ 4 = 3 + 1 /\ 5 = 4 + 1
    OBVIOUS
  <1>4. /\ j(1) = j(0) \o t(1) /\ j(2) = j(1) \o t(2) /\ j(3) = j(2) \o t(3)
        /\ j(4) = j(3) \o t(4) /\ j(5) = j(4) \o t(5)
    BY <1>2, <1>3, Zenon
  <1>5. j(1) = t(1)
    <2>1. << >> \o t(1) = t(1)
      BY <1>1, ConcatEmptySeq
    <2> QED BY <1>1, <1>4, <2>1
  <1>6. j(5) = t(1) \o t(2) \o t(3) \o t(4) \o t(5)
    BY <1>4, <1>5, Zenon
  <1> QED BY <1>6 DEF j, t

(* What a returned call with a positive result has written.                *)
LEMMA Returned ==
  ASSUME RenderInv, status = "returned", result > 0, Defined(call.pieces)
  PROVE  str = T(N) /\ Suited(call.pieces, call.args)
  <1>1. Suited(call.pieces, call.args) /\ format = FlattenSeq(call.pieces) /\ Rendered
    BY DEF RenderInv
  <1>2. T(N) = Reference(N)
    <2>1. N \in 0 .. N
      BY <1>1, Pieces
    <2> QED BY <1>1, <2>1, Pieces
  <1> DEFINE text == Reference(N)
  <1>3. IF Len(text) > INT_MAX THEN result = -1 ELSE str = text
    BY <1>1 DEF Rendered, N
  <1> HIDE DEF text
  <1>4. str = text
    BY <1>3
  <1> QED BY <1>1, <1>2, <1>4 DEF text

(* A call that prints one number.                                          *)
LEMMA OneReadsBack ==
  ASSUME RenderInv, status = "returned", result > 0, Len(call.pieces) = 1,
         NEW letters \in Conversions, Last(letters) = "d", call.pieces[1] = <<"%">> \o letters
  PROVE  Read(str, Half(letters)) = call.args[1].int
  <1> DEFINE piece == call.pieces[1]
             arg == call.args[1]
  <1>1. piece \in Directives /\ TakesArgument(piece)
    <2>1. piece \in Directives
      BY DEF Directives
    <2>2. Last(piece) = Last(letters)
      BY Spelling DEF AllLetters
    <2>3. piece # <<"%", "%">>
      <3>1. Last(<<"%", "%">>) = "%"
        BY DEF Last
      <3> QED BY <2>2, <3>1
    <2> HIDE DEF piece
    <2> QED BY <2>1, <2>3 DEF TakesArgument
  <1>2. Defined(call.pieces)
    <2>1. Suited(call.pieces, call.args)
      BY DEF RenderInv
    <2>2. DOMAIN call.pieces = {1}
      BY <2>1 DEF Suited
    <2> QED BY <1>1, <2>2 DEF Defined
  <1>3. str = T(N) /\ Suited(call.pieces, call.args) /\ format = FlattenSeq(call.pieces)
    BY <1>2, Returned DEF RenderInv
  <1>4. Taken(call.pieces, 1) = 1
    <2> DEFINE p == call.pieces
               c(i) == Taken(p, i)
    <2>1. /\ c(0) = 0
          /\ \A i \in Nat : c(i + 1) = IF TakesArgument(p[i + 1]) THEN c(i) + 1 ELSE c(i)
      BY TakenSteps
    <2>2. TakesArgument(p[1])
      BY <1>1
    <2> HIDE DEF c, p
    <2>3. c(0 + 1) = 0 + 1
      BY <2>1, <2>2
    <2> QED BY <2>3 DEF c, p
  <1>5. Suits(piece, arg)
    <2>1. 1 \in 1 .. Len(call.pieces)
      OBVIOUS
    <2> QED BY <1>1, <1>3, <1>4, <2>1 DEF Suited
  <1>6. str = TextOf(piece, arg)
    <2> DEFINE texts == Texts(call.pieces, call.args)
               text == TextOf(piece, arg)
    <2>1. texts \in Seq(Seq(AnyChar)) /\ Len(texts) = 1
      BY <1>2, <1>3, TextsType
    <2>2. texts[1] = text
      <3>1. ArgOf(call.pieces, call.args, 1) = arg
        BY <1>1, <1>4 DEF ArgOf
      <3>2. \A i \in 1 .. Len(call.pieces) :
              texts[i] = TextOf(call.pieces[i], ArgOf(call.pieces, call.args, i))
        BY DEF Texts
      <3>3. 1 \in 1 .. Len(call.pieces)
        OBVIOUS
      <3> HIDE DEF texts
      <3> QED BY <3>1, <3>2, <3>3
    <2>3. str = Joined(texts, 1)
      BY <1>3 DEF T, N
    <2> HIDE DEF texts, text
    <2>4. \A k \in 0 .. Len(texts) - 1 : Joined(texts, k + 1) = Joined(texts, k) \o texts[k + 1]
      BY <2>1, JoinedSteps
    <2>5. Joined(texts, 0 + 1) = Joined(texts, 0) \o texts[0 + 1]
      BY <2>1, <2>4
    <2>6. Joined(texts, 0) = << >>
      BY <2>1, JoinedSteps
    <2>7. text \in Seq(AnyChar)
      BY <2>1, <2>2
    <2>8. << >> \o text = text
      BY <2>7, ConcatEmptySeq
    <2>9. 0 + 1 = 1
      OBVIOUS
    <2>10. str = text
      BY <2>2, <2>3, <2>5, <2>6, <2>8, <2>9, Zenon
    <2> QED BY <2>10 DEF text
  <1>7. Takes(letters, arg.int)
    BY <1>5 DEF Suits
  <1> QED BY <1>6, <1>7, ReadText

(* The call of kernel_main. *)
LEMMA ShownReadsBack ==
  ASSUME RenderInv, status = "returned", result > 0, NEW s \in Cases,
         call = [pieces |-> Shown, args |-> ShownArgs(s)]
  PROVE  /\ \A v \in LongRange : s = Decimal(v) => str = Line(s, v)
         /\ (\E i \in 2 .. Len(s) : s[i] \notin Range(Decimals)) => str = Line(s, 0)
  <1> DEFINE n == atoll(<<s>>)
             m == llabs(n)
             texts == Texts(Shown, ShownArgs(s))
             eq == <<"=">>
             pd == <<"%", "l", "l", "d">>
             int(v) == [text |-> << >>, int |-> v]
  <1>1. call.pieces = Shown /\ call.args = ShownArgs(s) /\ s \in Seq(STRING)
    BY CallerAssumption
  <1>2. Defined(Shown) /\ Suited(Shown, ShownArgs(s))
    BY <1>1, ShownPieces, DemonstrationSuits
  <1>3. str = Joined(texts, 5)
    <2>1. str = T(N)
      BY <1>1, <1>2, Returned
    <2> QED BY <1>1, <2>1, ShownPieces DEF T, N
  <1>4. texts \in Seq(Seq(AnyChar)) /\ Len(texts) = 5
    BY <1>2, TextsType, ShownPieces
  <1>5. /\ ShownArgs(s)[1] = [text |-> s, int |-> 0] /\ ShownArgs(s)[2] = int(n)
        /\ ShownArgs(s)[3] = int(m)
    BY DEF ShownArgs
  <1>6. \A i \in 1 .. 5 : texts[i] = TextOf(Shown[i], ArgOf(Shown, ShownArgs(s), i))
    BY ShownPieces DEF Texts
  <1> HIDE DEF texts, n, m
  <1>7. texts[1] = s
    <2>1. ArgOf(Shown, ShownArgs(s), 1) = ShownArgs(s)[1]
      BY ShownPieces DEF ArgOf
    <2> DEFINE arg == [text |-> s, int |-> 0]
               ps == <<"%", "s">>
    <2>2. arg.text = s
      OBVIOUS
    <2>3. ArgOf(Shown, ShownArgs(s), 1) = arg /\ Shown[1] = ps
      BY <1>5, <2>1, ShownPieces
    <2> HIDE DEF arg
    <2>4. TextOf(ps, arg) = arg.text
      BY TextCases
    <2> HIDE DEF ps
    <2>5. texts[1] = TextOf(Shown[1], ArgOf(Shown, ShownArgs(s), 1))
      BY <1>6
    <2> QED BY <2>2, <2>3, <2>4, <2>5
  <1>8. texts[2] = eq /\ texts[4] = eq
    <2>1. \A arg : TextOf(eq, arg) = eq
      <3>1. eq \in Seq(AnyChar) /\ Plain(eq)
        <4>1. eq \in Seq(AnyChar)
          BY One DEF AnyChar
        <4> QED BY <4>1, ShownPieces
      <3> HIDE DEF eq
      <3> QED BY <3>1, TextCases
    <2>2. Shown[2] = eq /\ Shown[4] = eq
      BY ShownPieces
    <2> HIDE DEF eq
    <2> QED BY <1>6, <2>1, <2>2
  <1>9. texts[3] = Decimal(n) /\ texts[5] = Decimal(m)
    <2>1. ArgOf(Shown, ShownArgs(s), 3) = int(n) /\ ArgOf(Shown, ShownArgs(s), 5) = int(m)
      BY <1>5, ShownPieces DEF ArgOf
    <2>2. Shown[3] = pd /\ Shown[5] = pd
      BY ShownPieces
    <2>3. texts[3] = TextOf(pd, int(n)) /\ texts[5] = TextOf(pd, int(m))
      BY <1>6, <2>1, <2>2
    <2> QED BY <2>3 DEF Decimal
  <1>10. str = s \o eq \o Decimal(n) \o eq \o Decimal(m)
    <2>1. str = texts[1] \o texts[2] \o texts[3] \o texts[4] \o texts[5]
      BY <1>3, <1>4, FiveTexts
    <2> HIDE DEF eq
    <2> QED BY <1>7, <1>8, <1>9, <2>1, Zenon
  <1>11. ASSUME NEW v \in LongRange, n = v PROVE str = Line(s, v)
    <2>1. m = IF v < 0 /\ v # -LongHalf THEN -v ELSE v
      BY <1>11, AbsoluteValue DEF m
    <2> DEFINE w == IF v < 0 /\ v # -LongHalf THEN -v ELSE v
    <2>2. Line(s, v) = s \o eq \o Decimal(v) \o eq \o Decimal(w)
      BY DEF Line
    <2>3. m = w
      BY <2>1
    <2> HIDE DEF w, eq
    <2> QED BY <1>10, <1>11, <2>2, <2>3, Zenon
  <1>12. ASSUME NEW v \in LongRange, s = Decimal(v) PROVE str = Line(s, v)
    <2> DEFINE letters == <<"l", "l", "d">>
    <2>1. letters \in Conversions /\ Last(letters) = "d" /\ Half(letters) = LongHalf
      BY DEF Conversions, Last, Half
    <2>2. pd = <<"%">> \o letters
      BY Quadruple
    <2>3. Takes(letters, int(v).int) /\ int(v).int = v
      <3>1. int(v).int = v
        OBVIOUS
      <3> HIDE DEF letters, int
      <3> QED BY <2>1, <3>1 DEF Takes, LongRange
    <2>4. s = TextOf(pd, int(v))
      BY <1>12 DEF Decimal
    <2> HIDE DEF letters, int, pd
    <2>5. Read(TextOf(<<"%">> \o letters, int(v)), Half(letters)) = int(v).int
      BY <2>1, <2>3, ReadText
    <2>6. n = v
      BY <2>1, <2>2, <2>3, <2>4, <2>5, OfString DEF n
    <2> QED BY <1>11, <2>6
  <1>13. ASSUME NEW i \in 2 .. Len(s), s[i] \notin Range(Decimals) PROVE str = Line(s, 0)
    <2>1. n = 0
      BY <1>1, <1>13, ReadNoNumber, OfString DEF n
    <2>2. 0 \in LongRange
      BY WidthAssumption DEF LongRange
    <2> QED BY <1>11, <2>1, <2>2
  <1> QED BY <1>12, <1>13

(* Numbers survive being read and printed: for every width of the integers *)
(* and every integer of it, atoi, atol and atoll read what %d, %ld and     *)
(* %lld write as the same number, and kernel_main shows a numeral as it    *)
(* is, then the number read from it and its absolute value.                *)
THEOREM ReadsBackAlways == Spec => []ReadsBack
  <1>1. RenderInv => ReadsBack
    <2> SUFFICES ASSUME RenderInv, status = "returned", result > 0 PROVE ReadsBack
      BY DEF ReadsBack
    <2>1. ASSUME Len(call.pieces) = 1
          PROVE  /\ call.pieces[1] = <<"%", "d">> => atoi(<<str>>) = call.args[1].int
                 /\ call.pieces[1] = <<"%", "l", "d">> => atol(<<str>>) = call.args[1].int
                 /\ call.pieces[1] = <<"%", "l", "l", "d">> => atoll(<<str>>) = call.args[1].int
      <3>1. ASSUME NEW letters \in { <<"d">>, <<"l", "d">>, <<"l", "l", "d">> },
                   call.pieces[1] = <<"%">> \o letters
            PROVE  Read(str, Half(letters)) = call.args[1].int
        <4>1. letters \in Conversions
          BY DEF Conversions
        <4>2. Last(letters) = "d"
          <5>1. Last(<<"d">>) = "d" /\ Last(<<"l", "d">>) = "d" /\ Last(<<"l", "l", "d">>) = "d"
            BY DEF Last
          <5> QED BY <5>1
        <4> QED BY <2>1, <3>1, <4>1, <4>2, OneReadsBack
      <3>2. /\ <<"%", "d">> = <<"%">> \o <<"d">> /\ <<"%", "l", "d">> = <<"%">> \o <<"l", "d">>
            /\ <<"%", "l", "l", "d">> = <<"%">> \o <<"l", "l", "d">>
        BY Pair, Triple, Quadruple
      <3>3. Half(<<"d">>) = IntHalf /\ Half(<<"l", "d">>) = LongHalf /\ Half(<<"l", "l", "d">>) = LongHalf
        BY DEF Half
      <3>4. /\ atoi(<<str>>) = Read(str, IntHalf)
            /\ atol(<<str>>) = Read(str, LongHalf) /\ atoll(<<str>>) = Read(str, LongHalf)
        BY OfString
      <3> QED BY <3>1, <3>2, <3>3, <3>4, Zenon
    <2>2. ASSUME NEW s \in Cases, call = [pieces |-> Shown, args |-> ShownArgs(s)]
          PROVE  /\ \A v \in LongRange : s = Decimal(v) => str = Line(s, v)
                 /\ (\E i \in 2 .. Len(s) : s[i] \notin Range(Decimals)) => str = Line(s, 0)
      BY <2>2, ShownReadsBack
    <2> QED BY <2>1, <2>2 DEF ReadsBack
  <1> QED BY <1>1, RenderInvIsInvariant, PTL
=============================================================================
