------------------------------- MODULE Format -------------------------------
(***************************************************************************)
(* Formatted output (libc/stdio/vsprintf.c, under printf and sprintf). The *)
(* format is read from left to right; each number is converted digit by    *)
(* digit, backwards, in a buffer of a fixed size. The widths of integers   *)
(* are those of module Numbers.                                            *)
(***************************************************************************)
EXTENDS Numbers

CONSTANTS
  IntSize, UIntSize, LongSize,   \* of the digit buffers: 12, 11 and 21
  Power,                         \* Power[b][n]: b to the n-th
  Formats,                       \* of callers, in pieces: text or directive
  Ints, UInts, Longs, ULongs, Letters, Strings,  \* their arguments
  Cases                          \* the strings that kernel_main reads as numbers

INT_MAX == IntHalf - 1

LongRange == -LongHalf .. LongHalf - 1

ASSUME WidthAssumption ==
  /\ IntHalf \in Nat \ {0} /\ LongHalf \in Nat \ {0} /\ IntHalf <= LongHalf
  /\ Ints \subseteq -IntHalf .. INT_MAX /\ UInts \subseteq 0 .. 2 * IntHalf - 1
  /\ Longs \subseteq LongRange /\ ULongs \subseteq 0 .. 2 * LongHalf - 1

ArePowers(power, size) ==
  \A b \in {10, 16} :
    /\ power[b][0] = 1
    /\ \A n \in 0 .. size : power[b][n] \in Nat
    /\ \A n \in 0 .. size - 1 : power[b][n + 1] = b * power[b][n]

(* The buffers have room for the largest numbers, with a sign and the NUL. *)
Fit(intHalf, longHalf, intSize, uintSize, longSize, power) ==
  /\ {intSize, longSize} \subseteq Nat \ (0 .. 2) /\ uintSize \in Nat \ {0, 1}
  /\ intSize <= longSize /\ uintSize <= longSize
  /\ intHalf < power[10][intSize - 2] /\ longHalf < power[10][longSize - 2]
  /\ \A b \in {10, 16} : /\ 2 * intHalf <= power[b][uintSize - 1]
                         /\ 2 * longHalf <= power[b][longSize - 1]

ASSUME SizeAssumption ==
  /\ ArePowers(Power, LongSize)
  /\ Fit(IntHalf, LongHalf, IntSize, UIntSize, LongSize, Power)

VARIABLES
  format, pos,     \* the format, and the place in it
  ap,              \* the arguments not yet taken
  str,             \* what is written: the bytes 0 .. written - 1 of str
  number,          \* the number in conversion, or NoNumber
  status,          \* "idle", "busy" or "returned"
  result,          \* what vsprintf returned
  call             \* history: the call, [pieces, args]

vars == <<format, pos, ap, str, number, status, result, call>>

written == Len(str)

(* The letters of the directives that convert numbers.                     *)
Conversions ==
  { <<"d">>, <<"u">>, <<"x">>, <<"X">>, <<"l", "d">>, <<"l", "u">>, <<"l", "x">>, <<"l", "X">>,
    <<"l", "l", "d">>, <<"l", "l", "u">>, <<"l", "l", "x">>, <<"l", "l", "X">> }

NoNumber == [letters |-> << >>, text |-> << >>, value |-> 0, negative |-> FALSE]

(* The character at a place of the format, which ends with a NUL.          *)
At(i) == IF i <= Len(format) THEN format[i] ELSE "NUL"

-----------------------------------------------------------------------------
(* Directives, and the arguments that callers give for them: a text (of    *)
(* one character for %c) or an integer.                                    *)

TextArgs(texts)    == { [text |-> t, int |-> 0] : t \in texts }
IntArgs(integers)  == { [text |-> << >>, int |-> i] : i \in integers }

Directives ==
  { <<"%">> \o letters : letters \in Conversions \cup { <<"%">>, <<"c">>, <<"s">> } }

TakesArgument(piece) == piece \in Directives \ { <<"%", "%">> }

ArgumentsOf(piece) ==
  LET wide == Len(piece) > 2
  IN IF ~TakesArgument(piece) THEN {}
     ELSE CASE Last(piece) = "c" -> TextArgs({ <<c>> : c \in Letters })
            [] Last(piece) = "s" -> TextArgs(Strings)
            [] Last(piece) = "d" -> IntArgs(IF wide THEN Longs ELSE Ints)
            [] OTHER -> IntArgs(IF wide THEN ULongs ELSE UInts)

(* The first i pieces take so many arguments.                              *)
Taken(pieces, i) == Cardinality({ j \in 1 .. i : TakesArgument(pieces[j]) })

ArgumentLists(pieces) ==
  { args \in [1 .. Taken(pieces, Len(pieces)) -> UNION { ArgumentsOf(p) : p \in Range(pieces) }] :
      \A i \in DOMAIN pieces :
        TakesArgument(pieces[i]) => args[Taken(pieces, i)] \in ArgumentsOf(pieces[i]) }

(* What the callers pass are texts and integers, and so is what they read. *)
ASSUME CallerAssumption ==
  /\ Formats \subseteq Seq(Seq(STRING))
  /\ Letters \subseteq STRING /\ Strings \subseteq Seq(STRING)
  /\ Cases \subseteq Seq(STRING)

Init ==
  /\ format = << >> /\ pos = 1 /\ ap = << >>
  /\ str = << >>
  /\ number = NoNumber
  /\ status = "idle" /\ result = 0
  /\ call = [pieces |-> << >>, args |-> << >>]

Call(pieces, args) ==
  /\ format' = FlattenSeq(pieces) /\ ap' = args
  /\ call' = [pieces |-> pieces, args |-> args]
  /\ status' = "busy"
  /\ UNCHANGED <<pos, str, number, result>>

Caller ==
  /\ status = "idle"
  /\ \E pieces \in Formats : \E args \in ArgumentLists(pieces) : Call(pieces, args)

(* kernel_main reads strings as numbers, and prints these and their        *)
(* absolute values.                                                        *)
Shown ==
  << <<"%", "s">>, <<"=">>, <<"%", "l", "l", "d">>, <<"=">>, <<"%", "l", "l", "d">> >>

ShownArgs(s) ==
  << [text |-> s, int |-> 0], [text |-> << >>, int |-> atoll(<<s>>)],
     [text |-> << >>, int |-> llabs(atoll(<<s>>))] >>

Demonstration == status = "idle" /\ \E s \in Cases : Call(Shown, ShownArgs(s))

-----------------------------------------------------------------------------
(* One turn of the loop over the format. *)

Busy == status = "busy" /\ number = NoNumber

(* No check of what is left. *)
BadEmit(text, next) ==
  /\ str' = str \o text /\ pos' = next
  /\ UNCHANGED <<status, result>>

(* Appends a text and goes on at next, unless the length would exceed an   *)
(* int.                                                                    *)
Emit(text, next) ==
  IF INT_MAX - written < Len(text)
  THEN status' = "returned" /\ result' = -1 /\ UNCHANGED <<str, pos>>
  ELSE str' = str \o text /\ pos' = next /\ UNCHANGED <<status, result>>

(* The end of a run of ordinary characters that starts at i.               *)
RunEnd(i) ==
  CHOOSE j \in i + 1 .. Len(format) + 1 :
    At(j) \in {"%", "NUL"} /\ \A k \in i + 1 .. j - 1 : format[k] # "%"

(* Ordinary characters up to the next %; a doubled % starts such a run.    *)
Ordinary ==
  /\ Busy
  /\ At(pos) # "NUL"
  /\ At(pos) # "%" \/ At(pos + 1) = "%"
  /\ LET start == IF At(pos) = "%" THEN pos + 1 ELSE pos
     IN Emit(SubSeq(format, start, RunEnd(start) - 1), RunEnd(start))
  /\ UNCHANGED <<format, ap, number, call>>

(* A directive with these letters starts at pos, and ends before After.    *)
Directive(letters) ==
  /\ Busy
  /\ At(pos) = "%"
  /\ \A i \in 1 .. Len(letters) : At(pos + i) = letters[i]

After(letters) == pos + Len(letters) + 1

(* Without an argument, va_arg is undefined. *)
Take == ap # << >> /\ ap' = Tail(ap)

Char ==
  /\ Directive(<<"c">>)
  /\ Emit(Head(ap).text, After(<<"c">>))
  /\ Take
  /\ UNCHANGED <<format, number, call>>

String ==
  /\ Directive(<<"s">>)
  /\ Emit(Head(ap).text, After(<<"s">>))
  /\ Take
  /\ UNCHANGED <<format, number, call>>

(* The number's own bits. *)
BadMagnitude(v, half) == v % (2 * half)

(* The unsigned negation of a negative number.                             *)
Magnitude(v, half) == IF v < 0 THEN (-(v % (2 * half))) % (2 * half) ELSE v

(* va_arg takes an integer of a width; its conversion starts.              *)
Convert(letters, half) ==
  /\ Directive(letters)
  /\ LET v == Wrap(Head(ap).int, half)
     IN number' = IF Last(letters) = "d"
                  THEN [letters |-> letters, text |-> << >>, negative |-> v < 0,
                        value |-> Magnitude(v, half)]
                  ELSE [letters |-> letters, text |-> << >>, negative |-> FALSE,
                        value |-> v % (2 * half)]
  /\ Take
  /\ UNCHANGED <<format, pos, str, status, result, call>>

Hexadecimal == {"x", "X"}

TakeInt       == Convert(<<"d">>, IntHalf)
TakeUInt      == \E x \in {"u"} \cup Hexadecimal : Convert(<<x>>, IntHalf)
TakeLong      == Convert(<<"l", "d">>, LongHalf)
TakeULong     == \E x \in {"u"} \cup Hexadecimal : Convert(<<"l", x>>, LongHalf)
TakeLongLong  == Convert(<<"l", "l", "d">>, LongHalf)
TakeULongLong == \E x \in {"u"} \cup Hexadecimal : Convert(<<"l", "l", x>>, LongHalf)

(* Any other letter: the rest of the format is written as it is.           *)
Unknown ==
  /\ Directive(<< >>)
  /\ At(pos + 1) \notin {"%", "c", "s", "d", "u", "x", "X", "l"}
  /\ Emit(SubSeq(format, pos, Len(format)), Len(format) + 1)
  /\ UNCHANGED <<format, ap, number, call>>

(* Goes back to the % instead. *)
BadLongUnknown ==
  \E l \in { <<"l">>, <<"l", "l">> } :
    /\ Directive(l)
    /\ At(After(l)) \notin {"d", "u", "x", "X"}
    /\ l = <<"l">> => At(After(l)) # "l"
    /\ UNCHANGED vars

(* Another letter after l or ll: nothing is written, and the letter is     *)
(* read again as an ordinary one.                                          *)
LongUnknown ==
  \E l \in { <<"l">>, <<"l", "l">> } :
    /\ Directive(l)
    /\ At(After(l)) \notin {"d", "u", "x", "X"}
    /\ l = <<"l">> => At(After(l)) # "l"
    /\ pos' = After(l)
    /\ UNCHANGED <<format, ap, str, number, status, result, call>>

Return ==
  /\ Busy
  /\ At(pos) = "NUL"
  /\ status' = "returned" /\ result' = written
  /\ UNCHANGED <<format, pos, ap, str, number, call>>

-----------------------------------------------------------------------------
(* The conversion of a number. *)

Lower   == Decimals \o <<"a", "b", "c", "d", "e", "f">>
Capital == Decimals \o <<"A", "B", "C", "D", "E", "F">>

Base(letters) == IF Last(letters) \in Hexadecimal THEN 16 ELSE 10

DigitOf(v, letters) == (IF Last(letters) = "X" THEN Capital ELSE Lower)[v + 1]

(* A while loop. *)
BadConverting(n) == Len(number.letters) = n /\ number.value # 0

(* A do loop; n tells the three functions apart, which differ in width.    *)
Converting(n) == Len(number.letters) = n /\ (number.text = << >> \/ number.value # 0)

(* One digit, then the rest of the value if it is not zero.                *)
ToStr(n) ==
  /\ Converting(n)
  /\ LET base == Base(number.letters)
     IN number' = [number EXCEPT !.text  = <<DigitOf(number.value % base, number.letters)>> \o @,
                                 !.value = @ \div base]
  /\ UNCHANGED <<format, pos, ap, str, status, result, call>>

uint_to_str      == ToStr(1)
ulong_to_str     == ToStr(2)
ulonglong_to_str == ToStr(3)

Signed == IF number.negative THEN <<"-">> \o number.text ELSE number.text

Converted ==
  /\ number # NoNumber
  /\ \A n \in 1 .. 3 : ~Converting(n)
  /\ Emit(Signed, After(number.letters))
  /\ number' = NoNumber
  /\ UNCHANGED <<format, ap, call>>

vsprintf ==
  \/ Ordinary \/ Char \/ String
  \/ TakeInt \/ TakeUInt \/ TakeLong \/ TakeULong \/ TakeLongLong \/ TakeULongLong
  \/ uint_to_str \/ ulong_to_str \/ ulonglong_to_str \/ Converted
  \/ LongUnknown \/ Unknown \/ Return

Next == Caller \/ Demonstration \/ vsprintf

Spec == Init /\ [][Next]_vars /\ WF_vars(vsprintf)
-----------------------------------------------------------------------------
(* Properties. *)

AnyDigit == Range(Lower) \cup Range(Capital)

(* Characters. The ones named here are strings, which the provers do not   *)
(* know of a literal.                                                      *)
AnyChar == STRING \cup AnyDigit \cup {"%", "=", "-", "s", "l", "d"}

Arg == [text : Seq(STRING), int : Int]

(* Every variable has its type, and the bytes written never exceed an int. *)
TypeOK ==
  /\ format \in Seq(AnyChar) /\ pos \in 1 .. Len(format) + 1
  /\ ap \in Seq(Arg)
  /\ str \in Seq(AnyChar) /\ Len(str) <= INT_MAX
  /\ number.letters \in { << >> } \cup Conversions
  /\ number.value \in 0 .. 2 * LongHalf - 1
  /\ number.text \in Seq(AnyDigit)
  /\ number.negative \in BOOLEAN
  /\ call \in [pieces : Seq(Seq(AnyChar)), args : Seq(Arg)]
  /\ status \in {"idle", "busy", "returned"}
  /\ result \in -1 .. INT_MAX

BufferSize(letters) ==
  IF Len(letters) > 1 THEN LongSize ELSE IF Last(letters) = "d" THEN IntSize ELSE UIntSize

(* The digits of a number, its sign and the NUL never run over the front   *)
(* of the buffer, whatever the number and the base: nothing in uint_to_str *)
(* or int_to_str checks.                                                   *)
DigitBufferHolds ==
  number # NoNumber => Len(Signed) + 1 <= BufferSize(number.letters)

(* The reference for what is written: the texts of the pieces, one after   *)
(* the other. A number has as many digits as it needs, and the k-th from   *)
(* the right is its share of the k-th power of the base.                   *)
Numeral(v, letters) ==
  LET base == Base(letters)
      size == CHOOSE n \in 1 .. LongSize :
                v < Power[base][n] /\ (n = 1 \/ v >= Power[base][n - 1])
  IN [k \in 1 .. size |-> DigitOf((v \div Power[base][size - k]) % base, letters)]

TextOf(piece, arg) ==
  IF piece[1] # "%" THEN piece
  ELSE CASE Last(piece) = "%" -> <<"%">>
         [] Last(piece) \in {"c", "s"} -> arg.text
         [] OTHER -> IF arg.int < 0 THEN <<"-">> \o Numeral(-arg.int, Tail(piece))
                                    ELSE Numeral(arg.int, Tail(piece))

(* Ordinary text. *)
Plain(piece) == piece # << >> /\ \A k \in DOMAIN piece : piece[k] \notin {"%", "NUL"}

Defined(pieces) == \A i \in DOMAIN pieces : pieces[i] \in Directives \/ Plain(pieces[i])

(* The text of the first n pieces. *)
Reference(n) ==
  LET arg(i) == IF TakesArgument(call.pieces[i]) THEN call.args[Taken(call.pieces, i)] ELSE NoNumber
  IN FlattenSeq([i \in 1 .. n |-> TextOf(call.pieces[i], arg(i))])

(* vsprintf writes what the format says, number by number, and returns its *)
(* length; or it returns -1 because the text is longer than an int counts, *)
(* not a byte too early.                                                   *)
Rendered ==
  status = "returned" /\ Defined(call.pieces) =>
    LET text == Reference(Len(call.pieces))
    IN IF Len(text) > INT_MAX THEN result = -1
                              ELSE str = text /\ result = Len(text) /\ ap = << >>

(* How %lld shows a number, and the line of kernel_main for one.           *)
Decimal(v) == TextOf(<<"%", "l", "l", "d">>, [text |-> << >>, int |-> v])

Line(s, v) ==
  s \o <<"=">> \o Decimal(v) \o <<"=">> \o
    Decimal(IF v < 0 /\ v # -LongHalf THEN -v ELSE v)

(* Numbers survive being read and printed.                                *)
(* printf with %d and atoi, %ld and atol, %lld and atoll are inverse, also *)
(* for the smallest number, whose digits overflow before the sign is       *)
(* applied. kernel_main shows a numeral within the range as it is, then    *)
(* the number read from it, which looks the same, and its absolute value:  *)
(* without a sign, except for the smallest, which has none. A string with  *)
(* anything but digits behind the sign reads as 0.                         *)
ReadsBack ==
  status = "returned" /\ result > 0 =>
    /\ Len(call.pieces) = 1 =>
         /\ call.pieces[1] = <<"%", "d">> => atoi(<<str>>) = call.args[1].int
         /\ call.pieces[1] = <<"%", "l", "d">> => atol(<<str>>) = call.args[1].int
         /\ call.pieces[1] = <<"%", "l", "l", "d">> => atoll(<<str>>) = call.args[1].int
    /\ \A s \in Cases : call = [pieces |-> Shown, args |-> ShownArgs(s)] =>
         /\ \A v \in LongRange : s = Decimal(v) => str = Line(s, v)
         /\ (\E i \in 2 .. Len(s) : s[i] \notin Range(Decimals)) => str = Line(s, 0)

(* Whatever the format, also one that is no format, vsprintf returns.      *)
EveryCallReturns == status = "busy" ~> status = "returned"
=============================================================================
