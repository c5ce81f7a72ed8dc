------------------------------ MODULE Numbers -------------------------------
(***************************************************************************)
(* Numbers read from text, and their absolute values (libc/stdlib).        *)
(* Integers have the width that the constants give them: int is            *)
(* -IntHalf .. IntHalf - 1, long and long long are                         *)
(* -LongHalf .. LongHalf - 1. Signed arithmetic beyond that, which C       *)
(* leaves undefined, wraps around in the machine code of these functions.  *)
(***************************************************************************)
EXTENDS Integers, SequencesExt

CONSTANTS IntHalf, LongHalf   \* 2^31 and 2^63 in the code

Wrap(value, half) == ((value + half) % (2 * half)) - half

Decimals == <<"0", "1", "2", "3", "4", "5", "6", "7", "8", "9">>

CharValue(c) == SelectInSeq(Decimals, LAMBDA d : d = c) - 1

Shifted(value, c, half) == Wrap(Wrap(value * 10, half) + CharValue(c), half)

Value(digits, half) ==
  LET value[n \in 0 .. Len(digits)] ==   \* after n turns of the loop
        IF n = 0 THEN 0 ELSE Shifted(value[n - 1], digits[n], half)
  IN value[Len(digits)]

(* The negated value is not wrapped but cut off. *)
BadReadCut(str, half) ==
  LET isNegative == str # << >> /\ str[1] = "-"
      digits     == IF isNegative THEN Tail(str) ELSE str
  IN IF \E i \in DOMAIN digits : digits[i] \notin Range(Decimals) THEN 0
     ELSE IF isNegative THEN -(Value(digits, half) % half) ELSE Value(digits, half)

(* A sign, then digits; with anything else among them the number is 0.     *)
Read(str, half) ==
  LET isNegative == str # << >> /\ str[1] = "-"
      digits     == IF isNegative THEN Tail(str) ELSE str
  IN IF \E i \in DOMAIN digits : digits[i] \notin Range(Decimals) THEN 0
     ELSE IF isNegative THEN Wrap(-Value(digits, half), half) ELSE Value(digits, half)

(* Callers give a pointer: <<s>> points to the string s.                   *)
Null == << >>

atoi(str)  == IF str = Null THEN 0 ELSE Read(str[1], IntHalf)
atol(str)  == IF str = Null THEN 0 ELSE Read(str[1], LongHalf)
atoll(str) == IF str = Null THEN 0 ELSE Read(str[1], LongHalf)

(* The smallest integer has no positive counterpart. *)
Absolute(x, half) == IF x < 0 THEN (IF x = -half THEN -half ELSE -x) ELSE x

abs(x)   == Absolute(x, IntHalf)
labs(x)  == Absolute(x, LongHalf)
llabs(x) == Absolute(x, LongHalf)
=============================================================================
