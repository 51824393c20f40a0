---------------------------- MODULE IntegerToken ----------------------------
(***************************************************************************)
(* stringToLongLong of testlib.h: how a checker or validator reads the     *)
(* token of an integer, at any width.  A token is a sequence of            *)
(* characters.                                                             *)
(***************************************************************************)
EXTENDS Integers, Sequences, SequencesExt

CONSTANT Top  \* one more than the greatest long long: 2^63 in the code

ASSUME IntegerTokenAssumption == Top \in Nat \ {0}

Figures == <<"0", "1", "2", "3", "4", "5", "6", "7", "8", "9">>
Digit == [c \in ToSet(Figures) |-> (CHOOSE f \in 1 .. 10 : Figures[f] = c) - 1]

LLONG_MIN == - Top
LLONG_MAX == Top - 1

(* The decimal figures of a number, as they are written.                   *)
Figured[n \in Nat] ==
  IF n < 10 THEN <<Figures[n + 1]>> ELSE Append(Figured[n \div 10], Figures[(n % 10) + 1])
Decimal(n) == IF n < 0 THEN <<"-">> \o Figured[- n] ELSE Figured[n]

(* Signed arithmetic as the machine does it.                               *)
Wrapped(n) == ((n + Top) % (2 * Top)) - Top

(* As many figures as LLONG_MIN has: 19 in the code.                       *)
MaxFigures == Len(Figured[Top])

-----------------------------------------------------------------------------
(* equals(integer, s): the figures of the integer are compared from the    *)
(* last on; `rest' is s without its sign.                                  *)
Unsigned(integer, s) == IF integer < 0 THEN Tail(s) ELSE s

Equals(integer, s) ==
  IF integer \in {LLONG_MIN, 0} THEN s = Decimal(integer)
  ELSE /\ s # <<>> /\ (integer < 0 => s[1] = "-")
       /\ Unsigned(integer, s) = Decimal(IF integer < 0 THEN - integer ELSE integer)

HasMinus(s) == Len(s) > 1 /\ s[1] = "-"
Body(s)     == IF HasMinus(s) THEN Tail(s) ELSE s

(* The sum after each of the figures.                                      *)
Accumulated(s) ==
  LET b == Body(s)
      sum[i \in 0 .. Len(b)] ==
        IF i = 0 THEN 0 ELSE Wrapped(Wrapped(sum[i - 1] * 10) + Digit[b[i]])
  IN sum[Len(b)]

LeadingZeroes(s) ==
  LET b     == Body(s)
      other == SelectInSeq(b, LAMBDA c : c # "0")
  IN IF other = 0 THEN Len(b) ELSE other - 1

Negated(s) == IF HasMinus(s) THEN Wrapped(- Accumulated(s)) ELSE Accumulated(s)

(* The operators X_... are faulty variants of X: no specification uses     *)
(* them, each breaks a property.  Here: a zero in front is let through.    *)
Malformed_LeadingZero(s) == \E j \in DOMAIN Body(s) : Body(s)[j] \notin ToSet(Figures)

(* Not the figures of a number, or more of them than a number is written   *)
(* with.                                                                   *)
Malformed(s) ==
  \/ \E j \in DOMAIN Body(s) : Body(s)[j] \notin ToSet(Figures)
  \/ LET z == LeadingZeroes(s)
     IN z > 0 /\ (Body(s) # <<"0">> \/ HasMinus(s))

(* A token as long as LLONG_MAX, or longer, is compared with the number it *)
(* was read as.  The test for a negative sum before that may be missing:   *)
(* the sum overflows, and the compiler need not expect it.                 *)
Overflows(s) == Len(s) >= MaxFigures /\ ~ Equals(Negated(s), s)

(* The tokens the function quits at with _pe; of the others, the value.    *)
Refuses(s, testsSum) ==
  /\ s # Decimal(LLONG_MIN)
  /\ \/ Len(s) > MaxFigures + 1
     \/ Malformed(s)
     \/ testsSum /\ Accumulated(s) < 0
     \/ Overflows(s)

StringToLongLong(s) == IF s = Decimal(LLONG_MIN) THEN LLONG_MIN ELSE Negated(s)
=============================================================================
