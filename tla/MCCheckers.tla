----------------------------- MODULE MCCheckers -----------------------------
(* Small files: integers of 8 bits, a letter, white space, the two bytes   *)
(* that look like the end of a file, and the one that ends a C string.     *)
EXTENDS Checkers

MinusTwenty == -20

Bytes ==
  {"-", "0", "1", "2", "8", "x", "n", " ", "TAB", "CR", "LF", "EOFC", "FF", "NUL", "BAD"}

SmallTexts ==
  BoundedSeq({"1", "x", " ", "CR", "LF", "EOFC", "FF"}, 3) \cup
  BoundedSeq({"1", "x", "TAB", "NUL"}, 3)
Tokens ==
  BoundedSeq({"-", "0", "1", "2", "8"}, 4) \cup BoundedSeq({"-", "0", "1", "NUL"}, 3)

SomeFiles ==
  [inf : {<<"1">>}, ouf : SmallTexts \cup {NoFile}, ans : {<<"1">>, NoFile}] \cup
  [inf : {<<"1">>}, ouf : Tokens, ans : {<<"1">>}]

(* What the default checker compares.                                      *)
Lines == BoundedSeq({"n", " ", "CR", "LF"}, 4) \cup {NoFile}

(* What is left of a text is what SelectSeq leaves of it.                  *)
ASSUME WithoutSelects ==
  \A s \in SmallTexts \cup Tokens \cup (Lines \ {NoFile}), ignored \in {Unseen, {"CR"}, {}} :
    Without(s, ignored) = SelectSeq(s, LAMBDA c : c \notin ignored)
=============================================================================
