------------------------------ MODULE Checkers ------------------------------
(***************************************************************************)
(* The checker of a test as run_test() runs it: the package's own, built   *)
(* on testlib.h, or the default one; which of them it is, init_checker()   *)
(* has found out (CheckerOf of Judging).  Both are given the same three    *)
(* files, and both answer with their exit code.                            *)
(***************************************************************************)
EXTENDS Checker

CONSTANTS
  Outputs, Answers  \* what the default checker's two files may be

ASSUME TextsAssumption ==
  \A t \in Outputs \cup Answers : t = NoFile \/ t \in Seq(Chars)

VARIABLES
  which,     \* "package" or "default"
  out, cout  \* what the default checker has left to read

Default == INSTANCE DefaultChecker WITH disk <- [out |-> disk.ouf, cout |-> disk.ans]

(* The command is built of the checker and the names of the three files.   *)
StartChecker ==
  \/ which = "package" /\ Init /\ out = <<>> /\ cout = <<>>
  \/ /\ which = "default"
     /\ disk \in [inf : {NoFile}, ouf : Outputs, ans : Answers] /\ Default!Init
     /\ st = [x \in Streams |-> Closed] /\ up = FALSE /\ reads = 0
     /\ given = <<>> /\ cut = FALSE /\ missed = FALSE
     /\ result = "none" /\ blamed = "none"

RunChecker ==
  \/ which = "package" /\ Next /\ UNCHANGED <<which, out, cout>>
  \/ /\ which = "default"
     /\ UNCHANGED <<which, disk, st, up, reads, given, cut, missed, result, blamed>>
     /\ Default!Next

CheckersSpec == StartChecker /\ [][RunChecker]_<<vars, which, out, cout>>

-----------------------------------------------------------------------------
(* Properties *)

(* The verdict is ST_ACCEPTED for exactly the outputs that differ from the *)
(* correct one in nothing but carriage returns and the line ends after the *)
(* last line, and ST_WRONG_ANSWER for the others (checkdef.cpp:20, and its *)
(* tests from line 51 on).                                                 *)
ComparesLines == which = "default" => Default!ComparesLines
=============================================================================
