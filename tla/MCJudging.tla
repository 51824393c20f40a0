----------------------------- MODULE MCJudging -----------------------------
(* Instances of Judging for TLC: values of the constants the cfgs choose.  *)
EXTENDS Judging

Package(loads, checker, present, return, numbers, verbose) ==
  [loads |-> loads, checker |-> checker, present |-> present, return |-> return,
   numbers |-> numbers, verbose |-> verbose, hasTests |-> TRUE]

AcmRules == [s \in Submits |-> TRUE]
SchoolRules == [s \in Submits |-> FALSE]
InfoForTwo == [s \in Submits |-> s = 2]

(* Two tests and every way to find a checker and to read its exit code;    *)
(* files other than tests, two files of one number, a number below 0, and  *)
(* a package that does not load.                                           *)
VariedPackages == {
  Package(TRUE, "", {"default"}, "", <<2, 1, INVALID_ID>>, {2}),
  Package(TRUE, "", {"checker.exe", "default"}, "ejudge", <<4, -1>>, {4}),
  Package(TRUE, "named", {"named"}, "testlib", <<10, 3>>, {3}),
  Package(TRUE, "", {"check.exe"}, "none", <<7, 7>>, {}),
  Package(TRUE, "named", {"default"}, "none", <<1>>, {}),
  Package(FALSE, "default", {"default"}, "none", <<1>>, {})}

(* One package, with a verbose test, that loads, and one that does not.    *)
TwoPackages == {
  Package(TRUE, "default", {"default"}, "", <<1>>, {1}),
  Package(FALSE, "default", {"default"}, "", <<1>>, {})}

(* Two tests, one verbose, and each way the checker is chosen; two verbose *)
(* tests of one number.                                                    *)
SchoolPackages == {
  Package(TRUE, "", {"default"}, "", <<2, 1, INVALID_ID>>, {2}),
  Package(TRUE, "named", {"named"}, "testlib", <<5, 5>>, {5}),
  Package(FALSE, "default", {"default"}, "none", <<1>>, {})}

(* A package without a tests directory.                                    *)
NoTests == {[Package(TRUE, "default", {"default"}, "", <<>>, {}) EXCEPT !.hasTests = FALSE]}
=============================================================================
