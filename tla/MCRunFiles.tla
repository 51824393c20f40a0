----------------------------- MODULE MCRunFiles -----------------------------
(* Values for TLC.                                                         *)
EXTENDS RunFiles

(* Files and streams; two tests in order, the first verbose, and two tests *)
(* of the same number, verbose.                                            *)
BothProblems ==
  {[input |-> TRUE, output |-> TRUE, number |-> [t \in 1 .. Tests |-> t],
    verbose |-> {1}],
   [input |-> FALSE, output |-> FALSE, number |-> [t \in 1 .. Tests |-> 1],
    verbose |-> {1}]}
=============================================================================
