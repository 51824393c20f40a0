----------------------------- MODULE MCLimitRun -----------------------------
(* Instances of LimitRun for TLC: values of the constants the cfgs choose. *)
EXTENDS LimitRun

(* A limit whose clock is the least there is, one whose clock is ten times *)
(* the limit, and none; checkers and compilers have no memory limit.       *)
SomeLimits == {[tl |-> 1000, ml |-> TRUE], [tl |-> 3500, ml |-> FALSE],
               [tl |-> 0, ml |-> TRUE]}
=============================================================================
