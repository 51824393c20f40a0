------------------------------ MODULE MCBacsd ------------------------------
(* Instances of Bacsd for TLC: values of the constants the cfgs choose.    *)
EXTENDS Bacsd, TLC

CONSTANTS d1, d2, d3, v1, v2

Symmetry == Permutations(Daemons) \cup Permutations(Verdicts)

(* Every daemon runs the check loop.                                       *)
CheckLoops == [d \in Daemons |-> <<>>]

(* d1 is started by hand for submission 1, the others run the check loop.  *)
ByHand == [d \in Daemons |-> IF d = d1 THEN <<1>> ELSE <<>>]
=============================================================================
