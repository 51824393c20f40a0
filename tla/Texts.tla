------------------------------- MODULE Texts -------------------------------
(***************************************************************************)
(* What is left of a text when some characters are not counted.  The n-th  *)
(* character left is found by its rank, not by recursion, so that it can   *)
(* be reasoned about.                                                      *)
(***************************************************************************)
EXTENDS Naturals, Sequences, FiniteSets

(* The places of the characters that count.                                *)
Kept(s, ignored) == {i \in DOMAIN s : s[i] \notin ignored}

(* How many of the places come up to m.                                    *)
UpTo(places, m) == Cardinality({j \in places : j <= m})

(* The n-th of the places.                                                 *)
Place(places, n) == CHOOSE i \in places : UpTo(places, i) = n

Without(s, ignored) ==
  LET places == Kept(s, ignored)
  IN [n \in 1 .. Cardinality(places) |-> s[Place(places, n)]]
=============================================================================
