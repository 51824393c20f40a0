---------------------------- MODULE MCWaitCycle ----------------------------
(* A second of 7 milliseconds, so that delays carry and do not divide it.  *)
EXTENDS WaitCycle

SomeDelays  == {0, 3, 7, 12, 20}
SomePeriods == {0, 1, 2, 3, 9}
=============================================================================
