---------------------------- MODULE WaitContract ----------------------------
(***************************************************************************)
(* What a wait promises the daemon: it ends, not by the daemon's death if  *)
(* the configuration is complete, and a signal that is pending before it   *)
(* has elapsed ends it.  These are the guards of WaitElapsed and WaitTerm  *)
(* in Bacsd, where a wait has no length.                                   *)
(***************************************************************************)
VARIABLES
  where,   \* "waiting", "elapsed", "signalled" or "dead"
  signal,  \* a signal is pending
  missing  \* the configuration has no period for the pings

vars == <<where, signal, missing>>

Init == where = "waiting" /\ signal = FALSE /\ missing \in BOOLEAN

Elapse ==
  where = "waiting" /\ ~ signal /\ where' = "elapsed" /\ UNCHANGED <<signal, missing>>

Take ==
  /\ where = "waiting" /\ signal
  /\ where' = "signalled" /\ signal' = FALSE /\ UNCHANGED missing

Fail ==
  where = "waiting" /\ missing /\ where' = "dead" /\ UNCHANGED <<signal, missing>>

Come == ~ signal /\ signal' = TRUE /\ UNCHANGED <<where, missing>>

Next == Elapse \/ Take \/ Fail \/ Come
Spec == Init /\ [][Next]_vars /\ WF_vars(Elapse \/ Take \/ Fail)
=============================================================================
