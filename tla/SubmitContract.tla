--------------------------- MODULE SubmitContract ---------------------------
(***************************************************************************)
(* What the judging of a submission promises the daemon that runs it: it   *)
(* ends in a verdict, the verdict is the only thing it writes, into the    *)
(* row of that submission and no other, and until then it writes nothing.  *)
(* Bacsd takes its steps JudgeSubmit, StoreResult and Crash from here.     *)
(***************************************************************************)
CONSTANTS
  Submits,   \* ids of the rows of table "submit"
  Verdicts   \* the statuses a judging can end with

VARIABLES
  where,     \* "idle", "judging", "judged" or "dead"
  sid,       \* the submission in hand, or the last one
  verdict,   \* its verdict while it is judged and not stored, else "none"
  result     \* result[s]: column submit.result

vars == <<where, sid, verdict, result>>

Init ==
  /\ where = "idle" /\ sid \in Submits /\ verdict = "none"
  /\ result = [s \in Submits |-> "ST_RUNNING"]

Begin(s) ==
  /\ where = "idle" /\ where' = "judging" /\ sid' = s
  /\ UNCHANGED <<verdict, result>>

Judge ==
  /\ where = "judging" /\ where' = "judged"
  /\ \E v \in Verdicts : verdict' = v
  /\ UNCHANGED <<sid, result>>

(* That the update fails is not looked at.                                 *)
Store ==
  /\ where = "judged" /\ where' = "idle" /\ verdict' = "none"
  /\ result' = [result EXCEPT ![sid] = verdict] \/ UNCHANGED result
  /\ UNCHANGED sid

Die ==
  /\ where # "dead" /\ where' = "dead" /\ verdict' = "none"
  /\ UNCHANGED <<sid, result>>

Restart ==
  /\ where = "dead" /\ where' = "idle"
  /\ UNCHANGED <<sid, verdict, result>>

Next == (\E s \in Submits : Begin(s)) \/ Judge \/ Store \/ Die \/ Restart
Spec == Init /\ [][Next]_vars /\ WF_vars(Judge \/ Store)
=============================================================================
