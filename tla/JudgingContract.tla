-------------------------- MODULE JudgingContract --------------------------
(***************************************************************************)
(* What a pool of judging daemons promises the contest system, whatever    *)
(* the locking, the SQL statements and the order of the queue: a           *)
(* submission is taken from the queue by exactly one daemon, stays         *)
(* ST_RUNNING while that daemon judges it, and gets one verdict, once.     *)
(* A daemon that dies leaves its submission ST_RUNNING for ever: nothing   *)
(* in the daemons ever takes a running row back.                           *)
(***************************************************************************)
CONSTANTS
  Daemons,   \* the judging daemons
  Submits,   \* ids of the rows of table "submit"
  Verdicts   \* the statuses a judged submission can end with

VARIABLES
  result,    \* result[s]: column submit.result, "absent" before the insert
  judges     \* judges[s]: the daemons that have taken s and not settled it

vars == <<result, judges>>

Rows == {"absent", "ST_PENDING", "ST_RUNNING"} \cup Verdicts

TypeOK ==
  /\ result \in [Submits -> Rows]
  /\ judges \in [Submits -> SUBSET Daemons]

Init ==
  /\ result = [s \in Submits |-> "absent"]
  /\ judges = [s \in Submits |-> {}]

(* A contestant submits: the row appears in the queue. *)
Arrive(s) ==
  /\ result[s] = "absent"
  /\ result' = [result EXCEPT ![s] = "ST_PENDING"]
  /\ UNCHANGED judges

(* An idle daemon takes a pending submission. *)
Take(s, d) ==
  /\ result[s] = "ST_PENDING"
  /\ judges[s] = {}
  /\ \A t \in Submits : d \notin judges[t]
  /\ result' = [result EXCEPT ![s] = "ST_RUNNING"]
  /\ judges' = [judges EXCEPT ![s] = {d}]

(* The daemon that took the submission records its verdict. *)
Settle(s, d, v) ==
  /\ result[s] = "ST_RUNNING"
  /\ judges[s] = {d}
  /\ result' = [result EXCEPT ![s] = v]
  /\ judges' = [judges EXCEPT ![s] = {}]

(* The daemon that took the submission dies; the row is orphaned. *)
Abandon(s, d) ==
  /\ judges[s] = {d}
  /\ judges' = [judges EXCEPT ![s] = {}]
  /\ UNCHANGED result

Next ==
  \E s \in Submits :
    \/ Arrive(s)
    \/ \E d \in Daemons :
         \/ Take(s, d)
         \/ Abandon(s, d)
         \/ \E v \in Verdicts : Settle(s, d, v)

Spec == Init /\ [][Next]_vars
=============================================================================
