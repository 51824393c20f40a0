------------------------------ MODULE LimitRun ------------------------------
(***************************************************************************)
(* limit_run (src/bin/limit_run.cpp): one program run under limits.  The   *)
(* parent polls its child and the clock; the child runs, uses CPU time,    *)
(* and ends by itself or by a signal at any moment in between.  Times are  *)
(* in milliseconds and advance in polls of 200 ms.                         *)
(***************************************************************************)
EXTENDS Integers, FiniteSetsExt

CONSTANTS
  Limits,    \* the limits it may be called with: tl, in ms, 0 for none,
             \* and ml, whether there is a memory limit
  Codes,     \* exit codes of the child
  Starts,    \* moments, within a second, at which it may be called
  Grain,     \* bound: CPU times are multiples of it
  MaxLag,    \* bound: polls that a nanosleep may last
  MaxCpu,    \* bound: CPU time of a child without a limit
  MaxClock   \* bound: the clock, for a child without a limit

ASSUME LimitsAssumption ==
  \A l \in Limits : l.tl \in Nat /\ l.ml \in BOOLEAN
ASSUME LimitRunBounds ==
  /\ 0 \in Codes /\ Codes \subseteq 0 .. 255
  /\ Starts \subseteq 0 .. 999 /\ Grain \in Nat \ {0}
  /\ MaxLag \in Nat \ {0} /\ MaxCpu \in Nat /\ MaxClock \in Nat

(* The signals a child may end by; SIGALRM stands for the three timers.    *)
TimeSignals == {"SIGXCPU", "SIGALRM"}
Signals == TimeSignals \cup {"SIGXFSZ", "SIGKILL", "SIGSEGV"}

Results == {"RUN_OK", "RUN_FAILED", "RUN_TIMEOUT", "RUN_OUT_OF_MEMORY",
            "RUN_ABNORMAL_EXIT", "RUN_REALTIMEOUT", "RUN_OUTPUT_LIMIT"}

VARIABLES
  limits,  \* the arguments TL and ML
  pc,      \* where the parent is
  begin,   \* the clock when the loop began
  clock,   \* CLOCK_MONOTONIC
  child,   \* the child: its state, and how it ended
  user,    \* its user CPU time
  system,  \* its system CPU time
  heavy,   \* whether its memory has reached the limit
  answer   \* the result file as _run reads it

vars == <<limits, pc, begin, clock, child, user, system, heavy, answer>>

Step == 200

(* The operators X_... are faulty variants of X, what a wrong change of    *)
(* the code would do: no specification uses them; each breaks a property.  *)

(* Milliseconds are taken for seconds.                                     *)
RealLimit_Short == Max({limits.tl \div 1000, 3})

(* max(TL / 100, 30) seconds                                               *)
RealLimit == Max({limits.tl \div 100, 30})

(* The hard limit of CPU time, a second over the soft one, which the       *)
(* program may catch; it counts user and system time alike.                *)
CpuLimit == IF limits.tl # 0 THEN (limits.tl \div 1000 + 2) * 1000 ELSE MaxCpu

Seconds(t) == t \div 1000

(* CPU time is compared instead of the clock.                              *)
Late_InCpuTime == limits.tl # 0 /\ user + system >= RealLimit * 1000

Late == limits.tl # 0 /\ Seconds(clock) >= Seconds(begin) + RealLimit

Unwritten == [result |-> "RUN_FAILED", code |-> 0, time |-> 0]

-----------------------------------------------------------------------------
TypeOK ==
  /\ limits \in Limits
  /\ pc \in {"fork", "wait", "sleep", "clock", "done"}
  /\ begin \in Nat /\ clock \in Nat /\ begin <= clock
  /\ child \in [state : {"running", "dying", "ended"}, code : Codes,
                sig : Signals \cup {"none"}]
  /\ user \in Nat /\ system \in Nat /\ user + system <= CpuLimit
  /\ heavy \in BOOLEAN
  /\ answer \in [result : Results, code : Codes, time : Nat]

Init ==
  /\ limits \in Limits
  /\ pc = "fork"
  /\ begin \in Starts /\ clock = begin
  /\ child = [state |-> "running", code |-> 0, sig |-> "none"]
  /\ user = 0 /\ system = 0 /\ heavy = FALSE
  /\ answer = Unwritten

-----------------------------------------------------------------------------
(* The parent *)

(* main() up to the loop.                                                  *)
Fork ==
  /\ pc = "fork" /\ pc' = "wait"
  /\ UNCHANGED <<limits, begin, clock, child, user, system, heavy, answer>>

(* Wrong arguments, or no process: an exit code without a result, which    *)
(* _run takes for RUN_FAILED.                                              *)
CannotFork ==
  /\ pc = "fork" /\ pc' = "done"
  /\ child' = [child EXCEPT !.state = "ended"]
  /\ UNCHANGED <<limits, begin, clock, user, system, heavy, answer>>

(* A signal nobody thought of leaves the result unset.                     *)
StatusResult_Unset ==
  CASE child.sig = "none"         -> "RUN_OK"
    [] child.sig \in TimeSignals  -> "RUN_REALTIMEOUT"
    [] child.sig = "SIGXFSZ"      -> "RUN_OUTPUT_LIMIT"
    [] OTHER                      -> "unset"

(* What is made of a status from waitpid(): first of the way the child     *)
(* ended, then of what it used, which overrules it.                        *)
StatusResult ==
  CASE child.sig = "none"         -> "RUN_OK"
    [] child.sig \in TimeSignals  -> "RUN_REALTIMEOUT"
    [] child.sig = "SIGXFSZ"      -> "RUN_OUTPUT_LIMIT"
    [] OTHER                      -> "RUN_ABNORMAL_EXIT"

(* What the child used only counts when it did not exit.                   *)
Result_TrustsExit ==
  IF child.sig = "none" THEN "RUN_OK"
  ELSE IF limits.tl # 0 /\ user >= limits.tl THEN "RUN_TIMEOUT"
  ELSE IF limits.ml /\ heavy THEN "RUN_OUT_OF_MEMORY"
  ELSE StatusResult

(* The memory is looked at before the time.                                *)
Result_MemoryFirst ==
  IF limits.ml /\ heavy THEN "RUN_OUT_OF_MEMORY"
  ELSE IF limits.tl # 0 /\ user >= limits.tl THEN "RUN_TIMEOUT"
  ELSE StatusResult

Result ==
  IF limits.tl # 0 /\ user >= limits.tl THEN "RUN_TIMEOUT"
  ELSE IF limits.ml /\ heavy THEN "RUN_OUT_OF_MEMORY"
  ELSE StatusResult

(* waitpid() finds that the child has ended.                               *)
Wait ==
  /\ pc = "wait" /\ child.state = "ended" /\ pc' = "done"
  /\ answer' = [result |-> Result, code |-> child.code, time |-> user]
  /\ UNCHANGED <<limits, begin, clock, child, user, system, heavy>>

(* waitpid() finds that it has not.                                        *)
StillRunning ==
  /\ pc = "wait" /\ child.state # "ended" /\ pc' = "sleep"
  /\ UNCHANGED <<limits, begin, clock, child, user, system, heavy, answer>>

(* nanosleep(), at least a step long; the child uses some of that time.    *)
(* getrusage() then sees nothing of a child that was not waited for, and   *)
(* time_used stays 0.                                                      *)
Sleep ==
  /\ pc = "sleep" /\ pc' = "clock"
  /\ \E lag \in 1 .. MaxLag : clock' = clock + lag * Step
  /\ clock' <= MaxClock
  /\ \E u, s \in {0, Grain} :
       /\ child.state # "running" => u = 0 /\ s = 0
       /\ user' = user + u /\ system' = system + s
  /\ user' + system' <= Min({CpuLimit, clock' - begin})
  /\ UNCHANGED <<limits, begin, child, heavy, answer>>

(* The clock has run out: the child is killed and not waited for, even if  *)
(* it has ended since waitpid() looked.                                    *)
StopChild ==
  /\ pc = "clock" /\ Late /\ pc' = "done"
  /\ child' = [child EXCEPT !.state = IF @ = "running" THEN "dying" ELSE @]
  /\ answer' = [result |-> "RUN_REALTIMEOUT", code |-> 0, time |-> 0]
  /\ UNCHANGED <<limits, begin, clock, user, system, heavy>>

NotLate ==
  /\ pc = "clock" /\ ~ Late /\ pc' = "wait"
  /\ UNCHANGED <<limits, begin, clock, child, user, system, heavy, answer>>

-----------------------------------------------------------------------------
(* The child *)

ChildLives == pc # "fork" /\ child.state = "running"

(* It exits; a program that cannot be started exits with code 1.           *)
Exits(c) ==
  /\ ChildLives
  /\ child' = [state |-> "ended", code |-> c, sig |-> "none"]
  /\ UNCHANGED <<limits, pc, begin, clock, user, system, heavy, answer>>

(* A signal ends it: a fault of its own, or one of its limits.             *)
IsSignaled(g) ==
  /\ ChildLives
  /\ child' = [state |-> "ended", code |-> 0, sig |-> g]
  /\ UNCHANGED <<limits, pc, begin, clock, user, system, heavy, answer>>

(* Its memory reaches the limit, which is only looked at in the end.       *)
Grows ==
  /\ ChildLives /\ ~ heavy
  /\ heavy' = TRUE
  /\ UNCHANGED <<limits, pc, begin, clock, child, user, system, answer>>

(* SIGKILL takes effect.                                                   *)
Dies ==
  /\ child.state = "dying"
  /\ child' = [child EXCEPT !.state = "ended", !.sig = "SIGKILL"]
  /\ UNCHANGED <<limits, pc, begin, clock, user, system, heavy, answer>>

-----------------------------------------------------------------------------
ParentStep ==
  Fork \/ CannotFork \/ Wait \/ StillRunning \/ Sleep \/ StopChild \/ NotLate

Next ==
  \/ ParentStep
  \/ \E c \in Codes : Exits(c)
  \/ \E g \in Signals : IsSignaled(g)
  \/ Grows \/ Dies

(* The parent is scheduled, and a killed process dies; the child need not  *)
(* do anything.                                                            *)
Spec == Init /\ [][Next]_vars /\ WF_vars(ParentStep) /\ WF_vars(Dies)

-----------------------------------------------------------------------------
(* Properties *)

(* RUN_OK, and an exit code other than 0, are the child's own doing: it    *)
(* ended by itself, with that code, within its limits.  A program that was *)
(* stopped always has the code 0.                                          *)
OkIsTheChilds ==
  pc = "done" =>
    /\ answer.result = "RUN_OK" =>
         /\ child.state = "ended" /\ child.sig = "none" /\ answer.code = child.code
         /\ limits.tl # 0 => user < limits.tl
         /\ limits.ml => ~ heavy
    /\ answer.code # 0 => child.sig = "none" /\ answer.code = child.code

(* A program that has used up its time is a timeout however it ended, also *)
(* if it exited, crashed or used too much memory at the same time; only    *)
(* the clock comes before.                                                 *)
OveruseIsTimeout ==
  pc = "done" /\ limits.tl # 0 /\ user >= limits.tl =>
    \/ answer.result = "RUN_TIMEOUT"
    \/ answer.result = "RUN_REALTIMEOUT" /\ Seconds(clock) - Seconds(begin) >= RealLimit

(* The clock stops a program neither two seconds early, which is what      *)
(* reckoning in whole seconds may cost, nor later than at the first poll   *)
(* after the limit, and the limit is at least ten times the CPU time.      *)
ClockIsKept ==
  /\ answer.result = "RUN_REALTIMEOUT" /\ child.sig \notin TimeSignals =>
       clock - begin > Max({10 * limits.tl, 30000}) - 2000
  /\ limits.tl # 0 => clock - begin <= Max({10 * limits.tl, 30000}) + MaxLag * Step

(* A program with a time limit is answered for, whatever it does, and does *)
(* not outlive the answer for long.                                        *)
RunEnds == limits.tl # 0 ~> pc = "done" /\ child.state = "ended"
=============================================================================
