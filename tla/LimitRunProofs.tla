--------------------------- MODULE LimitRunProofs ---------------------------
(***************************************************************************)
(* Proofs about LimitRun, for all limits and every behaviour of the child: *)
(* the types, and what the answer, the time and the clock say of it.       *)
(***************************************************************************)
EXTENDS LimitRun, TLAPS

LEMMA MaxIs ==
  ASSUME NEW a \in Int, NEW b \in Int
  PROVE  Max({a, b}) = IF a >= b THEN a ELSE b
<1>1. \E x \in {a, b} : \A y \in {a, b} : x >= y
  OBVIOUS
<1>2. \A x \in {a, b} : (\A y \in {a, b} : x >= y) => x = IF a >= b THEN a ELSE b
  OBVIOUS
<1> QED BY <1>1, <1>2 DEF Max

LEMMA MinIs ==
  ASSUME NEW a \in Int, NEW b \in Int
  PROVE  Min({a, b}) = IF a <= b THEN a ELSE b
<1>1. \E x \in {a, b} : \A y \in {a, b} : x <= y
  OBVIOUS
<1>2. \A x \in {a, b} : (\A y \in {a, b} : x <= y) => x = IF a <= b THEN a ELSE b
  OBVIOUS
<1> QED BY <1>1, <1>2 DEF Min

(* The clock limit in seconds, and the ten times TL that it stands for.    *)
LEMMA RealLimitIs ==
  ASSUME limits \in Limits
  PROVE  /\ RealLimit \in Nat /\ RealLimit >= 30
         /\ 1000 * RealLimit <= Max({10 * limits.tl, 30000})
         /\ Max({10 * limits.tl, 30000}) - 1000 < 1000 * RealLimit
         /\ Max({10 * limits.tl, 30000}) \in Nat
<1> DEFINE t == limits.tl  q == limits.tl \div 100
<1>1. t \in Nat
  BY LimitsAssumption
<1>2. q \in Nat /\ 100 * q <= t /\ t < 100 * q + 100
  BY <1>1
<1>3. RealLimit = IF q >= 30 THEN q ELSE 30
  BY <1>2, MaxIs DEF RealLimit
<1>4. Max({10 * t, 30000}) = IF 10 * t >= 30000 THEN 10 * t ELSE 30000
  BY <1>1, MaxIs
<1> HIDE DEF t, q
<1>5. /\ RealLimit \in Nat /\ RealLimit >= 30
      /\ 1000 * RealLimit <= Max({10 * t, 30000})
      /\ Max({10 * t, 30000}) - 1000 < 1000 * RealLimit
      /\ Max({10 * t, 30000}) \in Nat
  BY <1>1, <1>2, <1>3, <1>4
<1> QED BY <1>5 DEF t

-----------------------------------------------------------------------------
(* The inductive invariant *)

(* A child that a signal ended has no exit code, and one that the parent   *)
(* has killed is not waited for.                                           *)
ChildFits ==
  /\ child.state # "ended" => child.sig = "none"
  /\ child.sig # "none" \/ child.state # "ended" => child.code = 0
  /\ child.state = "dying" => pc = "done"

(* Before the loop nothing has happened yet.                               *)
NothingYet == pc = "fork" => user = 0 /\ clock = begin

(* The three ways to an answer: no child, its status, the clock.           *)
Unforked == answer = Unwritten /\ child.state = "ended" /\ user = 0
Waited   == /\ answer = [result |-> Result, code |-> child.code, time |-> user]
            /\ child.state = "ended"
Stopped  == /\ answer = [result |-> "RUN_REALTIMEOUT", code |-> 0, time |-> 0]
            /\ Late /\ child.state # "running"

Answers == IF pc = "done" THEN Unforked \/ Waited \/ Stopped ELSE answer = Unwritten

(* The loop sleeps only if the clock has not run out, and then once.       *)
InTime == pc \in {"wait", "sleep"} => ~ Late
OnePoll == limits.tl # 0 => clock - begin <= Max({10 * limits.tl, 30000}) + MaxLag * Step

LimitInv == TypeOK /\ ChildFits /\ NothingYet /\ Answers /\ InTime /\ OnePoll

-----------------------------------------------------------------------------
(* Seconds and milliseconds                                                *)
LEMMA SecondsAre ==
  ASSUME NEW t \in Nat
  PROVE  Seconds(t) \in Nat /\ 1000 * Seconds(t) <= t /\ t < 1000 * Seconds(t) + 1000
BY DEF Seconds

(* What the clock says while it has not run out, and when it has.          *)
LEMMA LateIs ==
  ASSUME TypeOK, limits.tl # 0
  PROVE  /\ ~ Late => clock - begin <= Max({10 * limits.tl, 30000})
         /\ Late   => clock - begin > Max({10 * limits.tl, 30000}) - 2000
<1>1. clock \in Nat /\ begin \in Nat /\ limits \in Limits
  BY DEF TypeOK
<1>2. /\ Seconds(clock) \in Nat /\ 1000 * Seconds(clock) <= clock
      /\ clock < 1000 * Seconds(clock) + 1000
  BY <1>1, SecondsAre
<1>3. /\ Seconds(begin) \in Nat /\ 1000 * Seconds(begin) <= begin
      /\ begin < 1000 * Seconds(begin) + 1000
  BY <1>1, SecondsAre
<1>4. /\ RealLimit \in Nat
      /\ 1000 * RealLimit <= Max({10 * limits.tl, 30000})
      /\ Max({10 * limits.tl, 30000}) - 1000 < 1000 * RealLimit
      /\ Max({10 * limits.tl, 30000}) \in Nat
  BY <1>1, RealLimitIs
<1>5. Late <=> Seconds(clock) >= Seconds(begin) + RealLimit
  BY DEF Late
<1> QED BY <1>1, <1>2, <1>3, <1>4, <1>5

LEMMA CpuLimitIs ==
  ASSUME limits \in Limits
  PROVE  CpuLimit \in Nat
<1>1. limits.tl \in Nat /\ MaxCpu \in Nat
  BY LimitsAssumption, LimitRunBounds
<1> QED BY <1>1 DEF CpuLimit

-----------------------------------------------------------------------------
(* The steps                                                               *)
LEMMA InitLimitInv == Init => LimitInv
<1> SUFFICES ASSUME Init PROVE LimitInv
  OBVIOUS
<1>1. limits \in Limits /\ begin \in Nat /\ clock = begin /\ 0 \in Codes
  BY LimitRunBounds DEF Init
<1>2. CpuLimit \in Nat
  BY <1>1, CpuLimitIs
<1>3. TypeOK
  <2>1. heavy \in BOOLEAN
    BY Zenon DEF Init
  <2>2. answer \in [result : Results, code : Codes, time : Nat]
    BY <1>1 DEF Init, Unwritten, Results
  <2>3. child \in [state : {"running", "dying", "ended"}, code : Codes,
                   sig : Signals \cup {"none"}]
    BY <1>1 DEF Init
  <2>4. user \in Nat /\ system \in Nat /\ user + system <= CpuLimit
    BY <1>2 DEF Init
  <2> QED BY <1>1, <2>1, <2>2, <2>3, <2>4 DEF Init, TypeOK
<1>4. ChildFits /\ NothingYet /\ Answers /\ InTime
  BY DEF Init, ChildFits, NothingYet, Answers, InTime
<1>5. OnePoll
  <2>1. Max({10 * limits.tl, 30000}) \in Nat /\ MaxLag \in Nat
    BY <1>1, RealLimitIs, LimitRunBounds
  <2> QED BY <1>1, <2>1 DEF OnePoll, Step
<1> QED BY <1>3, <1>4, <1>5 DEF LimitInv

(* The steps that leave the clock and the times alone.                     *)
LEMMA StillStep ==
  ASSUME LimitInv, UNCHANGED <<limits, begin, clock, user, system>>
  PROVE  /\ OnePoll' /\ (Late' <=> Late) /\ CpuLimit' = CpuLimit
         /\ limits' \in Limits /\ begin' \in Nat /\ clock' \in Nat /\ begin' <= clock'
         /\ user' \in Nat /\ system' \in Nat /\ user' + system' <= CpuLimit'
BY DEF LimitInv, TypeOK, OnePoll, Late, RealLimit, CpuLimit

LEMMA SleepStep ==
  ASSUME LimitInv, Sleep
  PROVE  LimitInv'
<1>1. /\ UNCHANGED <<limits, begin, child, heavy, answer>>
      /\ pc = "sleep" /\ pc' = "clock"
  BY DEF Sleep
<1>2. /\ limits \in Limits /\ begin \in Nat /\ clock \in Nat /\ begin <= clock
      /\ user \in Nat /\ system \in Nat /\ Grain \in Nat /\ MaxLag \in Nat
  BY LimitRunBounds DEF LimitInv, TypeOK
<1>3. PICK lag \in 1 .. MaxLag : clock' = clock + lag * Step
  BY DEF Sleep
<1>4. clock' \in Nat /\ begin <= clock' /\ clock' <= clock + MaxLag * Step
  BY <1>2, <1>3 DEF Step
<1>5. PICK u \in {0, Grain}, s \in {0, Grain} : user' = user + u /\ system' = system + s
  BY DEF Sleep
<1>6. user' \in Nat /\ system' \in Nat
  BY <1>2, <1>5
<1>7. user' + system' <= CpuLimit
  <2>1. CpuLimit \in Nat
    BY <1>2, CpuLimitIs
  <2>2. Min({CpuLimit, clock' - begin}) <= CpuLimit
    BY <1>2, <1>4, <2>1, MinIs
  <2>3. user' + system' <= Min({CpuLimit, clock' - begin})
    BY DEF Sleep
  <2>4. Min({CpuLimit, clock' - begin}) \in Int
    BY <1>2, <1>4, <2>1, MinIs
  <2>5. user' + system' \in Int
    BY <1>6
  <2>6. \A a, b, c \in Int : a <= b /\ b <= c => a <= c
    OBVIOUS
  <2> QED BY <2>1, <2>2, <2>3, <2>4, <2>5, <2>6
<1>8. CpuLimit' = CpuLimit
  BY <1>1 DEF CpuLimit
<1>9. TypeOK'
  BY <1>1, <1>2, <1>4, <1>6, <1>7, <1>8 DEF LimitInv, TypeOK
<1>10. OnePoll'
  <2> SUFFICES ASSUME limits.tl # 0
               PROVE  clock' - begin <= Max({10 * limits.tl, 30000}) + MaxLag * Step
    BY <1>1 DEF OnePoll
  <2>1. clock - begin <= Max({10 * limits.tl, 30000})
    BY <1>1, LateIs DEF LimitInv, InTime
  <2>2. Max({10 * limits.tl, 30000}) \in Nat
    BY <1>2, RealLimitIs
  <2> QED BY <1>2, <1>4, <2>1, <2>2 DEF Step
<1> QED BY <1>1, <1>9, <1>10 DEF LimitInv, ChildFits, NothingYet, Answers, InTime

LEMMA StepLimitInv == LimitInv /\ [Next]_vars => LimitInv'
<1> SUFFICES ASSUME LimitInv, [Next]_vars PROVE LimitInv'
  OBVIOUS
<1> USE DEF LimitInv
<1>0. 0 \in Codes
  BY LimitRunBounds
<1>a. ASSUME UNCHANGED <<limits, user, heavy, child>>
      PROVE  Result' = Result
  BY <1>a DEF Result, StatusResult
<1>1. CASE Fork
  <2>1. /\ UNCHANGED <<limits, begin, clock, child, user, system, heavy, answer>>
        /\ pc = "fork" /\ pc' = "wait"
    BY <1>1 DEF Fork
  <2>2. ~ Late
    <3>0. limits \in Limits /\ begin \in Nat
      BY DEF TypeOK
    <3>1. RealLimit \in Nat /\ RealLimit >= 30
      BY <3>0, RealLimitIs
    <3>2. clock = begin /\ Seconds(begin) \in Nat
      BY <2>1, <3>0, SecondsAre DEF NothingYet
    <3> QED BY <3>1, <3>2 DEF Late
  <2> QED BY <2>1, <2>2, StillStep DEF TypeOK, ChildFits, NothingYet, Answers, InTime
<1>2. CASE CannotFork
  <2>1. /\ UNCHANGED <<limits, begin, clock, user, system, heavy, answer>>
        /\ pc = "fork" /\ pc' = "done" /\ child' = [child EXCEPT !.state = "ended"]
    BY <1>2 DEF CannotFork
  <2>2. child'.state = "ended" /\ child'.code = child.code /\ child'.sig = child.sig
    BY <2>1 DEF TypeOK
  <2>3. TypeOK' /\ ChildFits'
    BY <2>1, <2>2, StillStep DEF TypeOK, ChildFits
  <2>4. Answers'
    BY <2>1, <2>2 DEF Answers, Unforked, NothingYet, Unwritten
  <2> QED BY <2>1, <2>3, <2>4, StillStep DEF NothingYet, InTime
<1>3. CASE Wait
  <2>1. /\ UNCHANGED <<limits, begin, clock, child, user, system, heavy>>
        /\ pc = "wait" /\ pc' = "done" /\ child.state = "ended"
        /\ answer' = [result |-> Result, code |-> child.code, time |-> user]
    BY <1>3 DEF Wait
  <2>2. Result \in Results
    BY DEF Result, StatusResult, Results
  <2>3. TypeOK'
    BY <2>1, <2>2, StillStep DEF TypeOK
  <2>4. Answers'
    BY <1>a, <2>1 DEF Answers, Waited
  <2> QED BY <2>1, <2>3, <2>4, StillStep DEF ChildFits, NothingYet, InTime
<1>4. CASE StillRunning
  BY <1>4, StillStep
     DEF StillRunning, TypeOK, ChildFits, NothingYet, Answers, InTime
<1>5. CASE Sleep
  BY <1>5, SleepStep
<1>6. CASE StopChild
  <2>1. /\ UNCHANGED <<limits, begin, clock, user, system, heavy>>
        /\ pc = "clock" /\ pc' = "done" /\ Late
        /\ child' = [child EXCEPT !.state = IF @ = "running" THEN "dying" ELSE @]
        /\ answer' = [result |-> "RUN_REALTIMEOUT", code |-> 0, time |-> 0]
    BY <1>6 DEF StopChild
  <2>2. /\ child'.state = IF child.state = "running" THEN "dying" ELSE child.state
        /\ child'.code = child.code /\ child'.sig = child.sig
    BY <2>1 DEF TypeOK
  <2>3. TypeOK'
    BY <1>0, <2>1, StillStep DEF TypeOK, Results
  <2>4. ChildFits'
    BY <2>1, <2>2 DEF ChildFits, TypeOK
  <2>5. Answers'
    BY <2>1, <2>2, StillStep DEF Answers, Stopped
  <2> QED BY <2>1, <2>3, <2>4, <2>5, StillStep DEF NothingYet, InTime
<1>7. CASE NotLate
  BY <1>7, StillStep DEF NotLate, TypeOK, ChildFits, NothingYet, Answers, InTime
<1>8. ASSUME NEW c \in Codes, Exits(c) PROVE LimitInv'
  <2>1. /\ UNCHANGED <<limits, pc, begin, clock, user, system, heavy, answer>>
        /\ pc # "fork" /\ child.state = "running"
        /\ child' = [state |-> "ended", code |-> c, sig |-> "none"]
    BY <1>8 DEF Exits, ChildLives
  <2>2. pc # "done"
    BY <2>1 DEF Answers, Unforked, Waited, Stopped
  <2> QED BY <2>1, <2>2, StillStep
          DEF TypeOK, ChildFits, NothingYet, Answers, InTime
<1>9. ASSUME NEW g \in Signals, IsSignaled(g) PROVE LimitInv'
  <2>1. /\ UNCHANGED <<limits, pc, begin, clock, user, system, heavy, answer>>
        /\ pc # "fork" /\ child.state = "running"
        /\ child' = [state |-> "ended", code |-> 0, sig |-> g]
    BY <1>9 DEF IsSignaled, ChildLives
  <2>2. pc # "done"
    BY <2>1 DEF Answers, Unforked, Waited, Stopped
  <2> QED BY <1>0, <2>1, <2>2, StillStep
          DEF TypeOK, ChildFits, NothingYet, Answers, InTime
<1>10. CASE Grows
  <2>1. /\ UNCHANGED <<limits, pc, begin, clock, child, user, system, answer>>
        /\ pc # "fork" /\ child.state = "running" /\ heavy' = TRUE
    BY <1>10 DEF Grows, ChildLives
  <2>2. pc # "done"
    BY <2>1 DEF Answers, Unforked, Waited, Stopped
  <2>3. heavy' \in BOOLEAN
    BY <2>1, Zenon
  <2> QED BY <2>1, <2>2, <2>3, StillStep
          DEF TypeOK, ChildFits, NothingYet, Answers, InTime
<1>11. CASE Dies
  <2>1. /\ UNCHANGED <<limits, pc, begin, clock, user, system, heavy, answer>>
        /\ child.state = "dying"
        /\ child' = [child EXCEPT !.state = "ended", !.sig = "SIGKILL"]
    BY <1>11 DEF Dies
  <2>2. child'.state = "ended" /\ child'.sig = "SIGKILL" /\ child'.code = 0 /\ pc = "done"
    BY <2>1 DEF TypeOK, ChildFits
  <2>3. child' \in [state : {"running", "dying", "ended"}, code : Codes,
                    sig : Signals \cup {"none"}]
    BY <2>1 DEF TypeOK, Signals
  <2>4. TypeOK' /\ ChildFits'
    BY <2>1, <2>2, <2>3, StillStep DEF TypeOK, ChildFits
  <2>5. Stopped
    BY <2>1, <2>2 DEF Answers, Unforked, Waited
  <2>6. Answers'
    BY <2>1, <2>2, <2>5, StillStep DEF Answers, Stopped
  <2> QED BY <2>1, <2>4, <2>6, StillStep DEF NothingYet, InTime
<1>12. CASE UNCHANGED vars
  <2>1. UNCHANGED <<limits, begin, clock, user, system>>
        /\ UNCHANGED <<pc, child, heavy, answer>>
    BY <1>12 DEF vars
  <2>2. TypeOK' /\ ChildFits' /\ NothingYet' /\ InTime' /\ OnePoll'
    BY <2>1, StillStep DEF TypeOK, ChildFits, NothingYet, InTime
  <2>3. Answers'
    BY <1>a, <2>1, StillStep DEF Answers, Unforked, Waited, Stopped
  <2> QED BY <2>2, <2>3
<1> QED
  BY <1>1, <1>2, <1>3, <1>4, <1>5, <1>6, <1>7, <1>8, <1>9, <1>10, <1>11, <1>12
     DEF Next, ParentStep

(* Whatever the child does, limit_run's answer, clock and times stay as    *)
(* the parts of LimitInv say.                                              *)
THEOREM Invariance == Spec => []LimitInv
BY InitLimitInv, StepLimitInv, PTL DEF Spec

-----------------------------------------------------------------------------
(* The theorems *)

(* The types of limit_run's state hold in every run.                       *)
THEOREM TypeCorrect == Spec => []TypeOK
BY Invariance, PTL DEF LimitInv

(* RUN_OK and an exit code are only ever those of a child that ended by    *)
(* itself within its limits (limit_run.cpp:164).                           *)
THEOREM OkIsOfTheChild == Spec => []OkIsTheChilds
<1>1. LimitInv => OkIsTheChilds
  <2> SUFFICES ASSUME LimitInv, pc = "done" PROVE OkIsTheChilds
    BY DEF OkIsTheChilds
  <2>1. CASE Unforked
    BY <2>1 DEF Unforked, Unwritten, OkIsTheChilds
  <2>2. CASE Stopped
    BY <2>2 DEF Stopped, OkIsTheChilds
  <2>3. CASE Waited
    <3>1. answer.result = Result /\ answer.code = child.code /\ child.state = "ended"
      BY <2>3 DEF Waited
    <3>2. ASSUME Result = "RUN_OK"
          PROVE  child.sig = "none" /\ ~ (limits.tl # 0 /\ user >= limits.tl)
                 /\ ~ (limits.ml /\ heavy)
      BY <3>2 DEF Result, StatusResult
    <3>3. user \in Nat /\ limits.tl \in Nat
      BY LimitsAssumption DEF LimitInv, TypeOK
    <3>4. child.code # 0 => child.sig = "none"
      BY DEF LimitInv, ChildFits
    <3>5. Result = "RUN_OK" => (limits.tl # 0 => user < limits.tl)
      BY <3>2, <3>3
    <3> QED BY <3>1, <3>2, <3>4, <3>5 DEF OkIsTheChilds
  <2> QED BY <2>1, <2>2, <2>3 DEF LimitInv, Answers
<1> QED BY <1>1, Invariance, PTL

(* A program that has used up its time is reported so, unless the clock    *)
(* stopped it (limit_run.cpp:199).                                         *)
THEOREM OveruseIsReported == Spec => []OveruseIsTimeout
<1>1. LimitInv => OveruseIsTimeout
  <2> SUFFICES ASSUME LimitInv, pc = "done", limits.tl # 0, user >= limits.tl
               PROVE  OveruseIsTimeout
    BY DEF OveruseIsTimeout
  <2>1. CASE Unforked
    <3>1. limits.tl \in Nat /\ user = 0
      BY <2>1, LimitsAssumption DEF LimitInv, TypeOK, Unforked
    <3> QED BY <3>1
  <2>2. CASE Waited
    BY <2>2 DEF Waited, Result, OveruseIsTimeout
  <2>3. CASE Stopped
    <3>1. Seconds(clock) >= Seconds(begin) + RealLimit
      BY <2>3 DEF Stopped, Late
    <3>2. Seconds(clock) \in Nat /\ Seconds(begin) \in Nat /\ RealLimit \in Nat
      <4>1. clock \in Nat /\ begin \in Nat /\ limits \in Limits
        BY DEF LimitInv, TypeOK
      <4>2. Seconds(clock) \in Nat
        BY <4>1 DEF Seconds
      <4>3. Seconds(begin) \in Nat
        BY <4>1 DEF Seconds
      <4>4. RealLimit \in Nat
        BY <4>1, RealLimitIs
      <4> QED BY <4>2, <4>3, <4>4
    <3>3. Seconds(clock) - Seconds(begin) >= RealLimit
      BY <3>1, <3>2
    <3> QED BY <2>3, <3>3 DEF Stopped, OveruseIsTimeout
  <2> QED BY <2>1, <2>2, <2>3 DEF LimitInv, Answers
<1> QED BY <1>1, Invariance, PTL

(* The clock stops a program neither two seconds early nor a poll late     *)
(* (limit_run.cpp:154).                                                    *)
THEOREM ClockKept == Spec => []ClockIsKept
<1>1. LimitInv => ClockIsKept
  <2> SUFFICES ASSUME LimitInv PROVE ClockIsKept
    OBVIOUS
  <2>1. limits.tl # 0 => clock - begin <= Max({10 * limits.tl, 30000}) + MaxLag * Step
    BY DEF LimitInv, OnePoll
  <2>2. ASSUME answer.result = "RUN_REALTIMEOUT", child.sig \notin TimeSignals
        PROVE  Late
    <3>1. ~ Unforked /\ answer # Unwritten
      BY <2>2 DEF Unforked, Unwritten
    <3>2. ~ Waited
      <4>1. Result # "RUN_REALTIMEOUT"
        BY <2>2 DEF Result, StatusResult
      <4> QED BY <2>2, <4>1 DEF Waited
    <3> QED BY <3>1, <3>2 DEF LimitInv, Answers, Stopped
  <2>3. ASSUME answer.result = "RUN_REALTIMEOUT", child.sig \notin TimeSignals
        PROVE  clock - begin > Max({10 * limits.tl, 30000}) - 2000
    BY <2>2, <2>3, LateIs DEF LimitInv, Late
  <2> QED BY <2>1, <2>3 DEF ClockIsKept
<1> QED BY <1>1, Invariance, PTL
=============================================================================
