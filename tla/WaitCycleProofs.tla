-------------------------- MODULE WaitCycleProofs --------------------------
(***************************************************************************)
(* Proofs about WaitCycle, for every clock, delay and period: the types,   *)
(* how long a wait may be, how soon a signal ends it, and that each step   *)
(* is one that WaitContract allows.                                        *)
(***************************************************************************)
EXTENDS WaitCycle, TLAPS

(* What div and mod are.                                                   *)
LEMMA DivMod ==
  ASSUME NEW a \in Nat, NEW b \in Nat, b > 0
  PROVE  /\ a \div b \in Nat /\ a % b \in 0 .. b - 1
         /\ a = (a \div b) * b + (a % b)
BY SMT

(* A number of whole seconds more is at least a second more.               *)
LEMMA Seconds ==
  ASSUME NEW a \in Nat, NEW b \in Nat, NEW s \in Nat, a > b
  PROVE  a * s >= b * s + s
<1>1. PICK n \in Nat : a = b + 1 + n
  <2> WITNESS a - b - 1 \in Nat
  <2> QED OBVIOUS
<1>2. a * s = b * s + s + n * s
  BY <1>1, SMT
<1>3. n * s \in Nat
  BY <1>1, SMT
<1> QED BY <1>2, <1>3, SMT

(* A fraction of two that are added carries once at most.                  *)
LEMMA Carried ==
  ASSUME NEW s \in Nat, s > 0, NEW f \in 0 .. s - 1, NEW g \in 0 .. s - 1
  PROVE  /\ (f + g) % s = IF f + g >= s THEN f + g - s ELSE f + g
         /\ (f + g) % s \in 0 .. s - 1
         /\ ((f + g) % s) \div s = 0
BY SMT

LEMMA ClockIsTime ==
  ASSUME NEW t \in Nat
  PROVE  Clock(t) \in Time /\ Millis(Clock(t)) = t
<1>1. Second \in Nat /\ Second > 0
  BY WaitAssumption
<1>2. /\ t \div Second \in Nat /\ t % Second \in 0 .. Second - 1
      /\ t = (t \div Second) * Second + (t % Second)
  BY <1>1, DivMod
<1>3. Clock(t).sec = t \div Second /\ Clock(t).frac = t % Second
  BY DEF Clock
<1>4. Clock(t) \in Time
  BY <1>2 DEF Clock, Time
<1>5. Millis(Clock(t)) = t
  BY <1>2, <1>3 DEF Millis
<1> QED BY <1>4, <1>5

(* Seconds and fractions are compared as the milliseconds are.             *)
LEMMA PastIsLater ==
  ASSUME NEW t \in Nat, end \in Time
  PROVE  Past(Clock(t)) <=> t > Millis(end)
<1> DEFINE a == t \div Second  f == t % Second  b == end.sec  g == end.frac
<1>0. Second \in Nat /\ Second > 0
  BY WaitAssumption
<1>1. a \in Nat /\ f \in 0 .. Second - 1 /\ t = a * Second + f
  BY <1>0, DivMod
<1>2. b \in Nat /\ g \in 0 .. Second - 1 /\ Millis(end) = b * Second + g
  BY DEF Time, Millis
<1>3. Past(Clock(t)) <=> a > b \/ (a = b /\ f > g)
  BY DEF Past, Clock
<1> HIDE DEF a, b, f, g
<1>4. CASE a > b
  BY <1>0, <1>1, <1>2, <1>3, <1>4, Seconds, a * Second \in Nat, b * Second \in Nat, SMT
<1>5. CASE a = b
  BY <1>0, <1>1, <1>2, <1>3, <1>5, a * Second \in Nat, SMT
<1>6. CASE a < b
  BY <1>0, <1>1, <1>2, <1>3, <1>6, Seconds, a * Second \in Nat, b * Second \in Nat, SMT
<1> QED BY <1>1, <1>2, <1>4, <1>5, <1>6

(* The deadline is the delay later, less a second if the fractions carry.  *)
LEMMA DeadlineIsEffective ==
  ASSUME NEW t \in Nat, delay \in Nat, t = start
  PROVE  /\ Deadline(Clock(t)) \in Time
         /\ Millis(Deadline(Clock(t))) = t + Effective
<1> DEFINE a == t \div Second  f == t % Second
           q == delay \div Second  r == delay % Second
           g == (f + r) % Second
<1>1. Second \in Nat /\ Second > 0
  BY WaitAssumption
<1>2. a \in Nat /\ f \in 0 .. Second - 1 /\ t = a * Second + f
  BY <1>1, DivMod
<1>3. q \in Nat /\ r \in 0 .. Second - 1 /\ delay = q * Second + r
  BY <1>1, DivMod
<1>4. /\ g = IF f + r >= Second THEN f + r - Second ELSE f + r
      /\ g \in 0 .. Second - 1 /\ g \div Second = 0
  BY <1>1, <1>2, <1>3, Carried
<1>5. Deadline(Clock(t)) = [sec |-> a + q + (g \div Second), frac |-> g]
  BY DEF Deadline, Clock
<1>6. Effective = IF f + r >= Second THEN delay - Second ELSE delay
  BY DEF Effective, Carry
<1> HIDE DEF a, f, q, r, g
<1>7. Deadline(Clock(t)) = [sec |-> a + q, frac |-> g]
  BY <1>2, <1>3, <1>4, <1>5
<1>8. Deadline(Clock(t)) \in Time
  BY <1>2, <1>3, <1>4, <1>7 DEF Time
<1>9. Millis(Deadline(Clock(t))) = (a + q) * Second + g
  BY <1>7 DEF Millis
<1>10. (a + q) * Second = a * Second + q * Second
  BY <1>1, <1>2, <1>3, SMT
<1>11. a * Second \in Nat /\ q * Second \in Nat
  BY <1>1, <1>2, <1>3, SMT
<1> QED BY <1>1, <1>2, <1>3, <1>4, <1>6, <1>8, <1>9, <1>10, <1>11, SMT

-----------------------------------------------------------------------------
(* The inductive invariant *)

(* The latest that the deadline can be.                                    *)
Latest == start + (IF Effective > 0 THEN Effective ELSE 0)

DeadlineIsSet ==
  IF pc = "begin" THEN now = start ELSE Millis(end) = start + Effective

(* Every round begins before the deadline, and lasts one ping and one poll.*)
RoundIsBounded ==
  /\ pc = "ping" => now <= Latest
  /\ pc = "poll" => now <= Latest + PingTime
  /\ pc \in {"look", "elapsed"} => now <= Latest + PingTime + Poll + Late
  /\ pc = "elapsed" => now > start + Effective

(* Time passes while a signal is pending only during the ping before the   *)
(* poll that takes it.                                                     *)
SignalIsFresh ==
  /\ came \in Nat /\ came <= now
  /\ signal /\ pc \in {"begin", "ping", "look"} => now = came
  /\ signal /\ pc = "poll" => now - came <= PingTime

WaitInv == TypeOK /\ DeadlineIsSet /\ RoundIsBounded /\ SignalIsFresh

LEMMA EffectiveIsInt ==
  ASSUME TypeOK
  PROVE  Effective \in Int /\ Latest \in Nat /\ start + Effective <= Latest
<1>1. delay \in Nat /\ start \in Nat /\ Second \in Nat
  BY WaitAssumption DEF TypeOK
<1>2. Effective \in Int
  BY <1>1 DEF Effective
<1> QED BY <1>1, <1>2 DEF Latest

LEMMA InitWaitInv == Init => WaitInv
<1> SUFFICES ASSUME Init PROVE WaitInv
  OBVIOUS
<1>1. Clock(0) \in Time
  BY ClockIsTime
<1>2. /\ start \in Nat /\ now = start /\ came = start /\ signal = FALSE /\ pc = "begin"
      /\ delay \in Delays /\ period \in Periods
      /\ end = Clock(0) /\ counter = 0
  BY WaitAssumption DEF Init
<1>3. 0 \in 0 .. Wrap - 1
  BY WaitAssumption
<1>4. TypeOK
  <2>1. signal \in BOOLEAN
    BY <1>2, Zenon
  <2> QED BY <1>1, <1>2, <1>3, <2>1 DEF TypeOK
<1>5. DeadlineIsSet /\ RoundIsBounded /\ SignalIsFresh
  BY <1>2 DEF DeadlineIsSet, RoundIsBounded, SignalIsFresh
<1> QED BY <1>4, <1>5 DEF WaitInv

LEMMA StepWaitInv == WaitInv /\ [Next]_vars => WaitInv'
<1> SUFFICES ASSUME WaitInv, [Next]_vars PROVE WaitInv'
  OBVIOUS
<1> USE DEF WaitInv
<1>1. /\ delay \in Nat /\ period \in Nat /\ start \in Nat /\ now \in Nat
      /\ Wrap \in Nat /\ Wrap > 0 /\ Poll \in Nat /\ Poll > 0
      /\ Late \in Nat /\ PingTime \in Nat
  BY WaitAssumption DEF TypeOK
<1>2. Effective \in Int /\ Latest \in Nat /\ start + Effective <= Latest
  BY EffectiveIsInt
<1>3. ASSUME UNCHANGED <<delay, start>>
      PROVE  Effective' = Effective /\ Latest' = Latest
  BY <1>3 DEF Effective, Carry, Latest
<1>4. CASE Begin
  <2>1. end' = Deadline(Clock(start)) /\ now = start
    BY <1>4 DEF Begin, DeadlineIsSet
  <2>2. end' \in Time /\ Millis(end') = start + Effective
    BY <1>1, <2>1, DeadlineIsEffective
  <2>3. TypeOK'
    BY <1>1, <1>4, <2>2 DEF Begin, TypeOK
  <2>4. UNCHANGED <<delay, start, now, signal, came>> /\ pc' = "ping" /\ pc = "begin"
    BY <1>4 DEF Begin
  <2>5. DeadlineIsSet'
    BY <1>3, <2>2, <2>4 DEF DeadlineIsSet, Millis
  <2>6. RoundIsBounded'
    <3>1. start <= Latest
      BY <1>1, <1>2 DEF Latest
    <3> QED BY <1>3, <2>1, <2>4, <3>1 DEF RoundIsBounded
  <2>7. SignalIsFresh'
    BY <2>4 DEF SignalIsFresh
  <2> QED BY <2>3, <2>5, <2>6, <2>7
<1>5. CASE Ping
  <2>1. PICK t \in 0 .. PingTime : now' = now + t \/ now' = now
    BY <1>5 DEF Ping
  <2>2. /\ UNCHANGED <<delay, period, start, end, counter, signal, came>>
        /\ pc = "ping" /\ pc' \in {"dead", "poll"}
    BY <1>5 DEF Ping
  <2>3. now' \in Nat /\ now <= now' /\ now' <= now + PingTime
    BY <1>1, <2>1
  <2>4. TypeOK'
    BY <1>1, <2>2, <2>3 DEF TypeOK
  <2>5. DeadlineIsSet'
    BY <1>3, <2>2 DEF DeadlineIsSet, Millis
  <2>6. RoundIsBounded'
    BY <1>1, <1>2, <1>3, <2>2, <2>3 DEF RoundIsBounded
  <2>7. SignalIsFresh'
    <3>1. came \in Nat /\ came <= now /\ (signal => now = came)
      BY <2>2 DEF SignalIsFresh
    <3>2. came \in Nat /\ came <= now'
      BY <1>1, <2>3, <3>1
    <3>3. ASSUME signal
          PROVE  now' - came <= PingTime
      <4>1. now = came
        BY <3>1, <3>3
      <4>2. now' \in Nat /\ came \in Nat /\ now' <= came + PingTime
        BY <2>3, <3>1, <4>1
      <4>3. \A a, b, c \in Nat : a <= b + c => a - b <= c
        OBVIOUS
      <4> QED BY <1>1, <4>2, <4>3
    <3> QED BY <2>2, <3>2, <3>3 DEF SignalIsFresh
  <2> QED BY <2>4, <2>5, <2>6, <2>7
<1>6. CASE WaitTerm
  <2>1. UNCHANGED <<delay, period, start, end, counter, came>> /\ pc = "poll"
    BY <1>6 DEF WaitTerm
  <2>2. DeadlineIsSet'
    BY <1>3, <1>6, <2>1 DEF WaitTerm, DeadlineIsSet, Millis
  <2>3. CASE signal /\ signal' = FALSE /\ pc' = "signalled" /\ UNCHANGED now
    BY <2>1, <2>2, <2>3 DEF TypeOK, RoundIsBounded, SignalIsFresh
  <2>4. CASE /\ ~ signal /\ pc' = "look"
             /\ \E t \in Poll .. Poll + Late : now' = now + t
             /\ UNCHANGED signal
    <3>1. PICK t \in Poll .. Poll + Late : now' = now + t
      BY <2>4
    <3>2. now' \in Nat /\ now <= now' /\ now' <= now + Poll + Late
      BY <1>1, <3>1
    <3>3. TypeOK'
      BY <1>1, <2>1, <2>4, <3>2 DEF TypeOK
    <3>4. RoundIsBounded'
      BY <1>1, <1>2, <1>3, <2>1, <2>4, <3>2 DEF RoundIsBounded
    <3>5. SignalIsFresh'
      BY <1>1, <2>1, <2>4, <3>2 DEF SignalIsFresh
    <3> QED BY <2>2, <3>3, <3>4, <3>5
  <2> QED BY <1>6, <2>3, <2>4 DEF WaitTerm
<1>7. CASE Look
  <2>1. /\ UNCHANGED <<delay, period, start, now, end, signal, came>>
        /\ pc = "look"
        /\ IF Past(Clock(now)) THEN pc' = "elapsed" /\ counter' = counter
           ELSE pc' = "ping" /\ counter' = (counter + 1) % Wrap
    BY <1>7 DEF Look
  <2>2. (counter + 1) % Wrap \in 0 .. Wrap - 1
    <3>1. counter + 1 \in Nat
      BY <1>1 DEF TypeOK
    <3> QED BY <1>1, <3>1, DivMod
  <2>3. TypeOK'
    BY <2>1, <2>2 DEF TypeOK
  <2>4. DeadlineIsSet'
    BY <1>3, <2>1 DEF DeadlineIsSet, Millis
  <2>5. Millis(end) = start + Effective
    BY <2>1 DEF DeadlineIsSet
  <2>6. Past(Clock(now)) <=> now > start + Effective
    BY <1>1, <2>5, PastIsLater DEF TypeOK
  <2>7. RoundIsBounded'
    BY <1>1, <1>2, <1>3, <2>1, <2>6 DEF RoundIsBounded
  <2>8. SignalIsFresh'
    BY <2>1 DEF SignalIsFresh
  <2> QED BY <2>3, <2>4, <2>7, <2>8
<1>8. CASE Signal
  <2>1. /\ UNCHANGED <<delay, period, start, now, end, counter, pc>>
        /\ signal' = TRUE /\ came' = now
    BY <1>8 DEF Signal
  <2> QED BY <1>1, <1>3, <2>1
          DEF TypeOK, DeadlineIsSet, Millis, RoundIsBounded, SignalIsFresh
<1>9. CASE UNCHANGED vars
  BY <1>3, <1>9
     DEF vars, TypeOK, DeadlineIsSet, Millis, RoundIsBounded, SignalIsFresh
<1> QED BY <1>4, <1>5, <1>6, <1>7, <1>8, <1>9 DEF Next

(* The deadline, the clock at each place of the loop, and the time since a *)
(* signal came stay as the parts of WaitInv say.                           *)
THEOREM Invariance == Spec => []WaitInv
BY InitWaitInv, StepWaitInv, PTL DEF Spec

-----------------------------------------------------------------------------
(* The theorems *)

(* The types of wait_cycle's state hold in every run.                      *)
THEOREM TypeCorrect == Spec => []TypeOK
BY Invariance, PTL DEF WaitInv

(* A wait is never longer than its delay and one round of the loop, and    *)
(* never shorter than the delay less the lost second (bacsd.cpp:37).       *)
THEOREM WaitsKeepDelay == Spec => []DelayIsKept
<1>1. WaitInv => DelayIsKept
  <2> SUFFICES ASSUME WaitInv, pc = "elapsed" PROVE DelayIsKept
    BY DEF DelayIsKept
  <2>1. start \in Nat /\ now \in Nat /\ {PingTime, Poll, Late} \subseteq Nat
    BY WaitAssumption DEF WaitInv, TypeOK
  <2>2. Effective \in Int
    BY EffectiveIsInt DEF WaitInv
  <2>3. now > start + Effective /\ now <= Latest + PingTime + Poll + Late
    BY DEF WaitInv, RoundIsBounded
  <2> QED BY <2>1, <2>2, <2>3 DEF DelayIsKept, Latest
<1> QED BY <1>1, Invariance, PTL

(* No poll passes while a signal is pending (bacsd.cpp:15, 44).            *)
THEOREM SignalsEndWaits == Spec => []SignalEndsWait
<1>1. WaitInv => SignalEndsWait
  BY WaitAssumption DEF WaitInv, TypeOK, SignalIsFresh, SignalEndsWait
<1> QED BY <1>1, Invariance, PTL

(* The safety part of ImplementsWait: each step of wait_cycle is a step of *)
(* the wait that the daemon relies on, or none.                            *)
THEOREM WaitRefines == Spec => Contract!Init /\ [][Contract!Next]_(Contract!vars)
<1>1. Init => Contract!Init
  BY DEF Init, Contract!Init, Where
<1>2. [Next]_vars => [Contract!Next]_(Contract!vars)
  <2> SUFFICES ASSUME [Next]_vars PROVE [Contract!Next]_(Contract!vars)
    OBVIOUS
  <2> USE DEF Contract!Next, Contract!vars
  <2>1. CASE Begin
    BY <2>1 DEF Begin, Where
  <2>2. CASE Ping
    BY <2>2 DEF Ping, Where, Contract!Fail
  <2>3. CASE WaitTerm
    BY <2>3 DEF WaitTerm, Where, Contract!Take, Contract!Elapse
  <2>4. CASE Look
    BY <2>4 DEF Look, Where, Past, Clock
  <2>5. CASE Signal
    BY <2>5 DEF Signal, Where, Past, Clock, Contract!Come
  <2>6. CASE UNCHANGED vars
    BY <2>6 DEF vars, Where, Past, Clock
  <2> QED BY <2>1, <2>2, <2>3, <2>4, <2>5, <2>6 DEF Next
<1> QED BY <1>1, <1>2, PTL DEF Spec
=============================================================================
