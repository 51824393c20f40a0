------------------------------ MODULE WaitCycle ------------------------------
(***************************************************************************)
(* wait_cycle() of bacsd.cpp, with the clock: the delay between two looks  *)
(* at the queue, polled for signals, with a ping every so many polls.      *)
(* Time is counted in milliseconds, where the code counts nanoseconds.     *)
(***************************************************************************)
EXTENDS Integers

CONSTANTS
  Second,      \* milliseconds in a second
  Poll,        \* the timeout of wait_term, 100 ms
  Late,        \* bound: how much later than that the daemon may run again
  PingTime,    \* bound: how long a ping may take
  Wrap,        \* the counter of polls is taken modulo this, 1000
  Delays,      \* key check_submits_delay
  Periods,     \* key ping_period; 0 is a missing one
  MaxStart     \* bound: when a wait may begin

ASSUME WaitAssumption ==
  /\ {Second, Poll, Wrap} \subseteq Nat \ {0}
  /\ {Late, PingTime, MaxStart} \subseteq Nat
  /\ Delays \subseteq Nat /\ Periods \subseteq Nat

Time == [sec : Nat, frac : 0 .. Second - 1]
Clock(t)  == [sec |-> t \div Second, frac |-> t % Second]
Millis(t) == t.sec * Second + t.frac

VARIABLES
  delay, period, \* the configuration
  start,         \* when the wait begins
  now,           \* the clock
  end,           \* the deadline
  counter,       \* polls so far, wrapped
  signal,        \* a signal is pending
  came,          \* history: when it came
  pc             \* "begin", "ping", "poll", "look"; "elapsed", "signalled", "dead"

vars == <<delay, period, start, now, end, counter, signal, came, pc>>

Init ==
  /\ delay \in Delays /\ period \in Periods
  /\ start \in 0 .. MaxStart /\ now = start /\ end = Clock(0)
  /\ counter = 0 /\ signal = FALSE /\ came = start
  /\ pc = "begin"

(* The seconds of the delay are forgotten.                                 *)
Deadline_Fraction(t) == [sec |-> t.sec, frac |-> (t.frac + (delay % Second)) % Second]

(* A second that the fractions add up to is carried before it is counted:  *)
(* it is lost.                                                             *)
Deadline(t) ==
  LET frac == (t.frac + (delay % Second)) % Second
  IN [sec |-> t.sec + (delay \div Second) + (frac \div Second), frac |-> frac]

Begin ==
  /\ pc = "begin" /\ pc' = "ping"
  /\ end' = Deadline(Clock(now)) /\ counter' = 0
  /\ UNCHANGED <<delay, period, start, now, signal, came>>

(* The period is taken modulo the counter.                                 *)
Ping_Swapped ==
  /\ pc = "ping" /\ pc' = IF counter = 0 THEN "dead" ELSE "poll"
  /\ \E t \in 0 .. PingTime :
       now' = IF counter # 0 /\ period % counter = 0 THEN now + t ELSE now
  /\ UNCHANGED <<delay, period, start, end, counter, signal, came>>

(* "counter % cf_ping_period", which divides by 0 if the key is missing    *)
Ping ==
  /\ pc = "ping" /\ pc' = IF period = 0 THEN "dead" ELSE "poll"
  /\ \E t \in 0 .. PingTime :
       now' = IF period # 0 /\ counter % period = 0 THEN now + t ELSE now
  /\ UNCHANGED <<delay, period, start, end, counter, signal, came>>

(* A signal that is pending does not keep the daemon from waiting.         *)
WaitTerm_SleepsOn ==
  /\ pc = "poll"
  /\ \/ /\ signal /\ signal' = FALSE /\ pc' = "signalled" /\ UNCHANGED now
     \/ /\ pc' = "look"
        /\ \E t \in Poll .. Poll + Late : now' = now + t
        /\ UNCHANGED signal
  /\ UNCHANGED <<delay, period, start, end, counter, came>>

(* wait_term(): a pending signal is taken at once, one that comes within   *)
(* the timeout as it comes.                                                *)
WaitTerm ==
  /\ pc = "poll"
  /\ \/ /\ signal /\ signal' = FALSE /\ pc' = "signalled" /\ UNCHANGED now
     \/ /\ ~ signal /\ pc' = "look"
        /\ \E t \in Poll .. Poll + Late : now' = now + t
        /\ UNCHANGED signal
  /\ UNCHANGED <<delay, period, start, end, counter, came>>

(* "cur.tv_sec > end.tv_sec || ..."                                        *)
Past(t) == t.sec > end.sec \/ (t.sec = end.sec /\ t.frac > end.frac)

Look ==
  /\ pc = "look"
  /\ IF Past(Clock(now)) THEN pc' = "elapsed" /\ UNCHANGED counter
     ELSE pc' = "ping" /\ counter' = (counter + 1) % Wrap
  /\ UNCHANGED <<delay, period, start, now, end, signal, came>>

(* A signal comes, also while the daemon waits for one.                    *)
Signal ==
  /\ ~ signal /\ signal' = TRUE /\ came' = now
  /\ UNCHANGED <<delay, period, start, now, end, counter, pc>>

Next == Begin \/ Ping \/ WaitTerm \/ Look \/ Signal
Spec == Init /\ [][Next]_vars /\ WF_vars(Begin \/ Ping \/ WaitTerm \/ Look)

-----------------------------------------------------------------------------
(* Properties *)

TypeOK ==
  /\ delay \in Delays /\ period \in Periods
  /\ start \in Nat /\ now \in Nat /\ start <= now
  /\ end \in Time /\ counter \in 0 .. Wrap - 1 /\ signal \in BOOLEAN
  /\ pc \in {"begin", "ping", "poll", "look", "elapsed", "signalled", "dead"}

(* A carry is lost when the fractions of the start and of the delay make a *)
(* second.                                                                 *)
Carry == (start % Second) + (delay % Second) >= Second

Effective == IF Carry THEN delay - Second ELSE delay

(* The wait is over later than its delay, less the lost carry, and by at   *)
(* most one round of the loop (bacsd.cpp:37).                              *)
DelayIsKept ==
  pc = "elapsed" =>
    /\ now - start > Effective
    /\ now - start <= (IF Effective > 0 THEN Effective ELSE 0) + PingTime + Poll + Late

(* A signal that comes while the daemon waits ends the wait: no ping but   *)
(* the next, and no poll, comes before (bacsd.cpp:15, 44).                 *)
SignalEndsWait == signal /\ pc \in {"ping", "poll", "look"} => now - came <= PingTime

(* A wait has elapsed when the poll after its deadline saw no signal; the  *)
(* look at the clock comes later.                                          *)
Where ==
  IF pc \in {"elapsed", "signalled", "dead"} THEN pc
  ELSE IF pc = "look" /\ Past(Clock(now)) THEN "elapsed" ELSE "waiting"

Contract == INSTANCE WaitContract WITH where <- Where, missing <- period = 0

(* wait_cycle() is the wait that Bacsd takes it for: it elapses only while *)
(* no signal is pending, and it ends, by the daemon's death only if the    *)
(* configuration has no period of pings (bacsd.cpp:43).                    *)
ImplementsWait == Contract!Spec
=============================================================================
