---------------------------- MODULE BacsdProofs ----------------------------
(***************************************************************************)
(* Theorems about Bacsd for every number of daemons, every set of          *)
(* submissions and every order of the queue.                               *)
(*                                                                         *)
(* The lock protects a submission only while the daemon's session lives    *)
(* through capture_new_submit and its update gets through: Protected names *)
(* that hypothesis, and the theorems about exclusive judging rest on it.   *)
(***************************************************************************)
EXTENDS Bacsd, FiniteSetTheorems, TLAPS

-----------------------------------------------------------------------------
(* Type correctness *)

(* compile_and_test has set the status when store_result runs.             *)
StatusSet == \A d \in Daemons : pc[d] = "store" => status[d] \in Verdicts

TInv == TypeOK /\ StatusSet

(* What the actions do to the lock leaves a lock.                          *)
LEMMA LockTypes ==
  ASSUME lock \in Locks, NEW d \in Daemons
  PROVE  /\ Free \in Locks
         /\ LockWithout(d) \in Locks
         /\ Released(d) \in Locks
         /\ [owner |-> d, depth |-> lock.depth + 1] \in Locks
         /\ [owner |-> d, depth |-> 1] \in Locks
<1>1. Free \in Locks
  BY DEF Free, Locks
<1>2. LockWithout(d) \in Locks
  BY DEF LockWithout, Locks
<1>3. lock.depth \in Nat
  BY Zenon DEF Locks
<1>4. Released(d) \in Locks
  <2>1. CASE lock.owner = d /\ lock.depth > 1
    <3>1. lock.depth - 1 \in Nat
      BY <2>1, <1>3
    <3>2. Released(d) = [lock EXCEPT !.depth = lock.depth - 1]
      BY <2>1 DEF Released
    <3> QED
      BY <3>1, <3>2 DEF Locks
  <2> QED
    BY <1>1, <2>1 DEF Released
<1>5. lock.depth + 1 \in Nat
  BY <1>3
<1> QED
  BY <1>1, <1>2, <1>4, <1>5 DEF Locks

(* Every step of a daemon or of its environment preserves the types and    *)
(* the fact that store_result finds a status.                              *)
LEMMA TInvStep == TInv /\ [Next]_vars => TInv'
<1> SUFFICES ASSUME TInv, [Next]_vars PROVE TInv'
  OBVIOUS
<1> USE DEF TInv, TypeOK, StatusSet, Labels
<1>1. CASE UNCHANGED vars
  BY <1>1 DEF vars
<1>2. ASSUME NEW s \in Submits, SubmitArrives(s) PROVE TInv'
  BY <1>2 DEF SubmitArrives
<1>3. ASSUME NEW d \in Daemons, NEW g \in Signals, Signal(d, g) PROVE TInv'
  BY <1>3 DEF Signal
<1>4. ASSUME NEW d \in Daemons, Crash(d) PROVE TInv'
  <2>1. lock' \in Locks
    BY <1>4, LockTypes DEF Crash
  <2> QED
    BY <1>4, <2>1 DEF Crash
<1>5. ASSUME NEW d \in Daemons, DropSession(d) PROVE TInv'
  <2>1. lock' \in Locks
    BY <1>5, LockTypes DEF DropSession
  <2> QED
    BY <1>5, <2>1 DEF DropSession
<1>6. ASSUME NEW d \in Daemons, Restart(d) PROVE TInv'
  BY <1>6 DEF Restart
<1>7. CASE ReapSession
  BY <1>7 DEF ReapSession, Free, Locks
<1>8. ASSUME NEW d \in Daemons, DaemonStep(d) PROVE TInv'
  <2>1. CASE Connect(d)
    BY <2>1 DEF Connect, Goto, NextRound
  <2>2. CASE ConnectFails(d)
    BY <2>2 DEF ConnectFails, Goto
  <2>3. CASE WaitPing(d)
    BY <2>3 DEF WaitPing, Goto, AfterPing, AfterSystem
  <2>4. CASE WaitElapsed(d)
    BY <2>4 DEF WaitElapsed, Goto
  <2>5. CASE WaitTerm(d)
    BY <2>5 DEF WaitTerm, Exit, Free, Locks
  <2>6. CASE NoTerm(d)
    BY <2>6 DEF NoTerm, Goto
  <2>7. CASE CheckNewSubmits(d)
    BY <2>7 DEF CheckNewSubmits, Goto, Executes, Fails
  <2>8. CASE LockTable(d)
    <3>1. lock' \in Locks
      BY <2>8, LockTypes DEF LockTable
    <3> QED
      BY <2>8, <3>1 DEF LockTable, Goto, Executes
  <2>9. CASE LockTableFails(d)
    BY <2>9 DEF LockTableFails, Goto, Executes, Fails
  <2>10. CASE SelectNew(d)
    <3>1. session' \in [Daemons -> {"none", "up", "lost"}]
      BY <2>10 DEF SelectNew, Executes, Fails
    <3>2. sid' \in [Daemons -> Submits \cup {NoSid}]
      BY <2>10 DEF SelectNew
    <3> QED
      BY <2>10, <3>1, <3>2 DEF SelectNew, Goto
  <2>11. CASE MarkRunning(d)
    BY <2>11 DEF MarkRunning, Goto, Executes, Fails
  <2>12. CASE UnlockTable(d)
    <3>1. lock' \in Locks
      BY <2>12, LockTypes DEF UnlockTable
    <3> QED
      BY <2>12, <3>1 DEF UnlockTable, Goto, Executes, Fails
  <2>13. CASE NextArg(d)
    <3>1. CASE argi[d] <= Len(Args[d])
      <4>1. Args[d] \in Seq(Submits) /\ argi[d] \in 1 .. Len(Args[d])
        BY <3>1, ArgsAssumption
      <4>2. Args[d][argi[d]] \in Submits
        BY <4>1
      <4> QED
        <5>1. sid' \in [Daemons -> Submits \cup {NoSid}]
          BY <2>13, <3>1, <4>2 DEF NextArg
        <5>2. argi' \in [Daemons -> Nat \ {0}]
          BY <2>13, <3>1 DEF NextArg
        <5>3. /\ pc' = [pc EXCEPT ![d] = "load"]
              /\ UNCHANGED <<lock, session, pending, result, status, reported,
                             crashes>>
          BY <2>13, <3>1 DEF NextArg
        <5> QED
          BY <5>1, <5>2, <5>3
    <3>2. CASE ~ (argi[d] <= Len(Args[d]))
      <4>1. lock' \in Locks
        BY <2>13, <3>2, LockTypes DEF NextArg, Exit
      <4> QED
        BY <2>13, <3>2, <4>1 DEF NextArg, Exit
    <3> QED
      BY <3>1, <3>2
  <2>14. CASE LoadSubmit(d)
    BY <2>14 DEF LoadSubmit, Goto, NextRound, Executes, Fails, AfterPing, AfterSystem
  <2>15. CASE JudgeSubmit(d)
    <3>1. pending' \in [Daemons -> SUBSET Signals]
      BY <2>15 DEF JudgeSubmit, AfterSystem
    <3>2. PICK v \in Verdicts : status' = [status EXCEPT ![d] = v]
      BY <2>15 DEF JudgeSubmit
    <3> QED
      BY <2>15, <3>1, <3>2 DEF JudgeSubmit, Goto
  <2>16. CASE StoreResult(d)
    BY <2>16 DEF StoreResult, Goto, Executes, Fails
  <2>17. CASE Report(d)
    BY <2>17 DEF Report, Goto, NextRound, AfterPing, AfterSystem
  <2> QED
    BY <1>8, <2>1, <2>2, <2>3, <2>4, <2>5, <2>6, <2>7, <2>8, <2>9, <2>10,
       <2>11, <2>12, <2>13, <2>14, <2>15, <2>16, <2>17 DEF DaemonStep
<1> QED
  BY <1>1, <1>2, <1>3, <1>4, <1>5, <1>6, <1>7, <1>8 DEF Next, Environment

LEMMA TInvAlways == Spec => []TInv
<1>1. Init => TInv
  BY DEF Init, TInv, TypeOK, StatusSet, Labels, Free, Locks
<1> QED
  BY <1>1, TInvStep, PTL DEF Spec

(* The variables keep their types in every run, whatever fails: a row      *)
(* never holds a status other than the queue's two and a verdict, and no   *)
(* daemon stores or reports a status it has not set.                       *)
THEOREM TypeCorrect == Spec => []TypeOK
<1>1. TInv => TypeOK
  BY DEF TInv
<1> QED
  BY <1>1, TInvAlways, PTL

-----------------------------------------------------------------------------
(* The lock is free outside capture_new_submit *)

(* The owner of the lock is in capture_new_submit, on a live session, and  *)
(* owns it once; only a release that fails could leave it otherwise.       *)
OwnerIsCapturing ==
  \A d \in Daemons :
    lock.owner = d => /\ pc[d] \in {"select", "mark", "unlock"}
                      /\ session[d] = "up"
                      /\ lock.depth = 1

LEMMA NobodyIsNoDaemon == "nobody" \notin Daemons /\ "dead session" \notin Daemons
  BY DaemonsAssumption

LEMMA ReleasedOnce ==
  ASSUME NEW d \in Daemons, lock.owner = d, lock.depth = 1
  PROVE  Released(d) = Free
<1>1. ~ (lock.depth > 1)
  OBVIOUS
<1> QED
  BY <1>1 DEF Released

(* A daemon that leaves the lock alone keeps the invariant if, when it is  *)
(* the owner, it stays in capture_new_submit on a live session.            *)
LEMMA OwnerStays ==
  ASSUME OwnerIsCapturing, NEW d \in Daemons, UNCHANGED lock,
         \A e \in Daemons : e # d => pc'[e] = pc[e] /\ session'[e] = session[e],
         lock.owner = d => pc'[d] \in {"select", "mark", "unlock"} /\ session'[d] = "up"
  PROVE  OwnerIsCapturing'
BY DEF OwnerIsCapturing

LEMMA OwnerIsCapturingStep ==
  ASSUME "unlock" \notin Failing, TypeOK, OwnerIsCapturing, [Next]_vars
  PROVE  OwnerIsCapturing'
<1>0. /\ pc \in [Daemons -> Labels]
      /\ session \in [Daemons -> {"none", "up", "lost"}]
      /\ lock \in Locks
  BY DEF TypeOK
<1> USE NobodyIsNoDaemon, <1>0 DEF OwnerIsCapturing
<1> HIDE DEF TypeOK
<1>1. CASE UNCHANGED vars
  BY <1>1 DEF vars
<1>2. ASSUME NEW s \in Submits, SubmitArrives(s) PROVE OwnerIsCapturing'
  BY <1>2 DEF SubmitArrives
<1>3. ASSUME NEW d \in Daemons, NEW g \in Signals, Signal(d, g) PROVE OwnerIsCapturing'
  BY <1>3 DEF Signal
<1>4. ASSUME NEW d \in Daemons, Crash(d) PROVE OwnerIsCapturing'
  BY <1>4 DEF Crash, LockWithout, Locks
<1>5. ASSUME NEW d \in Daemons, DropSession(d) PROVE OwnerIsCapturing'
  BY <1>5 DEF DropSession, LockWithout, Locks
<1>6. ASSUME NEW d \in Daemons, Restart(d) PROVE OwnerIsCapturing'
  BY <1>6 DEF Restart, Alive
<1>7. CASE ReapSession
  BY <1>7 DEF ReapSession, Free
<1>8. ASSUME NEW d \in Daemons, DaemonStep(d) PROVE OwnerIsCapturing'
  <2>1. CASE Connect(d)
    BY <2>1 DEF Connect, Goto
  <2>2. CASE ConnectFails(d)
    BY <2>2 DEF ConnectFails, Goto
  <2>3. CASE WaitPing(d)
    BY <2>3 DEF WaitPing, Goto
  <2>4. CASE WaitElapsed(d)
    BY <2>4 DEF WaitElapsed, Goto
  <2>5. CASE WaitTerm(d)
    BY <2>5 DEF WaitTerm, Exit, Free
  <2>6. CASE NoTerm(d)
    BY <2>6 DEF NoTerm, Goto
  <2>7. CASE CheckNewSubmits(d)
    <3>1. pc[d] = "check" /\ UNCHANGED lock
      BY <2>7 DEF CheckNewSubmits, Goto
    <3>2. \E to \in {"lock", "wait"} : pc' = [pc EXCEPT ![d] = to]
      BY <2>7 DEF CheckNewSubmits, Goto
    <3>3. session' \in {session, [session EXCEPT ![d] = "up"]}
      BY <2>7 DEF CheckNewSubmits, Executes, Fails
    <3>4. \A e \in Daemons : e # d => pc'[e] = pc[e] /\ session'[e] = session[e]
      BY <3>2, <3>3
    <3> QED
      BY <3>1, <3>4, OwnerStays
  <2>8. CASE LockTable(d)
    BY <2>8 DEF LockTable, Goto, Executes
  <2>9. CASE LockTableFails(d)
    BY <2>9 DEF LockTableFails, Goto, Executes, Fails
  <2>10. CASE SelectNew(d)
    <3>1. /\ pc[d] = "select"
          /\ pc' \in {[pc EXCEPT ![d] = "mark"], [pc EXCEPT ![d] = "unlock"]}
          /\ UNCHANGED lock
      BY <2>10 DEF SelectNew, Goto
    <3>2. session' \in {session, [session EXCEPT ![d] = "up"]}
      BY <2>10 DEF SelectNew, Executes, Fails
    <3>3. \A e \in Daemons : e # d => pc'[e] = pc[e] /\ session'[e] = session[e]
      BY <3>1, <3>2
    <3>4. lock.owner = d => pc'[d] \in {"select", "mark", "unlock"} /\ session'[d] = "up"
      BY <3>1, <3>2
    <3> QED
      BY <3>1, <3>3, <3>4, OwnerStays
  <2>11. CASE MarkRunning(d)
    <3>1. /\ pc[d] = "mark" /\ pc' = [pc EXCEPT ![d] = "unlock"]
          /\ UNCHANGED lock
      BY <2>11 DEF MarkRunning, Goto
    <3>2. session' \in {session, [session EXCEPT ![d] = "up"]}
      BY <2>11 DEF MarkRunning, Executes, Fails
    <3>3. \A e \in Daemons : e # d => pc'[e] = pc[e] /\ session'[e] = session[e]
      BY <3>1, <3>2
    <3>4. lock.owner = d => pc'[d] \in {"select", "mark", "unlock"} /\ session'[d] = "up"
      BY <3>1, <3>2
    <3> QED
      BY <3>1, <3>3, <3>4, OwnerStays
  <2>12. CASE UnlockTable(d)
    <3>1. /\ pc[d] = "unlock"
          /\ pc' \in {[pc EXCEPT ![d] = "top"], [pc EXCEPT ![d] = "load"]}
      BY <2>12 DEF UnlockTable, Goto
    <3>2. CASE lock.owner = d
      <4>1. lock.depth = 1 /\ ~ Fails(d)
        BY <3>1, <3>2 DEF Fails
      <4>2. Released(d) = Free
        BY <3>2, <4>1, ReleasedOnce
      <4>3. lock' = Free
        BY <2>12, <4>1, <4>2 DEF UnlockTable
      <4> QED
        BY <4>3, NobodyIsNoDaemon DEF Free
    <3>3. CASE lock.owner # d
      <4>1. UNCHANGED lock /\ session' \in {session, [session EXCEPT ![d] = "up"]}
        BY <2>12, <3>3 DEF UnlockTable, Executes, Fails, Released
      <4> QED
        BY <3>1, <3>3, <4>1
    <3> QED
      BY <3>2, <3>3
  <2>13. CASE NextArg(d)
    BY <2>13 DEF NextArg, Exit, Free
  <2>14. CASE LoadSubmit(d)
    <3>1. pc[d] = "load" /\ UNCHANGED lock
      BY <2>14 DEF LoadSubmit, Goto
    <3>2. \A e \in Daemons : e # d => pc'[e] = pc[e] /\ session'[e] = session[e]
      BY <2>14 DEF LoadSubmit, Goto, NextRound, Executes, Fails
    <3> QED
      BY <3>1, <3>2, OwnerStays
  <2>15. CASE JudgeSubmit(d)
    BY <2>15 DEF JudgeSubmit, Goto
  <2>16. CASE StoreResult(d)
    <3>1. pc[d] = "store" /\ UNCHANGED lock
      BY <2>16 DEF StoreResult, Goto
    <3>2. \A e \in Daemons : e # d => pc'[e] = pc[e] /\ session'[e] = session[e]
      BY <2>16 DEF StoreResult, Goto, Executes, Fails
    <3> QED
      BY <3>1, <3>2, OwnerStays
  <2>17. CASE Report(d)
    BY <2>17 DEF Report, Goto, NextRound
  <2> QED
    BY <1>8, <2>1, <2>2, <2>3, <2>4, <2>5, <2>6, <2>7, <2>8, <2>9, <2>10,
       <2>11, <2>12, <2>13, <2>14, <2>15, <2>16, <2>17 DEF DaemonStep
<1> QED
  BY <1>1, <1>2, <1>3, <1>4, <1>5, <1>6, <1>7, <1>8 DEF Next, Environment

(* If releases do not fail, no daemon owns the lock outside                *)
(* capture_new_submit, even when sessions are lost and daemons crash.      *)
THEOREM LockScoped ==
  ASSUME "unlock" \notin Failing
  PROVE  Spec => []LockIsScoped
<1>1. Init => OwnerIsCapturing
  <2>1. Init => lock.owner = "nobody"
    BY DEF Init, Free
  <2> QED
    BY <2>1, NobodyIsNoDaemon DEF OwnerIsCapturing
<1>2. TypeOK /\ OwnerIsCapturing /\ [Next]_vars => OwnerIsCapturing'
  BY OwnerIsCapturingStep
<1>3. OwnerIsCapturing => LockIsScoped
  BY DEF OwnerIsCapturing, LockIsScoped
<1> QED
  BY <1>1, <1>2, <1>3, TypeCorrect, PTL DEF Spec

-----------------------------------------------------------------------------
(* Exclusive judging *)

(* Sessions are not lost inside capture_new_submit, the update to          *)
(* ST_RUNNING does not fail, and nobody judges by hand.                    *)
Protected ==
  /\ "drop" \notin Faults
  /\ "mark" \notin Failing
  /\ \A d \in Daemons : FromQueue(d)

(* A daemon has a submission in hand exactly where the code has its id.    *)
SidFits ==
  \A d \in Daemons :
    /\ pc[d] \in {"mark", "load", "judge", "store", "report"} => sid[d] # NoSid
    /\ sid[d] # NoSid =>
         pc[d] \in {"mark", "unlock", "load", "judge", "store", "report"}
    /\ pc[d] # "arg"

(* Inside capture_new_submit a daemon owns the lock, on a live session.    *)
CapturingOwns ==
  \A d \in Daemons :
    pc[d] \in {"select", "mark", "unlock"} =>
      lock.owner = d /\ session[d] = "up"

(* Nobody has touched the row between its select and its update.           *)
SelectedIsPending ==
  \A d \in Daemons : pc[d] = "mark" => result[sid[d]] = "ST_PENDING"

CaptureInv ==
  /\ SidFits
  /\ CapturingOwns
  /\ SelectedIsPending
  /\ HeldIsRunning
  /\ ExclusiveJudging

(* The types CaptureInv rests on.                                          *)
Shapes ==
  /\ result \in [Submits -> {"absent", "ST_PENDING", "ST_RUNNING"} \cup Verdicts]
  /\ pc \in [Daemons -> Labels]
  /\ sid \in [Daemons -> Submits \cup {NoSid}]
  /\ session \in [Daemons -> {"none", "up", "lost"}]

LEMMA SubmitsAreIds == NoSid \notin Submits
  BY SubmitsAssumption DEF NoSid

LEMMA QueueRowsAreNoVerdicts ==
  {"absent", "ST_PENDING", "ST_RUNNING", "none"} \cap Verdicts = {}
  BY VerdictsAssumption

(* With the rows unchanged, what holds of the daemons that hold or have    *)
(* selected a submission stays true of those that still do.                *)
LEMMA HoldersStay ==
  ASSUME CaptureInv, UNCHANGED result,
         \A e \in Daemons : Holding(e)' => Holding(e) /\ sid'[e] = sid[e]
  PROVE  HeldIsRunning' /\ ExclusiveJudging'
<1>1. HeldIsRunning'
  BY DEF CaptureInv, HeldIsRunning
<1>2. ExclusiveJudging'
  BY DEF CaptureInv, ExclusiveJudging
<1> QED
  BY <1>1, <1>2

LEMMA CapturingStays ==
  ASSUME CaptureInv, NEW d \in Daemons,
         \A e \in Daemons : e # d => pc'[e] = pc[e] /\ session'[e] = session[e],
         \A e \in Daemons : e # d /\ lock.owner = e => lock'.owner = e,
         pc'[d] \in {"select", "mark", "unlock"} => lock'.owner = d /\ session'[d] = "up"
  PROVE  CapturingOwns'
BY DEF CaptureInv, CapturingOwns

LEMMA SelectedStays ==
  ASSUME CaptureInv, UNCHANGED result,
         \A e \in Daemons :
           pc'[e] = "mark" => pc[e] = "mark" /\ sid'[e] = sid[e]
  PROVE  SelectedIsPending'
BY DEF CaptureInv, SelectedIsPending

(* A step that moves no daemon keeps CaptureInv unless it takes the lock   *)
(* or the session from a daemon that is capturing.                         *)
LEMMA NobodyMoves ==
  ASSUME CaptureInv, UNCHANGED <<result, pc, sid>>,
         \A e \in Daemons :
           pc[e] \in {"select", "mark", "unlock"} =>
             /\ lock.owner = e => lock'.owner = e
             /\ session'[e] = session[e]
  PROVE  CaptureInv'
<1>1. SidFits'
  BY DEF CaptureInv, SidFits
<1>2. CapturingOwns'
  BY DEF CaptureInv, CapturingOwns
<1>3. HeldIsRunning' /\ ExclusiveJudging'
  BY HoldersStay DEF Holding
<1>4. SelectedIsPending'
  BY SelectedStays
<1> QED
  BY <1>1, <1>2, <1>3, <1>4 DEF CaptureInv

(* Steps that leave the rows, the ids and the lock alone and move a        *)
(* daemon between labels of the same kind keep CaptureInv.                 *)
LEMMA QuietMove ==
  ASSUME Shapes, CaptureInv, NEW d \in Daemons, NEW to,
         pc[d] \notin {"select", "mark", "unlock", "load", "judge", "store", "report"},
         to \notin {"select", "mark", "unlock", "load", "judge", "store", "report", "arg"},
         pc' = [pc EXCEPT ![d] = to],
         UNCHANGED <<result, sid, lock>>,
         session' = [session EXCEPT ![d] = session'[d]]
  PROVE  CaptureInv'
<1> USE DEF Shapes
<1>1. \A e \in Daemons : e # d => pc'[e] = pc[e] /\ session'[e] = session[e]
  OBVIOUS
<1>2. pc'[d] = to
  OBVIOUS
<1>3. SidFits'
  BY <1>1, <1>2 DEF CaptureInv, SidFits
<1>4. CapturingOwns'
  BY <1>1, <1>2 DEF CaptureInv, CapturingOwns
<1>5. SelectedIsPending'
  BY <1>1, <1>2, SelectedStays
<1>6. \A e \in Daemons : Holding(e)' => Holding(e)
  BY <1>1, <1>2 DEF Holding, FromQueue
<1>7. HeldIsRunning' /\ ExclusiveJudging'
  BY <1>6, HoldersStay
<1> QED
  BY <1>3, <1>4, <1>5, <1>7 DEF CaptureInv

LEMMA CaptureInvStep ==
  ASSUME Protected, Shapes, Shapes', CaptureInv, [Next]_vars
  PROVE  CaptureInv'
<1> USE SubmitsAreIds, NobodyIsNoDaemon DEF Shapes
<1> DEFINE Same(d) == \A e \in Daemons : e # d => /\ pc'[e] = pc[e]
                                                  /\ sid'[e] = sid[e]
                                                  /\ session'[e] = session[e]
<1>1. CASE UNCHANGED vars
  BY <1>1, NobodyMoves DEF vars
<1>2. ASSUME NEW s \in Submits, SubmitArrives(s) PROVE CaptureInv'
  <2>1. /\ UNCHANGED <<lock, pc, sid, session>>
        /\ \A t \in Submits : t # s => result'[t] = result[t]
        /\ result[s] = "absent"
    BY <1>2 DEF SubmitArrives
  <2>2. \A e \in Daemons : Holding(e) => sid[e] \in Submits /\ sid[e] # s
    BY <2>1 DEF CaptureInv, HeldIsRunning, Holding
  <2>3. SidFits' /\ CapturingOwns'
    BY <2>1 DEF CaptureInv, SidFits, CapturingOwns
  <2>4. SelectedIsPending'
    <3> SUFFICES ASSUME NEW e \in Daemons, pc'[e] = "mark"
                 PROVE  result'[sid'[e]] = "ST_PENDING"
      BY DEF SelectedIsPending
    <3>1. pc[e] = "mark" /\ sid'[e] = sid[e]
      BY <2>1
    <3>2. sid[e] \in Submits /\ result[sid[e]] = "ST_PENDING"
      BY <3>1 DEF CaptureInv, SidFits, SelectedIsPending
    <3> QED
      BY <2>1, <3>1, <3>2
  <2>5. HeldIsRunning' /\ ExclusiveJudging'
    BY <2>1, <2>2 DEF CaptureInv, HeldIsRunning, ExclusiveJudging, Holding
  <2> QED
    BY <2>3, <2>4, <2>5 DEF CaptureInv
<1>3. ASSUME NEW d \in Daemons, NEW g \in Signals, Signal(d, g) PROVE CaptureInv'
  BY <1>3, NobodyMoves DEF Signal
<1>4. ASSUME NEW d \in Daemons, Crash(d) PROVE CaptureInv'
  <2>1. /\ Same(d) /\ UNCHANGED result
        /\ pc'[d] = "crashed" /\ sid'[d] = NoSid
    BY <1>4 DEF Crash
  <2>2. \A e \in Daemons : e # d /\ lock.owner = e => lock'.owner = e
    BY <1>4 DEF Crash, LockWithout
  <2>3. SidFits'
    BY <2>1 DEF CaptureInv, SidFits
  <2>3a. SelectedIsPending'
    BY <2>1, SelectedStays
  <2>4. CapturingOwns'
    BY <2>1, <2>2 DEF CaptureInv, CapturingOwns
  <2>5. HeldIsRunning' /\ ExclusiveJudging'
    BY <2>1, HoldersStay DEF Holding, FromQueue
  <2> QED
    BY <2>3, <2>4, <2>5, <2>3a DEF CaptureInv
<1>5. ASSUME NEW d \in Daemons, DropSession(d) PROVE CaptureInv'
  <2>1. /\ UNCHANGED <<result, pc, sid>>
        /\ pc[d] \notin {"select", "mark", "unlock"}
        /\ session' = [session EXCEPT ![d] = "lost"]
    BY <1>5 DEF DropSession, Protected
  <2>2. \A e \in Daemons : e # d /\ lock.owner = e => lock'.owner = e
    BY <1>5 DEF DropSession, LockWithout
  <2> QED
    BY <2>1, <2>2, NobodyMoves
<1>6. ASSUME NEW d \in Daemons, Restart(d) PROVE CaptureInv'
  BY <1>6, QuietMove DEF Restart, Alive
<1>7. CASE ReapSession
  BY <1>7, NobodyMoves DEF ReapSession
<1>8. ASSUME NEW d \in Daemons, DaemonStep(d) PROVE CaptureInv'
  <2> FromQueue(d)
    BY DEF Protected
  <2>1. CASE Connect(d)
    BY <2>1, QuietMove DEF Connect, Goto, NextRound
  <2>2. CASE ConnectFails(d)
    BY <2>2, QuietMove DEF ConnectFails, Goto
  <2>3. CASE WaitPing(d)
    BY <2>3, QuietMove DEF WaitPing, Goto
  <2>4. CASE WaitElapsed(d)
    BY <2>4, QuietMove DEF WaitElapsed, Goto
  <2>5. CASE WaitTerm(d)
    <3>1. /\ Same(d) /\ UNCHANGED <<result, sid>>
          /\ pc[d] \in {"top", "wait_term"} /\ pc'[d] = "stopped"
      BY <2>5 DEF WaitTerm, Exit
    <3>2. \A e \in Daemons : e # d /\ lock.owner = e => lock'.owner = e
      BY <2>5 DEF WaitTerm, Exit
    <3>3. SidFits'
      BY <3>1 DEF CaptureInv, SidFits
    <3>3a. SelectedIsPending'
      BY <3>1, SelectedStays
    <3>4. CapturingOwns'
      BY <3>1, <3>2 DEF CaptureInv, CapturingOwns
    <3>5. HeldIsRunning' /\ ExclusiveJudging'
      BY <3>1, HoldersStay DEF Holding, FromQueue
    <3> QED
      BY <3>3, <3>4, <3>5, <3>3a DEF CaptureInv
  <2>6. CASE NoTerm(d)
    BY <2>6, QuietMove DEF NoTerm, Goto
  <2>7. CASE CheckNewSubmits(d)
    <3>1. session' = [session EXCEPT ![d] = session'[d]]
      BY <2>7 DEF CheckNewSubmits, Executes, Fails
    <3>2. PICK to \in {"lock", "wait"} : Goto(d, "check", to)
      BY <2>7 DEF CheckNewSubmits
    <3> QED
      BY <2>7, <3>1, <3>2, QuietMove DEF CheckNewSubmits, Goto
  <2>8. CASE LockTable(d)
    <3>1. /\ Same(d) /\ UNCHANGED <<result, sid>>
          /\ pc[d] = "lock" /\ pc'[d] = "select" /\ session'[d] = "up"
      BY <2>8 DEF LockTable, Goto, Executes
    <3>2. lock.owner \in {"nobody", d} /\ lock'.owner = d
      BY <2>8 DEF LockTable
    <3>3. SidFits'
      BY <3>1 DEF CaptureInv, SidFits
    <3>3a. SelectedIsPending'
      BY <3>1, SelectedStays
    <3>2a. \A e \in Daemons : e # d => lock.owner # e
      BY <3>2
    <3>4. CapturingOwns'
      BY <3>1, <3>2, <3>2a, CapturingStays
    <3>5. HeldIsRunning' /\ ExclusiveJudging'
      BY <3>1, HoldersStay DEF Holding, FromQueue
    <3> QED
      BY <3>3, <3>4, <3>5, <3>3a DEF CaptureInv
  <2>9. CASE LockTableFails(d)
    <3>1. session' = [session EXCEPT ![d] = session'[d]]
      BY <2>9 DEF LockTableFails, Executes, Fails
    <3> QED
      BY <2>9, <3>1, QuietMove DEF LockTableFails, Goto
  <2>10. CASE SelectNew(d)
    <3>0. pc[d] = "select" /\ UNCHANGED <<result, lock>>
      BY <2>10 DEF SelectNew, Goto
    <3>0a. session[d] = "up"
      BY <3>0 DEF CaptureInv, CapturingOwns
    <3>0b. session' = [session EXCEPT ![d] = "up"] \/ UNCHANGED session
      BY <2>10 DEF SelectNew, Executes, Fails
    <3>0c. \A e \in Daemons : e # d => pc'[e] = pc[e] /\ sid'[e] = sid[e]
      BY <2>10 DEF SelectNew, Goto
    <3>1. /\ Same(d) /\ UNCHANGED <<result, lock>>
          /\ pc[d] = "select" /\ session'[d] = "up"
      BY <3>0, <3>0a, <3>0b, <3>0c
    <3>2. \/ pc'[d] = "mark" /\ sid'[d] \in PendingRows
          \/ pc'[d] = "unlock" /\ sid'[d] = sid[d]
      BY <2>10 DEF SelectNew, Goto, Foremost
    <3>3. sid[d] = NoSid
      BY <3>1 DEF CaptureInv, SidFits
    <3>4. sid'[d] \in PendingRows => sid'[d] # NoSid /\ result[sid'[d]] = "ST_PENDING"
      BY DEF PendingRows
    <3>5. SidFits'
      BY <3>1, <3>2, <3>3, <3>4 DEF CaptureInv, SidFits
    <3>5a. SelectedIsPending'
      <4> SUFFICES ASSUME NEW e \in Daemons, pc'[e] = "mark"
                   PROVE  result'[sid'[e]] = "ST_PENDING"
        BY DEF SelectedIsPending
      <4>1. CASE e = d
        BY <3>1, <3>2, <3>4, <4>1
      <4>2. CASE e # d
        BY <3>1, <4>2 DEF CaptureInv, SelectedIsPending
      <4> QED
        BY <4>1, <4>2
    <3>5b. lock.owner = d
      BY <3>0 DEF CaptureInv, CapturingOwns
    <3>6. CapturingOwns'
      BY <3>1, <3>5b, CapturingStays
    <3>7. HeldIsRunning' /\ ExclusiveJudging'
      <4>1. \A e \in Daemons : Holding(e)' => Holding(e) /\ sid'[e] = sid[e]
        BY <3>1, <3>2, <3>3 DEF Holding, FromQueue
      <4> QED
        BY <3>1, <4>1, HoldersStay
    <3> QED
      BY <3>5, <3>6, <3>7, <3>5a DEF CaptureInv
  <2>11. CASE MarkRunning(d)
    <3>0. /\ pc[d] = "mark" /\ pc' = [pc EXCEPT ![d] = "unlock"]
          /\ UNCHANGED <<lock, sid>>
      BY <2>11 DEF MarkRunning, Goto
    <3>0a. session[d] = "up"
      BY <3>0 DEF CaptureInv, CapturingOwns
    <3>0b. session' = [session EXCEPT ![d] = "up"] \/ UNCHANGED session
      BY <2>11 DEF MarkRunning, Executes, Fails
    <3>1. /\ Same(d) /\ UNCHANGED <<lock, sid>>
          /\ pc[d] = "mark" /\ pc'[d] = "unlock" /\ session'[d] = "up"
      BY <3>0, <3>0a, <3>0b
    <3>2. ~ Fails(d)
      BY <3>0, <3>0a DEF Fails, Protected
    <3>3. result' = [result EXCEPT ![sid[d]] = "ST_RUNNING"]
      BY <2>11, <3>2 DEF MarkRunning
    <3>4. sid[d] \in Submits /\ result[sid[d]] = "ST_PENDING"
      BY <3>1 DEF CaptureInv, SidFits, SelectedIsPending
    <3>5. SidFits'
      BY <3>1 DEF CaptureInv, SidFits
    <3>6. CapturingOwns'
      BY <3>1 DEF CaptureInv, CapturingOwns
    <3>7. SelectedIsPending'
      BY <3>1, <3>6 DEF CaptureInv, CapturingOwns, SelectedIsPending
    <3>8. \A e \in Daemons : Holding(e)' => e = d \/ Holding(e)
      BY <3>1 DEF Holding, FromQueue
    <3>9. \A e \in Daemons : Holding(e) => e # d /\ sid[e] \in Submits /\ sid[e] # sid[d]
      BY <3>1, <3>4 DEF Holding, CaptureInv, HeldIsRunning
    <3>10. HeldIsRunning'
      BY <3>1, <3>3, <3>4, <3>8, <3>9 DEF CaptureInv, HeldIsRunning
    <3>11. ExclusiveJudging'
      BY <3>1, <3>8, <3>9 DEF CaptureInv, ExclusiveJudging
    <3> QED
      BY <3>5, <3>6, <3>7, <3>10, <3>11 DEF CaptureInv
  <2>12. CASE UnlockTable(d)
    <3>1. /\ Same(d) /\ UNCHANGED <<result, sid>>
          /\ pc[d] = "unlock"
          /\ pc'[d] = IF sid[d] = NoSid THEN "top" ELSE "load"
      BY <2>12 DEF UnlockTable, Goto, Executes, Fails
    <3>2. \A e \in Daemons : e # d => lock.owner # e
      BY <3>1 DEF CaptureInv, CapturingOwns
    <3>3. SidFits'
      BY <3>1 DEF CaptureInv, SidFits
    <3>3a. SelectedIsPending'
      BY <3>1, SelectedStays
    <3>4. CapturingOwns'
      BY <3>1, <3>2 DEF CaptureInv, CapturingOwns
    <3>5. \A e \in Daemons : Holding(e)' => Holding(e)
      BY <3>1 DEF Holding, FromQueue
    <3>6. HeldIsRunning' /\ ExclusiveJudging'
      BY <3>1, <3>5, HoldersStay
    <3> QED
      BY <3>3, <3>4, <3>6, <3>3a DEF CaptureInv
  <2>13. CASE NextArg(d)
    BY <2>13 DEF NextArg, CaptureInv, SidFits
  <2>14. CASE LoadSubmit(d)
    <3>1. /\ Same(d) /\ UNCHANGED <<result, lock>> /\ pc[d] = "load"
          /\ \/ pc'[d] = "judge" /\ sid'[d] = sid[d]
             \/ pc'[d] = "top" /\ sid'[d] = NoSid
      BY <2>14 DEF LoadSubmit, Goto, NextRound, Executes, Fails
    <3>2. SidFits'
      BY <3>1 DEF CaptureInv, SidFits
    <3>2a. SelectedIsPending'
      BY <3>1, SelectedStays
    <3>3. CapturingOwns'
      BY <3>1 DEF CaptureInv, CapturingOwns
    <3>4. \A e \in Daemons : Holding(e)' => Holding(e) /\ sid'[e] = sid[e]
      BY <3>1 DEF Holding, FromQueue
    <3>5. HeldIsRunning' /\ ExclusiveJudging'
      BY <3>1, <3>4, HoldersStay
    <3> QED
      BY <3>2, <3>3, <3>5, <3>2a DEF CaptureInv
  <2>15. CASE JudgeSubmit(d)
    <3>1. /\ Same(d) /\ UNCHANGED <<result, lock, sid>>
          /\ pc[d] = "judge" /\ pc'[d] = "store"
      BY <2>15 DEF JudgeSubmit, Goto
    <3>2. SidFits'
      BY <3>1 DEF CaptureInv, SidFits
    <3>2a. SelectedIsPending'
      BY <3>1, SelectedStays
    <3>3. CapturingOwns'
      BY <3>1 DEF CaptureInv, CapturingOwns
    <3>4. \A e \in Daemons : Holding(e)' => Holding(e)
      BY <3>1 DEF Holding, FromQueue
    <3>5. HeldIsRunning' /\ ExclusiveJudging'
      BY <3>1, <3>4, HoldersStay
    <3> QED
      BY <3>2, <3>3, <3>5, <3>2a DEF CaptureInv
  <2>16. CASE StoreResult(d)
    <3>1. /\ Same(d) /\ UNCHANGED <<lock, sid>>
          /\ pc[d] = "store" /\ pc'[d] = "report"
      BY <2>16 DEF StoreResult, Goto, Executes, Fails
    <3>2. \A s \in Submits : s # sid[d] => result'[s] = result[s]
      BY <2>16 DEF StoreResult
    <3>3. Holding(d) /\ result[sid[d]] = "ST_RUNNING"
      BY <3>1 DEF CaptureInv, SidFits, HeldIsRunning, Holding
    <3>4. SidFits'
      BY <3>1 DEF CaptureInv, SidFits
    <3>5. CapturingOwns'
      BY <3>1 DEF CaptureInv, CapturingOwns
    <3>6. SelectedIsPending'
      <4> SUFFICES ASSUME NEW e \in Daemons, pc'[e] = "mark"
                   PROVE  result'[sid'[e]] = "ST_PENDING"
        BY DEF SelectedIsPending
      <4>1. pc[e] = "mark" /\ sid'[e] = sid[e]
        BY <3>1
      <4>2. result[sid[e]] = "ST_PENDING" /\ sid[e] \in Submits
        BY <4>1 DEF CaptureInv, SidFits, SelectedIsPending
      <4> QED
        BY <3>2, <3>3, <4>1, <4>2
    <3>7. \A e \in Daemons : Holding(e)' => Holding(e) /\ e # d
      BY <3>1 DEF Holding, FromQueue
    <3>8. \A e \in Daemons : Holding(e) /\ e # d => sid[e] \in Submits /\ sid[e] # sid[d]
      BY <3>3 DEF CaptureInv, ExclusiveJudging, Holding
    <3>9. HeldIsRunning' /\ ExclusiveJudging'
      BY <3>1, <3>2, <3>7, <3>8 DEF CaptureInv, HeldIsRunning, ExclusiveJudging
    <3> QED
      BY <3>4, <3>5, <3>6, <3>9 DEF CaptureInv
  <2>17. CASE Report(d)
    <3>1. /\ Same(d) /\ UNCHANGED <<result, lock>>
          /\ pc[d] = "report" /\ pc'[d] = "top" /\ sid'[d] = NoSid
      BY <2>17 DEF Report, Goto, NextRound
    <3>2. SidFits'
      BY <3>1 DEF CaptureInv, SidFits
    <3>2a. SelectedIsPending'
      BY <3>1, SelectedStays
    <3>3. CapturingOwns'
      BY <3>1 DEF CaptureInv, CapturingOwns
    <3>4. \A e \in Daemons : Holding(e)' => Holding(e) /\ sid'[e] = sid[e]
      BY <3>1 DEF Holding, FromQueue
    <3>5. HeldIsRunning' /\ ExclusiveJudging'
      BY <3>1, <3>4, HoldersStay
    <3> QED
      BY <3>2, <3>3, <3>5, <3>2a DEF CaptureInv
  <2> QED
    BY <1>8, <2>1, <2>2, <2>3, <2>4, <2>5, <2>6, <2>7, <2>8, <2>9, <2>10,
       <2>11, <2>12, <2>13, <2>14, <2>15, <2>16, <2>17 DEF DaemonStep
<1> QED
  BY <1>1, <1>2, <1>3, <1>4, <1>5, <1>6, <1>7, <1>8 DEF Next, Environment

LEMMA CaptureInvAlways ==
  ASSUME Protected
  PROVE  Spec => []CaptureInv
<1>1. Init => CaptureInv
  <2> SUFFICES ASSUME Init PROVE CaptureInv
    OBVIOUS
  <2>1. \A d \in Daemons : pc[d] = "connect" /\ sid[d] = NoSid
    BY DEF Init
  <2> QED
    BY <2>1 DEF CaptureInv, SidFits, CapturingOwns, SelectedIsPending,
                HeldIsRunning, ExclusiveJudging, Holding
<1>2. Shapes /\ Shapes' /\ CaptureInv /\ [Next]_vars => CaptureInv'
  BY CaptureInvStep
<1>3. TypeOK => Shapes
  BY DEF TypeOK, Shapes
<1> QED
  BY <1>1, <1>2, <1>3, TypeCorrect, PTL DEF Spec

(* No submission is judged by two check loops at a time: what lock_table,  *)
(* the update and unlock_table of capture_new_submit achieve together      *)
(* (common.cpp:40-63).                                                     *)
THEOREM JudgingIsExclusive ==
  ASSUME Protected
  PROVE  Spec => []ExclusiveJudging
<1>1. CaptureInv => ExclusiveJudging
  BY DEF CaptureInv
<1> QED
  BY <1>1, CaptureInvAlways, PTL

(* While a check loop judges a submission its row says ST_RUNNING: neither *)
(* the select of another daemon nor a verdict of another daemon touches it *)
(* (common.cpp:40-63, bacsd.cpp:53-77).                                    *)
THEOREM HeldRunning ==
  ASSUME Protected
  PROVE  Spec => []HeldIsRunning
<1>1. CaptureInv => HeldIsRunning
  BY DEF CaptureInv
<1> QED
  BY <1>1, CaptureInvAlways, PTL

(* Two daemons are never between get_lock and the update together.         *)
THEOREM CaptureExclusive ==
  ASSUME Protected
  PROVE  Spec => []CaptureIsExclusive
<1>1. CaptureInv => CaptureIsExclusive
  BY DEF CaptureInv, CapturingOwns, CaptureIsExclusive
<1> QED
  BY <1>1, CaptureInvAlways, PTL

-----------------------------------------------------------------------------
(* The contract *)

(* A step that changes no row and nothing about who holds what is a        *)
(* stuttering step of the contract.                                        *)
LEMMA JudgesStay ==
  ASSUME \A e \in Daemons : /\ Holding(e)' <=> Holding(e)
                            /\ Holding(e) => sid'[e] = sid[e]
  PROVE  Judges' = Judges
BY DEF Judges

(* When only d's hold changes, only the set of its submission does.        *)
LEMMA JudgesChange ==
  ASSUME Shapes, Shapes', NEW d \in Daemons, sid[d] \in Submits,
         \A e \in Daemons : e # d => /\ Holding(e)' <=> Holding(e)
                                     /\ sid'[e] = sid[e]
  PROVE  /\ Holding(d) /\ ~ Holding(d)' =>
              Judges' = [Judges EXCEPT ![sid[d]] = @ \ {d}]
         /\ ~ Holding(d) /\ Holding(d)' /\ sid'[d] = sid[d] =>
              Judges' = [Judges EXCEPT ![sid[d]] = @ \cup {d}]
BY DEF Judges

LEMMA HolderAlone ==
  ASSUME CaptureInv, NEW d \in Daemons, Holding(d), sid[d] \in Submits
  PROVE  Judges[sid[d]] = {d}
BY DEF Judges, CaptureInv, ExclusiveJudging

LEMMA IdleHoldsNothing ==
  ASSUME NEW d \in Daemons, ~ Holding(d)
  PROVE  \A t \in Submits : d \notin Judges[t]
BY DEF Judges

(* The step of the contract a step of the daemons is, or the stutter.      *)
Mapped == Contract!Next \/ UNCHANGED <<result, Judges>>

LEMMA Stutters ==
  ASSUME UNCHANGED result,
         \A e \in Daemons : /\ Holding(e)' <=> Holding(e)
                            /\ Holding(e) => sid'[e] = sid[e]
  PROVE  Mapped
BY JudgesStay DEF Mapped

(* A daemon that stops holding a submission without storing its verdict    *)
(* abandons it.                                                            *)
LEMMA Abandons ==
  ASSUME Shapes, Shapes', CaptureInv, NEW d \in Daemons, UNCHANGED result,
         ~ Holding(d)',
         \A e \in Daemons : e # d => /\ pc'[e] = pc[e]
                                     /\ sid'[e] = sid[e]
  PROVE  Mapped
<1>1. \A e \in Daemons : e # d => /\ Holding(e)' <=> Holding(e)
                                  /\ sid'[e] = sid[e]
  BY DEF Holding, FromQueue
<1>2. CASE ~ Holding(d)
  BY <1>1, <1>2, Stutters
<1>3. CASE Holding(d)
  <2>1. sid[d] \in Submits
    BY <1>3 DEF Holding, Shapes
  <2>2. Judges[sid[d]] = {d}
    BY <1>3, <2>1, HolderAlone
  <2>3. Judges' = [Judges EXCEPT ![sid[d]] = @ \ {d}]
    BY <1>1, <1>3, <2>1, JudgesChange
  <2>4. Judges' = [Judges EXCEPT ![sid[d]] = {}]
    BY <2>2, <2>3 DEF Judges
  <2>5. Contract!Abandon(sid[d], d)
    BY <2>2, <2>4 DEF Contract!Abandon
  <2> QED
    BY <2>1, <2>5 DEF Mapped, Contract!Next
<1> QED
  BY <1>2, <1>3

LEMMA StepMaps ==
  ASSUME Protected, Shapes, Shapes', StatusSet, CaptureInv, CaptureInv', [Next]_vars
  PROVE  Mapped
<1> USE SubmitsAreIds DEF Shapes
<1>1. CASE UNCHANGED vars
  BY <1>1, Stutters DEF vars, Holding, FromQueue
<1>2. ASSUME NEW s \in Submits, SubmitArrives(s) PROVE Mapped
  <2>1. /\ result[s] = "absent" /\ result' = [result EXCEPT ![s] = "ST_PENDING"]
        /\ UNCHANGED <<pc, sid>>
    BY <1>2 DEF SubmitArrives
  <2>2. Judges' = Judges
    BY <2>1, JudgesStay DEF Holding, FromQueue
  <2>3. Contract!Arrive(s)
    BY <2>1, <2>2 DEF Contract!Arrive
  <2> QED
    BY <2>3 DEF Mapped, Contract!Next
<1>3. ASSUME NEW d \in Daemons, NEW g \in Signals, Signal(d, g) PROVE Mapped
  BY <1>3, Stutters DEF Signal, Holding, FromQueue
<1>4. ASSUME NEW d \in Daemons, Crash(d) PROVE Mapped
  <2>1. ~ Holding(d)'
    BY <1>4 DEF Crash, Holding
  <2> QED
    BY <1>4, <2>1, Abandons DEF Crash
<1>5. ASSUME NEW d \in Daemons, DropSession(d) PROVE Mapped
  BY <1>5, Stutters DEF DropSession, Holding, FromQueue
<1>6. ASSUME NEW d \in Daemons, Restart(d) PROVE Mapped
  <2>1. /\ ~ Holding(d)' /\ UNCHANGED <<result, sid>>
        /\ pc' = [pc EXCEPT ![d] = "connect"]
    BY <1>6 DEF Restart, Holding
  <2> QED
    BY <2>1, Abandons
<1>7. CASE ReapSession
  BY <1>7, Stutters DEF ReapSession, Holding, FromQueue
<1>8. ASSUME NEW d \in Daemons, DaemonStep(d) PROVE Mapped
  <2> FromQueue(d)
    BY DEF Protected
  <2>1. ASSUME NEW to, NEW from, UNCHANGED <<result, sid>>, Goto(d, from, to),
               to \notin {"unlock", "load", "judge", "store"}
        PROVE  Mapped
    <3>1. ~ Holding(d)'
      BY <2>1 DEF Goto, Holding
    <3> QED
      BY <2>1, <3>1, Abandons DEF Goto
  <2>2. CASE Connect(d)
    BY <2>1, <2>2 DEF Connect, NextRound
  <2>3. CASE ConnectFails(d)
    BY <2>1, <2>3 DEF ConnectFails
  <2>4. CASE WaitPing(d)
    BY <2>1, <2>4 DEF WaitPing
  <2>5. CASE WaitElapsed(d)
    BY <2>1, <2>5 DEF WaitElapsed
  <2>6. CASE WaitTerm(d)
    <3>1. /\ ~ Holding(d)' /\ UNCHANGED <<result, sid>>
          /\ pc' = [pc EXCEPT ![d] = "stopped"]
      BY <2>6 DEF WaitTerm, Exit, Holding
    <3> QED
      BY <3>1, Abandons
  <2>7. CASE NoTerm(d)
    BY <2>1, <2>7 DEF NoTerm
  <2>8. CASE CheckNewSubmits(d)
    BY <2>1, <2>8 DEF CheckNewSubmits
  <2>9. CASE LockTable(d)
    BY <2>1, <2>9 DEF LockTable
  <2>10. CASE LockTableFails(d)
    BY <2>1, <2>10 DEF LockTableFails
  <2>11. CASE SelectNew(d)
    <3>1. /\ pc[d] = "select" /\ UNCHANGED result
          /\ \A e \in Daemons : e # d => pc'[e] = pc[e] /\ sid'[e] = sid[e]
          /\ pc'[d] = "mark" \/ (pc'[d] = "unlock" /\ sid'[d] = sid[d])
      BY <2>11 DEF SelectNew, Goto
    <3>2. sid[d] = NoSid
      BY <3>1 DEF CaptureInv, SidFits
    <3>3. ~ Holding(d)'
      BY <3>1, <3>2 DEF Holding
    <3> QED
      BY <3>1, <3>3, Abandons
  <2>12. CASE MarkRunning(d)
    <3>1. /\ pc[d] = "mark" /\ pc' = [pc EXCEPT ![d] = "unlock"] /\ UNCHANGED sid
      BY <2>12 DEF MarkRunning, Goto
    <3>2. ~ Fails(d)
      BY <3>1 DEF Fails, Protected, CaptureInv, CapturingOwns
    <3>3. result' = [result EXCEPT ![sid[d]] = "ST_RUNNING"]
      BY <2>12, <3>2 DEF MarkRunning
    <3>4. sid[d] \in Submits /\ result[sid[d]] = "ST_PENDING"
      BY <3>1 DEF CaptureInv, SidFits, SelectedIsPending
    <3>5. ~ Holding(d) /\ Holding(d)'
      BY <3>1, <3>4 DEF Holding, FromQueue
    <3>6. \A e \in Daemons : e # d => /\ Holding(e)' <=> Holding(e)
                                      /\ sid'[e] = sid[e]
      BY <3>1 DEF Holding, FromQueue
    <3>7. Judges' = [Judges EXCEPT ![sid[d]] = @ \cup {d}]
      BY <3>1, <3>4, <3>5, <3>6, JudgesChange
    <3>8. Judges[sid[d]] = {}
      BY <3>4 DEF Judges, CaptureInv, HeldIsRunning
    <3>9. Judges' = [Judges EXCEPT ![sid[d]] = {d}]
      BY <3>7, <3>8 DEF Judges
    <3>10. Contract!Take(sid[d], d)
      BY <3>3, <3>4, <3>5, <3>8, <3>9, IdleHoldsNothing DEF Contract!Take
    <3> QED
      BY <3>4, <3>10 DEF Mapped, Contract!Next
  <2>13. CASE UnlockTable(d)
    <3>1. /\ pc[d] = "unlock" /\ UNCHANGED <<result, sid>>
          /\ pc' = [pc EXCEPT ![d] = IF sid[d] = NoSid THEN "top" ELSE "load"]
      BY <2>13 DEF UnlockTable, Goto
    <3> QED
      BY <3>1, Stutters DEF Holding, FromQueue
  <2>14. CASE NextArg(d)
    BY <2>14 DEF NextArg, CaptureInv, SidFits
  <2>15. CASE LoadSubmit(d)
    <3>1. /\ pc[d] = "load" /\ UNCHANGED result
          /\ \A e \in Daemons : e # d => pc'[e] = pc[e] /\ sid'[e] = sid[e]
          /\ \/ pc'[d] = "judge" /\ sid'[d] = sid[d]
             \/ pc'[d] = "top"
      BY <2>15 DEF LoadSubmit, Goto, NextRound
    <3>2. CASE pc'[d] = "judge" /\ sid'[d] = sid[d]
      BY <3>1, <3>2, Stutters DEF Holding, FromQueue
    <3>3. CASE pc'[d] = "top"
      BY <3>1, <3>3, Abandons DEF Holding
    <3> QED
      BY <3>1, <3>2, <3>3
  <2>16. CASE JudgeSubmit(d)
    <3>1. /\ pc[d] = "judge" /\ UNCHANGED <<result, sid>>
          /\ pc' = [pc EXCEPT ![d] = "store"]
      BY <2>16 DEF JudgeSubmit, Goto
    <3> QED
      BY <3>1, Stutters DEF Holding, FromQueue
  <2>17. CASE StoreResult(d)
    <3>1. /\ pc[d] = "store" /\ pc' = [pc EXCEPT ![d] = "report"] /\ UNCHANGED sid
      BY <2>17 DEF StoreResult, Goto
    <3>2. Holding(d) /\ ~ Holding(d)' /\ sid[d] \in Submits
      BY <3>1 DEF CaptureInv, SidFits, Holding
    <3>3. CASE UNCHANGED result
      BY <3>1, <3>2, <3>3, Abandons
    <3>4. CASE result' = [result EXCEPT ![sid[d]] = status[d]]
      <4>1. \A e \in Daemons : e # d => /\ Holding(e)' <=> Holding(e)
                                        /\ sid'[e] = sid[e]
        BY <3>1 DEF Holding, FromQueue
      <4>2. Judges' = [Judges EXCEPT ![sid[d]] = @ \ {d}]
        BY <3>2, <4>1, JudgesChange
      <4>3. Judges[sid[d]] = {d}
        BY <3>2, HolderAlone
      <4>4. Judges' = [Judges EXCEPT ![sid[d]] = {}]
        BY <4>2, <4>3 DEF Judges
      <4>5. status[d] \in Verdicts /\ result[sid[d]] = "ST_RUNNING"
        BY <3>1, <3>2 DEF StatusSet, CaptureInv, HeldIsRunning
      <4>6. Contract!Settle(sid[d], d, status[d])
        BY <3>4, <4>3, <4>4, <4>5 DEF Contract!Settle
      <4> QED
        BY <3>2, <4>5, <4>6 DEF Mapped, Contract!Next
    <3> QED
      BY <2>17, <3>3, <3>4 DEF StoreResult
  <2>18. CASE Report(d)
    <3>1. /\ ~ Holding(d)' /\ UNCHANGED result
          /\ pc' = [pc EXCEPT ![d] = "top"]
          /\ \A e \in Daemons : e # d => sid'[e] = sid[e]
      BY <2>18 DEF Report, Goto, NextRound, Holding
    <3> QED
      BY <3>1, Abandons
  <2> QED
    BY <1>8, <2>2, <2>3, <2>4, <2>5, <2>6, <2>7, <2>8, <2>9, <2>10, <2>11,
       <2>12, <2>13, <2>14, <2>15, <2>16, <2>17, <2>18 DEF DaemonStep
<1> QED
  BY <1>1, <1>2, <1>3, <1>4, <1>5, <1>6, <1>7, <1>8 DEF Next, Environment

(* The daemons implement the contract: every submission is taken by one    *)
(* daemon at a time, from the queue only, and settled or abandoned by the  *)
(* daemon that took it.                                                    *)
THEOREM ImplementsJudgingContract ==
  ASSUME Protected
  PROVE  Spec => ImplementsContract
<1>1. Init => Contract!Init
  BY DEF Init, Contract!Init, Judges, Holding, NoSid
<1>2. /\ Shapes /\ Shapes' /\ StatusSet /\ CaptureInv /\ CaptureInv'
      /\ [Next]_vars
      => [Contract!Next]_(Contract!vars)
  BY StepMaps DEF Mapped, Contract!vars
<1>3. TInv => Shapes /\ StatusSet
  BY DEF TInv, TypeOK, Shapes
<1> QED
  BY <1>1, <1>2, <1>3, TInvAlways, CaptureInvAlways, PTL
     DEF Spec, ImplementsContract, Contract!Spec

-----------------------------------------------------------------------------
(* Verdicts *)

(* In the contract a row with a verdict never changes again.               *)
LEMMA ContractKeepsVerdicts ==
  ASSUME [Contract!Next]_(Contract!vars), NEW s \in Submits,
         result[s] \in Verdicts, Shapes
  PROVE  result'[s] = result[s]
<1> USE QueueRowsAreNoVerdicts DEF Shapes
<1>1. CASE UNCHANGED Contract!vars
  BY <1>1 DEF Contract!vars
<1>2. ASSUME NEW t \in Submits, Contract!Arrive(t) PROVE result'[s] = result[s]
  BY <1>2 DEF Contract!Arrive
<1>3. ASSUME NEW t \in Submits, NEW d \in Daemons, Contract!Take(t, d)
      PROVE  result'[s] = result[s]
  BY <1>3 DEF Contract!Take
<1>4. ASSUME NEW t \in Submits, NEW d \in Daemons, Contract!Abandon(t, d)
      PROVE  result'[s] = result[s]
  BY <1>4 DEF Contract!Abandon
<1>5. ASSUME NEW t \in Submits, NEW d \in Daemons, NEW v \in Verdicts,
             Contract!Settle(t, d, v)
      PROVE  result'[s] = result[s]
  BY <1>5 DEF Contract!Settle
<1> QED
  BY <1>1, <1>2, <1>3, <1>4, <1>5 DEF Contract!Next

(* A stored verdict is final: no daemon judges the submission again, since *)
(* rows are only ever captured while ST_PENDING.                           *)
THEOREM VerdictsAreFinal ==
  ASSUME Protected
  PROVE  Spec => VerdictStays
<1>1. Shapes /\ [Contract!Next]_(Contract!vars)
      => [\A s \in Submits : result[s] \in Verdicts => result'[s] = result[s]]_vars
  BY ContractKeepsVerdicts
<1>2. TypeOK => Shapes
  BY DEF TypeOK, Shapes
<1> QED
  BY <1>1, <1>2, TypeCorrect, ImplementsJudgingContract, PTL
     DEF ImplementsContract, Contract!Spec, VerdictStays

-----------------------------------------------------------------------------
(* Statements that get through *)

(* The two statements of test_submit reach the server: neither returns an  *)
(* error, and a session lost in between is opened anew.                    *)
GetsThrough == Reconnect /\ {"load", "store"} \cap Failing = {}

(* What is no daemon's step tells the statistics server nothing, counts    *)
(* the crashes, and moves no daemon but one that dies or is started.       *)
LEMMA EnvironmentLeaves ==
  ASSUME Environment
  PROVE  /\ UNCHANGED reported /\ crashes' \in {crashes, crashes + 1}
         /\ \/ \E d \in Daemons : Crash(d) \/ Restart(d)
            \/ UNCHANGED <<pc, sid, status>>
<1>1. ASSUME NEW s \in Submits, SubmitArrives(s)
      PROVE  UNCHANGED <<reported, crashes, pc, sid, status>>
  BY <1>1 DEF SubmitArrives
<1>2. ASSUME NEW d \in Daemons, NEW g \in Signals, Signal(d, g)
      PROVE  UNCHANGED <<reported, crashes, pc, sid, status>>
  BY <1>2 DEF Signal
<1>3. ASSUME NEW d \in Daemons, Crash(d)
      PROVE  UNCHANGED reported /\ crashes' = crashes + 1
  BY <1>3 DEF Crash
<1>4. ASSUME NEW d \in Daemons, Restart(d) PROVE UNCHANGED <<reported, crashes>>
  BY <1>4 DEF Restart
<1>5. ASSUME NEW d \in Daemons, DropSession(d)
      PROVE  UNCHANGED <<reported, crashes, pc, sid, status>>
  BY <1>5 DEF DropSession
<1>6. ASSUME ReapSession PROVE UNCHANGED <<reported, crashes, pc, sid, status>>
  BY <1>6, Zenon DEF ReapSession
<1> QED BY <1>1, <1>2, <1>3, <1>4, <1>5, <1>6 DEF Environment

(* What a step other than a crash does to the submissions that are held: a *)
(* daemon keeps the one it holds until the row has its verdict, and a row  *)
(* that becomes ST_RUNNING is held.                                        *)
HoldersKeep ==
  /\ \A e \in Daemons :
       Holding(e) => (Holding(e)' /\ sid'[e] = sid[e]) \/ result'[sid[e]] \in Verdicts
  /\ \A s \in Submits :
       result'[s] = "ST_RUNNING" =>
         result[s] = "ST_RUNNING" \/ \E e \in Daemons : Holding(e)' /\ sid'[e] = s

(* A step that changes no row and takes no submission from its daemon.     *)
LEMMA HoldersKeepStay ==
  ASSUME UNCHANGED result,
         \A e \in Daemons : Holding(e) => Holding(e)' /\ sid'[e] = sid[e]
  PROVE  HoldersKeep
BY DEF HoldersKeep

LEMMA OtherStepsKeep ==
  ASSUME Protected, GetsThrough, Shapes, Shapes', StatusSet, CaptureInv, [Next]_vars
  PROVE  HoldersKeep \/ \E d \in Daemons : Crash(d)
<1> USE SubmitsAreIds DEF Shapes
<1>1. CASE UNCHANGED vars
  BY <1>1, HoldersKeepStay DEF vars, Holding, FromQueue
<1>2. ASSUME NEW s \in Submits, SubmitArrives(s) PROVE HoldersKeep
  <2>1. /\ result' = [result EXCEPT ![s] = "ST_PENDING"] /\ result[s] = "absent"
        /\ UNCHANGED <<pc, sid>>
    BY <1>2 DEF SubmitArrives
  <2> QED BY <2>1 DEF HoldersKeep, Holding, FromQueue
<1>3. ASSUME NEW d \in Daemons, NEW g \in Signals, Signal(d, g) PROVE HoldersKeep
  BY <1>3, HoldersKeepStay DEF Signal, Holding, FromQueue
<1>4. ASSUME NEW d \in Daemons, DropSession(d) PROVE HoldersKeep
  BY <1>4, HoldersKeepStay DEF DropSession, Holding, FromQueue
<1>5. ASSUME NEW d \in Daemons, Restart(d) PROVE HoldersKeep
  BY <1>5, HoldersKeepStay DEF Restart, Alive, Holding, FromQueue
<1>6. CASE ReapSession
  <2>1. UNCHANGED <<result, pc, sid>>
    BY <1>6, Zenon DEF ReapSession
  <2> QED BY <2>1, HoldersKeepStay DEF Holding, FromQueue
<1>7. ASSUME NEW d \in Daemons, DaemonStep(d) PROVE HoldersKeep
  <2> FromQueue(d)
    BY DEF Protected
  <2>1. ASSUME NEW to, NEW from, UNCHANGED <<result, sid>>, Goto(d, from, to),
               from \notin {"unlock", "load", "judge", "store"}
        PROVE  HoldersKeep
    BY <2>1, HoldersKeepStay DEF Goto, Holding, FromQueue
  <2>2. CASE Connect(d)
    BY <2>1, <2>2 DEF Connect
  <2>3. CASE ConnectFails(d)
    BY <2>1, <2>3 DEF ConnectFails
  <2>4. CASE WaitPing(d)
    BY <2>1, <2>4 DEF WaitPing
  <2>5. CASE WaitElapsed(d)
    BY <2>1, <2>5 DEF WaitElapsed
  <2>6. CASE WaitTerm(d)
    BY <2>6, HoldersKeepStay DEF WaitTerm, Exit, Holding, FromQueue
  <2>7. CASE NoTerm(d)
    BY <2>1, <2>7 DEF NoTerm
  <2>8. CASE CheckNewSubmits(d)
    BY <2>1, <2>8 DEF CheckNewSubmits
  <2>9. CASE LockTable(d)
    BY <2>1, <2>9 DEF LockTable
  <2>10. CASE LockTableFails(d)
    BY <2>1, <2>10 DEF LockTableFails
  <2>11. CASE SelectNew(d)
    <3>1. /\ pc[d] = "select" /\ UNCHANGED result
          /\ \A e \in Daemons : e # d => pc'[e] = pc[e] /\ sid'[e] = sid[e]
      BY <2>11 DEF SelectNew, Goto
    <3> QED BY <3>1, HoldersKeepStay DEF Holding, FromQueue
  <2>12. CASE MarkRunning(d)
    <3>1. /\ pc[d] = "mark" /\ pc' = [pc EXCEPT ![d] = "unlock"] /\ UNCHANGED sid
      BY <2>12 DEF MarkRunning, Goto
    <3>2. sid[d] # NoSid /\ sid[d] \in Submits /\ result[sid[d]] = "ST_PENDING"
      BY <3>1 DEF CaptureInv, SidFits, SelectedIsPending
    <3>3. result' \in {result, [result EXCEPT ![sid[d]] = "ST_RUNNING"]}
      BY <2>12 DEF MarkRunning
    <3>4. Holding(d)' /\ sid'[d] = sid[d]
      BY <3>1, <3>2 DEF Holding, FromQueue
    <3>5. \A e \in Daemons : Holding(e) => Holding(e)' /\ sid'[e] = sid[e]
      BY <3>1 DEF Holding, FromQueue
    <3> QED BY <3>3, <3>4, <3>5, <3>2 DEF HoldersKeep
  <2>13. CASE UnlockTable(d)
    <3>1. /\ pc[d] = "unlock" /\ UNCHANGED <<result, sid>>
          /\ pc' = [pc EXCEPT ![d] = IF sid[d] = NoSid THEN "top" ELSE "load"]
      BY <2>13 DEF UnlockTable, Goto
    <3> QED BY <3>1, HoldersKeepStay DEF Holding, FromQueue
  <2>14. CASE NextArg(d)
    BY <2>14 DEF NextArg, CaptureInv, SidFits
  <2>15. CASE LoadSubmit(d)
    <3>1. pc[d] = "load" /\ UNCHANGED result
      BY <2>15 DEF LoadSubmit, Goto
    <3>2. Holding(d)
      BY <3>1 DEF Holding, CaptureInv, SidFits
    <3>3. result[sid[d]] = "ST_RUNNING" /\ ~ Fails(d)
      BY <3>1, <3>2 DEF CaptureInv, HeldIsRunning, Fails, GetsThrough
    <3>4. pc' = [pc EXCEPT ![d] = "judge"] /\ UNCHANGED sid
      BY <2>15, <3>3 DEF LoadSubmit, Goto
    <3> QED BY <3>1, <3>4, HoldersKeepStay DEF Holding, FromQueue
  <2>16. CASE JudgeSubmit(d)
    <3>1. pc[d] = "judge" /\ pc' = [pc EXCEPT ![d] = "store"] /\ UNCHANGED <<result, sid>>
      BY <2>16 DEF JudgeSubmit, Goto
    <3> QED BY <3>1, HoldersKeepStay DEF Holding, FromQueue
  <2>17. CASE StoreResult(d)
    <3>1. pc[d] = "store" /\ pc' = [pc EXCEPT ![d] = "report"] /\ UNCHANGED sid
      BY <2>17 DEF StoreResult, Goto
    <3>2. sid[d] \in Submits /\ status[d] \in Verdicts
      BY <3>1 DEF CaptureInv, SidFits, StatusSet
    <3>3. result' = [result EXCEPT ![sid[d]] = status[d]]
      BY <2>17, <3>1 DEF StoreResult, Fails, GetsThrough
    <3>4. \A e \in Daemons : e # d => (Holding(e) => Holding(e)' /\ sid'[e] = sid[e])
      BY <3>1 DEF Holding, FromQueue
    <3>5. result'[sid[d]] \in Verdicts
      BY <3>2, <3>3
    <3>6. \A s \in Submits : result'[s] = "ST_RUNNING" => result[s] = "ST_RUNNING"
      BY <3>2, <3>3, QueueRowsAreNoVerdicts
    <3> QED BY <3>4, <3>5, <3>6 DEF HoldersKeep
  <2>18. CASE Report(d)
    <3>1. /\ pc[d] = "report" /\ UNCHANGED result
          /\ \A e \in Daemons : e # d => pc'[e] = pc[e] /\ sid'[e] = sid[e]
      BY <2>18 DEF Report, Goto
    <3> QED BY <3>1, HoldersKeepStay DEF Holding, FromQueue
  <2> QED
    BY <1>7, <2>2, <2>3, <2>4, <2>5, <2>6, <2>7, <2>8, <2>9, <2>10, <2>11,
       <2>12, <2>13, <2>14, <2>15, <2>16, <2>17, <2>18 DEF DaemonStep
<1> QED
  BY <1>1, <1>2, <1>3, <1>4, <1>5, <1>6, <1>7 DEF Next, Environment

LEMMA NothingOrphaned ==
  ASSUME HoldersKeep, Shapes
  PROVE  Orphans' \subseteq Orphans
<1> SUFFICES ASSUME NEW s \in Orphans' PROVE s \in Orphans
  OBVIOUS
<1>1. /\ s \in Submits /\ result'[s] = "ST_RUNNING"
      /\ ~ \E d \in Daemons : Holding(d)' /\ sid'[d] = s
  BY DEF Orphans
<1>2. result[s] = "ST_RUNNING"
  BY <1>1 DEF HoldersKeep
<1>3. ASSUME NEW d \in Daemons, Holding(d), sid[d] = s PROVE FALSE
  BY <1>1, <1>3, QueueRowsAreNoVerdicts DEF HoldersKeep
<1> QED BY <1>1, <1>2, <1>3 DEF Orphans

(* A crash abandons the submission the daemon held, and no other.          *)
LEMMA CrashOrphansOne ==
  ASSUME Shapes, NEW d \in Daemons, Crash(d)
  PROVE  Orphans' \subseteq Orphans \cup {sid[d]} /\ crashes' = crashes + 1
<1>1. /\ UNCHANGED result /\ crashes' = crashes + 1
      /\ \A e \in Daemons : e # d => pc'[e] = pc[e] /\ sid'[e] = sid[e]
  BY DEF Crash, Shapes
<1>2. \A e \in Daemons : e # d => (Holding(e)' <=> Holding(e))
  BY <1>1 DEF Holding, FromQueue
<1> QED BY <1>1, <1>2 DEF Orphans

OrphanInv == IsFiniteSet(Orphans) /\ Cardinality(Orphans) <= crashes

LEMMA OrphanInvStep ==
  ASSUME OrphanInv, crashes \in Nat,
         \/ Orphans' \subseteq Orphans /\ crashes' \in {crashes, crashes + 1}
         \/ \E s : Orphans' \subseteq Orphans \cup {s} /\ crashes' = crashes + 1
  PROVE  OrphanInv'
<1>1. IsFiniteSet(Orphans) /\ Cardinality(Orphans) \in Nat /\ Cardinality(Orphans) <= crashes
  BY FS_CardinalityType DEF OrphanInv
<1>2. CASE Orphans' \subseteq Orphans /\ crashes' \in {crashes, crashes + 1}
  <2>1. /\ IsFiniteSet(Orphans') /\ Cardinality(Orphans') \in Nat
        /\ Cardinality(Orphans') <= Cardinality(Orphans)
    BY <1>1, <1>2, FS_Subset, FS_CardinalityType
  <2> QED BY <1>1, <1>2, <2>1 DEF OrphanInv
<1>3. ASSUME NEW s, Orphans' \subseteq Orphans \cup {s}, crashes' = crashes + 1
      PROVE  OrphanInv'
  <2>1. /\ IsFiniteSet(Orphans \cup {s}) /\ Cardinality(Orphans \cup {s}) \in Nat
        /\ Cardinality(Orphans \cup {s}) <= Cardinality(Orphans) + 1
    <3>1. CASE s \in Orphans
      <4>1. Orphans \cup {s} = Orphans
        BY <3>1
      <4> QED BY <1>1, <4>1
    <3>2. CASE s \notin Orphans
      <4>1. /\ IsFiniteSet(Orphans \cup {s})
            /\ Cardinality(Orphans \cup {s}) = Cardinality(Orphans) + 1
        BY <1>1, <3>2, FS_AddElement, Zenon
      <4> QED BY <1>1, <4>1
    <3> QED BY <3>1, <3>2
  <2>2. /\ IsFiniteSet(Orphans') /\ Cardinality(Orphans') \in Nat
        /\ Cardinality(Orphans') <= Cardinality(Orphans \cup {s})
    BY <1>3, <2>1, FS_Subset, FS_CardinalityType
  <2> QED BY <1>1, <1>3, <2>1, <2>2 DEF OrphanInv
<1> QED BY <1>2, <1>3

(* Only a crash abandons a captured submission: when the statements of     *)
(* test_submit get through, no more rows are left ST_RUNNING with nobody   *)
(* at work on them than daemons have died (bacsd.cpp:53-77).               *)
THEOREM OrphansByCrash ==
  ASSUME Protected, GetsThrough
  PROVE  Spec => []OrphansOnlyByCrash
<1>1. Init => OrphanInv
  <2> SUFFICES ASSUME Init PROVE OrphanInv
    OBVIOUS
  <2>1. Orphans = {} /\ crashes = 0
    BY DEF Init, Orphans
  <2> QED BY <2>1, FS_EmptySet DEF OrphanInv
<1>2. ASSUME TInv, TInv', CaptureInv, OrphanInv, [Next]_vars PROVE OrphanInv'
  <2>1. Shapes /\ Shapes' /\ StatusSet /\ crashes \in Nat
    BY <1>2 DEF TInv, TypeOK, Shapes
  <2>2. CASE HoldersKeep
    <3>1. crashes' \in {crashes, crashes + 1}
      <4>1. CASE UNCHANGED vars
        BY <4>1 DEF vars
      <4>2. CASE Environment
        BY <4>2, EnvironmentLeaves
      <4>3. ASSUME NEW d \in Daemons, DaemonStep(d) PROVE UNCHANGED crashes
        BY <4>3 DEF DaemonStep, Connect, ConnectFails, WaitPing, WaitElapsed, WaitTerm,
             NoTerm, CheckNewSubmits, LockTable, LockTableFails, SelectNew, MarkRunning,
             UnlockTable, NextArg, LoadSubmit, JudgeSubmit, StoreResult, Report
      <4> QED BY <1>2, <4>1, <4>2, <4>3 DEF Next
    <3> QED BY <1>2, <2>1, <2>2, <3>1, NothingOrphaned, OrphanInvStep
  <2>3. ASSUME NEW d \in Daemons, Crash(d) PROVE OrphanInv'
    BY <1>2, <2>1, <2>3, CrashOrphansOne, OrphanInvStep
  <2> QED BY <1>2, <2>1, <2>2, <2>3, OtherStepsKeep
<1>3. OrphanInv => OrphansOnlyByCrash
  BY DEF OrphanInv, OrphansOnlyByCrash
<1> QED
  BY <1>1, <1>2, <1>3, TInvAlways, CaptureInvAlways, PTL DEF Spec

-----------------------------------------------------------------------------
(* Reporting *)

(* The verdict a daemon is about to report is in the table, as is every    *)
(* verdict it has reported.                                                *)
ReportInv ==
  /\ \A d \in Daemons :
       pc[d] = "report" => status[d] \in Verdicts /\ result[sid[d]] = status[d]
  /\ ReportedIsStored

(* A step that neither stores nor reports: verdicts stay, and so does what *)
(* a daemon about to report holds.                                         *)
LEMMA ReportInvStays ==
  ASSUME TypeOK, SidFits, ReportInv, UNCHANGED reported,
         \A s \in Submits : result[s] \in Verdicts => result'[s] = result[s],
         \A e \in Daemons :
           pc'[e] = "report" => pc[e] = "report" /\ sid'[e] = sid[e] /\ status'[e] = status[e]
  PROVE  ReportInv'
<1>1. \A s \in Submits : reported[s] # "none" => result'[s] = reported[s]
  BY DEF TypeOK, ReportInv, ReportedIsStored
<1>2. ASSUME NEW e \in Daemons, pc'[e] = "report"
      PROVE  status'[e] \in Verdicts /\ result'[sid'[e]] = status'[e]
  <2>1. sid[e] \in Submits
    BY <1>2 DEF SidFits, TypeOK
  <2> QED BY <1>2, <2>1 DEF ReportInv
<1> QED BY <1>1, <1>2 DEF ReportInv, ReportedIsStored

LEMMA ReportInvStep ==
  ASSUME Protected, GetsThrough, TInv, CaptureInv, ReportInv, [Next]_vars,
         \A s \in Submits : result[s] \in Verdicts => result'[s] = result[s]
  PROVE  ReportInv'
<1>0. TypeOK /\ SidFits /\ StatusSet
  BY DEF TInv, CaptureInv
<1>1. CASE UNCHANGED vars
  BY <1>0, <1>1, ReportInvStays DEF vars
<1>2. CASE Environment
  <2>1. UNCHANGED reported
    BY <1>2, EnvironmentLeaves
  <2>2. ASSUME NEW d \in Daemons, Crash(d) \/ Restart(d) PROVE ReportInv'
    BY <1>0, <2>1, <2>2, ReportInvStays DEF Crash, Restart, TypeOK
  <2>3. CASE UNCHANGED <<pc, sid, status>>
    BY <1>0, <2>1, <2>3, ReportInvStays
  <2> QED BY <1>2, <2>2, <2>3, EnvironmentLeaves
<1>3. ASSUME NEW d \in Daemons, DaemonStep(d) PROVE ReportInv'
  <2>1. CASE StoreResult(d)
    <3>1. /\ pc[d] = "store" /\ pc' = [pc EXCEPT ![d] = "report"]
          /\ UNCHANGED <<sid, status, reported>>
      BY <2>1 DEF StoreResult, Goto
    <3>2. result' = [result EXCEPT ![sid[d]] = status[d]]
      BY <2>1, <3>1 DEF StoreResult, Fails, GetsThrough
    <3>3. sid[d] \in Submits /\ status[d] \in Verdicts
      BY <1>0, <3>1 DEF SidFits, StatusSet, TypeOK
    <3>4. \A s \in Submits : reported[s] # "none" => result'[s] = reported[s]
      BY <1>0 DEF TypeOK, ReportInv, ReportedIsStored
    <3>5. ASSUME NEW e \in Daemons, e # d, pc'[e] = "report"
          PROVE  status'[e] \in Verdicts /\ result'[sid'[e]] = status'[e]
      <4>1. pc[e] = "report" /\ sid[e] \in Submits
        BY <1>0, <3>1, <3>5 DEF SidFits, TypeOK
      <4> QED BY <3>1, <4>1 DEF ReportInv
    <3>6. status'[d] \in Verdicts /\ result'[sid'[d]] = status'[d]
      BY <1>0, <3>1, <3>2, <3>3 DEF TypeOK
    <3> QED BY <3>1, <3>4, <3>5, <3>6 DEF ReportInv, ReportedIsStored
  <2>2. CASE Report(d)
    <3>1. /\ pc[d] = "report" /\ pc'[d] # "report" /\ UNCHANGED result
          /\ \A e \in Daemons : e # d => pc'[e] = pc[e] /\ sid'[e] = sid[e]
                                         /\ status'[e] = status[e]
          /\ reported' \in {reported, [reported EXCEPT ![sid[d]] = status[d]]}
      BY <1>0, <2>2 DEF Report, Goto, NextRound, TypeOK
    <3>2. result[sid[d]] = status[d]
      BY <3>1 DEF ReportInv
    <3>3. ReportedIsStored'
      BY <1>0, <3>1, <3>2 DEF ReportInv, ReportedIsStored, TypeOK
    <3> QED BY <3>1, <3>3 DEF ReportInv
  <2>3. ASSUME UNCHANGED reported, pc'[d] # "report",
               \A e \in Daemons : e # d => pc'[e] = pc[e] /\ sid'[e] = sid[e]
                                          /\ status'[e] = status[e]
        PROVE  ReportInv'
    BY <1>0, <2>3, ReportInvStays
  <2>4. CASE ~ StoreResult(d) /\ ~ Report(d)
    <3> USE <1>0 DEF TypeOK, Goto
    <3>1. CASE Connect(d) \/ ConnectFails(d) \/ WaitPing(d) \/ WaitElapsed(d) \/ NoTerm(d)
      BY <2>3, <3>1 DEF Connect, ConnectFails, WaitPing, WaitElapsed, NoTerm, NextRound
    <3>2. CASE WaitTerm(d)
      BY <2>3, <3>2 DEF WaitTerm, Exit
    <3>3. CASE CheckNewSubmits(d) \/ LockTable(d) \/ LockTableFails(d)
      BY <2>3, <3>3 DEF CheckNewSubmits, LockTable, LockTableFails
    <3>4. CASE SelectNew(d)
      BY <2>3, <3>4 DEF SelectNew
    <3>5. CASE MarkRunning(d) \/ UnlockTable(d)
      BY <2>3, <3>5 DEF MarkRunning, UnlockTable
    <3>6. CASE NextArg(d)
      BY <2>3, <3>6 DEF NextArg, Exit
    <3>7. CASE LoadSubmit(d)
      BY <2>3, <3>7 DEF LoadSubmit, NextRound
    <3>8. CASE JudgeSubmit(d)
      BY <2>3, <3>8 DEF JudgeSubmit
    <3> QED BY <1>3, <2>4, <3>1, <3>2, <3>3, <3>4, <3>5, <3>6, <3>7, <3>8 DEF DaemonStep
  <2> QED BY <2>1, <2>2, <2>4
<1> QED BY <1>1, <1>2, <1>3 DEF Next

(* When the statements of test_submit get through, the statistics server   *)
(* is never told a verdict the table does not have, then or later:         *)
(* submit_result is sent after store_result, whose row is final            *)
(* (submit.cpp:46-47).                                                     *)
THEOREM ReportedStored ==
  ASSUME Protected, GetsThrough
  PROVE  Spec => []ReportedIsStored
<1>1. Init => ReportInv
  BY DEF Init, ReportInv, ReportedIsStored
<1>2. ASSUME TInv, CaptureInv, ReportInv, [Next]_vars,
             [\A s \in Submits : result[s] \in Verdicts => result'[s] = result[s]]_vars
      PROVE  ReportInv'
  <2>1. CASE UNCHANGED vars
    BY <1>2, <2>1 DEF vars, ReportInv, ReportedIsStored
  <2>2. CASE ~ UNCHANGED vars
    BY <1>2, <2>2, ReportInvStep
  <2> QED BY <2>1, <2>2
<1>3. ReportInv => ReportedIsStored
  BY DEF ReportInv
<1> QED
  BY <1>1, <1>2, <1>3, TInvAlways, CaptureInvAlways, VerdictsAreFinal, PTL
     DEF Spec, VerdictStays
=============================================================================
