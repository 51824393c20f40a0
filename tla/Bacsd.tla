------------------------------- MODULE Bacsd -------------------------------
(***************************************************************************)
(* The judging daemons (src/bin/bacsd.cpp) around the shared MySQL table   *)
(* "submit": the check loop, the capture of a submission under the named   *)
(* lock 'olimp.submit_lock', the judging and the storing of the verdict,   *)
(* the command-line mode, and the signals that stop a daemon.  Judging     *)
(* itself (CSubmit::compile_and_test) is here one step with any verdict.   *)
(*                                                                         *)
(* Every SQL statement is one step: between two statements of a daemon     *)
(* the other daemons and the environment may do anything.                  *)
(***************************************************************************)
EXTENDS Integers, Sequences, FiniteSets

CONSTANTS
  Daemons,     \* running copies of bacsd, each with its own connection
  Submits,     \* the submit_id values, positive integers
  Verdicts,    \* statuses compile_and_test can store
  Args,        \* Args[d]: ids on d's command line; <<>> is the check loop
  Order,       \* general.order: "asc", "desc" or "rand"
  Signals,     \* the blocked signals the operator may send
  PingUri,     \* whether general.ping_uri is configured
  Reconnect,   \* whether db.reconnect makes the client library reconnect
  Reentrant,   \* whether GET_LOCK nests (MariaDB, MySQL 5.7) or restarts
  Faults,      \* which of AllFaults may happen
  Failing,     \* labels of the statements that may return an error
  MaxDepth,    \* bound: nesting of a lock whose release keeps failing
  MaxCrashes   \* bound: number of crashes

AllFaults == {"crash", "drop", "idle_drop"}
Statements == {"connect", "check", "lock", "select", "mark", "unlock", "load",
               "store"}

ASSUME SubmitsAssumption == Submits \subseteq Nat \ {0}
ASSUME VerdictsAssumption ==
  Verdicts \cap {"absent", "ST_PENDING", "ST_RUNNING", "none"} = {}
ASSUME DaemonsAssumption == Daemons \cap {"nobody", "dead session"} = {}
ASSUME ArgsAssumption == Args \in [Daemons -> Seq(Submits)]
ASSUME ConfigAssumption ==
  /\ Order \in {"asc", "desc", "rand"}
  /\ Signals \subseteq {"SIGINT", "SIGTERM", "SIGHUP"}
  /\ PingUri \in BOOLEAN /\ Reconnect \in BOOLEAN /\ Reentrant \in BOOLEAN
ASSUME BoundsAssumption ==
  /\ Faults \subseteq AllFaults /\ Failing \subseteq Statements
  /\ MaxDepth \in Nat \ {0} /\ MaxCrashes \in Nat

VARIABLES
  result,      \* result[s]: column submit.result
  lock,        \* 'olimp.submit_lock': owning session and nesting depth
  pc,          \* pc[d]: the statement d executes next
  sid,         \* sid[d]: the submission d works on, NoSid for none
  status,      \* status[d]: CSubmit::status of that submission
  session,     \* session[d]: d's database session
  pending,     \* pending[d]: signals blocked and not yet consumed
  argi,        \* argi[d]: loop index over the command line
  reported,    \* reported[s]: last verdict the statistics server was told
  crashes      \* number of crashes so far

vars == <<result, lock, pc, sid, status, session, pending, argi, reported,
          crashes>>

NoSid == 0

Labels == {"connect", "top", "check", "lock", "select", "mark", "unlock",
           "load", "judge", "store", "report", "wait", "wait_term", "arg",
           "stopped", "crashed"}

Locks == [owner : Daemons \cup {"nobody", "dead session"}, depth : Nat]

TypeOK ==
  /\ result \in [Submits -> {"absent", "ST_PENDING", "ST_RUNNING"} \cup Verdicts]
  /\ lock \in Locks
  /\ pc \in [Daemons -> Labels]
  /\ sid \in [Daemons -> Submits \cup {NoSid}]
  /\ status \in [Daemons -> Verdicts \cup {"none"}]
  /\ session \in [Daemons -> {"none", "up", "lost"}]
  /\ pending \in [Daemons -> SUBSET Signals]
  /\ argi \in [Daemons -> Nat \ {0}]
  /\ reported \in [Submits -> Verdicts \cup {"none"}]
  /\ crashes \in Nat

Free == [owner |-> "nobody", depth |-> 0]

Init ==
  /\ result = [s \in Submits |-> "absent"]
  /\ lock = Free
  /\ pc = [d \in Daemons |-> "connect"]
  /\ sid = [d \in Daemons |-> NoSid]
  /\ status = [d \in Daemons |-> "none"]
  /\ session = [d \in Daemons |-> "none"]
  /\ pending = [d \in Daemons |-> {}]
  /\ argi = [d \in Daemons |-> 1]
  /\ reported = [s \in Submits |-> "none"]
  /\ crashes = 0

-----------------------------------------------------------------------------
(* Helpers *)

Goto(d, from, to) ==
  /\ pc[d] = from
  /\ pc' = [pc EXCEPT ![d] = to]

Alive(d) == pc[d] \notin {"stopped", "crashed"}

FromQueue(d) == Args[d] = <<>>

PendingRows == {s \in Submits : result[s] = "ST_PENDING"}

(* A statement reaches the server: on the session that is up, or on a new  *)
(* one the client library opens in place of a lost one.                    *)
Executes(d) ==
  /\ session[d] = "up" \/ (session[d] = "lost" /\ Reconnect)
  /\ session' = [session EXCEPT ![d] = "up"]

(* Faulty variant of Fails: the statement that finds the session lost is    *)
(* an error, and only the next one reconnects.                             *)
Fails_OnLostSession(d) ==
  /\ pc[d] \in Failing \/ session[d] = "lost"
  /\ session' = [session EXCEPT ![d] = "up"]

(* A statement returns an error and changes nothing.                       *)
Fails(d) ==
  /\ pc[d] \in Failing \/ (session[d] = "lost" /\ ~Reconnect)
  /\ UNCHANGED session

(* A lock held by d's session when that session ends on the server or on   *)
(* the client; the server frees it once it notices (ReapSession).          *)
LockWithout(d) ==
  IF lock.owner = d THEN [lock EXCEPT !.owner = "dead session"] ELSE lock

(* system() sets SIGINT to be ignored while the child runs, which throws a *)
(* pending SIGINT away although it is blocked; the other two stay pending. *)
AfterSystem(d) == [pending EXCEPT ![d] = @ \ {"SIGINT"}]

(* ping() runs curl through system(), when a ping URI is configured.       *)
AfterPing(d) == IF PingUri THEN AfterSystem(d) ELSE pending

(* The process returns from main: db.close() ends the session, which frees *)
(* a lock it still owned, and the process's pending signals are gone.      *)
Exit(d) ==
  /\ pc' = [pc EXCEPT ![d] = "stopped"]
  /\ session' = [session EXCEPT ![d] = "none"]
  /\ lock' = IF lock.owner = d THEN Free ELSE lock
  /\ pending' = [pending EXCEPT ![d] = {}]

(* check_thread_proc or main goes on to its next submission.               *)
NextRound(d) == IF FromQueue(d) THEN "top" ELSE "arg"

-----------------------------------------------------------------------------
(* Faulty variants of the actions below: what a wrong change of the code   *)
(* would do.  No specification uses them; each breaks a property.          *)

(* The answer of wait_term(), which consumed the signal, is not looked at. *)
WaitTerm_GoesOn(d) ==
  /\ \/ Goto(d, "top", "check")
     \/ Goto(d, "wait_term", IF session[d] = "none" THEN "connect" ELSE "top")
  /\ pending[d] # {}
  /\ pending' = [pending EXCEPT ![d] = {}]
  /\ UNCHANGED <<result, lock, sid, status, session, argi, reported, crashes>>

(* Signals are also looked at between capture and judging.                 *)
WaitTerm_AfterCapture(d) ==
  /\ pc[d] \in {"top", "wait_term", "load"}
  /\ pending[d] # {}
  /\ Exit(d)
  /\ sid' = [sid EXCEPT ![d] = NoSid]
  /\ UNCHANGED <<result, status, argi, reported, crashes>>

(* lock_table() takes any answer of get_lock for success.                  *)
LockTable_AnyAnswer(d) ==
  /\ Goto(d, "lock", "select")
  /\ Executes(d)
  /\ lock' = IF lock.owner \in {"nobody", d} THEN [owner |-> d, depth |-> 1] ELSE lock
  /\ UNCHANGED <<result, sid, status, pending, argi, reported, crashes>>

(* capture_new_submit() goes on when lock_table() has failed.              *)
LockTableFails_GoesOn(d) ==
  /\ Goto(d, "lock", "select")
  /\ \/ Executes(d) /\ lock.owner \notin {"nobody", d}
     \/ Fails(d)
  /\ UNCHANGED <<result, lock, sid, status, pending, argi, reported, crashes>>

(* The select takes rows that are being judged as well as pending ones.    *)
Foremost_Unfinished(s) == result[s] \in {"ST_PENDING", "ST_RUNNING"}

(* An empty queue returns from capture_new_submit() without unlock_table().*)
SelectNew_ReturnsLocked(d) ==
  /\ Executes(d)
  /\ \/ /\ Goto(d, "select", "mark")
        /\ \E s \in PendingRows : sid' = [sid EXCEPT ![d] = s]
     \/ Goto(d, "select", "top") /\ PendingRows = {} /\ UNCHANGED sid
  /\ UNCHANGED <<result, lock, status, pending, argi, reported, crashes>>

(* The captured row is not marked.                                         *)
MarkRunning_Forgotten(d) ==
  /\ Goto(d, "mark", "unlock")
  /\ UNCHANGED <<result, lock, sid, status, session, pending, argi, reported, crashes>>

(* A path through compile_and_test() sets no status.                       *)
JudgeSubmit_NoStatus(d) ==
  /\ Goto(d, "judge", "store")
  /\ UNCHANGED <<result, lock, sid, status, session, pending, argi, reported, crashes>>

(* A path through compile_and_test() returns before store_result().        *)
JudgeSubmit_ReturnsEarly(d) ==
  /\ Goto(d, "judge", "report")
  /\ \E v \in Verdicts : status' = [status EXCEPT ![d] = v]
  /\ UNCHANGED <<result, lock, sid, session, pending, argi, reported, crashes>>

-----------------------------------------------------------------------------
(* Starting, and waiting between two looks at the queue *)

(* main(): db.connect() succeeds; with no argument the check loop starts.  *)
Connect(d) ==
  /\ Goto(d, "connect", NextRound(d))
  /\ session' = [session EXCEPT ![d] = "up"]
  /\ UNCHANGED <<result, lock, sid, status, pending, argi, reported, crashes>>

(* main(): db.connect() fails; wait_cycle() before the next attempt.       *)
ConnectFails(d) ==
  /\ "connect" \in Failing
  /\ Goto(d, "connect", "wait")
  /\ UNCHANGED <<result, lock, sid, status, session, pending, argi, reported,
                 crashes>>

(* wait_cycle(): ping(waiting), at the start of the cycle and then every   *)
(* cf_ping_period polls; one ping stands for them all.                     *)
WaitPing(d) ==
  /\ Goto(d, "wait", "wait_term")
  /\ pending' = AfterPing(d)
  /\ UNCHANGED <<result, lock, sid, status, session, argi, reported, crashes>>

(* wait_cycle(): the delay has passed and no poll saw a signal.            *)
WaitElapsed(d) ==
  /\ Goto(d, "wait_term", IF session[d] = "none" THEN "connect" ELSE "top")
  /\ pending[d] = {}
  /\ UNCHANGED <<result, lock, sid, status, session, pending, argi, reported,
                 crashes>>

(* wait_term(), from wait_cycle or from the head of the check loop: a      *)
(* signal is pending, the daemon pings "userterm" and returns.             *)
WaitTerm(d) ==
  /\ pc[d] \in {"top", "wait_term"}
  /\ pending[d] # {}
  /\ Exit(d)
  /\ UNCHANGED <<result, sid, status, argi, reported, crashes>>

(* check_thread_proc(): short_wait_term() saw no signal.                   *)
NoTerm(d) ==
  /\ Goto(d, "top", "check")
  /\ pending[d] = {}
  /\ UNCHANGED <<result, lock, sid, status, session, pending, argi, reported,
                 crashes>>

(* check_new_submits(): is any row pending?  No row and no answer are the  *)
(* same to it, and lead to wait_cycle.                                     *)
CheckNewSubmits(d) ==
  /\ \/ Goto(d, "check", IF PendingRows # {} THEN "lock" ELSE "wait") /\ Executes(d)
     \/ Goto(d, "check", "wait") /\ Fails(d)
  /\ UNCHANGED <<result, lock, sid, status, pending, argi, reported, crashes>>

-----------------------------------------------------------------------------
(* Capturing a submission: capture_new_submit() *)

(* lock_table(): get_lock('olimp.submit_lock', 10) answers 1.              *)
LockTable(d) ==
  /\ Goto(d, "lock", "select")
  /\ Executes(d)
  /\ lock.owner \in {"nobody", d}
  /\ lock' = [owner |-> d,
              depth |-> IF lock.owner = d /\ Reentrant THEN lock.depth + 1 ELSE 1]
  /\ UNCHANGED <<result, sid, status, pending, argi, reported, crashes>>

(* lock_table(): ten seconds pass with the lock taken, or the statement    *)
(* fails; nothing is captured and the loop starts again without waiting.   *)
LockTableFails(d) ==
  /\ Goto(d, "lock", "top")
  /\ \/ Executes(d) /\ lock.owner \notin {"nobody", d}
     \/ Fails(d)
  /\ UNCHANGED <<result, lock, sid, status, pending, argi, reported, crashes>>

(* "order by submit_id asc|desc limit 1"; "rand" tosses a coin between the *)
(* two ends of the queue.                                                  *)
Foremost(s) ==
  /\ s \in PendingRows
  /\ \/ Order \in {"asc", "rand"} /\ \A t \in PendingRows : s <= t
     \/ Order \in {"desc", "rand"} /\ \A t \in PendingRows : t <= s

SelectNew(d) ==
  /\ \/ /\ Goto(d, "select", "mark")
        /\ Executes(d)
        /\ \E s \in Submits :
             /\ Foremost(s)
             /\ sid' = [sid EXCEPT ![d] = s]
     \/ /\ Goto(d, "select", "unlock")
        /\ (Executes(d) /\ PendingRows = {}) \/ Fails(d)
        /\ UNCHANGED sid
  /\ UNCHANGED <<result, lock, status, pending, argi, reported, crashes>>

(* "update submit set result = ST_RUNNING": the outcome is not looked at.  *)
MarkRunning(d) ==
  /\ Goto(d, "mark", "unlock")
  /\ \/ Executes(d) /\ result' = [result EXCEPT ![sid[d]] = "ST_RUNNING"]
     \/ Fails(d) /\ UNCHANGED result
  /\ UNCHANGED <<lock, sid, status, pending, argi, reported, crashes>>

(* unlock_table(): release_lock gives up one level if this session owns    *)
(* the lock; the outcome is not looked at.                                 *)
Released(d) ==
  IF lock.owner # d THEN lock
  ELSE IF lock.depth > 1 THEN [lock EXCEPT !.depth = @ - 1] ELSE Free

UnlockTable(d) ==
  /\ Goto(d, "unlock", IF sid[d] = NoSid THEN "top" ELSE "load")
  /\ \/ Executes(d) /\ lock' = Released(d)
     \/ Fails(d) /\ UNCHANGED lock /\ (lock.owner = d => lock.depth < MaxDepth)
  /\ UNCHANGED <<result, sid, status, pending, argi, reported, crashes>>

-----------------------------------------------------------------------------
(* Judging one submission: test_submit() *)

(* main() with arguments: the next id, or the end of the command line.     *)
NextArg(d) ==
  /\ pc[d] = "arg"
  /\ \/ /\ argi[d] <= Len(Args[d])
        /\ sid' = [sid EXCEPT ![d] = Args[d][argi[d]]]
        /\ argi' = [argi EXCEPT ![d] = @ + 1]
        /\ pc' = [pc EXCEPT ![d] = "load"]
        /\ UNCHANGED <<lock, session, pending>>
     \/ /\ argi[d] > Len(Args[d])
        /\ Exit(d)
        /\ UNCHANGED <<sid, argi>>
  /\ UNCHANGED <<result, status, reported, crashes>>

(* ping(running) in the check loop, then the CSubmit constructor reads the *)
(* row.  A failed select looks like a missing row: "submission not found", *)
(* and the submission is left as it is.                                    *)
LoadSubmit(d) ==
  /\ \/ /\ Goto(d, "load", "judge")
        /\ Executes(d) /\ result[sid[d]] # "absent"
        /\ UNCHANGED sid
     \/ /\ Goto(d, "load", NextRound(d))
        /\ (Executes(d) /\ result[sid[d]] = "absent") \/ Fails(d)
        /\ sid' = [sid EXCEPT ![d] = NoSid]
  /\ pending' = IF FromQueue(d) THEN AfterPing(d) ELSE pending
  /\ UNCHANGED <<result, lock, status, argi, reported, crashes>>

(* compile(), test() and cleanup(): some verdict.  Only a submission in an *)
(* unknown language gets there without running any command.                *)
JudgeSubmit(d) ==
  /\ Goto(d, "judge", "store")
  /\ \E v \in Verdicts : status' = [status EXCEPT ![d] = v]
  /\ \/ pending' = AfterSystem(d)
     \/ UNCHANGED pending
  /\ UNCHANGED <<result, lock, sid, session, argi, reported, crashes>>

(* store_result(): the update of the verdict; its outcome is not looked at.*)
StoreResult(d) ==
  /\ Goto(d, "store", "report")
  /\ \/ Executes(d) /\ result' = [result EXCEPT ![sid[d]] = status[d]]
     \/ Fails(d) /\ UNCHANGED result
  /\ UNCHANGED <<lock, sid, status, pending, argi, reported, crashes>>

(* ping(submit_result), the return from test_submit (never fatal, since    *)
(* nothing sets fatal_error), and ping(completed) in the check loop.       *)
Report(d) ==
  /\ Goto(d, "report", NextRound(d))
  /\ reported' = IF PingUri THEN [reported EXCEPT ![sid[d]] = status[d]]
                 ELSE reported
  /\ pending' = AfterPing(d)
  /\ sid' = [sid EXCEPT ![d] = NoSid]
  /\ status' = [status EXCEPT ![d] = "none"]
  /\ UNCHANGED <<result, lock, session, argi, crashes>>

-----------------------------------------------------------------------------
(* The environment *)

(* The contest site inserts a row; the daemons only ever read rows whose   *)
(* result is ST_PENDING as new.                                            *)
SubmitArrives(s) ==
  /\ result[s] = "absent"
  /\ result' = [result EXCEPT ![s] = "ST_PENDING"]
  /\ UNCHANGED <<lock, pc, sid, status, session, pending, argi, reported,
                 crashes>>

(* The operator or the system signals a daemon; siginit() has blocked it.  *)
Signal(d, g) ==
  /\ Alive(d)
  /\ pending' = [pending EXCEPT ![d] = @ \cup {g}]
  /\ UNCHANGED <<result, lock, pc, sid, status, session, argi, reported,
                 crashes>>

(* A daemon dies anywhere: kill -9, an uncaught exception, a fault.        *)
Crash(d) ==
  /\ "crash" \in Faults /\ crashes < MaxCrashes
  /\ Alive(d)
  /\ pc' = [pc EXCEPT ![d] = "crashed"]
  /\ lock' = LockWithout(d)
  /\ sid' = [sid EXCEPT ![d] = NoSid]
  /\ status' = [status EXCEPT ![d] = "none"]
  /\ session' = [session EXCEPT ![d] = "none"]
  /\ pending' = [pending EXCEPT ![d] = {}]
  /\ crashes' = crashes + 1
  /\ UNCHANGED <<result, argi, reported>>

(* The connection is lost: anywhere with "drop", and with "idle_drop" only *)
(* away from capture_new_submit (a server that times out idle sessions).   *)
DropSession(d) ==
  /\ \/ "drop" \in Faults
     \/ "idle_drop" \in Faults /\ pc[d] \notin {"select", "mark", "unlock"}
  /\ session[d] = "up"
  /\ session' = [session EXCEPT ![d] = "lost"]
  /\ lock' = LockWithout(d)
  /\ UNCHANGED <<result, pc, sid, status, pending, argi, reported, crashes>>

(* The server notices that the owner of the lock is gone and frees it.     *)
ReapSession ==
  /\ lock.owner = "dead session"
  /\ lock' = Free
  /\ UNCHANGED <<result, pc, sid, status, session, pending, argi, reported,
                 crashes>>

(* The operator starts a daemon that is down.                              *)
Restart(d) ==
  /\ ~Alive(d)
  /\ pc' = [pc EXCEPT ![d] = "connect"]
  /\ argi' = [argi EXCEPT ![d] = 1]
  /\ UNCHANGED <<result, lock, sid, status, session, pending, reported, crashes>>

-----------------------------------------------------------------------------
DaemonStep(d) ==
  \/ Connect(d) \/ ConnectFails(d)
  \/ WaitPing(d) \/ WaitElapsed(d) \/ WaitTerm(d) \/ NoTerm(d)
  \/ CheckNewSubmits(d)
  \/ LockTable(d) \/ LockTableFails(d) \/ SelectNew(d) \/ MarkRunning(d)
  \/ UnlockTable(d)
  \/ NextArg(d) \/ LoadSubmit(d) \/ JudgeSubmit(d) \/ StoreResult(d) \/ Report(d)

Environment ==
  \/ \E s \in Submits : SubmitArrives(s)
  \/ \E d \in Daemons :
       \/ \E g \in Signals : Signal(d, g)
       \/ Crash(d) \/ DropSession(d) \/ Restart(d)
  \/ ReapSession

Next == Environment \/ \E d \in Daemons : DaemonStep(d)

Spec == Init /\ [][Next]_vars

(* Each daemon is one thread that the system keeps scheduling, and the     *)
(* server eventually notices a dead session.                               *)
Fairness ==
  /\ \A d \in Daemons : WF_vars(DaemonStep(d))
  /\ WF_vars(ReapSession)

FairSpec == Spec /\ Fairness

(* The operator also restarts what is down.                                *)
AttendedSpec == FairSpec /\ \A d \in Daemons : WF_vars(Restart(d))

-----------------------------------------------------------------------------
(* Properties *)

(* d has captured the submission it works on and not stored its verdict.   *)
Holding(d) ==
  /\ FromQueue(d)
  /\ sid[d] # NoSid
  /\ pc[d] \in {"unlock", "load", "judge", "store"}

(* No submission is judged by two check loops at a time: what the lock     *)
(* around the select and the update of capture_new_submit is for.          *)
ExclusiveJudging ==
  \A d, e \in Daemons :
    Holding(d) /\ Holding(e) /\ d # e => sid[d] # sid[e]

(* While a check loop judges a submission the table says ST_RUNNING, so no *)
(* other daemon and no reader of the table takes it for new or finished.   *)
HeldIsRunning ==
  \A d \in Daemons : Holding(d) => result[sid[d]] = "ST_RUNNING"

(* Two daemons are never between get_lock and the update together.         *)
CaptureIsExclusive ==
  \A d, e \in Daemons :
    pc[d] \in {"select", "mark"} /\ pc[e] \in {"select", "mark"} => d = e

(* The lock is only owned across capture_new_submit: no way out of it,     *)
(* an empty queue or a signal included, leaves the queue locked.           *)
LockIsScoped ==
  \A d \in Daemons : lock.owner = d => pc[d] \in {"select", "mark", "unlock"}

Orphans ==
  {s \in Submits : /\ result[s] = "ST_RUNNING"
                   /\ ~ \E d \in Daemons : Holding(d) /\ sid[d] = s}

(* A row nobody works on stays ST_RUNNING only through a crash: signals,   *)
(* lock timeouts and lost sessions never abandon a captured submission.    *)
OrphansOnlyByCrash == Cardinality(Orphans) <= crashes

(* A stored verdict is final: no daemon judges the submission again.       *)
VerdictStays ==
  [][\A s \in Submits : result[s] \in Verdicts => result'[s] = result[s]]_vars

(* The statistics server is never told a verdict the table does not have:  *)
(* ping(submit_result) comes after store_result.                           *)
ReportedIsStored ==
  \A s \in Submits : reported[s] # "none" => result[s] = reported[s]

(* The daemons that hold each submission.                                  *)
Judges == [s \in Submits |-> {d \in Daemons : Holding(d) /\ sid[d] = s}]

Contract == INSTANCE JudgingContract WITH judges <- Judges

(* The daemons implement the contract: a row is taken when its update to   *)
(* ST_RUNNING executes, by the daemon that selected it.                    *)
ImplementsContract == Contract!Spec

(* Every submission in the queue gets its verdict, or it is the one that a *)
(* daemon that died had in hand: neither a daemon that dies with the lock, *)
(* nor a lost session, nor an update that failed keeps it, or the rows     *)
(* behind it, in the queue.                                                *)
EventuallyJudged ==
  \A s \in Submits :
    result[s] = "ST_PENDING" ~>
      result[s] \in Verdicts \/ (s \in Orphans /\ crashes > 0)

(* A daemon sent SIGTERM stops: it is polled between two submissions, and  *)
(* no child process the daemon runs in between makes it lose the signal.   *)
TermStops ==
  \A d \in Daemons : "SIGTERM" \in pending[d] ~> pc[d] = "stopped"
=============================================================================
