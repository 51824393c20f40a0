------------------------------ MODULE Judging ------------------------------
(***************************************************************************)
(* The judging of submissions by one daemon (src/lib/submit.cpp and        *)
(* src/lib/problem.cpp): compile, unpack the problem, run the tests one by *)
(* one with the checker after each, clean up, store the row.  A submission *)
(* may be judged again: "bacsd <id>" judges any row.  What limit_run and   *)
(* the external tools answer is chosen freely from what they can answer.   *)
(***************************************************************************)
EXTENDS Integers, Sequences, FiniteSetsExt, ExitCodes

CONSTANTS
  Submits,         \* ids of the submissions
  Acm,             \* Acm[s]: column acm, stop at the first failed test
  NeedInfo,        \* NeedInfo[s]: column need_info
  Packages,        \* the problem packages a submission may meet
  Times,           \* CPU times limit_run may measure
  Garbage,         \* the uninitialized time run() leaves when it fails
  CheckerOverruns, \* whether limit_run's clock or output limit may stop a
                   \* checker
  Cleans,          \* whether every language has a clean command that works
  MayDie           \* whether the daemon may die

ASSUME JudgingSubmitsAssumption ==
  Acm \in [Submits -> BOOLEAN] /\ NeedInfo \in [Submits -> BOOLEAN]
ASSUME PackagesAssumption ==
  \A p \in Packages :
    /\ p.loads \in BOOLEAN /\ p.hasTests \in BOOLEAN
    /\ p.checker \in {"", "default", "named"}
    /\ p.present \subseteq {"check.exe", "checker.exe", "named", "default"}
    /\ p.return \in {"", "bacs_legacy", "ejudge", "testlib", "none"}
    /\ p.numbers \in Seq(Int) /\ p.verbose \subseteq Int
    /\ ~ p.hasTests => p.numbers = <<>>
ASSUME TimesAssumption ==
  Times \subseteq Nat /\ 0 \in Times /\ Garbage \in Nat \ Times

INVALID_ID == 9999

RunResults == {"RUN_OK", "RUN_FAILED", "RUN_TIMEOUT", "RUN_OUT_OF_MEMORY",
               "RUN_ABNORMAL_EXIT", "RUN_REALTIMEOUT", "RUN_OUTPUT_LIMIT"}

(* The statuses of a test that are the solution's own doing. *)
TestFaults == {"ST_TIME_LIMIT", "ST_MEMORY_LIMIT", "ST_REALTIME_LIMIT",
               "ST_OUTPUT_LIMIT", "ST_RUNTIME_ERROR", "ST_WRONG_ANSWER",
               "ST_PRESENTATION_ERROR"}

CompileFaults == {"ST_COMPILE_ERROR", "ST_COMPILE_TIME_LIMIT"}

Statuses == TestFaults \cup CompileFaults \cup
  {"ST_ACCEPTED", "ST_INVALID_LANG", "ST_INVALID_PROBLEM", "ST_SERVER_ERROR",
   "ST_CHECKER_ERROR", "ST_RUNNING"}

NoTest == -1

VARIABLES
  row,      \* row[s]: the columns store_result writes; "fresh" is history:
            \* whether info was written together with result
  pc,       \* where compile_and_test is
  sid,      \* the submission being judged
  package,  \* the problem package of this judging
  status,   \* CSubmit::status; while run_tests runs, its first_res
  failed,   \* test_num_failed
  school,   \* test_results
  time,     \* max_time
  info,     \* what CSubmit::info holds: the compiler's log, a test's output
  next,     \* index in CProblem::test of the test to run next
  files,    \* files[s]: what the judgings of s have left on the disk
  dirty,    \* the submissions with files in the Test directory
  seen      \* history: the outcome of each test run in this judging

job == <<sid, package, status, failed, school, time, info, next, seen>>
vars == <<row, pc, job, files, dirty>>

-----------------------------------------------------------------------------
(* The problem package: CProblem *)

(* init_tests(): numbers has the number of each file with ".in" anywhere   *)
(* in its name, so that 1.in and 1.in~ are two tests; 9999 also means "not *)
(* a number", so that a test of that number is left out.  find_files       *)
(* answers that it succeeded when there is no such directory, finding no   *)
(* file.                                                                   *)
Listed(p) == {f \in DOMAIN p.numbers : p.numbers[f] # INVALID_ID}

(* tests_sort_func orders the files by number; of two files of one number  *)
(* either may come first.                                                  *)
Before(p, f, g) ==
  p.numbers[f] < p.numbers[g] \/ (p.numbers[f] = p.numbers[g] /\ f < g)

TestsOf(p) ==
  [i \in 1 .. Cardinality(Listed(p)) |->
     p.numbers[CHOOSE f \in Listed(p) :
                 Cardinality({g \in Listed(p) : Before(p, g, f)}) = i - 1]]

(* init_checker(): whose executable checks, "nobody" if it is missing.     *)
CheckerOf(p) ==
  LET orDefault(found) == IF found # {} THEN "package"
                          ELSE IF "default" \in p.present THEN "default"
                          ELSE "nobody"
  IN CASE p.checker = ""        -> orDefault(p.present \cap {"check.exe", "checker.exe"})
       [] p.checker = "default" -> orDefault({})
       [] p.checker = "named"   -> IF "named" \in p.present THEN "package" ELSE "nobody"

(* The default checker brings its own convention for exit codes.           *)
ConventionOf(p) == IF CheckerOf(p) = "default" THEN "bacs_legacy" ELSE p.return

(* run_test() on what was seen of the solution and, when it ended well, of *)
(* the checker.                                                            *)
EndedWell(o) == o.run = "RUN_OK" /\ o.exit = 0

SolutionStatus ==
  [RUN_TIMEOUT       |-> "ST_TIME_LIMIT",
   RUN_OUT_OF_MEMORY |-> "ST_MEMORY_LIMIT",
   RUN_REALTIMEOUT   |-> "ST_REALTIME_LIMIT",
   RUN_OUTPUT_LIMIT  |-> "ST_OUTPUT_LIMIT",
   RUN_ABNORMAL_EXIT |-> "ST_RUNTIME_ERROR",
   RUN_OK            |-> "ST_RUNTIME_ERROR",  \* exit code other than 0
   RUN_FAILED        |-> "ST_SERVER_ERROR"]

(* Faulty variant of TestStatus: a checker that used up its CPU time is    *)
(* read like one that exited, with the exit code 0 limit_run reports.      *)
TestStatus_TrustsTimeout(convention, o) ==
  IF ~ EndedWell(o) THEN SolutionStatus[o.run]
  ELSE IF o.checker \in {"RUN_FAILED", "RUN_ABNORMAL_EXIT"} THEN "ST_CHECKER_ERROR"
  ELSE CheckerResult(convention, o.code)

TestStatus(convention, o) ==
  IF ~ EndedWell(o) THEN SolutionStatus[o.run]
  ELSE IF o.checker \in {"RUN_FAILED", "RUN_ABNORMAL_EXIT", "RUN_TIMEOUT"}
  THEN "ST_CHECKER_ERROR"
  ELSE CheckerResult(convention, o.code)

(* The statuses run_test() returns false with: they end the judging.       *)
Aborts(st) == st \in {"ST_SERVER_ERROR", "ST_CHECKER_ERROR"}

(* What limit_run may report.  Only a program that exited by itself has an *)
(* exit code; one that limit_run or a signal stopped is reported with 0.   *)
(* A checker has no memory limit, and a solution that did not end well is  *)
(* not checked.                                                            *)
CheckerRuns == {"RUN_OK", "RUN_FAILED", "RUN_ABNORMAL_EXIT", "RUN_TIMEOUT"} \cup
               (IF CheckerOverruns THEN {"RUN_REALTIMEOUT", "RUN_OUTPUT_LIMIT"} ELSE {})

Outcomes ==
  {o \in [run : RunResults, exit : {0, 1}, time : Times \cup {Garbage},
          checker : CheckerRuns \cup {"not run"}, code : {0, 1, 2, 4, 5}] :
     /\ o.exit # 0 => o.run = "RUN_OK"
     /\ o.time = Garbage <=> o.run = "RUN_FAILED"
     /\ o.checker = "not run" <=> ~ EndedWell(o)
     /\ o.code # 0 => o.checker = "RUN_OK"}

-----------------------------------------------------------------------------
(* Faulty variants of definitions below: what a wrong change of the code   *)
(* would do.  No specification uses them; each breaks a property.          *)

(* The tests are counted from the wrong end of the array.                  *)
Load_OffByOne(s, p) ==
  /\ pc = "idle"
  /\ sid' = s /\ package' = p
  /\ status' = "ST_SERVER_ERROR" /\ failed' = NoTest /\ school' = <<>>
  /\ time' = 0 /\ info' = "none" /\ next' = 0 /\ seen' = <<>>
  /\ pc' = "compile"
  /\ UNCHANGED <<row, files, dirty>>

(* A failed compilation returns without the cleanup.                       *)
CompileFails_NoCleanup(st, rest) ==
  /\ pc = "compile" /\ pc' = "store"
  /\ st \in CompileFaults \cup {"ST_SERVER_ERROR"}
  /\ status' = st /\ info' = "compiler"
  /\ files' = [files EXCEPT ![sid] = @ \cup rest]
  /\ dirty' = dirty \cup {sid}
  /\ UNCHANGED <<row, sid, package, failed, school, time, next, seen>>

(* The unpacked package is left behind.                                    *)
EndOfTest_KeepsPackage == [files EXCEPT ![sid] = @ \ {"exe", "verbose"}]

(* The loop over the tests does not stop at the first failure.             *)
TestsDone_RunsAll == next > Len(TestsOf(package))

(* A test that ends the judging is counted like the others.                *)
AbortTests_Counts(st, o) ==
  /\ pc' = "cleanup"
  /\ status' = st
  /\ failed' = NoTest
  /\ school' = Append(school, st)
  /\ time' = IF o.time > time THEN o.time ELSE time
  /\ files' = [files EXCEPT ![sid] = @ \ {"exe", "verbose", "package"}]

(* A cleanup that fails ends the judging, as its message says.             *)
Cleanup_EndsJudging ==
  /\ pc = "cleanup"
  /\ \/ status # "ST_INVALID_LANG" /\ dirty' = {} /\ pc' = "store"
     \/ /\ ~ Cleans \/ status = "ST_INVALID_LANG"
        /\ pc' = "idle" /\ UNCHANGED dirty
  /\ UNCHANGED <<row, job, files>>

(* A compilation fault does not set need_info.                             *)
InfoWanted_ByColumn == NeedInfo[sid]

-----------------------------------------------------------------------------
Columns == [result : Statuses, failed : Nat \cup {NoTest}, school : Seq(Statuses),
            time : Times, info : {"none", "compiler", "test"},
            fresh : BOOLEAN]

TypeOK ==
  /\ row \in [Submits -> Columns]
  /\ pc \in {"idle", "compile", "extract", "init", "tests", "cleanup", "store", "dead"}
  /\ sid \in Submits /\ package \in Packages
  /\ status \in Statuses /\ failed \in Int
  /\ school \in Seq(Statuses) /\ time \in Times
  /\ info \in {"none", "compiler", "test"}
  /\ next \in 1 .. Len(TestsOf(package)) + 1
  /\ files \in [Submits -> SUBSET {"source", "exe", "stray", "byproduct", "package", "verbose"}]
  /\ dirty \subseteq Submits
  /\ seen \in Seq([id : Int, o : Outcomes])

Unjudged == [result |-> "ST_RUNNING", failed |-> NoTest, school |-> <<>>, time |-> 0,
             info |-> "none", fresh |-> TRUE]

Init ==
  /\ row = [s \in Submits |-> Unjudged]
  /\ pc = "idle"
  /\ sid \in Submits /\ package \in Packages
  /\ status = "ST_SERVER_ERROR" /\ failed = NoTest /\ school = <<>>
  /\ time = 0 /\ info = "none" /\ next = 1 /\ seen = <<>>
  /\ files = [s \in Submits |-> {}]
  /\ dirty = {}

-----------------------------------------------------------------------------
(* CSubmit *)

(* The constructor: the row is there (Bacsd models the row that is not).   *)
Load(s, p) ==
  /\ pc = "idle"
  /\ sid' = s /\ package' = p
  /\ status' = "ST_SERVER_ERROR" /\ failed' = NoTest /\ school' = <<>>
  /\ time' = 0 /\ info' = "none" /\ next' = 1 /\ seen' = <<>>
  /\ pc' = "compile"
  /\ UNCHANGED <<row, files, dirty>>

(* compile(): the language is unknown, or the source file cannot be made.  *)
NotCompiled ==
  /\ pc = "compile" /\ pc' = "cleanup"
  /\ status' \in {"ST_INVALID_LANG", "ST_SERVER_ERROR"}
  /\ UNCHANGED <<row, sid, package, failed, school, time, info, next, seen,
                 files, dirty>>

(* compile(): the compiler ran, in the Test directory, where any file may  *)
(* stay, and left an executable and perhaps other files beside the source. *)
Compile(rest) ==
  /\ pc = "compile" /\ pc' = "extract"
  /\ info' = "compiler"
  /\ files' = [files EXCEPT ![sid] = @ \cup {"source", "exe"} \cup rest]
  /\ dirty' = dirty \cup {sid}
  /\ UNCHANGED <<row, sid, package, status, failed, school, time, next, seen>>

(* compile(): the compiler made no executable, ran out of time, or could   *)
(* not be run to its end; the source is erased, nothing else is.  What a   *)
(* stopped compiler has already written as the executable stays, a "stray" *)
(* that no later judging knows.  Only a compiler that could not be started *)
(* leaves no log.                                                          *)
CompileFails(st, rest) ==
  /\ pc = "compile" /\ pc' = "cleanup"
  /\ st \in CompileFaults \cup {"ST_SERVER_ERROR"}
  /\ "stray" \in rest => st # "ST_COMPILE_ERROR"
  /\ status' = st
  /\ info' = "compiler" \/ (st = "ST_SERVER_ERROR" /\ UNCHANGED info)
  /\ files' = [files EXCEPT ![sid] = @ \cup rest]
  /\ dirty' = dirty \cup {sid}
  /\ UNCHANGED <<row, sid, package, failed, school, time, next, seen>>

(* The end of test(): run_tests' guard removes the verbose directory,      *)
(* ~CProblem the package, and compile_and_test erases the executable.      *)
EndOfTest == [files EXCEPT ![sid] = @ \ {"exe", "verbose", "package"}]

(* CProblem::init(): the package is unpacked.                              *)
ExtractPackage ==
  /\ pc = "extract" /\ pc' = "init"
  /\ files' = [files EXCEPT ![sid] = @ \cup {"package"}]
  /\ UNCHANGED <<row, job, dirty>>

(* CProblem::init(): every part of the package loads.                      *)
InitProblem ==
  /\ pc = "init" /\ pc' = "tests"
  /\ package.loads /\ CheckerOf(package) # "nobody"
  /\ status' = "ST_ACCEPTED"
  /\ files' = [files EXCEPT ![sid] = @ \ {"verbose"}]
  /\ UNCHANGED <<row, sid, package, failed, school, time, info, next, seen,
                 dirty>>

(* test(): the package cannot be unpacked, or its configuration, its file  *)
(* names or its checker are wrong; init_tests and run_tests are not reached.*)
InvalidProblem ==
  /\ pc = "init" /\ pc' = "cleanup"
  /\ ~ package.loads \/ CheckerOf(package) = "nobody"
  /\ status' = "ST_INVALID_PROBLEM"
  /\ files' = [files EXCEPT ![sid] = @ \ {"exe", "package"}]
  /\ UNCHANGED <<row, sid, package, failed, school, time, info, next, seen,
                 dirty>>

-----------------------------------------------------------------------------
(* CProblem::run_tests() *)

TestsDone == next > Len(TestsOf(package)) \/ (Acm[sid] /\ status # "ST_ACCEPTED")

(* run_test() returned false: so does run_tests, keeping what earlier tests*)
(* have left in max_time and test_results.                                 *)
AbortTests(st, o) ==
  /\ pc' = "cleanup"
  /\ status' = st
  /\ files' = EndOfTest
  /\ UNCHANGED <<failed, school, time>>

(* The rest of the loop's body: the maximal time, and either the number of *)
(* the failed test or one more entry of the school result.                 *)
CountTest(id, st, o) ==
  /\ time' = IF o.time > time THEN o.time ELSE time
  /\ status' = IF status = "ST_ACCEPTED" THEN st ELSE status
  /\ IF Acm[sid] THEN /\ failed' = IF st # "ST_ACCEPTED" THEN id ELSE failed
                      /\ UNCHANGED school
     ELSE school' = Append(school, st) /\ UNCHANGED failed
  /\ files' = IF id \in package.verbose THEN [files EXCEPT ![sid] = @ \cup {"verbose"}]
              ELSE files
  /\ UNCHANGED pc

(* The verbose directory of the next test has the input of an earlier test *)
(* of the same number.                                                     *)
CopyExists ==
  LET tests == TestsOf(package) IN
  tests[next] \in package.verbose /\ \E i \in 1 .. next - 1 : tests[i] = tests[next]

(* copy_file throws, and nobody catches it.                                *)
CopyThrows ==
  /\ pc = "tests" /\ ~ TestsDone /\ CopyExists /\ pc' = "dead"
  /\ UNCHANGED <<row, job, files, dirty>>

(* One test: the solution runs in the Test directory, then the checker on  *)
(* its output.                                                             *)
RunTest ==
  /\ pc = "tests" /\ ~ TestsDone /\ ~ CopyExists
  /\ LET id == TestsOf(package)[next] IN
     \E o \in Outcomes :
       LET st == TestStatus(ConventionOf(package), o) IN
       /\ seen' = Append(seen, [id |-> id, o |-> o])
       /\ IF Aborts(st) THEN AbortTests(st, o) ELSE CountTest(id, st, o)
       /\ info' = IF NeedInfo[sid] /\ EndedWell(o) THEN "test" ELSE info
  /\ next' = next + 1
  /\ dirty' = dirty \cup {sid}
  /\ UNCHANGED <<row, sid, package>>

(* After the loop; that the archive of the verbose files cannot be made or *)
(* sent makes run_tests return false, which nobody looks at.               *)
FinishTests ==
  /\ pc = "tests" /\ TestsDone /\ pc' = "cleanup"
  /\ files' = EndOfTest
  /\ UNCHANGED <<row, job, dirty>>

-----------------------------------------------------------------------------
(* cleanup() and store_result() *)

(* The language's clean command empties the Test directory, if there is    *)
(* one, as not for an unknown language, and it works; its failure is only  *)
(* logged.                                                                 *)
Cleanup ==
  /\ pc = "cleanup" /\ pc' = "store"
  /\ \/ status # "ST_INVALID_LANG" /\ dirty' = {}
     \/ (~ Cleans \/ status = "ST_INVALID_LANG") /\ UNCHANGED dirty
  /\ UNCHANGED <<row, job, files>>

InfoWanted == NeedInfo[sid] \/ status \in CompileFaults

(* One update of the columns: a test number below 0 is stored as none;     *)
(* test_results go to school_result only when the submission is not judged *)
(* by the ACM rules.  Its failure is ignored.                              *)
Store ==
  /\ pc = "store" /\ pc' = "idle"
  /\ \/ row' = [row EXCEPT ![sid] =
          [result |-> status, failed |-> IF failed < 0 THEN NoTest ELSE failed,
           school |-> IF Acm[sid] THEN @.school ELSE school, time |-> time,
           info |-> IF InfoWanted THEN info ELSE @.info,
           fresh |-> InfoWanted]]
     \/ UNCHANGED row
  /\ files' = [files EXCEPT ![sid] = @ \ {"source"}]
  /\ UNCHANGED <<job, dirty>>

-----------------------------------------------------------------------------
(* The daemon dies, by a signal or by an exception nobody catches, and is  *)
(* started again; nothing removes what it has left.                        *)
Die ==
  /\ MayDie /\ pc # "dead" /\ pc' = "dead"
  /\ UNCHANGED <<row, job, files, dirty>>

Restart ==
  /\ pc = "dead" /\ pc' = "idle"
  /\ UNCHANGED <<row, job, files, dirty>>

JudgingStep ==
  \/ NotCompiled
  \/ \E rest \in SUBSET {"byproduct"} : Compile(rest)
  \/ \E rest \in SUBSET {"byproduct", "stray"}, st \in Statuses : CompileFails(st, rest)
  \/ ExtractPackage \/ InitProblem \/ InvalidProblem
  \/ CopyThrows \/ RunTest \/ FinishTests \/ Cleanup \/ Store

Next ==
  \/ \E s \in Submits, p \in Packages : Load(s, p)
  \/ JudgingStep \/ Die \/ Restart

Spec == Init /\ [][Next]_vars

(* The daemon goes on with a judging it has begun: every command it waits  *)
(* for ends.                                                               *)
FairSpec == Spec /\ WF_vars(JudgingStep)

-----------------------------------------------------------------------------
(* Properties.  A judging is over when store_result is about to run.       *)

Verdict(i) == TestStatus(ConventionOf(package), seen[i].o)

(* The test was passed: the solution and then the checker exited by        *)
(* themselves, both with exit code 0.                                      *)
Passed(t) == EndedWell(t.o) /\ t.o.checker = "RUN_OK" /\ t.o.code = 0

(* ST_ACCEPTED is earned: every test of the package was run, in order, and *)
(* passed.                                                                 *)
AcceptedIsEarned ==
  pc = "store" /\ status = "ST_ACCEPTED" =>
    /\ [i \in DOMAIN seen |-> seen[i].id] = TestsOf(package)
    /\ \A i \in DOMAIN seen : Passed(seen[i])

(* ACM rules: test_num_failed is the first failed test, the status is that *)
(* test's, and no test was run after it; without a failed test there is no *)
(* number, and with one there is, unless its number is -1.                 *)
FirstFailureDecides ==
  pc = "store" /\ Acm[sid] =>
    /\ status \notin TestFaults => failed = NoTest
    /\ status \in TestFaults => Len(seen) > 0 /\ failed = seen[Len(seen)].id
    /\ \A i \in DOMAIN seen :
         Verdict(i) # "ST_ACCEPTED" =>
           /\ i = Len(seen) /\ status = Verdict(i)
           /\ failed = IF Aborts(status) THEN NoTest ELSE seen[i].id

(* School rules: the school result has the status of every test judged, in *)
(* the order of the tests, and only an error of the server or the checker  *)
(* cuts it short; the status is the first that is not ST_ACCEPTED.         *)
SchoolResultIsComplete ==
  pc = "store" /\ ~ Acm[sid] =>
    /\ school = [i \in DOMAIN school |-> Verdict(i)]
    /\ Len(school) = IF Aborts(status) /\ seen # <<>> THEN Len(seen) - 1 ELSE Len(seen)
    /\ status \in TestFaults \cup {"ST_ACCEPTED"} =>
         /\ Len(school) = Len(TestsOf(package))
         /\ \A i \in DOMAIN school :
              (\A j \in 1 .. i - 1 : school[j] = "ST_ACCEPTED") =>
                school[i] \in {"ST_ACCEPTED", status}

(* max_time_used is the maximum of times limit_run measured, over the      *)
(* tests that were judged; an uninitialized time never gets there.         *)
TimeIsMeasured ==
  pc = "store" =>
    LET judged == {i \in DOMAIN seen : ~ Aborts(Verdict(i))} IN
    time = Max({0} \cup {seen[i].o.time : i \in judged})

(* A compilation fault always comes with the compiler's log of the same    *)
(* judging, although info is otherwise only written on request and keeps   *)
(* what an earlier judging stored.                                         *)
CompileFaultIsExplained ==
  \A s \in Submits :
    row[s].result \in CompileFaults => row[s].fresh /\ row[s].info = "compiler"

(* Between two submissions no source, executable, package or verbose       *)
(* directory of them is left in Temp or in the archive, whatever way the   *)
(* judging took; only files of the compiler's own may be, and what a       *)
(* compiler wrote that was stopped, whose executable nobody erases         *)
(* (common.cpp:114-120).                                                   *)
NothingIsLeft ==
  pc = "idle" => \A s \in Submits : files[s] \subseteq {"byproduct", "stray"}

(* problem.cpp:150 "Error: cannot initialize tests!": a package whose tests *)
(* cannot be listed is not a problem a submission can solve.               *)
MissingTestsAreInvalid ==
  pc = "store" /\ ~ package.hasTests => status # "ST_ACCEPTED"

(* checkdef.cpp:109 "Return codes: 0 - OK": a submission is accepted by a   *)
(* checker that exits with code 0, on every test.                          *)
CheckerHasAnswered ==
  pc = "store" /\ status = "ST_ACCEPTED" =>
    \A i \in DOMAIN seen : seen[i].o.checker = "RUN_OK" /\ seen[i].o.code = 0

(* The parts of the judging as the daemon sees them.                       *)
Where == CASE pc \in {"idle", "dead"} -> pc
           [] pc = "store" -> "judged"
           [] OTHER -> "judging"

Contract == INSTANCE SubmitContract WITH
  Verdicts <- Statuses \ {"ST_RUNNING"}, where <- Where,
  verdict <- IF pc = "store" THEN status ELSE "none",
  result <- [s \in Submits |-> row[s].result]

(* Whatever fails on the way, the judging ends, in a verdict, and nothing  *)
(* is written into a row but that verdict, into the submission's own.      *)
ImplementsSubmit == Contract!Spec

(* When every language has a clean command that works, each judging starts *)
(* in an empty Test directory, whatever way the one before it ended.       *)
TestDirIsFresh == pc = "compile" => dirty = {}
=============================================================================
