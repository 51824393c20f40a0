------------------------------ MODULE RunFiles ------------------------------
(***************************************************************************)
(* The files one daemon works with while it judges: the temporary files of *)
(* tempfiles.cpp, the redirections of run.cpp, the solution's own input    *)
(* and output in the Test directory, and the copies of a verbose test in   *)
(* problem.cpp.  Any call on a file may fail, and the daemon may die       *)
(* between any two steps and start again with the files it finds.          *)
(***************************************************************************)
EXTENDS Integers, FiniteSetsExt

CONSTANTS
  Tests,       \* number of tests of a problem
  Problems,    \* the problems: whether input and output are files, not STDIN
               \* and STDOUT; the number in the name of each test's input;
               \* the numbers whose tests are verbose
  MaxJobs,     \* bound: judgings
  MaxCrashes,  \* bound: deaths of the daemon
  MaxStrays,   \* bound: solutions a process of which outlives its test
  MaxNames     \* bound: temporary names a process may look at

ASSUME RunFilesAssumption ==
  /\ Tests \in Nat \ {0} /\ MaxJobs \in Nat \ {0} /\ MaxNames \in Nat \ {0}
  /\ {MaxCrashes, MaxStrays} \subseteq Nat
  /\ \A p \in Problems : /\ {p.input, p.output} \subseteq BOOLEAN
                          /\ p.number \in [1 .. Tests -> Nat] /\ p.verbose \subseteq Nat

(* What a file holds: nothing (it is absent), no bytes, or what was made   *)
(* for one test of one judging; test 0 stands for its program.             *)
Absent == <<>>
Empty  == <<0, 0>>
Contents == {Absent, Empty} \cup (1 .. MaxJobs) \X (0 .. Tests)

(* The name of a temporary file follows from the counter: the characters   *)
(* of random_char come from a generator that is never seeded.              *)
Names  == 0 .. MaxNames - 1
NoName == -1

VARIABLES
  problem,  \* the problem of all judgings
  tmp,      \* tmp[n]: the file n in the Temp directory
  exe,      \* exe[n]: the executable the compiler makes of it
  testDir,  \* "in" and "out" in the Test directory
  copies,   \* numbers whose input is in the verbose directory
  late,     \* compilers that live on: source and judging
  strays,   \* solutions a process of which lives on: judging and test
  pc,       \* where the daemon is
  k,        \* the counter of gen_unique_filename
  job, i,   \* the judging, and its test
  src, tfIn, tfOut,  \* CTempFiles: source, input, output
  pipes,    \* the two CTempFiles of run_use_pipes
  answer,   \* "RUN_OK", "RUN_FAILED" or "other"
  got,      \* history: what the checker was given as the output
  fault,    \* history: whether a call on a file failed in this test
  stopped,  \* history: judgings whose compiler was stopped
  orphans,  \* history: names in Temp when a process died
  crashes   \* history: deaths of the daemon

disk  == <<tmp, exe, testDir, copies, late, strays>>
local == <<k, job, i, src, tfIn, tfOut, pipes, answer>>
hist  == <<got, fault, stopped, orphans, crashes>>
vars  == <<problem, disk, pc, local, hist>>

Labels == {"idle", "compile", "compiling", "not_compiled", "init", "tests", "input",
           "output", "solution", "fetch", "unlink", "look", "check", "checking",
           "end_test", "end_job", "clean", "cleaning", "erase", "terminated", "dead"}

TypeOK ==
  /\ problem \in Problems
  /\ tmp \in [Names -> Contents] /\ exe \in [Names -> Contents]
  /\ testDir \in [{"in", "out"} -> Contents]
  /\ copies \subseteq {problem.number[t] : t \in 1 .. Tests}
  /\ late \subseteq Names \X (1 .. MaxJobs) /\ stopped \subseteq 1 .. MaxJobs
  /\ strays \subseteq (1 .. MaxJobs) \X (1 .. Tests)
  /\ pc \in Labels /\ k \in 0 .. MaxNames
  /\ job \in 0 .. MaxJobs /\ i \in 1 .. Tests + 1
  /\ {src, tfIn, tfOut} \subseteq Names \cup {NoName} /\ pipes \subseteq Names
  /\ answer \in {"RUN_OK", "RUN_FAILED", "other"}
  /\ got \in Contents /\ fault \in BOOLEAN /\ orphans \subseteq Names
  /\ crashes \in 0 .. MaxCrashes

Init ==
  /\ problem \in Problems
  /\ tmp = [n \in Names |-> Absent] /\ exe = tmp
  /\ testDir = [f \in {"in", "out"} |-> Absent]
  /\ copies = {} /\ late = {} /\ strays = {} /\ stopped = {} /\ orphans = {} /\ crashes = 0
  /\ pc = "idle" /\ k = 0 /\ job = 0 /\ i = 1
  /\ src = NoName /\ tfIn = NoName /\ tfOut = NoName /\ pipes = {}
  /\ answer = "RUN_OK" /\ got = Absent /\ fault = FALSE

-----------------------------------------------------------------------------
(* Temporary files.  The operators X_... are faulty variants of X: no      *)
(* specification uses them, each breaks a property.                        *)

(* Whether the name is in use is not asked.                                *)
Fresh_Unasked(from) == from

(* gen_unique_filename: the first name from the counter on whose ".tmp"    *)
(* does not exist; what a compiler made of it is not asked for.            *)
Fresh(from) == Min({n \in Names : n >= from /\ tmp[n] = Absent} \cup {MaxNames})

(* erase()                                                                 *)
Erased(files, ns) == [n \in Names |-> IF n \in ns THEN Absent ELSE files[n]]

Goto(from, to) == pc = from /\ pc' = to

(* The objects of run_use_pipes: two files, each created or not; on an      *)
(* error what was created is erased at once.                               *)
OpenPipes(at, to, failed) ==
  LET a == Fresh(k)
      b == Fresh(a + 1)
  IN
  /\ b \in Names
  /\ \/ /\ Goto(at, to)
        /\ tmp' = [tmp EXCEPT ![a] = Empty, ![b] = Empty]
        /\ pipes' = {a, b} /\ k' = b + 1
        /\ UNCHANGED <<answer, fault>>
     \/ /\ Goto(at, failed)
        /\ k' \in {a + 1, b + 1}
        /\ answer' = "RUN_FAILED" /\ fault' = TRUE
        /\ UNCHANGED <<tmp, pipes>>
  /\ UNCHANGED <<problem, exe, testDir, copies, late, strays, job, i, src, tfIn, tfOut, got,
                 stopped, orphans, crashes>>

(* The end of run_use_pipes: the output is read, both files are erased.    *)
ClosePipes == tmp' = Erased(tmp, pipes) /\ pipes' = {}

-----------------------------------------------------------------------------
(* CSubmit: source and compilation *)

CreateSource ==
  /\ job < MaxJobs /\ Fresh(k) \in Names
  /\ job' = job + 1 /\ i' = 1 /\ fault' = FALSE /\ got' = Absent
  /\ k' = Fresh(k) + 1
  /\ \/ /\ Goto("idle", "compile")
        /\ src' = Fresh(k) /\ tmp' = [tmp EXCEPT ![src'] = <<job', 0>>]
     \/ /\ Goto("idle", "clean") /\ UNCHANGED <<src, tmp>>
  /\ UNCHANGED <<problem, exe, testDir, copies, late, strays, tfIn, tfOut, pipes, answer,
                 stopped, orphans, crashes>>

OpenCompiler == OpenPipes("compile", "compiling", "not_compiled")

(* The compiler ends: it made the executable, or left what was there.  The *)
(* executable is all compile_source looks at, not the compiler's exit code.*)
CompilerEnds ==
  /\ pc = "compiling" /\ ClosePipes
  /\ exe' \in {exe, [exe EXCEPT ![src] = <<job, 0>>]}
  /\ pc' = IF exe'[src] = Absent THEN "not_compiled" ELSE "init"
  /\ UNCHANGED <<problem, testDir, copies, late, strays, k, job, i, src, tfIn, tfOut, answer,
                 hist>>

(* The compiler is stopped: it may have written the executable, or one of  *)
(* its processes, which limit_run does not know of, still will.            *)
CompilerStopped ==
  /\ Goto("compiling", "not_compiled") /\ ClosePipes
  /\ stopped' = stopped \cup {job}
  /\ \/ UNCHANGED <<exe, late>>
     \/ exe' = [exe EXCEPT ![src] = <<job, 0>>] /\ UNCHANGED late
     \/ late' = late \cup {<<src, job>>} /\ UNCHANGED exe
  /\ UNCHANGED <<problem, testDir, copies, strays, k, job, i, src, tfIn, tfOut, answer,
                 got, fault, orphans, crashes>>

LateCompiler ==
  /\ \E c \in late : late' = late \ {c} /\ exe' = [exe EXCEPT ![c[1]] = <<c[2], 0>>]
  /\ UNCHANGED <<problem, tmp, testDir, copies, strays, pc, local, hist>>

(* compile() erases the source, and nothing else.                          *)
NotCompiled ==
  /\ Goto("not_compiled", "clean")
  /\ tmp' = Erased(tmp, {src})
  /\ UNCHANGED <<problem, exe, testDir, copies, late, strays, local, hist>>

-----------------------------------------------------------------------------
(* CProblem: the loop over the tests *)

(* The verbose directory of an earlier judging is not looked for.          *)
InitTests_Keeps ==
  /\ pc = "init" /\ pc' \in {"tests", "end_job"}
  /\ UNCHANGED <<problem, disk, local, hist>>

(* init_tests() removes the verbose directory that an earlier judging of   *)
(* the same submission left when its daemon died; a package that does not  *)
(* load is not asked for its tests.                                        *)
InitTests ==
  /\ \/ Goto("init", "tests") /\ copies' = {}
     \/ Goto("init", "end_job") /\ UNCHANGED copies
  /\ UNCHANGED <<problem, tmp, exe, testDir, late, strays, local, hist>>

VerboseTest == problem.number[i] \in problem.verbose

(* The next test; the copy of a verbose test's input must not exist.       *)
StartTest ==
  /\ i <= Tests /\ ~ (VerboseTest /\ problem.number[i] \in copies)
  /\ Goto("tests", "input")
  /\ copies' = copies \cup (problem.verbose \cap {problem.number[i]})
  /\ tfIn' = NoName /\ tfOut' = NoName /\ fault' = FALSE /\ got' = Absent
  /\ UNCHANGED <<problem, tmp, exe, testDir, late, strays, k, job, i, src, pipes, answer,
                 stopped, orphans, crashes>>

(* The counter goes past the end.                                          *)
TestsDone_CountsOn ==
  /\ i > Tests /\ Goto("tests", "end_job") /\ copies' = {} /\ i' = i + 1
  /\ UNCHANGED <<problem, tmp, exe, testDir, late, strays, k, job, src, tfIn, tfOut, pipes,
                 answer, hist>>

TestsDone ==
  /\ i > Tests /\ Goto("tests", "end_job") /\ copies' = {}
  /\ UNCHANGED <<problem, tmp, exe, testDir, late, strays, local, hist>>

-----------------------------------------------------------------------------
(* run_fio() *)

(* run_fio returns early: RUN_FAILED, what it has created is erased.       *)
FioFails(created) ==
  /\ pc' = "look" /\ answer' = "RUN_FAILED"
  /\ tmp' = Erased(tmp, created)

(* The input is copied into the Test directory and made readable.          *)
PrepareInput ==
  /\ pc = "input"
  /\ IF ~ problem.input THEN pc' = "output" /\ UNCHANGED <<tmp, testDir, k, tfIn,
                                                           answer, fault>>
     ELSE
       /\ Fresh(k) \in Names /\ k' = Fresh(k) + 1
       /\ \/ /\ pc' = "output"
             /\ tfIn' = Fresh(k) /\ tmp' = [tmp EXCEPT ![tfIn'] = Empty]
             /\ testDir' = [testDir EXCEPT !["in"] = <<job, i>>]
             /\ UNCHANGED <<answer, fault>>
          \/ /\ fault' = TRUE /\ FioFails({}) /\ UNCHANGED tfIn
             /\ testDir' \in {testDir, [testDir EXCEPT !["in"] = <<job, i>>]}
  /\ UNCHANGED <<problem, exe, copies, late, strays, job, i, src, tfOut, pipes, got, stopped,
                 orphans, crashes>>

(* The output file is opened to append.                                    *)
PrepareOutput_Appends ==
  /\ pc = "output" /\ Fresh(k) \in Names /\ k' = Fresh(k) + 1
  /\ \/ /\ pc' = "solution"
        /\ tfOut' = Fresh(k) /\ tmp' = [tmp EXCEPT ![tfOut'] = Empty]
        /\ testDir' = IF problem.output /\ testDir["out"] = Absent
                      THEN [testDir EXCEPT !["out"] = Empty] ELSE testDir
        /\ UNCHANGED <<answer, fault>>
     \/ /\ fault' = TRUE /\ FioFails({tfIn}) /\ UNCHANGED <<tfOut, testDir>>
  /\ UNCHANGED <<problem, exe, copies, late, strays, job, i, src, tfIn, pipes, got, stopped,
                 orphans, crashes>>

(* The file is detached from its object as soon as it exists.              *)
PrepareOutput_DetachesFirst ==
  /\ pc = "output" /\ Fresh(k) \in Names /\ k' = Fresh(k) + 1
  /\ \/ /\ pc' = "solution"
        /\ tfOut' = Fresh(k) /\ tmp' = [tmp EXCEPT ![tfOut'] = Empty]
        /\ testDir' = IF problem.output THEN [testDir EXCEPT !["out"] = Empty] ELSE testDir
        /\ UNCHANGED <<answer, fault>>
     \/ /\ fault' = TRUE /\ pc' = "look" /\ answer' = "RUN_FAILED"
        /\ tmp' = [Erased(tmp, {tfIn}) EXCEPT ![Fresh(k)] = Empty]
        /\ UNCHANGED <<tfOut, testDir>>
  /\ UNCHANGED <<problem, exe, copies, late, strays, job, i, src, tfIn, pipes, got, stopped,
                 orphans, crashes>>

(* The file for the output, and an empty output file in the Test directory;*)
(* only then does the file's name leave run_fio.                           *)
PrepareOutput ==
  /\ pc = "output" /\ Fresh(k) \in Names /\ k' = Fresh(k) + 1
  /\ \/ /\ pc' = "solution"
        /\ tfOut' = Fresh(k) /\ tmp' = [tmp EXCEPT ![tfOut'] = Empty]
        /\ testDir' = IF problem.output THEN [testDir EXCEPT !["out"] = Empty] ELSE testDir
        /\ UNCHANGED <<answer, fault>>
     \/ /\ fault' = TRUE /\ FioFails({tfIn}) /\ UNCHANGED tfOut
        /\ \/ UNCHANGED testDir
           \/ problem.output /\ testDir' = [testDir EXCEPT !["out"] = Empty]
  /\ UNCHANGED <<problem, exe, copies, late, strays, job, i, src, tfIn, pipes, got, stopped,
                 orphans, crashes>>

(* _run(): the solution writes to its standard output, and in the Test     *)
(* directory, where it may also delete, and may leave a process behind     *)
(* that limit_run does not know of; or limit_run cannot run it.            *)
Solution ==
  /\ Goto("solution", "fetch")
  /\ \/ /\ answer' \in {"RUN_OK", "other"} /\ UNCHANGED fault
        /\ tmp' \in {tmp, [tmp EXCEPT ![tfOut] = <<job, i>>]}
        /\ testDir' \in [in : {testDir["in"]} \cup (IF problem.input THEN {Absent} ELSE {}),
                         out : {testDir["out"]} \cup
                               (IF problem.output THEN {Absent, <<job, i>>} ELSE {})]
        /\ \/ UNCHANGED strays
           \/ Cardinality(strays) < MaxStrays /\ strays' = strays \cup {<<job, i>>}
     \/ /\ fault' = TRUE /\ answer' = "RUN_FAILED" /\ UNCHANGED <<tmp, testDir, strays>>
  /\ UNCHANGED <<problem, exe, copies, late, k, job, i, src, tfIn, tfOut, pipes, got,
                 stopped, orphans, crashes>>

(* Such a process writes or deletes a file of that name in the Test        *)
(* directory, whatever the daemon is doing.                                *)
Straggler ==
  /\ \E s \in strays, f \in {"in", "out"} :
       /\ IF f = "in" THEN problem.input ELSE problem.output
       /\ testDir' \in {[testDir EXCEPT ![f] = s], [testDir EXCEPT ![f] = Absent]}
  /\ UNCHANGED <<problem, tmp, exe, copies, late, strays, pc, local, hist>>

(* What the solution has put in its output file becomes its output.        *)
FetchOutput ==
  /\ pc = "fetch"
  /\ \/ /\ ~ problem.output /\ pc' = "unlink" /\ UNCHANGED <<tmp, testDir, answer,
                                                             fault>>
     \/ /\ problem.output /\ testDir["out"] # Absent /\ pc' = "unlink"
        /\ tmp' = [tmp EXCEPT ![tfOut] = testDir["out"]]
        /\ testDir' = [testDir EXCEPT !["out"] = Absent]
        /\ UNCHANGED <<answer, fault>>
     \/ /\ problem.output /\ testDir["out"] = Absent /\ pc' = "unlink"
        /\ tmp' = [tmp EXCEPT ![tfOut] = Empty]
        /\ UNCHANGED <<testDir, answer, fault>>
     \/ /\ problem.output /\ testDir["out"] # Absent /\ FioFails({tfIn})
        /\ fault' = TRUE /\ UNCHANGED testDir
  /\ UNCHANGED <<problem, exe, copies, late, strays, k, job, i, src, tfIn, tfOut, pipes, got,
                 stopped, orphans, crashes>>

(* The input file is removed, which fails if it is not there.              *)
UnlinkInput ==
  /\ Goto("unlink", "look")
  /\ tmp' = Erased(tmp, {tfIn})
  /\ \/ ~ problem.input /\ UNCHANGED <<testDir, answer, fault>>
     \/ /\ problem.input /\ testDir["in"] # Absent
        /\ testDir' = [testDir EXCEPT !["in"] = Absent] /\ UNCHANGED <<answer, fault>>
     \/ /\ problem.input /\ testDir["in"] = Absent
        /\ answer' = "RUN_FAILED" /\ UNCHANGED <<testDir, fault>>
     \/ /\ problem.input
        /\ answer' = "RUN_FAILED" /\ fault' = TRUE /\ UNCHANGED testDir
  /\ UNCHANGED <<problem, exe, copies, late, strays, k, job, i, src, tfIn, tfOut, pipes, got,
                 stopped, orphans, crashes>>

-----------------------------------------------------------------------------
(* run_test() after run_fio() *)

(* The output of a verbose test is copied, if there is one to copy; then   *)
(* it goes to the checker, or the test is over.                            *)
LookAtAnswer ==
  /\ pc = "look" /\ ~ (VerboseTest /\ tfOut = NoName)
  /\ pc' = IF answer = "RUN_OK" THEN "check" ELSE "end_test"
  /\ UNCHANGED <<problem, disk, local, hist>>

(* What throws ends the daemon, nobody catches it: the removal of the      *)
(* verbose directory, the copies of a verbose test's input and hint, of    *)
(* which the second of a number always fails, the copy of its output,      *)
(* which needs a name, and the files the results are written to.           *)
Terminate ==
  /\ pc' = "terminated"
  /\ \/ pc = "init" /\ fault' = TRUE /\ UNCHANGED copies
     \/ /\ pc = "tests" /\ i <= Tests /\ VerboseTest
        /\ fault' = (problem.number[i] \notin copies)
        /\ copies' \in {copies, copies \cup {problem.number[i]}}
     \/ /\ pc = "look" /\ VerboseTest
        /\ fault' = (fault \/ tfOut # NoName) /\ UNCHANGED copies
     \/ /\ pc = "end_test" /\ VerboseTest /\ answer # "RUN_FAILED"
        /\ fault' = TRUE /\ UNCHANGED copies
  /\ orphans' = orphans \cup {n \in Names : tmp[n] # Absent \/ exe[n] # Absent}
  /\ UNCHANGED <<problem, tmp, exe, testDir, late, strays, local, got, stopped, crashes>>

OpenChecker == OpenPipes("check", "checking", "end_test")

CheckerEnds ==
  /\ Goto("checking", "end_test")
  /\ got' = tmp[tfOut] /\ ClosePipes
  /\ \/ UNCHANGED <<answer, fault>>
     \/ answer' = "RUN_FAILED" /\ fault' = TRUE
  /\ UNCHANGED <<problem, exe, testDir, copies, late, strays, k, job, i, src, tfIn, tfOut,
                 stopped, orphans, crashes>>

(* The output is erased; RUN_FAILED ends the judging, and a failed test    *)
(* may.                                                                    *)
EndTest ==
  /\ pc = "end_test"
  /\ tmp' = Erased(tmp, {tfOut})
  /\ \/ answer # "RUN_FAILED" /\ pc' = "tests" /\ i' = i + 1 /\ UNCHANGED copies
     \/ pc' = "end_job" /\ copies' = {} /\ UNCHANGED i
  /\ UNCHANGED <<problem, exe, testDir, late, strays, k, job, src, tfIn, tfOut, pipes, answer,
                 hist>>

-----------------------------------------------------------------------------
(* CSubmit: the end *)

EraseExecutable ==
  /\ Goto("end_job", "clean")
  /\ exe' = Erased(exe, {src})
  /\ UNCHANGED <<problem, tmp, testDir, copies, late, strays, local, hist>>

OpenClean == OpenPipes("clean", "cleaning", "erase")

NoClean == Goto("clean", "erase") /\ UNCHANGED <<problem, disk, local, hist>>

(* The clean command empties the Test directory, or fails.                 *)
CleanEnds ==
  /\ Goto("cleaning", "erase") /\ ClosePipes
  /\ \/ testDir' = [f \in {"in", "out"} |-> Absent]
     \/ UNCHANGED testDir
  /\ UNCHANGED <<problem, exe, copies, late, strays, k, job, i, src, tfIn, tfOut, answer, hist>>

(* ~CSubmit                                                                *)
EraseSource ==
  /\ Goto("erase", "idle")
  /\ tmp' = Erased(tmp, {src}) /\ src' = NoName
  /\ UNCHANGED <<problem, exe, testDir, copies, late, strays, k, job, i, tfIn, tfOut, pipes,
                 answer, hist>>

-----------------------------------------------------------------------------
Crash ==
  /\ crashes < MaxCrashes /\ pc \notin {"dead", "terminated"}
  /\ pc' = "dead" /\ crashes' = crashes + 1
  /\ orphans' = orphans \cup {n \in Names : tmp[n] # Absent \/ exe[n] # Absent}
  /\ UNCHANGED <<problem, disk, local, got, fault, stopped>>

(* A new process counts its names from 0.                                  *)
Restart ==
  /\ pc \in {"dead", "terminated"} /\ pc' = "idle"
  /\ k' = 0 /\ i' = 1 /\ src' = NoName /\ tfIn' = NoName /\ tfOut' = NoName
  /\ pipes' = {} /\ answer' = "RUN_OK"
  /\ UNCHANGED <<problem, disk, job, hist>>

Next ==
  \/ CreateSource \/ OpenCompiler \/ CompilerEnds \/ CompilerStopped \/ LateCompiler
  \/ NotCompiled \/ InitTests \/ StartTest \/ TestsDone
  \/ PrepareInput \/ PrepareOutput \/ Solution \/ Straggler \/ FetchOutput \/ UnlinkInput
  \/ LookAtAnswer \/ Terminate \/ OpenChecker \/ CheckerEnds \/ EndTest
  \/ EraseExecutable \/ OpenClean \/ NoClean \/ CleanEnds \/ EraseSource
  \/ Crash \/ Restart

Spec == Init /\ [][Next]_vars

-----------------------------------------------------------------------------
(* Properties *)

(* The checker is given what this solution wrote for this test, or nothing:*)
(* never what another test, submission or process left in Temp or in the   *)
(* Test directory, whichever calls failed before (run_fio, run.cpp:116);   *)
(* unless the output is a file and a process of an earlier solution, still *)
(* alive, has written it.                                                  *)
OutputIsOfThisTest ==
  pc = "end_test" =>
    got \in {Absent, Empty, <<job, i>>} \cup (IF problem.output THEN strays ELSE {})

(* A submission is run with the executable its own compilation made: the   *)
(* name of its source is a new one (gen_unique_filename), so a compilation *)
(* that makes none is seen by the missing file (common.cpp:122).  Only what*)
(* a stopped compiler has made may be met instead, under the same name in  *)
(* a later process.                                                        *)
ExecutableIsOwn ==
  pc \in {"init", "tests", "input", "output", "solution"} =>
    exe[src] \in {<<j, 0>> : j \in stopped \cup {job}}

(* Between two submissions Temp holds no file of the running process,      *)
(* whichever early return of run_fio, run_use_pipes or compile was taken;  *)
(* only what a process left that died, or a compiler that was stopped.     *)
TempIsClean ==
  pc = "idle" => \A n \in Names \ orphans :
    /\ tmp[n] = Absent
    /\ exe[n] \in {Absent} \cup {<<j, 0>> : j \in stopped}

(* The verbose tests end the daemon only when a call on a file has failed  *)
(* in this test, as when run_fio returned before it named the output, or   *)
(* when two inputs have the same number: what a judging that died has left *)
(* of the same submission does not get in the way, wherever it died        *)
(* (init_tests, problem.cpp:144).                                          *)
CopiesFit ==
  pc = "terminated" =>
    fault \/ \E t \in 1 .. i - 1 : problem.number[t] = problem.number[i]
=============================================================================
