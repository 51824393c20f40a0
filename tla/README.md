# BACS legacy: the judging daemons in TLA+

BACS judges programs in contests. Contestants' programs are rows of a MySQL
table `submit`; any number of daemons `bacsd`, each in a directory of its own,
take rows from it, compile them, run them on the tests of their problem, have the
output checked, and write the result back. This directory models the daemons and
the programs they run: TLA+ modules translated from the C++ code, configurations
that model-check them with TLC, and theorems that TLAPS checks. Paths and line
numbers are those of the repository.

## 1. The system

| component | where | state it keeps | operations |
|---|---|---|---|
| daemon | `src/bin/bacsd.cpp`, `src/lib/common.cpp`, `src/lib/helper.cpp` | where its loop is, the submission it holds, blocked signals | `main`, `check_thread_proc`, `wait_cycle`, `wait_term`, `check_new_submits`, `capture_new_submit`, `lock_table`, `unlock_table`, `ping` |
| database layer | `src/lib/db.cpp` | one connection | `connect`, `close`, `query`, `CDBQuery`, `db_qres`, `db_query` |
| table and lock | MySQL (external) | column `result` of each row, the named lock `olimp.submit_lock` | statements, `get_lock`, `release_lock`, the end of a session |
| judging | `src/lib/submit.cpp` | `CSubmit`: status, failed test, school results, time, info | constructor, `compile_and_test`, `compile`, `test`, `cleanup`, `store_result` |
| problem | `src/lib/problem.cpp`, `src/lib/test.cpp` | `CProblem`: tests, checker, limits; the unpacked package | `init`, `init_tests`, `init_checker`, `run_tests`, `run_test`, `get_checker_result`, destructor |
| compilation | `compile_source` in `src/lib/common.cpp`, `java_compile.c`, `py3_compile.py` | files in Temp | one command for each language |
| running | `src/lib/run.cpp` | redirections, temporary files | `_run`, `run`, `run_fio` |
| limit_run | `src/bin/limit_run.cpp` | a child process, its clock, a result file | fork, poll, kill, classify |
| temporary files | `src/lib/tempfiles.cpp` | a counter, files in Temp | `gen_unique_filename`, `create`, `read`, `erase` |
| default checker | `src/bin/checkdef.cpp` | two streams | `check_equal`, `check_LN` |
| testlib | `testlib/` | three streams and a verdict | reads, tests, `quit` |
| wipe, java_run | `src/bin` | the Test directory | empty a directory; start Java |
| log, configuration, utilities | `src/lib` | one file each | |
| installation | `init_env.sh` | a directory for each daemon | |

How they interact. Daemons never talk to each other: they share the table and the
named lock, and nothing else, since `init_env.sh` gives each its own `Test`,
`Temp`, `Archive` and `lim_run_results.txt`. A daemon is one thread. It calls the
compiler, the solution, the checker, `wipe`, `rm`, `tar` and `curl` with
`system()` and waits for each; solution, compiler, checker and `wipe` run under
`limit_run`, which answers through a file. The checker is an executable of the
problem's package, built on `testlib.h`, or the default one; it reads the input,
the output and the jury's answer, and says what it found by its exit code. A
contest site inserts the rows (external). With ids on its command line a daemon
judges those, without the lock.

What is hard about it, and what each part must promise:

* *Capture.* Select, update and the release of the lock are statements of their
  own; between any two, other daemons act, sessions end, daemons die. Wanted:
  no row is judged by two check loops, no way out leaves the queue locked.
* *Failure.* The outcome of the update, of the store and of the release is not
  looked at; a failed select is a missing row. Wanted: only a crash orphans a
  row; a verdict, once stored, stays; every row in the queue is judged.
* *Signals.* They are blocked and polled, while `system()` throws some away.
  Wanted: a daemon that is sent SIGTERM stops, soon, and gives up no submission.
* *Judging.* Three programs can each fail in several ways, and every early return
  keeps part of what was there. Wanted: ST_ACCEPTED is earned, the first failure
  decides, nothing uninitialized is stored, nothing of one submission reaches
  the next.
* *Files.* Names are made from a counter that every process begins again, files
  are passed between programs by name, and any call may fail. Wanted: what is
  checked is this test's output, what is run is this submission's program, and
  Temp does not fill.
* *Clocks.* `limit_run` polls a clock in whole seconds while the child it watches
  may end at any moment. Wanted: the limit is kept, and the answer is the child's.
* *Checkers.* The verdict passes through `quit`, a table of exit codes and a
  convention. Wanted: it arrives unchanged, and the solution is not blamed for
  the jury's files.

`PROJECT.json` lists each hazard at its line with the properties about it.

## 2. The modules

| module | models | role |
|---|---|---|
| `JudgingContract` | what the pool of daemons promises | abstract specification |
| `Bacsd` | the daemons around the table | component; refines `JudgingContract` |
| `WaitContract` | what a wait promises the daemon | abstract specification |
| `WaitCycle` | `wait_cycle` and `wait_term` with the clock | component; refines `WaitContract` |
| `SubmitContract` | what a judging promises the daemon | abstract specification |
| `Judging` | `CSubmit` and `CProblem` of one daemon | component; refines `SubmitContract` |
| `RunFiles` | the files of one daemon: Temp, Test, verbose copies | component |
| `LimitRun` | `limit_run`: the parent, its child and the clock | component |
| `ExitCodes` | `get_checker_result` | operator, used by `Judging` and both checkers |
| `IntegerToken` | `stringToLongLong` of `testlib.h` | algorithm |
| `Texts` | a text without the characters that do not count | operator, used by both checkers' properties |
| `Checker` | a checker built on `testlib.h` | component; uses `IntegerToken` |
| `DefaultChecker` | `checkdef` | component |
| `Checkers` | the checker of a test, of either kind | composition of `Checker` and `DefaultChecker` |
| `Wipe` | `wipe` against a process that is still writing | component |
| `MC...` | | values for TLC |
| `TextProofs` | | theorems about texts and the numerals of numbers |
| `BacsdProofs`, `WaitCycleProofs`, `JudgingProofs`, `RunFilesProofs`, `LimitRunProofs`, `CheckerProofs`, `WipeProofs` | | theorems |

How they fit. One module with all of this would be beyond TLC, and the parts meet
at narrow places, so each place is a contract that the detailed side is shown to
implement and the other side takes for granted. `Bacsd` judges a submission in
two steps with any verdict, or dies, and writes only its own row: that is
`SubmitContract`, and `Judging` implements it. `Bacsd` waits in a step that is
only possible without a pending signal: that is `WaitContract`, and `WaitCycle`
implements it. `Judging` takes any of the answers of `limit_run` and any exit code
a checker can have; `LimitRun` and `Checkers` say which there are and what they
are worth. `RunFiles` follows the same calls as `Judging` and keeps the files
instead of the statuses.

Operators named `X_Something` next to an action `X` are faulty variants: no
specification uses them, each shows that some property notices that change.

### Bacsd

`pc[d]` is the statement daemon `d` is about to execute; its values are named for
the statements of `check_thread_proc` and `capture_new_submit`. `result` is the
column of the table, `lock` the named lock with its nesting, `session[d]` the
connection, `pending[d]` the blocked signals, `sid[d]` and `status[d]` the
submission in hand. Each SQL statement is one action with up to three outcomes,
executed, refused by the data, failed:

| action | code |
|---|---|
| `Connect`, `ConnectFails` | `bacsd.cpp:106-111` |
| `WaitPing`, `WaitElapsed`, `WaitTerm`, `NoTerm` | `wait_cycle`, `wait_term`, `short_wait_term` |
| `CheckNewSubmits` | `common.cpp:32-38` |
| `LockTable`, `LockTableFails` | `helper.cpp:46-49`, `common.cpp:41-44` |
| `SelectNew`, `MarkRunning`, `UnlockTable` | `common.cpp:45-62`, `helper.cpp:51` |
| `LoadSubmit`, `JudgeSubmit`, `StoreResult`, `Report` | `compile_and_test` with the pings around it |
| `NextArg` | `bacsd.cpp:115-122` |
| `SubmitArrives`, `Signal`, `Crash`, `DropSession`, `ReapSession`, `Restart` | the environment |

Faults are constants. `Faults` says which of crashes and lost connections happen
("idle_drop" is a connection lost outside `capture_new_submit`, what a server
does to an idle session; "drop" is one lost anywhere). `Failing` lists the
statements that may return an error. `Reconnect` is `db.reconnect`, `Reentrant`
whether the server's `GET_LOCK` nests, which differs between versions of MySQL.

### WaitCycle

One wait with its deadline: `Begin` computes it from the clock, `Ping` pings when
the count of polls says so, `WaitTerm` waits for a signal or for the time of a
poll, `Look` compares the clock with the deadline. The clock only moves in `Ping`
and `WaitTerm`, by any amount up to their bounds. `counter` wraps as in the code,
and a `period` of 0, a missing key, is the division by 0 that it is there.

### Judging

`pc` follows `compile_and_test`: compile, extract, init, tests, cleanup, store.
`status`, `failed`, `school`, `time`, `info` are the members of `CSubmit` (the
memory moves exactly like the time and is left out), `row` the columns
`store_result` writes, `files` and `dirty` what is left in Temp, in the archive
and in Test. A package is a record of what `CProblem::init` looks at.
`Outcomes` are all answers `limit_run` can give for the solution and, when that
ended well, for the checker; one `RunTest` step takes any of them. `seen` and
`row.fresh` are history variables for the properties. The tests are files, not
numbers: `1.in` and `1.in~` are two tests with the number 1, a number may be
negative (such a failed test is stored as none), and when both are verbose the second
copy ends the daemon (`CopyThrows`). A compiler that was stopped may have written its
executable, which nobody erases; it is the "stray" of `files`. `Cleans` says that every
language has a clean command that works; the configuration that `init_env.sh` writes
does not make it true, since Mono C# has none there.

### RunFiles

A file holds nothing, no bytes, or what was made for one test of one judging.
`tmp[n]` is the file of the name that the counter `n` gives, `exe[n]` the executable
a compiler makes of it, `testDir` the solution's input and output in Test,
`copies` the verbose directory. Each `CTempFile` is a variable (`src`, `tfIn`,
`tfOut`, `pipes`) whose destructor is part of the action in which it goes out of
scope. Every action that makes or copies a file has the outcome in which it
fails, with the early return of `run_use_pipes` or `run_fio` that the code takes
then. A stopped compiler may leave its executable, or a process that makes it
later (`late`), and a solution a process that goes on writing and deleting its files
in Test while later tests are judged (`strays`, `Straggler`). `Terminate` is every
exception of the files of the verbose tests, which nobody catches: an input copied
before under the same number, an output without a name, and any call that fails at
the removal of the directory, a copy or the file of the result. After `Crash` and after
`Terminate`, `Restart` begins the names again with the files as they are.

### LimitRun

The parent's `pc` follows the loop of `limit_run.cpp:141-162`: `waitpid`, the nap of
200 ms, the look at the clock. `Wait` is the end of the loop with the
classification (`Result`), `StopChild` the kill by the clock. The child exits, is
ended by a signal, uses CPU time and grows at any moment between two steps of the
parent; the kernel is the bound `CpuLimit` on what it may use. `answer` is the result
file as `_run` reads it. Times are in milliseconds, and the constants of the code
(200 ms, 30 s, ten times the limit) are the real ones. The child is one process
without children of its own.

### Checker, IntegerToken, DefaultChecker, Checkers

A stream is what is left of its text, the end-of-file flag of the FILE, and its
mode. `Getc` and `Unget` are `getc` and `ungetc` with what makes them hard: the
byte 0xFF looks like EOF and cannot be put back, and the byte 26 counts as an end.
The reads of `testlib.h` are operators that give a token, tell an answer, or quit.
A `Checker` makes any reads of any of the three files in any order (`ReadFrom`)
and quits with any of the six results (`Decide`), a partial one with any points of
`Points`; `Verdict` and `QuitsWith` are `quit()`, `ResultExitCode` the codes of which
the daemon gets eight bits. A number is converted from a C string: `CStr` is a token up
to its first NUL byte, `Handed` what the checker gets of it, and the history variable
`cut` remembers that something was dropped. A file that is missing answers the tests
for its end (`EndTests`) like an empty one, and the checker dies of any other read but
that of a line or a number; `missed` remembers that something else was asked of a file
of the jury's that is not there.
`Top`, one more than the greatest number, is 2^63 in the code; the sum a token is read
into wraps;
whether the test for a negative sum survives the compiler, signed overflow being
undefined, is a choice (`tested`).

`DefaultChecker` is the loop of `check_equal`, one character of both files in a
step. `Checkers` puts the two side by side as `run_test` runs them, under the daemon's
reading of the exit code; which of them a package has is `CheckerOf` of `Judging`.

### Wipe

The tree of the Test directory, walked in depth-first order by `nftw` while a
process of the solution may make entries. `Visit` may meet an entry that `nftw`
reports with a type other than a file's, or a directory that is no longer empty;
both end the walk, as does a failure of `nftw` itself (`WalkFails`), and `Mkdir`
follows in any case and may fail as well. `Return` is a step of its own: the process
uses paths and can fill the new directory between the two, and afterwards. The
history variable `fresh` has what was made since the mkdir.

## 3. What the runs show

| run | instance | shows |
|---|---|---|
| `pool` | 2 check loops, 2 rows, 2 verdicts, both signals, one crash, lost idle sessions | types; `LockIsScoped`; `OrphansOnlyByCrash`; `ReportedIsStored`; the refinement `ImplementsContract` |
| `failing` | 2 check loops, any statement but the update to ST_RUNNING may fail, signals at any time, nesting up to 2 | `ExclusiveJudging`, `HeldIsRunning`, `CaptureIsExclusive`, `VerdictStays`; `TermStops` |
| `recovery` | one check loop and one daemon by hand on the same rows, 2 crashes anywhere, sessions lost anywhere, the update may fail, order "desc" | `EventuallyJudged` |
| `waits` | 5 delays, 5 periods, every start within a second, a signal at any moment | `DelayIsKept`, `SignalEndsWait`; the refinement `ImplementsWait` |
| `acm` | 6 packages, every outcome of both programs, 2 times, one submission judged again and again | types; `AcceptedIsEarned`; `FirstFailureDecides`; `TimeIsMeasured`; `CompileFaultIsExplained`, `NothingIsLeft`, `TestDirIsFresh` |
| `school` | 3 packages, every outcome, crashes anywhere, cleanups that fail | `SchoolResultIsComplete`; the refinement `ImplementsSubmit` |
| `files` | 2 judgings of 2 tests, files or streams, any call failing, one death, compilers that live on, one solution of which a process does | types; `OutputIsOfThisTest`, `ExecutableIsOwn`, `TempIsClean`, `CopiesFit` |
| `limits` | limits of 1 s, 3.5 s and none, with and without a memory limit; naps of up to 400 ms | types; `OkIsTheChilds`, `OveruseIsTimeout`, `ClockIsKept`; `RunEnds` |
| `checkers` | texts of 3 and tokens of 4 characters, tabs and NULs among them, under 3 reads and all results; pairs of texts of 4 for the default checker | `AcceptedIsRead`, `OnlyOutputIsBlamed`, `VerdictArrives`, `OnlyCanonicalIsRead`; `ComparesLines` |
| `wipe` | every tree in 5 places, 2 entries made at any moment | `ZeroIsWiped`, `WipeEnds` |
| `overrun` | a checker may be stopped by the clock or by the output limit | violates `CheckerHasAnswered` |
| `notests` | a package without a tests directory | violates `MissingTestsAreInvalid` |

### Bounds, and why they are enough

* *Daemons.* Two daemons and two rows: the protocol is symmetric in the daemons,
  an interference needs two of them, and a second row lets one daemon finish and
  take another while the first is still busy. The theorems below remove this bound
  for most safety properties. `MaxCrashes` (1 or 2) lets a daemon die and, in
  `recovery`, both die, or one again after its restart. `MaxDepth` (1 or 2) lets
  one release fail and the lock nest.
* *Waits.* A second has 7 milliseconds, a poll 2, and the counter wraps at 4, so
  that delays carry, do not divide a second, and outlast the counter. The proofs
  have no such numbers.
* *Judging.* Two tests are the least for "first failed" and "after it"; the
  packages cover the three ways to name a checker, each convention for exit codes,
  files with the numbers 9999 and -1, two files of one number, and a package that does
  not load. One submission
  judged repeatedly is enough for what one judging may leave to the next, since
  a daemon judges one at a time. `Garbage` is a time that limit_run never
  measures. `acm` has no crashes: `NothingIsLeft` and `TestDirIsFresh` are not
  true with them (`files` has what a crash leaves); `school` has them, and one
  measured time, which its properties do not look at.
* *Files.* Two judgings and one death let every kind of file meet the next
  judging, and the next process. One process of a solution that lives on (`MaxStrays`)
  meets every later moment of both. `MaxNames` (28) is more names than two judgings
  can use, so the bound stops nothing; `MaxJobs` does end the run, which is why
  deadlock is not checked there.
* *limit_run.* CPU times are multiples of a second (`Grain`), enough for below, at
  and over a limit; `MaxCpu` and `MaxClock` bound a run without a time limit, and
  `MaxClock` is beyond every clock limit of the others.
* *Checkers.* With `Top = 128`, 8 bits, a number has up to three figures, so tokens of
  four are one figure too long or negative and as long as a number can be, and the sum of three
  figures can overflow, as with 19 of 64 bits; an int is a smaller range inside,
  the asked range inside that. Three characters are a token, what ends it and what
  follows; `\r` and what it needs after it; a byte that looks like an end with
  something behind; a NUL with something on both sides. `Points` has the 0 of a partial
  result that looks accepted, 256, which is 0 in eight bits, and one that is neither.
  Three reads are two and the one that meets what they left.
  `Bytes` are the characters these texts are made of. `WithoutSelects` compares
  `Without`, which the properties use and the proofs reason about, with `SelectSeq` on
  every text of the run.
* *Wipe.* Two directories within each other and a file in each; two made
  entries are one at each of two moments a directory can be filled, as when it has been
  read and when it has been made again. That a process which never stops making files
  may keep `nftw` walking is outside of `WipeEnds`.

### Fairness

`Bacsd`'s `FairSpec` gives each daemon weak fairness: it is one thread that the
system schedules, every wait of it is bounded (`get_lock` by ten seconds,
`wait_cycle` by its delay, compilers, solutions and checkers by `limit_run`), and
the disjunction of its actions is never disabled while it is alive. Two things
are assumed: that the commands no clock watches (`curl`, `tar`, `rm` and the copy of
the verbose archive) end, and that no package sets its time limit to 0, with which
`limit_run` waits for ever. The server is fair in ending dead sessions.
`AttendedSpec` (`recovery`) also assumes an operator that restarts a daemon that
is down. No other fairness is assumed: a daemon that asks for the lock may be
refused for ever, and no message or signal has to arrive.

`Judging`'s `FairSpec` is the same assumption seen from within: a judging that has
begun goes on, as each command it waits for ends. `WaitCycle` assumes that the
daemon is scheduled, `LimitRun` that the parent is and that SIGKILL takes effect,
and nothing of the child, which may wait for ever. `Wipe` assumes that the walk goes
on; the writing process is bounded by `MaxCreated`, without which nothing would
end it. `Checker` and `RunFiles` have safety properties only.

Deadlock is checked in the runs of `Bacsd` and `Judging`: a stopped daemon can be
restarted, so the system never has to stop. A wait, a run of a program, a checker
and `wipe` do stop.

### Findings

* *A checker that does not answer accepts* (`overrun`). `limit_run` reports every
  program it stopped with exit code 0; `run_test` rejects a checker that is
  RUN_FAILED, RUN_ABNORMAL_EXIT or RUN_TIMEOUT ("Error: checker timed out!",
  `problem.cpp:302`) and takes the 0 of RUN_REALTIMEOUT and RUN_OUTPUT_LIMIT for
  the checker's answer. A checker that sleeps for the 60 seconds of its clock, or
  writes 256 MiB, accepts the solution. `AcceptedIsEarned` holds when
  `CheckerOverruns` is FALSE, which is what `acm` checks.
* *A package without tests accepts* (`notests`). The error branch of `init_tests`
  ("Error: cannot initialize tests!", `problem.cpp:150`) cannot be taken:
  `find_files` answers TRUE when it cannot open the directory.

Met while modelling, and visible in the modules or the properties' exceptions, but
with no run of their own:

* `common.cpp:122` takes an executable of the right name for a success. After a
  restart the names begin again, and one that a stopped compiler left beside a
  source is judged in place of a compile error. `ExecutableIsOwn` excepts it.
* `run.cpp:167` answers RUN_FAILED, a server error, when a solution has deleted its
  own input file (`UnlinkInput`).
* `problem.cpp:74`: two verbose tests of the same number, which two input files may
  have, end the daemon at the second copy. `CopiesFit` excepts it.
* `problem.cpp:250`: the convention "testlib" does not fit the repository's
  `testlib.h`, whose wrong answer is 2 and presentation error 4; "bacs_legacy" does,
  and is what `checkers` checks.
* `testlib.h:1096`: the exit codes of the partial results begin at `PC_BASE_EXIT_CODE`,
  which is 0 (`testlib.h:137`), so `quitf(_pc(0), ...)`, a use that `testlib.h:67`
  offers, ends a checker with the code of `_ok`, and the daemon, which has no verdict
  for partial results, stores ST_ACCEPTED: no points are full points. `_pc(2)` is a
  wrong answer, and so on. `VerdictArrives` is about the other results.
* `testlib.h:1552`, `1564`: `readInteger` and `readLong` convert `token.c_str()`. Of the
  output `5<NUL>x` a checker gets 5, and `quit` does not find the "Extra information in
  the output file" (`testlib.h:1130`), since the token has been taken off the stream.
  `AcceptedIsRead` and `OnlyCanonicalIsRead` say what is true beside this.
* `testlib.h:1642`, `1663`, `1671`: a missing answer file answers `eof`, `seekEof` and
  `eoln` like an empty one, so a checker that asks no more of it than these compares the
  output with nothing, and the solution is blamed. `OnlyOutputIsBlamed` holds as soon as
  anything else is asked of the file (`missed`).
* `run.cpp:144`: the output file of a solution is one name in Test, which a process of an
  earlier solution that `limit_run` did not kill can write to; `OutputIsOfThisTest`
  excepts it, where the output is a file.
* `common.cpp:114`: the executable that a stopped compiler has written is in no
  `CTempFile` yet and stays in Temp; `NothingIsLeft` and `TempIsClean` except it.
* `problem.cpp:73-76`, `100`, `285`: `boost::filesystem` and the stream of the results
  throw when a call fails, which ends the daemon with the submission in hand (`Terminate`).
* `testlib.h:1687`: `eoln()` at a `\r` without a `\n` puts both characters back in
  the wrong order, and `testlib.h:1359`: the byte 0xFF is not put back at all. Both
  are in `Eoln` and `Unget`; the properties hold with them, or leave such texts aside.
* `testlib.h:1174`: when its report cannot be opened `quit()` calls itself, without
  end. The daemon gives the checker a file that it has made itself.
* `checkdef.cpp:40`: a file that cannot be read to its end is a wrong answer, not
  the "check error" of line 113. `DefaultChecker` has it as "BAD"; `ComparesLines`
  is about readable files.
* `submit.cpp:117`: `cleanup` does not ask for the exit code of `wipe`, so what
  `ZeroIsWiped` says of it reaches nobody.
* `bacsd.cpp:37`: a wait may be a second short; `DelayIsKept` states by how much.
* `log.cpp:24`: `add` asks for the console before it writes to the file, against the
  four values of `init_env.sh:90`.

## 4. What is proved

Eight modules hold the proofs. All theorems are about every value of the
constants under the named assumptions of the modules.

`BacsdProofs`, for every number of daemons, rows, verdicts and crashes:

| theorem | hypothesis | says |
|---|---|---|
| `TypeCorrect` | none | the types hold, and no daemon stores a status it has not set |
| `LockScoped` | releases do not fail | `LockIsScoped` |
| `JudgingIsExclusive` | `Protected` | `ExclusiveJudging` |
| `HeldRunning` | `Protected` | `HeldIsRunning` |
| `CaptureExclusive` | `Protected` | `CaptureIsExclusive` |
| `ImplementsJudgingContract` | `Protected` | the daemons implement `JudgingContract` |
| `VerdictsAreFinal` | `Protected` | `VerdictStays` |
| `OrphansByCrash` | `Protected`, `GetsThrough` | `OrphansOnlyByCrash` |
| `ReportedStored` | `Protected`, `GetsThrough` | `ReportedIsStored` |

The hypotheses are conditions on the constants, not on states. `Protected` says
that no session is lost inside `capture_new_submit`, that the update to
ST_RUNNING does not fail, and that all daemons run the check loop. Each part is
needed: drop one and two daemons judge one row (the run `recovery` is the
protocol without them, and shows what is left of it). Crashes, signals, idle
sessions lost, failing selects, stores and releases are all allowed.
`GetsThrough` adds that the load and the store of a submission return no error and
that lost connections are reopened; without it a failed store abandons a row, or
reports what is not stored, by the code's design.

The argument. `ExclusiveJudging` alone is not inductive: from a state in which
two daemons stand before the same update it is lost in one step. The inductive
invariant `CaptureInv` adds what the lock is for: a daemon between select and
update owns the lock (`CapturingOwns`), the row it selected is still pending
(`SelectedIsPending`), the labels and the submission in hand fit (`SidFits`), and
then what is captured is ST_RUNNING and has one holder. `CaptureInvStep` has a step
for every action; the many actions that touch neither the lock nor a row go
through the lemmas `NobodyMoves` and `QuietMove`. The refinement maps a daemon's
update to ST_RUNNING to the contract's `Take`, its store to `Settle` or, when it
fails, to `Abandon`, as a crash with a submission in hand; all else stutters.
`VerdictsAreFinal` follows from the refinement, by a lemma about the contract
alone. `OrphansByCrash` counts: an orphan is a row that is ST_RUNNING and that no
daemon holds; since a row has one holder and is stored before it is let go, no step
but a crash makes an orphan, and a crash makes at most one, whose number is
compared with that of the crashes (`OrphanInv`). `ReportedStored` needs that a
verdict is reported only after its row has it, and that the row is final
(`ReportInv`).

`JudgingProofs`, for every set of packages, submissions and outcomes:

| theorem | hypothesis | says |
|---|---|---|
| `TestsAreInOrder` | none | the tests are the numbered files but for 9999, each once, in ascending order; files of one number are tests of their own |
| `AcceptedEarned` | `CheckerOverruns = FALSE` | `AcceptedIsEarned` |
| `FirstFailureIsDecisive` | none | `FirstFailureDecides` |
| `JudgingRefines` | none | every step is one of `SubmitContract` or a stutter |

`TestsOf` picks the file with a given number of files before it; that there is one for
each number, and one only, is a counting argument (`FewerBelow`, `Ranked`). The
inductive invariant `TestsInv` ties `seen` to the package while the tests run: the
tests seen are the first ones in order, a status of ST_ACCEPTED means that all of
them passed, and under ACM rules any other status is that of the last one seen, whose
number is stored. The final properties are about the end, where `seen` and `TestsOf`
can only be related through what held at each test. The hypothesis of
`AcceptedEarned` is the finding `overrun`.

And about the rest of what a judging leaves, for the same values:

| theorem | hypothesis | says |
|---|---|---|
| `TypeCorrect` | none | the types of `Judging`: no column gets an uninitialized value |
| `TimeMeasured` | none | `TimeIsMeasured` |
| `SchoolResultComplete` | none | `SchoolResultIsComplete` |
| `CompileFaultsExplained` | none | `CompileFaultIsExplained` |
| `NothingLeft` | `~ MayDie`, `VerboseOnce` | `NothingIsLeft` |
| `TestDirFresh` | `~ MayDie`, `Cleans`, `VerboseOnce` | `TestDirIsFresh` |

Each property speaks of the moment of the store, and needs an invariant of the loop
before it: `TimeInv` says whose maximum `time` is of the tests seen so far,
`SchoolInv` that `school` has one entry for each of them and one less after a test
that could not be judged, `InfoInv` where `info` comes from once the status is one
of the compiler's. `FilesInv` says which file may exist at which label and that only
the submission in hand has any; `DirtyInv` where the Test directory must be clean
already. The hypotheses of the last two are about constants: a daemon that dies leaves
its files, and so does one that is ended by two verbose tests of one number, which
`VerboseOnce` says no package has; a clean command that fails, or is not there, leaves
the directory as it is.

`RunFilesProofs`, for every number of tests, names, judgings and crashes:

| theorem | says |
|---|---|
| `TypeCorrect` | the types of `RunFiles` |
| `CopiesDoFit` | `CopiesFit` |
| `OutputOwn` | `OutputIsOfThisTest` |
| `OwnExecutable` | `ExecutableIsOwn` |
| `TempClean` | `TempIsClean` |

`Fresh` is the least free name from the counter on; that it exists, is free and lies
behind every name of the running process is `FreshName`, by the well-ordering of the
numbers, and `NamesInv`. `TInv` adds to the types which names each label has given
out, `OutInv` what the output file of the current test can contain, `ExeInv` that an
executable stands beside no name but that of a source, unless a compiler made it that
had been stopped. `TempInv` says that every file in Temp that no dead process left is
held by one of the variables of the running one (`Held`), so that none is left when
they hold nothing. Crashes, restarts that begin the names anew, stopped compilers
that write late, and the failure of every call are all in the step relation the
proofs go through, and so is the process of an earlier solution that writes in Test;
there is no hypothesis. What a property excepts is what the code does not prevent:
`CopiesFit` says what is left when no call fails in the test, which is what a judging
that died has left and an early return that forgets its output.

`WaitCycleProofs`, for every delay, period, second and start:

| theorem | says |
|---|---|
| `TypeCorrect` | the types of `WaitCycle`; the counter stays below its modulus |
| `WaitsKeepDelay` | `DelayIsKept` |
| `SignalsEndWaits` | `SignalEndsWait` |
| `WaitRefines` | every step is one of `WaitContract` or a stutter |

`WaitInv` says what the deadline is in milliseconds, the lost carry included
(`DeadlineIsSet`), by how much the clock can have passed it at each label
(`RoundIsBounded`), and that no poll has passed since a pending signal came.

`LimitRunProofs`, for all limits, exit codes, starts and naps:

| theorem | says |
|---|---|
| `TypeCorrect` | the types of `LimitRun` |
| `OkIsOfTheChild` | `OkIsTheChilds` |
| `OveruseIsReported` | `OveruseIsTimeout` |
| `ClockKept` | `ClockIsKept` |

`LimitInv` adds to the types how the child's state fits its code and signal
(`ChildFits`), that nothing has been answered before the end (`NothingYet`), from
which of the three ends an answer comes (`Answers`), and where the clock can be at
each label (`InTime`, `OnePoll`).

`CheckerProofs`, for every three files, integer width, range and number of reads:

| theorem | hypothesis | says |
|---|---|---|
| `JuryFaultsAreTheJurys` | none | `OnlyOutputIsBlamed`, under every convention of exit codes |
| `VerdictsArrive` | `Convention = "bacs_legacy"` | `VerdictArrives` |
| `AcceptedAreRead` | none | `AcceptedIsRead`, under every convention of exit codes |
| `LinesAreCompared` | none | `ComparesLines` |
| `CanonicalNumbersAreRead` | none | `OnlyCanonicalIsRead` |

`JuryFaultsAreTheJurys` is about a fault that a read of the jury's files finds, and about
a missing one of which more is asked than whether it has ended. `VerdictsArrive` is about
every result but the partial ones, `AcceptedAreRead` about outputs of which no number was
cut at a NUL: what is left out is the findings above.

`quit` tells by the mode of a stream whose fault a failed read is, so the proof shows
that no read changes the mode: one lemma for each read of `testlib.h`, `Sound`, from
`Getc` and `Unget` up. `EndInv` lists how a checker can have ended by the stream it
blamed. The hypothesis of `VerdictsArrive` is the convention of packages with a
`testlib.h` checker; a checker with the exit codes of testlib.h under another
convention is a fault of the package.

`AcceptedAreRead` needs to know of a running checker that what it was handed and what
the stream still holds make up the output (`Reading`). That is not true of the
characters as they are: `eoln()` puts a `\r` and the character after it back in the
wrong order, and that pair may be half read, or put back again, when the checker
quits. `Left` is what is true: what comes is a rest of the file, before which there may
stand a `\r`, and before that the last character that was read. No read leaves that
form and hands out anything but the visible characters it passes (`Moves`,
`ReadPasses`, with a lemma for each read), and when what comes has ended, so has the
file, or it goes on after a byte that counts as its end (`LeftEnds`).

`LinesAreCompared` goes by the turns of `check_equal`: what has been read of the two
files differs in nothing but carriage returns, and the rest is still to be compared
(`Meet`, `CompareInv`). A turn takes one character of both and keeps that
(`BothGoOn`); at the end the rests decide as the whole texts do (`Compared`), since
what was cut off at the end is either a line end of both, or none of either.

`CanonicalNumbersAreRead` has two halves. What a token means does not depend on the
stream: `NumeralsAreRead` says that `stringToLongLong` reads the numeral of every
number that fits, and as that number, and `ReadIsDecimal` that whatever it reads is
the numeral of the value it gives, whether or not the compiler keeps the test of a
negative sum. Before a checker's first read the whole output is still to come
(`FirstInv`), and the read finds the word the output begins with, or the end
(`FirstNumber`, from `SkipBlanks` and `SeekEof` up to `ReadInRange`).

The assumptions on the constants are that there is a greatest long long
(`IntegerTokenAssumption`), that an int and the range asked for lie within one and the
files are texts of bytes (`CheckerAssumption`, `TextsAssumption`), and that no byte is
the EOF of `getc`, which is an int outside of them, nor a text the sign of a missing
file (`CharsAssumption`).

`TextProofs` has what both need of texts. `Without` finds the n-th character that
counts by its rank and not by recursion, so that its length and its characters follow
from counting; the lemma `WithoutConcat` says that it can be taken piece by piece. Where
a proof goes on from a text to a longer one it takes the shortest text for which the claim
fails (`LeastNumber`) and shows that there is none, in place of the library's
induction theorems, which take an operator.

The numerals are there, too, in whatever number of figures `Top` has. `FiguredIs` gives
the recursion that writes a number its meaning, and from there on a number is its
tenth with one more figure: so two numbers are not written alike (`NumeralsApart`), a
greater one has no fewer figures (`NumeralsGrow`), any figures without a zero in front
are a number's (`NumeralOf`), and the wrapping sum of a numeral that fits is the number
(`SumOfNumeral`). A token with as many figures as the longest number, whose sum may
have wrapped, is compared with its value written out (`Equals`), so that nothing needs
to be known of the sum but that it is a long long (`SumsFit`).

`WipeProofs`, for every tree of places and every number of files made meanwhile:
`WipedWhenZero` says `ZeroIsWiped`, for a process that may make files at every moment,
also between the mkdir and the return. Whatever is in the directory is reached from it
(`Closed`), so that nothing exists, and nothing can be made, once the directory itself
is gone (`NothingWithoutRoot`, from `TreeAssumption`: directories form a tree).

Only model-checked:

* the liveness properties `TermStops`, `EventuallyJudged`, `RunEnds`, `WipeEnds`, and
  the fairness parts of `ImplementsSubmit` and `ImplementsWait`, whose safety parts
  are `JudgingRefines` and `WaitRefines`: ENABLED and liveness are out of the prover's
  reach;
* the two properties that are findings, which do not hold.

## 5. Not modelled

* *Log.* `add` writes and flushes each entry; nothing reads it back, and no part of
  the judging depends on it.
* *Configuration and utilities.* Values read once at the start, and conversions of
  strings. The values that matter are constants of the modules.
* *Installation.* A script a person runs once.
* *java_run, java_compile, py3_compile, the commands of the languages.* They build a
  command line and replace themselves by it; what a compiler can do to the daemon
  is in `Compile`, `CompileFails` and `RunFiles`.
* *Of limit_run*: the rewriting of Java's command line, the redirections, and the
  limits on stack and address space, which act inside the child.
* *Of testlib.h*: validators with the strict mode, patterns, random numbers and
  `shuffle`, which run while a problem is prepared and not while a submission is
  judged; floating point, which TLC does not have; the text of reports. The older
  Pascal library, which is the same by another author.
* *Text*: logging, formatting of queries, escaping, parsing of ini files.
* *The repository of packages, MySQL, curl, tar*: external, modelled by what the code
  sees of them.
* *`max_memory_used`*, which moves as the time does; the contents of the verbose
  archive.
* *One module of daemons and judgings.* The product of both is beyond TLC already at
  two daemons; the contracts in section 2 take its place.

## 6. Plan

Every invariant and every action property the runs check is a theorem. What would come
next:

1. the hazards no property covers: a store or a load of a submission that fails, which
   leaves the row ST_RUNNING or the report ahead of it (`submit.cpp:46`, `23`), by the
   code's design; a SIGINT that `system()` throws away (`common.hpp:159`); a daemon
   started by hand on a row in work (`bacsd.cpp:117`); whose output column `info` has
   (`problem.cpp:287`), once it is settled which test's it should be; and a package
   left behind by a daemon that died (`problem.cpp:20`), which depends on the
   repository's `extract`;
2. the part of `testlib.h` that validates tests, with the strict mode of its reads.
