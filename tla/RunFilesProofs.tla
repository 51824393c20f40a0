--------------------------- MODULE RunFilesProofs ---------------------------
(***************************************************************************)
(* Theorems about RunFiles for every number of tests, judgings, deaths and *)
(* names, and every problem: the types; whose output the checker is given; *)
(* whose executable a submission is run with; what is left in Temp; and    *)
(* when a copy of a verbose test ends the daemon.                          *)
(***************************************************************************)
EXTENDS RunFiles, WellFoundedInduction, TLAPS

-----------------------------------------------------------------------------
(* The name gen_unique_filename finds *)

(* A set of natural numbers that is not empty has a least element.         *)
LEMMA LeastNat ==
  ASSUME NEW T \in SUBSET Nat, T # {}
  PROVE  \E x \in T : \A y \in T : x <= y
<1> DEFINE Less == OpToRel(<, Nat)
<1>1. \A x, y \in Nat : <<y, x>> \in Less <=> y < x
  BY DEF OpToRel
<1>2. IsWellFoundedOn(Less, Nat)
  BY NatLessThanWellFounded, Zenon
<1> HIDE DEF Less
<1>3. PICK x \in T : \A y \in T : ~ (<<y, x>> \in Less)
  BY <1>2, WFMin, Zenon
<1>4. ASSUME NEW t \in T PROVE x <= t
  <2>1. x \in Nat /\ t \in Nat
    OBVIOUS
  <2>2. ~ (<<t, x>> \in Less)
    BY <1>3
  <2>3. ~ (t < x)
    BY <1>1, <2>1, <2>2, Zenon
  <2> QED BY <2>1, <2>3
<1> QED BY <1>4

(* A name that is found is not behind the counter, and not in use.         *)
LEMMA FreshName ==
  ASSUME NEW from \in Nat
  PROVE  /\ Fresh(from) \in 0 .. MaxNames
         /\ Fresh(from) \in Names => Fresh(from) >= from /\ tmp[Fresh(from)] = Absent
<1> DEFINE Free == {n \in Names : n >= from /\ tmp[n] = Absent} \cup {MaxNames}
<1>1. MaxNames \in Nat /\ Free \in SUBSET Nat /\ Free # {}
  BY RunFilesAssumption DEF Names
<1>2. \E x \in Free : \A y \in Free : x <= y
  BY <1>1, LeastNat
<1>3. Min(Free) \in Free
  BY <1>2 DEF Min
<1>4. Fresh(from) \in Free
  BY <1>3 DEF Fresh
<1> QED BY <1>1, <1>4 DEF Names

(* The two names of run_use_pipes: the second is found behind the first.   *)
LEMMA FreshPair ==
  ASSUME NEW from \in Nat, Fresh(Fresh(from) + 1) \in Names
  PROVE  /\ Fresh(from) \in Names /\ Fresh(from) >= from /\ tmp[Fresh(from)] = Absent
         /\ Fresh(Fresh(from) + 1) > Fresh(from)
         /\ tmp[Fresh(Fresh(from) + 1)] = Absent
<1>1. MaxNames \in Nat
  BY RunFilesAssumption
<1>2. Fresh(from) \in 0 .. MaxNames
  BY FreshName
<1>3. Fresh(from) + 1 \in Nat
  BY <1>1, <1>2
<1>4. Fresh(Fresh(from) + 1) >= Fresh(from) + 1 /\ tmp[Fresh(Fresh(from) + 1)] = Absent
  BY <1>3, FreshName
<1>5. Fresh(from) \in Names
  BY <1>1, <1>2, <1>4 DEF Names
<1> QED BY <1>1, <1>2, <1>4, <1>5, FreshName DEF Names

-----------------------------------------------------------------------------
(* Types *)

InTest == {"input", "output", "solution", "fetch", "unlink", "look", "check", "checking",
           "end_test"}
Compiled == InTest \cup {"init", "tests", "end_job"}
WithSource == Compiled \cup {"compile", "compiling", "not_compiled"}

(* What is set where the daemon is.                                        *)
Places ==
  /\ pc \notin {"idle", "dead", "terminated"} => job \in 1 .. MaxJobs
  /\ pc \in WithSource => src \in Names
  /\ pc \in InTest => i \in 1 .. Tests
  /\ pc \in {"solution", "fetch", "unlink", "check", "checking"} => tfOut \in Names
  /\ pc = "look" /\ answer = "RUN_OK" => tfOut \in Names

TInv == TypeOK /\ Places

LEMMA ContentsAre ==
  /\ Absent \in Contents /\ Empty \in Contents /\ Absent # Empty
  /\ \A j \in 1 .. MaxJobs, t \in 0 .. Tests : <<j, t>> \in Contents /\ <<j, t>> # Absent
BY DEF Contents, Absent, Empty

LEMMA ErasedIs ==
  ASSUME NEW f \in [Names -> Contents], NEW ns
  PROVE  /\ Erased(f, ns) \in [Names -> Contents]
         /\ \A n \in Names : Erased(f, ns)[n] = IF n \in ns THEN Absent ELSE f[n]
BY ContentsAre DEF Erased

LEMMA BoundsAre == Tests \in Nat /\ MaxNames \in Nat /\ MaxJobs \in Nat /\ MaxCrashes \in Nat
BY RunFilesAssumption

(* What run_use_pipes does to the files when it opens its two.             *)
LEMMA PipesOpened ==
  ASSUME TypeOK, NEW at, NEW to, NEW failed, OpenPipes(at, to, failed)
  PROVE  /\ pc = at
         /\ UNCHANGED <<problem, exe, testDir, copies, late, strays, job, i, src, tfIn, tfOut, got,
                        stopped, orphans, crashes>>
         /\ k' \in 0 .. MaxNames /\ k' >= k
         /\ \/ /\ pc' = to /\ UNCHANGED <<answer, fault>>
               /\ \E a, b \in Names :
                    /\ a # b /\ a >= k /\ b >= k /\ tmp[a] = Absent /\ tmp[b] = Absent
                    /\ a < k' /\ b < k'
                    /\ tmp' = [tmp EXCEPT ![a] = Empty, ![b] = Empty]
                    /\ pipes' = {a, b}
            \/ /\ pc' = failed /\ answer' = "RUN_FAILED" /\ fault' = TRUE
               /\ UNCHANGED <<tmp, pipes>>
<1> DEFINE a == Fresh(k)
           b == Fresh(a + 1)
<1>1. k \in Nat /\ k \in 0 .. MaxNames /\ MaxNames \in Nat
  BY BoundsAre DEF TypeOK
<1>2. b \in Names
  BY DEF OpenPipes
<1>3. a \in Names /\ a >= k /\ tmp[a] = Absent /\ b > a /\ tmp[b] = Absent
  BY <1>1, <1>2, FreshPair
<1>4. a + 1 \in 0 .. MaxNames /\ b + 1 \in 0 .. MaxNames /\ a + 1 > k /\ b + 1 > a + 1
      /\ a # b /\ b >= k /\ a < b + 1
  BY <1>1, <1>2, <1>3 DEF Names
<1>5. \/ /\ Goto(at, to)
         /\ tmp' = [tmp EXCEPT ![a] = Empty, ![b] = Empty]
         /\ pipes' = {a, b} /\ k' = b + 1
         /\ UNCHANGED <<answer, fault>>
      \/ /\ Goto(at, failed)
         /\ k' \in {a + 1, b + 1}
         /\ answer' = "RUN_FAILED" /\ fault' = TRUE
         /\ UNCHANGED <<tmp, pipes>>
  BY DEF OpenPipes
<1>6. UNCHANGED <<problem, exe, testDir, copies, late, strays, job, i, src, tfIn, tfOut, got,
                  stopped, orphans, crashes>>
  BY DEF OpenPipes
<1> HIDE DEF a, b
<1>7. pc = at /\ k' \in 0 .. MaxNames /\ k' >= k
  BY <1>1, <1>3, <1>4, <1>5 DEF Goto, Names
<1>8. CASE Goto(at, to) /\ tmp' = [tmp EXCEPT ![a] = Empty, ![b] = Empty]
           /\ pipes' = {a, b} /\ k' = b + 1 /\ UNCHANGED <<answer, fault>>
  <2>1. b < k' /\ a < k'
    BY <1>1, <1>2, <1>3, <1>4, <1>8 DEF Names
  <2> QED BY <1>2, <1>3, <1>4, <1>6, <1>7, <1>8, <2>1 DEF Goto
<1> QED BY <1>5, <1>6, <1>7, <1>8 DEF Goto

LEMMA OpenPipesTypes ==
  ASSUME TInv, NEW at, NEW to, NEW failed, OpenPipes(at, to, failed),
         <<at, to, failed>> \in {<<"compile", "compiling", "not_compiled">>,
                                 <<"check", "checking", "end_test">>,
                                 <<"clean", "cleaning", "erase">>}
  PROVE  TInv'
<1>1. /\ pc = at /\ pc' \in {to, failed}
      /\ UNCHANGED <<problem, exe, testDir, copies, late, strays, job, i, src, tfIn, tfOut, got,
                     stopped, orphans, crashes>>
      /\ k' \in 0 .. MaxNames
  BY PipesOpened DEF TInv
<1>2. /\ tmp' \in [Names -> Contents] /\ pipes' \subseteq Names
      /\ answer' \in {answer, "RUN_FAILED"} /\ fault' \in BOOLEAN
  BY PipesOpened, ContentsAre DEF TInv, TypeOK
<1>3. TypeOK'
  BY <1>1, <1>2 DEF TInv, TypeOK, Labels
<1> QED BY <1>1, <1>3 DEF TInv, Places, InTest, Compiled, WithSource

(* A step of run_fio: what it may change, and what it must be afterwards.  *)
LEMMA FioTypes ==
  ASSUME TInv, pc \in InTest, pc' \in InTest,
         UNCHANGED <<problem, exe, copies, late, job, i, src, pipes, got, stopped, orphans,
                     crashes>>,
         strays' \subseteq (1 .. MaxJobs) \X (1 .. Tests),
         tmp' \in [Names -> Contents], testDir' \in [{"in", "out"} -> Contents],
         k' \in 0 .. MaxNames, tfIn' \in Names \cup {NoName}, tfOut' \in Names \cup {NoName},
         answer' \in {"RUN_OK", "RUN_FAILED", "other"}, fault' \in BOOLEAN,
         pc' \in {"solution", "fetch", "unlink", "check", "checking"} => tfOut' \in Names,
         pc' = "look" /\ answer' = "RUN_OK" => tfOut' \in Names
  PROVE  TInv'
<1>1. TypeOK'
  BY DEF TInv, TypeOK, InTest, Labels
<1>2. Places'
  BY DEF TInv, Places, InTest, Compiled, WithSource
<1> QED BY <1>1, <1>2 DEF TInv

LEMMA TInvStep == TInv /\ [Next]_vars => TInv'
<1> SUFFICES ASSUME TInv, [Next]_vars PROVE TInv'
  OBVIOUS
<1>0. TypeOK /\ Places /\ k \in Nat
  BY BoundsAre DEF TInv, TypeOK
<1>a. /\ tmp \in [Names -> Contents] /\ testDir \in [{"in", "out"} -> Contents]
      /\ exe \in [Names -> Contents] /\ {tfIn, tfOut} \subseteq Names \cup {NoName}
      /\ answer \in {"RUN_OK", "RUN_FAILED", "other"} /\ fault \in BOOLEAN
      /\ i \in 1 .. Tests + 1 /\ k \in 0 .. MaxNames
      /\ strays \subseteq (1 .. MaxJobs) \X (1 .. Tests)
  BY <1>0 DEF TypeOK
<1>b. pc \in InTest => <<job, i>> \in Contents
  BY <1>0, ContentsAre, BoundsAre DEF Places, InTest
<1>c. Fresh(k) \in Names => Fresh(k) + 1 \in 0 .. MaxNames
  BY BoundsAre DEF Names
<1>9. CASE PrepareInput
  <2> DEFINE n == Fresh(k)
  <2>1. CASE ~ problem.input
    <3>1. pc = "input" /\ pc' = "output"
          /\ UNCHANGED <<problem, exe, copies, late, strays, job, i, src, pipes, got, stopped,
                         orphans, crashes, tmp, testDir, k, tfIn, tfOut, answer, fault>>
      BY <1>9, <2>1 DEF PrepareInput
    <3> QED BY <1>0, <1>a, <3>1, FioTypes DEF TInv, InTest
  <2>2. CASE problem.input
    <3>1. /\ pc = "input" /\ n \in Names /\ k' = n + 1
          /\ UNCHANGED <<problem, exe, copies, late, strays, job, i, src, tfOut, pipes, got, stopped,
                         orphans, crashes>>
          /\ \/ /\ pc' = "output"
                /\ tfIn' = n /\ tmp' = [tmp EXCEPT ![n] = Empty]
                /\ testDir' = [testDir EXCEPT !["in"] = <<job, i>>]
                /\ UNCHANGED <<answer, fault>>
             \/ /\ fault' = TRUE /\ pc' = "look" /\ answer' = "RUN_FAILED"
                /\ tmp' = Erased(tmp, {}) /\ UNCHANGED tfIn
                /\ testDir' \in {testDir, [testDir EXCEPT !["in"] = <<job, i>>]}
      BY <1>9, <2>2 DEF PrepareInput, FioFails
    <3>2. tmp' \in [Names -> Contents]
      BY <1>a, <3>1, ErasedIs, ContentsAre
    <3>3. testDir' \in [{"in", "out"} -> Contents]
      BY <1>a, <1>b, <3>1 DEF InTest
    <3> QED BY <1>0, <1>a, <1>c, <3>1, <3>2, <3>3, FioTypes DEF TInv, InTest
  <2> QED BY <2>1, <2>2
<1>10. CASE PrepareOutput
  <2> DEFINE n == Fresh(k)
  <2>1. /\ pc = "output" /\ n \in Names /\ k' = n + 1
        /\ UNCHANGED <<problem, exe, copies, late, strays, job, i, src, tfIn, pipes, got, stopped,
                       orphans, crashes>>
        /\ \/ /\ pc' = "solution"
              /\ tfOut' = n /\ tmp' = [tmp EXCEPT ![n] = Empty]
              /\ UNCHANGED <<answer, fault>>
           \/ /\ fault' = TRUE /\ pc' = "look" /\ answer' = "RUN_FAILED"
              /\ tmp' = Erased(tmp, {tfIn}) /\ UNCHANGED tfOut
        /\ testDir' \in {testDir, [testDir EXCEPT !["out"] = Empty]}
    BY <1>10 DEF PrepareOutput, FioFails
  <2>2. tmp' \in [Names -> Contents]
    BY <1>a, <2>1, ErasedIs, ContentsAre
  <2>3. testDir' \in [{"in", "out"} -> Contents]
    BY <1>a, <2>1, ContentsAre
  <2> QED BY <1>0, <1>a, <1>c, <2>1, <2>2, <2>3, FioTypes DEF TInv, InTest
<1>11. CASE Solution
  <2>1. /\ pc = "solution" /\ pc' = "fetch"
        /\ UNCHANGED <<problem, exe, copies, late, k, job, i, src, tfIn, tfOut, pipes, got,
                       stopped, orphans, crashes>>
        /\ strays' \in {strays, strays \cup {<<job, i>>}}
        /\ answer' \in {"RUN_OK", "RUN_FAILED", "other"} /\ fault' \in {fault, TRUE}
        /\ tmp' \in {tmp, [tmp EXCEPT ![tfOut] = <<job, i>>]}
        /\ \/ testDir' = testDir
           \/ testDir' \in [in : {testDir["in"]} \cup (IF problem.input THEN {Absent} ELSE {}),
                            out : {testDir["out"]} \cup
                                  (IF problem.output THEN {Absent, <<job, i>>} ELSE {})]
    BY <1>11 DEF Solution, Goto
  <2>2. tmp' \in [Names -> Contents]
    BY <1>a, <1>b, <2>1 DEF InTest
  <2>3. testDir' \in [{"in", "out"} -> Contents]
    <3>1. testDir' \in [in : Contents, out : Contents] \/ testDir' = testDir
      BY <1>a, <1>b, <2>1, ContentsAre DEF InTest
    <3> QED BY <1>a, <3>1
  <2>4. strays' \subseteq (1 .. MaxJobs) \X (1 .. Tests)
    BY <1>0, <1>a, <2>1 DEF Places, InTest, TypeOK
  <2> QED BY <1>0, <1>a, <2>1, <2>2, <2>3, <2>4, FioTypes DEF TInv, InTest, Places
<1>12. CASE FetchOutput
  <2>1. /\ pc = "fetch" /\ pc' \in {"unlink", "look"}
        /\ UNCHANGED <<problem, exe, copies, late, strays, k, job, i, src, tfIn, tfOut, pipes, got,
                       stopped, orphans, crashes>>
        /\ answer' \in {answer, "RUN_FAILED"} /\ fault' \in {fault, TRUE}
        /\ pc' = "look" => answer' = "RUN_FAILED"
        /\ tmp' \in {tmp, [tmp EXCEPT ![tfOut] = testDir["out"]],
                     [tmp EXCEPT ![tfOut] = Empty], Erased(tmp, {tfIn})}
        /\ testDir' \in {testDir, [testDir EXCEPT !["out"] = Absent]}
    BY <1>12 DEF FetchOutput, FioFails
  <2>2. tmp' \in [Names -> Contents]
    BY <1>a, <2>1, ErasedIs, ContentsAre
  <2>3. testDir' \in [{"in", "out"} -> Contents]
    BY <1>a, <2>1, ContentsAre
  <2> QED BY <1>0, <1>a, <2>1, <2>2, <2>3, FioTypes DEF TInv, InTest, Places
<1>13. CASE UnlinkInput
  <2>1. /\ pc = "unlink" /\ pc' = "look"
        /\ UNCHANGED <<problem, exe, copies, late, strays, k, job, i, src, tfIn, tfOut, pipes, got,
                       stopped, orphans, crashes>>
        /\ answer' \in {answer, "RUN_FAILED"} /\ fault' \in {fault, TRUE}
        /\ tmp' = Erased(tmp, {tfIn})
        /\ testDir' \in {testDir, [testDir EXCEPT !["in"] = Absent]}
    BY <1>13 DEF UnlinkInput, Goto
  <2>2. tmp' \in [Names -> Contents]
    BY <1>a, <2>1, ErasedIs
  <2>3. testDir' \in [{"in", "out"} -> Contents]
    BY <1>a, <2>1, ContentsAre
  <2> QED BY <1>0, <1>a, <2>1, <2>2, <2>3, FioTypes DEF TInv, InTest, Places
<1>16. CASE CheckerEnds
  <2>1. /\ pc = "checking" /\ pc' = "end_test" /\ pipes' = {}
        /\ UNCHANGED <<problem, exe, testDir, copies, late, strays, k, job, i, src, tfIn, tfOut,
                       stopped, orphans, crashes>>
        /\ answer' \in {answer, "RUN_FAILED"} /\ fault' \in {fault, TRUE}
    BY <1>16 DEF CheckerEnds, Goto, ClosePipes
  <2>2. tmp' \in [Names -> Contents]
    BY <1>16, <1>a, ErasedIs DEF CheckerEnds, ClosePipes
  <2>3. got' \in Contents
    BY <1>16, <1>0, <1>a, <2>1 DEF CheckerEnds, Places
  <2>4. TypeOK'
    BY <1>0, <1>a, <2>1, <2>2, <2>3 DEF TypeOK, Labels
  <2> QED BY <1>0, <2>1, <2>4 DEF TInv, Places, InTest, Compiled, WithSource
<1> USE <1>0, ContentsAre, BoundsAre
        DEF TInv, TypeOK, Places, Labels, InTest, Compiled, WithSource, Goto, hist
<1>1. CASE CreateSource
  <2> DEFINE n == Fresh(k)
  <2>1. /\ n \in Names /\ k' = n + 1 /\ job' = job + 1 /\ job < MaxJobs
        /\ i' = 1 /\ fault' = FALSE /\ got' = Absent
        /\ UNCHANGED <<problem, exe, testDir, copies, late, strays, tfIn, tfOut, pipes, answer,
                       stopped, orphans, crashes>>
        /\ \/ pc' = "compile" /\ src' = n /\ tmp' = [tmp EXCEPT ![n] = <<job', 0>>]
           \/ pc' = "clean" /\ UNCHANGED <<src, tmp>>
    BY <1>1 DEF CreateSource
  <2>2. k' \in 0 .. MaxNames /\ job' \in 1 .. MaxJobs /\ <<job', 0>> \in Contents
    BY <2>1 DEF Names
  <2> HIDE DEF n
  <2>3. tmp' \in [Names -> Contents] /\ src' \in Names \cup {NoName}
        /\ (pc' = "compile" => src' \in Names)
    BY <2>1, <2>2
  <2>4. pc' \in {"compile", "clean"} /\ job' \in 0 .. MaxJobs /\ i' \in 1 .. Tests + 1
    BY <2>1, <2>2
  <2>5. TypeOK'
    BY <2>1, <2>2, <2>3, <2>4
  <2> QED BY <2>1, <2>2, <2>3, <2>4, <2>5
<1>2. CASE OpenCompiler \/ OpenChecker \/ OpenClean
  BY <1>2, OpenPipesTypes DEF OpenCompiler, OpenChecker, OpenClean
<1>3. CASE CompilerEnds
  <2>1. tmp' \in [Names -> Contents] /\ pipes' = {}
    BY <1>3, ErasedIs DEF CompilerEnds, ClosePipes
  <2>2. exe' \in [Names -> Contents]
    BY <1>3 DEF CompilerEnds
  <2> QED BY <1>3, <2>1, <2>2 DEF CompilerEnds
<1>4. CASE CompilerStopped
  <2>1. tmp' \in [Names -> Contents] /\ pipes' = {}
    BY <1>4, ErasedIs DEF CompilerStopped, ClosePipes
  <2>2. exe' \in [Names -> Contents] /\ late' \subseteq Names \X (1 .. MaxJobs)
    BY <1>4 DEF CompilerStopped
  <2> QED BY <1>4, <2>1, <2>2 DEF CompilerStopped
<1>5. CASE LateCompiler
  <2>1. PICK c \in late : late' = late \ {c} /\ exe' = [exe EXCEPT ![c[1]] = <<c[2], 0>>]
    BY <1>5 DEF LateCompiler
  <2>2. c[1] \in Names /\ c[2] \in 1 .. MaxJobs
    OBVIOUS
  <2>3. exe' \in [Names -> Contents]
    BY <2>1, <2>2
  <2> QED BY <1>5, <2>1, <2>3 DEF LateCompiler, local
<1>6. CASE NotCompiled
  <2>1. tmp' \in [Names -> Contents]
    BY <1>6, ErasedIs DEF NotCompiled
  <2> QED BY <1>6, <2>1 DEF NotCompiled, local
<1>7. CASE InitTests \/ TestsDone
  BY <1>7 DEF InitTests, TestsDone, local
<1>8. CASE StartTest
  <2>1. i \in 1 .. Tests /\ copies' = copies \cup (problem.verbose \cap {problem.number[i]})
    BY <1>8 DEF StartTest
  <2>2. copies' \subseteq {problem.number[t] : t \in 1 .. Tests}
    BY <2>1
  <2>3. /\ pc = "tests" /\ pc' = "input" /\ tfIn' = NoName /\ tfOut' = NoName
        /\ fault' = FALSE /\ got' = Absent
        /\ UNCHANGED <<problem, tmp, exe, testDir, late, strays, k, job, i, src, pipes, answer,
                       stopped, orphans, crashes>>
    BY <1>8 DEF StartTest
  <2> QED BY <2>1, <2>2, <2>3
<1>14. CASE LookAtAnswer \/ NoClean
  BY <1>14 DEF LookAtAnswer, NoClean, disk, local
<1>15. CASE Terminate
  <2>1. pc' = "terminated" /\ pc \in {"init", "tests", "look", "end_test"}
    BY <1>15 DEF Terminate
  <2>2. UNCHANGED <<problem, tmp, exe, testDir, late, strays, k, job, i, src, tfIn, tfOut,
                    pipes, answer, got, stopped, crashes>>
    BY <1>15 DEF Terminate, local
  <2>3. fault' \in BOOLEAN
    <3>1. \/ fault' = TRUE \/ fault' = (problem.number[i] \notin copies)
          \/ fault' = (fault \/ tfOut # NoName)
      BY <1>15, Zenon DEF Terminate
    <3> QED BY <3>1
  <2>4. copies' \subseteq {problem.number[t] : t \in 1 .. Tests}
    <3>1. copies' = copies \/ (i <= Tests /\ copies' = copies \cup {problem.number[i]})
      BY <1>15 DEF Terminate
    <3>2. i \in 1 .. Tests + 1 /\ copies \subseteq {problem.number[t] : t \in 1 .. Tests}
      BY <1>a
    <3>3. i <= Tests => i \in 1 .. Tests
      BY <3>2
    <3> QED BY <3>1, <3>2, <3>3
  <2>5. orphans' \subseteq Names
    <3>1. orphans' = orphans \cup {n \in Names : tmp[n] # Absent \/ exe[n] # Absent}
      BY <1>15 DEF Terminate
    <3> QED BY <1>a, <3>1
  <2> QED BY <2>1, <2>2, <2>3, <2>4, <2>5
<1>24. CASE Straggler
  <2>1. PICK s \in strays, f \in {"in", "out"} :
          testDir' \in {[testDir EXCEPT ![f] = s], [testDir EXCEPT ![f] = Absent]}
    BY <1>24 DEF Straggler
  <2>2. s \in Contents
    <3>1. s \in (1 .. MaxJobs) \X (1 .. Tests)
      BY <1>a
    <3>2. (1 .. MaxJobs) \X (1 .. Tests) \subseteq (1 .. MaxJobs) \X (0 .. Tests)
      BY BoundsAre
    <3> QED BY <3>1, <3>2, Zenon DEF Contents
  <2>3. testDir' \in [{"in", "out"} -> Contents]
    BY <1>a, <2>1, <2>2, ContentsAre
  <2> QED BY <1>24, <2>3 DEF Straggler, local
<1>17. CASE EndTest
  <2>1. tmp' \in [Names -> Contents]
    BY <1>17, <1>a, ErasedIs DEF EndTest
  <2>2. /\ pc = "end_test" /\ pc' \in {"tests", "end_job"}
        /\ i' \in {i, i + 1} /\ copies' \in {copies, {}}
        /\ UNCHANGED <<problem, exe, testDir, late, strays, k, job, src, tfIn, tfOut, pipes,
                       answer, got, fault, stopped, orphans, crashes>>
    BY <1>17 DEF EndTest
  <2>3. i' \in 1 .. Tests + 1
    BY <2>2
  <2> QED BY <2>1, <2>2, <2>3
<1>18. CASE EraseExecutable
  BY <1>18, ErasedIs DEF EraseExecutable, local
<1>19. CASE CleanEnds
  BY <1>19, ErasedIs DEF CleanEnds, ClosePipes
<1>20. CASE EraseSource
  BY <1>20, ErasedIs DEF EraseSource
<1>21. CASE Crash
  BY <1>21 DEF Crash, disk, local
<1>22. CASE Restart
  BY <1>22 DEF Restart, disk
<1>23. CASE UNCHANGED vars
  BY <1>23 DEF vars, disk, local
<1> QED
  BY <1>1, <1>2, <1>3, <1>4, <1>5, <1>6, <1>7, <1>8, <1>9, <1>10, <1>11, <1>12, <1>13,
     <1>14, <1>15, <1>16, <1>17, <1>18, <1>19, <1>20, <1>21, <1>22, <1>23, <1>24 DEF Next

LEMMA TInvAlways == Spec => []TInv
<1>1. Init => TInv
  <2> SUFFICES ASSUME Init PROVE TInv
    OBVIOUS
  <2>1. TypeOK
    <3>1. tmp \in [Names -> Contents] /\ exe = tmp /\ got \in Contents
      BY ContentsAre DEF Init
    <3>2. testDir \in [{"in", "out"} -> Contents]
      BY ContentsAre DEF Init
    <3>3. /\ k \in 0 .. MaxNames /\ i \in 1 .. Tests + 1 /\ job \in 0 .. MaxJobs
          /\ crashes \in 0 .. MaxCrashes
      BY RunFilesAssumption DEF Init
    <3> QED BY <3>1, <3>2, <3>3 DEF Init, TypeOK, Labels
  <2> QED BY <2>1 DEF Init, TInv, Places, InTest, Compiled, WithSource
<1> QED BY <1>1, TInvStep, PTL DEF Spec

(* The variables keep their types, whatever calls fail and whenever the    *)
(* daemon dies: no file is made under a name nobody has found, no test is  *)
(* run beyond the last, and the checker is given a file that has a name.   *)
THEOREM TypeCorrect == Spec => []TypeOK
<1>1. TInv => TypeOK
  BY DEF TInv
<1> QED BY <1>1, TInvAlways, PTL

-----------------------------------------------------------------------------
(* The copies of verbose tests *)

(* The copies made so far are those of the tests begun so far, and an      *)
(* output that has no name has none because a call has failed.             *)
CopyInv ==
  /\ pc \in {"compile", "compiling", "init"} => i = 1
  /\ pc = "tests" => copies \subseteq {problem.number[t] : t \in 1 .. i - 1}
  /\ pc \in InTest => copies \subseteq {problem.number[t] : t \in 1 .. i}
  /\ pc = "look" /\ tfOut = NoName => fault
  /\ CopiesFit

LEMMA CopyInvStep == TInv /\ CopyInv /\ [Next]_vars => CopyInv'
<1> SUFFICES ASSUME TInv, CopyInv, [Next]_vars PROVE CopyInv'
  OBVIOUS
<1>0. i \in 1 .. Tests + 1 /\ Tests \in Nat
  BY BoundsAre DEF TInv, TypeOK
<1> USE <1>0 DEF CopyInv, CopiesFit, InTest, Goto
<1>1. CASE CreateSource
  BY <1>1 DEF CreateSource
<1>2. CASE OpenCompiler \/ OpenChecker \/ OpenClean
  <2>1. /\ UNCHANGED <<problem, copies, i, tfOut>>
        /\ \/ pc = "compile" /\ pc' \in {"compiling", "not_compiled"}
           \/ pc = "check" /\ pc' \in {"checking", "end_test"}
           \/ pc = "clean" /\ pc' \in {"cleaning", "erase"}
    BY <1>2 DEF OpenCompiler, OpenChecker, OpenClean, OpenPipes
  <2> QED BY <2>1
<1>3. CASE CompilerEnds \/ CompilerStopped \/ LateCompiler \/ NotCompiled
  BY <1>3 DEF CompilerEnds, CompilerStopped, LateCompiler, NotCompiled, local, hist
<1>4. CASE InitTests \/ TestsDone
  BY <1>4 DEF InitTests, TestsDone, local, hist
<1>5. CASE StartTest
  <2>1. /\ pc = "tests" /\ pc' = "input" /\ UNCHANGED <<problem, i>>
        /\ copies' \subseteq copies \cup {problem.number[i]}
    BY <1>5 DEF StartTest
  <2>2. copies' \subseteq {problem.number[t] : t \in 1 .. i}
    BY <2>1
  <2> QED BY <2>1, <2>2
<1>6. CASE PrepareInput
  <2>1. /\ pc = "input" /\ pc' \in {"output", "look"} /\ UNCHANGED <<problem, copies, i>>
        /\ pc' = "look" => fault' = TRUE
    BY <1>6 DEF PrepareInput, FioFails
  <2> QED BY <2>1
<1>7. CASE PrepareOutput
  <2>1. /\ pc = "output" /\ pc' \in {"solution", "look"} /\ UNCHANGED <<problem, copies, i>>
        /\ pc' = "look" => fault' = TRUE
    BY <1>7 DEF PrepareOutput, FioFails
  <2> QED BY <2>1
<1>8. CASE Solution \/ Straggler
  BY <1>8 DEF Solution, Straggler, local, hist
<1>9. CASE FetchOutput
  <2>1. /\ pc = "fetch" /\ pc' \in {"unlink", "look"} /\ UNCHANGED <<problem, copies, i>>
        /\ pc' = "look" => fault' = TRUE
    BY <1>9 DEF FetchOutput, FioFails
  <2> QED BY <2>1
<1>10. CASE UnlinkInput
  <2>1. pc = "unlink" /\ pc' = "look" /\ UNCHANGED <<problem, copies, i, tfOut>>
    BY <1>10 DEF UnlinkInput
  <2>2. tfOut # NoName
    BY <2>1, BoundsAre DEF TInv, Places, Names, NoName
  <2> QED BY <2>1, <2>2
<1>11. CASE LookAtAnswer \/ NoClean
  BY <1>11 DEF LookAtAnswer, NoClean, disk, local, hist
<1>12. CASE Terminate
  <2>1. /\ pc' = "terminated" /\ UNCHANGED <<problem, i>>
        /\ \/ pc = "tests" /\ (fault' \/ problem.number[i] \in copies)
           \/ pc = "look" /\ (fault' = (fault \/ tfOut # NoName))
           \/ fault'
    BY <1>12 DEF Terminate, local
  <2>2. fault' \/ \E t \in 1 .. i - 1 : problem.number[t] = problem.number[i]
    <3>1. CASE pc = "tests" /\ problem.number[i] \in copies
      BY <3>1
    <3>2. CASE pc = "look" /\ (fault' = (fault \/ tfOut # NoName))
      <4>1. fault \/ tfOut # NoName
        BY <3>2
      <4> QED BY <3>2, <4>1
    <3> QED BY <2>1, <3>1, <3>2
  <2> QED BY <2>1, <2>2
<1>13. CASE CheckerEnds
  BY <1>13 DEF CheckerEnds
<1>14. CASE EndTest
  <2>1. /\ pc = "end_test" /\ pc' \in {"tests", "end_job"} /\ UNCHANGED problem
        /\ pc' = "tests" => i' = i + 1 /\ UNCHANGED copies
    BY <1>14 DEF EndTest
  <2>2. pc' = "tests" => i' - 1 = i
    BY <2>1
  <2> QED BY <2>1, <2>2
<1>15. CASE EraseExecutable \/ CleanEnds \/ EraseSource
  BY <1>15 DEF EraseExecutable, CleanEnds, EraseSource, local, hist
<1>16. CASE Crash \/ Restart
  BY <1>16 DEF Crash, Restart, disk, local
<1>17. CASE UNCHANGED vars
  BY <1>17 DEF vars, disk, local, hist
<1> QED
  BY <1>1, <1>2, <1>3, <1>4, <1>5, <1>6, <1>7, <1>8, <1>9, <1>10, <1>11, <1>12, <1>13,
     <1>14, <1>15, <1>16, <1>17 DEF Next

(* A verbose test ends the daemon only when a call on a file has failed in *)
(* this test, or when two inputs have the same number: run_fio leaves the  *)
(* output without a name only when a call failed, and what a judging that  *)
(* died has left does not get in the way (problem.cpp:68-77, 142-146, 284).*)
THEOREM CopiesDoFit == Spec => []CopiesFit
<1>1. Init => CopyInv
  BY DEF Init, CopyInv, CopiesFit, InTest
<1>2. CopyInv => CopiesFit
  BY DEF CopyInv
<1> QED BY <1>1, <1>2, CopyInvStep, TInvAlways, PTL DEF Spec

-----------------------------------------------------------------------------
(* The output the checker is given *)

(* The file for the output holds nothing but what this test has written,   *)
(* and so does the solution's own output file once it has been emptied,    *)
(* but for what a process of an earlier solution puts there.               *)
Own == {Absent, Empty, <<job, i>>} \cup (IF problem.output THEN strays ELSE {})

OutInv ==
  /\ pc \in InTest \ {"end_test"} => got = Absent
  /\ pc \in {"input", "output"} => tfOut = NoName
  /\ pc \in {"solution", "fetch", "unlink", "look", "check", "checking"} =>
       tfOut = NoName \/ tmp[tfOut] \in Own
  /\ pc \in {"solution", "fetch"} /\ problem.output => testDir["out"] \in Own
  /\ OutputIsOfThisTest

LEMMA OutInvStep == TInv /\ OutInv /\ [Next]_vars => OutInv'
<1> SUFFICES ASSUME TInv, OutInv, [Next]_vars PROVE OutInv'
  OBVIOUS
<1>0. /\ tmp \in [Names -> Contents] /\ testDir \in [{"in", "out"} -> Contents]
      /\ tfOut \in Names \cup {NoName} /\ NoName \notin Names /\ TypeOK
  BY BoundsAre DEF TInv, TypeOK, Names, NoName
<1>a. pc \in {"solution", "fetch", "unlink", "check", "checking"} => tfOut \in Names
  BY DEF TInv, Places
<1>b. ASSUME NEW ns, tmp' = Erased(tmp, ns), tfOut = NoName \/ tmp[tfOut] \in Own
      PROVE  tfOut = NoName \/ tmp'[tfOut] \in Own
  BY <1>0, <1>b, ErasedIs DEF Own
<1>c. {Absent, Empty, <<job, i>>} \subseteq Own /\ (problem.output => strays \subseteq Own)
  BY DEF Own
<1>d. ASSUME UNCHANGED <<problem, job, i>>, strays \subseteq strays'
      PROVE  {Absent, Empty, <<job, i>>} \subseteq Own' /\ Own \subseteq Own'
  BY <1>d DEF Own
<1>e. /\ OutputIsOfThisTest <=> (pc = "end_test" => got \in Own)
      /\ OutputIsOfThisTest' <=> (pc' = "end_test" => got' \in Own')
  BY DEF OutputIsOfThisTest, Own
<1> USE <1>0, <1>a, <1>c, <1>e DEF OutInv, InTest, Goto
<1>1. CASE CreateSource
  BY <1>1 DEF CreateSource
<1>2. ASSUME NEW at, NEW to, NEW failed, OpenPipes(at, to, failed),
             <<at, to, failed>> \in {<<"compile", "compiling", "not_compiled">>,
                                     <<"check", "checking", "end_test">>,
                                     <<"clean", "cleaning", "erase">>}
      PROVE  OutInv'
  <2>1. pc = at /\ pc' \in {to, failed} /\ UNCHANGED <<problem, testDir, strays, got, tfOut, job, i>>
        /\ Own \subseteq Own'
    BY <1>2, <1>d DEF OpenPipes
  <2>2. tmp' = tmp \/ \E a, b \in Names : tmp' = [tmp EXCEPT ![a] = Empty, ![b] = Empty]
    BY <1>2, PipesOpened
  <2>3. CASE at = "check"
    <3>1. pc' \in {"checking", "end_test"}
      BY <1>2, <2>1, <2>3
    <3>2. tmp'[tfOut] \in Own'
      BY <2>1, <2>2, <2>3
    <3> QED BY <2>1, <2>3, <3>1, <3>2
  <2>4. CASE at # "check"
    BY <1>2, <2>1, <2>4
  <2> QED BY <2>3, <2>4
<1>3. CASE CompilerEnds \/ CompilerStopped \/ NotCompiled
  BY <1>3 DEF CompilerEnds, CompilerStopped, NotCompiled
<1>4. CASE InitTests \/ TestsDone \/ LateCompiler
  <2>1. CASE LateCompiler
    <3>1. UNCHANGED <<problem, tmp, testDir, strays, pc, got, job, i, tfOut>> /\ Own \subseteq Own'
      BY <2>1, <1>d DEF LateCompiler, local, hist
    <3> QED BY <3>1
  <2>2. CASE InitTests \/ TestsDone
    <3>1. pc' \in {"tests", "end_job"}
      BY <2>2 DEF InitTests, TestsDone
    <3> QED BY <3>1
  <2> QED BY <1>4, <2>1, <2>2
<1>5. CASE StartTest
  BY <1>5 DEF StartTest
<1>6. CASE PrepareInput
  BY <1>6 DEF PrepareInput, FioFails
<1>7. CASE PrepareOutput
  <2>1. CASE pc' = "solution"
    <3>1. /\ tfOut' \in Names /\ tmp' = [tmp EXCEPT ![tfOut'] = Empty]
          /\ testDir' = IF problem.output THEN [testDir EXCEPT !["out"] = Empty] ELSE testDir
          /\ UNCHANGED <<problem, strays, got, job, i>> /\ pc = "output"
      BY <1>7, <2>1 DEF PrepareOutput, FioFails
    <3>2. Empty \in Own'
      BY <1>d, <3>1
    <3>3. tmp'[tfOut'] = Empty /\ (problem.output => testDir'["out"] = Empty)
      BY <3>1
    <3> QED BY <2>1, <3>1, <3>2, <3>3
  <2>2. CASE pc' = "look"
    BY <1>7, <2>2 DEF PrepareOutput
  <2> QED BY <1>7, <2>1, <2>2 DEF PrepareOutput, FioFails
<1>8. CASE Solution
  <2>1. /\ pc = "solution" /\ pc' = "fetch" /\ UNCHANGED <<problem, got, job, i, tfOut>>
        /\ tmp' \in {tmp, [tmp EXCEPT ![tfOut] = <<job, i>>]} /\ strays \subseteq strays'
    BY <1>8 DEF Solution
  <2>2. problem.output => testDir'["out"] \in {testDir["out"], Absent, <<job, i>>}
    BY <1>8 DEF Solution
  <2>3. {Absent, <<job, i>>} \subseteq Own' /\ Own \subseteq Own'
    BY <1>d, <2>1
  <2>4. tmp'[tfOut] \in Own'
    BY <2>1, <2>3
  <2>5. problem.output => testDir'["out"] \in Own'
    BY <2>1, <2>2, <2>3
  <2> QED BY <2>1, <2>4, <2>5
<1>18. CASE Straggler
  <2>1. /\ UNCHANGED <<problem, tmp, strays, pc, got, job, i, tfOut>> /\ Own \subseteq Own'
    BY <1>18, <1>d DEF Straggler, local, hist
  <2>2. problem.output => testDir'["out"] \in {testDir["out"], Absent} \cup strays
    BY <1>18 DEF Straggler
  <2>3. testDir["out"] \in Own /\ problem.output => testDir'["out"] \in Own'
    BY <2>1, <2>2
  <2> QED BY <2>1, <2>3
<1>9. CASE FetchOutput
  <2>1. /\ pc = "fetch" /\ pc' \in {"unlink", "look"} /\ UNCHANGED <<problem, got, job, i, tfOut>>
        /\ Own \subseteq Own'
    BY <1>9, <1>d DEF FetchOutput, FioFails
  <2>2. tmp'[tfOut] \in Own
    <3>1. \/ tmp' \in {tmp, [tmp EXCEPT ![tfOut] = Empty]}
          \/ problem.output /\ tmp' = [tmp EXCEPT ![tfOut] = testDir["out"]]
          \/ tmp' = Erased(tmp, {tfIn})
      BY <1>9 DEF FetchOutput, FioFails
    <3> QED BY <1>b, <2>1, <3>1
  <2> QED BY <2>1, <2>2
<1>10. CASE UnlinkInput
  <2>1. pc = "unlink" /\ pc' = "look" /\ UNCHANGED <<problem, got, job, i, tfOut>>
        /\ tmp' = Erased(tmp, {tfIn}) /\ Own \subseteq Own'
    BY <1>10, <1>d DEF UnlinkInput
  <2>2. tfOut = NoName \/ tmp'[tfOut] \in Own
    BY <1>b, <2>1
  <2> QED BY <2>1, <2>2
<1>11. CASE LookAtAnswer \/ NoClean
  <2>1. Own \subseteq Own'
    BY <1>11, <1>d DEF LookAtAnswer, NoClean, disk, local
  <2> QED BY <1>11, <2>1 DEF LookAtAnswer, NoClean, disk, local, hist
<1>12. CASE Terminate
  BY <1>12 DEF Terminate, disk, local
<1>13. CASE CheckerEnds
  <2>1. pc = "checking" /\ pc' = "end_test" /\ got' = tmp[tfOut] /\ Own \subseteq Own'
    BY <1>13, <1>d DEF CheckerEnds
  <2>2. tmp[tfOut] \in Own
    BY <2>1
  <2> QED BY <2>1, <2>2
<1>14. CASE EndTest
  BY <1>14 DEF EndTest
<1>15. CASE EraseExecutable \/ CleanEnds \/ EraseSource
  BY <1>15 DEF EraseExecutable, CleanEnds, EraseSource
<1>16. CASE Crash \/ Restart
  BY <1>16 DEF Crash, Restart
<1>17. CASE UNCHANGED vars
  <2>1. Own \subseteq Own'
    BY <1>17, <1>d DEF vars, disk, local
  <2> QED BY <1>17, <2>1 DEF vars, disk, local, hist
<1> QED
  BY <1>1, <1>2, <1>3, <1>4, <1>5, <1>6, <1>7, <1>8, <1>9, <1>10, <1>11, <1>12, <1>13,
     <1>14, <1>15, <1>16, <1>17, <1>18 DEF Next, OpenCompiler, OpenChecker, OpenClean

(* The checker is given what this solution wrote for this test, or         *)
(* nothing, never what another test, submission or process left under the  *)
(* same name or in the Test directory; only a process of an earlier        *)
(* solution that is still alive can write to a file that is the output     *)
(* (run.cpp:116-165).                                                      *)
THEOREM OutputOwn == Spec => []OutputIsOfThisTest
<1>1. Init => OutInv
  BY DEF Init, OutInv, OutputIsOfThisTest, InTest
<1>2. OutInv => OutputIsOfThisTest
  BY DEF OutInv
<1> QED BY <1>1, <1>2, OutInvStep, TInvAlways, PTL DEF Spec

-----------------------------------------------------------------------------
(* The names in use *)

(* The source keeps its name to itself: what is named later has a name     *)
(* from further on, and run_use_pipes keeps no name.                       *)
NamesInv ==
  /\ pc = "idle" => src = NoName
  /\ src \in Names => src < k
  /\ pc \notin {"compiling", "checking", "cleaning", "dead", "terminated"} => pipes = {}
  /\ pc \in {"compiling", "checking", "cleaning"} => src \notin pipes
  /\ pc \in InTest => tfIn # src /\ tfOut # src

LEMMA FreshAndBehind ==
  ASSUME TInv, NamesInv, Fresh(k) \in Names
  PROVE  /\ tmp[Fresh(k)] = Absent /\ Fresh(k) # src /\ Fresh(k) < Fresh(k) + 1
         /\ src \in Names => src < Fresh(k) + 1
<1>1. k \in Nat /\ Fresh(k) >= k /\ tmp[Fresh(k)] = Absent
  BY FreshName, BoundsAre DEF TInv, TypeOK
<1> QED BY <1>1, BoundsAre DEF NamesInv, Names

LEMMA NamesInvStep == TInv /\ NamesInv /\ [Next]_vars => NamesInv'
<1> SUFFICES ASSUME TInv, NamesInv, [Next]_vars PROVE NamesInv'
  OBVIOUS
<1>0. /\ src \in Names \cup {NoName} /\ NoName \notin Names /\ Names \subseteq Nat /\ k \in Nat
      /\ Absent # Empty
  BY BoundsAre, ContentsAre DEF TInv, TypeOK, Names, NoName
<1>a. pc \in InTest => src \in Names
  BY DEF TInv, Places, WithSource, Compiled
<1> USE <1>0, <1>a DEF NamesInv, InTest, Goto
<1>1. CASE CreateSource
  <2>1. /\ Fresh(k) \in Names /\ k' = Fresh(k) + 1 /\ UNCHANGED pipes /\ pc = "idle"
        /\ \/ pc' = "compile" /\ src' = Fresh(k)
           \/ pc' = "clean" /\ UNCHANGED src
    BY <1>1 DEF CreateSource
  <2> QED BY <2>1, FreshAndBehind
<1>2. ASSUME NEW at, NEW to, NEW failed, OpenPipes(at, to, failed),
             <<at, to, failed>> \in {<<"compile", "compiling", "not_compiled">>,
                                     <<"check", "checking", "end_test">>,
                                     <<"clean", "cleaning", "erase">>}
      PROVE  NamesInv'
  <2>1. /\ pc = at /\ UNCHANGED <<src, tfIn, tfOut>> /\ k' \in 0 .. MaxNames /\ k' >= k
    BY <1>2, PipesOpened DEF TInv
  <2>2. \/ pc' = to /\ \E a, b \in Names : a >= k /\ b >= k /\ pipes' = {a, b}
        \/ pc' = failed /\ UNCHANGED pipes
    BY <1>2, PipesOpened DEF TInv
  <2>3. src \in Names => src < k'
    BY <2>1, BoundsAre
  <2>4. pc' = to => src \notin pipes'
    BY <1>2, <2>2
  <2>5. pc' = failed => pipes' = {}
    BY <1>2, <2>1, <2>2
  <2>6. pc' \in InTest => pc \in InTest
    BY <1>2, <2>1, <2>2
  <2> QED BY <1>2, <2>1, <2>2, <2>3, <2>4, <2>5, <2>6
<1>3. CASE CompilerEnds \/ CompilerStopped \/ NotCompiled
  BY <1>3 DEF CompilerEnds, CompilerStopped, NotCompiled, ClosePipes, local
<1>4. CASE InitTests \/ TestsDone \/ LateCompiler
  BY <1>4 DEF InitTests, TestsDone, LateCompiler, local
<1>5. CASE StartTest
  <2>1. pc = "tests" /\ src \in Names
    BY <1>5 DEF StartTest, TInv, Places, WithSource, Compiled
  <2> QED BY <1>5, <2>1 DEF StartTest
<1>6. CASE PrepareInput
  <2>1. /\ pc = "input" /\ pc' \in {"output", "look"} /\ UNCHANGED <<src, tfOut, pipes>>
        /\ \/ UNCHANGED <<k, tfIn>>
           \/ Fresh(k) \in Names /\ k' = Fresh(k) + 1 /\ tfIn' \in {tfIn, Fresh(k)}
    BY <1>6 DEF PrepareInput, FioFails
  <2> QED BY <2>1, FreshAndBehind
<1>7. CASE PrepareOutput
  <2>1. /\ pc = "output" /\ pc' \in {"solution", "look"} /\ UNCHANGED <<src, tfIn, pipes>>
        /\ Fresh(k) \in Names /\ k' = Fresh(k) + 1 /\ tfOut' \in {tfOut, Fresh(k)}
    BY <1>7 DEF PrepareOutput, FioFails
  <2> QED BY <2>1, FreshAndBehind
<1>8. CASE Solution \/ Straggler
  BY <1>8 DEF Solution, Straggler, local
<1>9. CASE FetchOutput
  BY <1>9 DEF FetchOutput, FioFails
<1>10. CASE UnlinkInput
  BY <1>10 DEF UnlinkInput
<1>11. CASE LookAtAnswer \/ NoClean
  BY <1>11 DEF LookAtAnswer, NoClean, disk, local
<1>12. CASE Terminate
  BY <1>12 DEF Terminate, local
<1>13. CASE CheckerEnds
  BY <1>13 DEF CheckerEnds, ClosePipes
<1>14. CASE EndTest
  BY <1>14 DEF EndTest
<1>15. CASE EraseExecutable \/ CleanEnds \/ EraseSource
  BY <1>15 DEF EraseExecutable, CleanEnds, EraseSource, ClosePipes, local
<1>16. CASE Crash \/ Restart
  BY <1>16 DEF Crash, Restart, disk, local
<1>17. CASE UNCHANGED vars
  BY <1>17 DEF vars, disk, local
<1> QED
  BY <1>1, <1>2, <1>3, <1>4, <1>5, <1>6, <1>7, <1>8, <1>9, <1>10, <1>11, <1>12, <1>13,
     <1>14, <1>15, <1>16, <1>17 DEF Next, OpenCompiler, OpenChecker, OpenClean

LEMMA NamesInvAlways == Spec => []NamesInv
<1>1. Init => NamesInv
  BY BoundsAre DEF Init, NamesInv, Names, NoName, InTest
<1> QED BY <1>1, NamesInvStep, TInvAlways, PTL DEF Spec

-----------------------------------------------------------------------------
(* Executables *)

(* What a compiler has made that was stopped, perhaps in an earlier        *)
(* process.                                                                *)
MadeLate == {<<j, 0>> : j \in stopped}

(* The sources in Temp, those of processes that died included.             *)
SourceNames == {n \in Names : tmp[n] \in {<<j, 0>> : j \in 1 .. MaxJobs}}

NotMade == {"compile", "compiling", "not_compiled", "clean", "cleaning", "erase"}

(* Beside a name that is not a source's nothing is found but what was made *)
(* late; nor beside the source in hand until its own compiler has ended,   *)
(* and again once its executable is erased.                                *)
ExeInv ==
  /\ \A n \in Names \ SourceNames : exe[n] \in {Absent} \cup MadeLate
  /\ src \in Names /\ pc \in NotMade => exe[src] \in {Absent} \cup MadeLate
  /\ pc \in Compiled => exe[src] \in MadeLate \cup {<<job, 0>>}
  /\ pc \in WithSource => src \in SourceNames
  /\ pipes \cap SourceNames = {}
  /\ pc \in InTest => {tfIn, tfOut} \cap SourceNames = {}
  /\ \A c \in late : c[2] \in stopped

(* A step that leaves the sources and the executables alone.               *)
LEMMA ExeStays ==
  ASSUME ExeInv, UNCHANGED <<exe, late, stopped, src, job, SourceNames>>,
         pipes' \cap SourceNames = {},
         pc' \in InTest => {tfIn', tfOut'} \cap SourceNames = {},
         pc' \in WithSource => pc \in WithSource, pc' \in Compiled => pc \in Compiled,
         pc' \in NotMade => pc \in NotMade \/ src \notin Names
  PROVE  ExeInv'
<1>1. MadeLate' = MadeLate
  BY DEF MadeLate
<1> QED BY <1>1 DEF ExeInv

(* Which steps leave the sources alone.                                    *)
LEMMA SourcesStay ==
  ASSUME TypeOK
  PROVE  /\ UNCHANGED tmp => UNCHANGED SourceNames
         /\ \A n \in Names, x \in {Absent, Empty} \cup ((1 .. MaxJobs) \X (1 .. Tests)) :
              n \notin SourceNames /\ tmp' = [tmp EXCEPT ![n] = x] => UNCHANGED SourceNames
         /\ \A ns : ns \cap SourceNames = {} /\ tmp' = Erased(tmp, ns) =>
                    UNCHANGED SourceNames
         /\ \A ns : tmp' = Erased(tmp, ns) => SourceNames' = SourceNames \ ns
         /\ \A n \in Names : tmp[n] = Absent => n \notin SourceNames
<1>0. /\ tmp \in [Names -> Contents] /\ Tests \in Nat /\ MaxJobs \in Nat
      /\ Absent \notin {<<j, 0>> : j \in 1 .. MaxJobs}
      /\ Empty \notin {<<j, 0>> : j \in 1 .. MaxJobs}
      /\ \A x \in (1 .. MaxJobs) \X (1 .. Tests) : x \notin {<<j, 0>> : j \in 1 .. MaxJobs}
  BY BoundsAre DEF TypeOK, Absent, Empty
<1>1. UNCHANGED tmp => UNCHANGED SourceNames
  BY DEF SourceNames
<1>2. ASSUME NEW n \in Names, NEW x \in {Absent, Empty} \cup ((1 .. MaxJobs) \X (1 .. Tests)),
             n \notin SourceNames, tmp' = [tmp EXCEPT ![n] = x]
      PROVE  UNCHANGED SourceNames
  <2>1. x \notin {<<j, 0>> : j \in 1 .. MaxJobs}
    BY <1>0
  <2> QED BY <1>0, <1>2, <2>1 DEF SourceNames
<1>3. ASSUME NEW ns, tmp' = Erased(tmp, ns) PROVE SourceNames' = SourceNames \ ns
  <2>1. \A n \in Names : tmp'[n] = IF n \in ns THEN Absent ELSE tmp[n]
    BY <1>0, <1>3, ErasedIs
  <2> QED BY <1>0, <2>1 DEF SourceNames
<1>4. \A n \in Names : tmp[n] = Absent => n \notin SourceNames
  BY <1>0 DEF SourceNames
<1> QED BY <1>1, <1>2, <1>3, <1>4

LEMMA PipesExeInv ==
  ASSUME TInv, ExeInv, NEW at, NEW to, NEW failed, OpenPipes(at, to, failed),
         <<at, to, failed>> \in {<<"compile", "compiling", "not_compiled">>,
                                 <<"check", "checking", "end_test">>,
                                 <<"clean", "cleaning", "erase">>}
  PROVE  ExeInv'
<1>1. /\ pc = at /\ pc' \in {to, failed}
      /\ UNCHANGED <<exe, late, stopped, src, job, tfIn, tfOut>>
  BY PipesOpened DEF TInv
<1>2. UNCHANGED SourceNames /\ pipes' \cap SourceNames = {}
  <2>1. CASE UNCHANGED <<tmp, pipes>>
    BY <2>1, SourcesStay DEF TInv, ExeInv
  <2>2. ASSUME NEW a \in Names, NEW b \in Names, a # b, tmp[a] = Absent, tmp[b] = Absent,
               tmp' = [tmp EXCEPT ![a] = Empty, ![b] = Empty], pipes' = {a, b}
        PROVE  UNCHANGED SourceNames /\ pipes' \cap SourceNames = {}
    <3>1. Empty \notin {<<j, 0>> : j \in 1 .. MaxJobs}
      BY BoundsAre DEF Empty
    <3>2. a \notin SourceNames /\ b \notin SourceNames
      BY <2>2, SourcesStay DEF TInv
    <3> QED BY <2>2, <3>1, <3>2 DEF SourceNames, TInv, TypeOK
  <2> QED BY <2>1, <2>2, PipesOpened DEF TInv
<1>3. pc' \in InTest => {tfIn, tfOut} \cap SourceNames = {}
  BY <1>1 DEF ExeInv, InTest
<1> QED BY <1>1, <1>2, <1>3, ExeStays DEF InTest, Compiled, WithSource, NotMade

LEMMA ExeInvStep == TInv /\ OutInv /\ NamesInv /\ ExeInv /\ [Next]_vars => ExeInv'
<1> SUFFICES ASSUME TInv, OutInv, NamesInv, ExeInv, [Next]_vars PROVE ExeInv'
  OBVIOUS
<1>0. /\ TypeOK /\ NoName \notin Names /\ SourceNames \subseteq Names
      /\ exe \in [Names -> Contents] /\ src \in Names \cup {NoName}
  BY BoundsAre DEF TInv, TypeOK, Names, NoName, SourceNames
<1>a. pc \in InTest => job \in 1 .. MaxJobs /\ i \in 1 .. Tests
  BY DEF TInv, Places, InTest
<1>b. pc \in WithSource => src \in Names
  BY DEF TInv, Places
<1>c. ASSUME UNCHANGED SourceNames, UNCHANGED <<exe, late, stopped, src, job, tfIn, tfOut>>,
             pipes' \in {pipes, {}},
             \/ pc \in InTest /\ pc' \in InTest \cup {"tests", "end_job"}
             \/ pc' \in {"dead", "terminated"}
             \/ pc \in {"init", "tests"} /\ pc' \in {"tests", "end_job"}
             \/ pc \in {"clean", "cleaning"} /\ pc' = "erase"
             \/ pc' = pc
      PROVE  ExeInv'
  <2>1. pipes' \cap SourceNames = {}
    BY <1>c DEF ExeInv
  <2>2. pc' \in InTest => {tfIn', tfOut'} \cap SourceNames = {}
    BY <1>c DEF ExeInv, InTest
  <2>3. pc' \in WithSource => pc \in WithSource
    BY <1>c DEF InTest, WithSource, Compiled
  <2>4. pc' \in Compiled => pc \in Compiled
    BY <1>c DEF InTest, Compiled
  <2>5. pc' \in NotMade => pc \in NotMade
    BY <1>c DEF InTest, NotMade
  <2> QED BY <1>c, <2>1, <2>2, <2>3, <2>4, <2>5, ExeStays
<1>1. CASE CreateSource
  <2>1. /\ pc = "idle" /\ Fresh(k) \in Names /\ job' \in 1 .. MaxJobs
        /\ UNCHANGED <<exe, late, stopped, pipes, tfIn, tfOut>>
        /\ \/ /\ pc' = "compile" /\ src' = Fresh(k)
              /\ tmp' = [tmp EXCEPT ![Fresh(k)] = <<job', 0>>]
           \/ pc' = "clean" /\ UNCHANGED <<src, tmp>>
    <3>1. job \in 0 .. MaxJobs /\ job < MaxJobs /\ job' = job + 1 /\ MaxJobs \in Nat
      BY <1>1, BoundsAre DEF CreateSource, TInv, TypeOK
    <3> QED BY <1>1, <3>1 DEF CreateSource, Goto
  <2>2. pipes = {} /\ src \notin Names /\ tmp[Fresh(k)] = Absent /\ MadeLate' = MadeLate
    BY <1>0, <2>1, FreshAndBehind DEF NamesInv, MadeLate
  <2>3. CASE pc' = "clean"
    <3>1. SourceNames' = SourceNames
      BY <1>0, <2>1, <2>3, SourcesStay
    <3> QED BY <2>1, <2>2, <2>3, <3>1 DEF ExeInv, InTest, Compiled, WithSource, NotMade
  <2>4. CASE pc' = "compile"
    <3>1. SourceNames' = SourceNames \cup {src'}
      BY <1>0, <2>1, <2>4 DEF SourceNames, TypeOK
    <3>2. exe[src'] \in {Absent} \cup MadeLate
      BY <1>0, <2>1, <2>2, <2>4, SourcesStay DEF ExeInv
    <3> QED BY <2>1, <2>2, <2>4, <3>1, <3>2 DEF ExeInv, InTest, Compiled, WithSource, NotMade
  <2> QED BY <2>1, <2>3, <2>4
<1>2. CASE OpenCompiler \/ OpenChecker \/ OpenClean
  BY <1>2, PipesExeInv DEF OpenCompiler, OpenChecker, OpenClean
<1>3. CASE CompilerEnds \/ CompilerStopped
  <2>1. /\ pc = "compiling" /\ pipes' = {} /\ UNCHANGED <<src, job, tfIn, tfOut>>
        /\ pc' \in {"init", "not_compiled"} /\ SourceNames' = SourceNames
        /\ src \in SourceNames /\ src \in Names /\ job \in 1 .. MaxJobs
    <3>1. pipes \cap SourceNames = {} /\ tmp' = Erased(tmp, pipes)
      BY <1>3 DEF CompilerEnds, CompilerStopped, ClosePipes, ExeInv
    <3>2. pc = "compiling"
      BY <1>3 DEF CompilerEnds, CompilerStopped, Goto
    <3>3. src \in SourceNames /\ job \in 1 .. MaxJobs
      BY <3>2 DEF ExeInv, WithSource, TInv, Places
    <3> QED BY <1>0, <1>3, <3>1, <3>2, <3>3, SourcesStay
            DEF CompilerEnds, CompilerStopped, ClosePipes, Goto, hist
  <2>2. exe[src] \in {Absent} \cup MadeLate
    BY <2>1 DEF ExeInv, NotMade
  <2>3. CASE CompilerEnds
    <3>1. /\ exe' \in {exe, [exe EXCEPT ![src] = <<job, 0>>]}
          /\ pc' = IF exe'[src] = Absent THEN "not_compiled" ELSE "init"
          /\ UNCHANGED <<late, stopped>> /\ MadeLate' = MadeLate
      BY <2>3 DEF CompilerEnds, hist, MadeLate
    <3>2. pc' = "init" => exe'[src] \in MadeLate \cup {<<job, 0>>}
      BY <1>0, <2>1, <2>2, <3>1
    <3>3. pc' = "not_compiled" => exe'[src] = Absent
      BY <3>1
    <3>4. \A n \in Names : n # src => exe'[n] = exe[n]
      BY <1>0, <3>1
    <3> QED BY <2>1, <3>1, <3>2, <3>3, <3>4 DEF ExeInv, InTest, Compiled, WithSource, NotMade
  <2>4. CASE CompilerStopped
    <3>1. /\ pc' = "not_compiled" /\ stopped' = stopped \cup {job}
          /\ exe' \in {exe, [exe EXCEPT ![src] = <<job, 0>>]}
          /\ late' \in {late, late \cup {<<src, job>>}}
      BY <2>4 DEF CompilerStopped, Goto
    <3>2. MadeLate' = MadeLate \cup {<<job, 0>>}
      BY <3>1 DEF MadeLate
    <3>3. /\ \A n \in Names : n # src => exe'[n] = exe[n]
          /\ exe'[src] \in {exe[src], <<job, 0>>}
      BY <1>0, <2>1, <3>1
    <3>4. \A c \in late' : c[2] \in stopped'
      BY <3>1 DEF ExeInv
    <3> QED BY <2>1, <2>2, <3>1, <3>2, <3>3, <3>4
            DEF ExeInv, InTest, Compiled, WithSource, NotMade
  <2> QED BY <1>3, <2>3, <2>4
<1>4. CASE LateCompiler
  <2>1. PICK c \in late : late' = late \ {c} /\ exe' = [exe EXCEPT ![c[1]] = <<c[2], 0>>]
    BY <1>4 DEF LateCompiler
  <2>2. /\ UNCHANGED <<stopped, src, job, pc, pipes, tfIn, tfOut>>
        /\ SourceNames' = SourceNames /\ MadeLate' = MadeLate
    BY <1>0, <1>4, SourcesStay DEF LateCompiler, local, hist, MadeLate
  <2>3. <<c[2], 0>> \in MadeLate
    BY DEF ExeInv, MadeLate
  <2>4. \A n \in Names : exe'[n] = exe[n] \/ exe'[n] \in MadeLate
    BY <1>0, <2>1, <2>3
  <2>5. \A n \in late' : n[2] \in stopped
    BY <2>1 DEF ExeInv
  <2>6. src \in SourceNames => src \in Names
    BY <1>0
  <2> QED BY <2>2, <2>4, <2>5, <2>6, <1>b DEF ExeInv, WithSource
<1>5. CASE NotCompiled
  <2>1. /\ pc = "not_compiled" /\ pc' = "clean" /\ tmp' = Erased(tmp, {src})
        /\ UNCHANGED <<exe, late, stopped, src, job, pipes, tfIn, tfOut>>
    BY <1>5 DEF NotCompiled, Goto, local, hist
  <2>2. SourceNames' = SourceNames \ {src} /\ MadeLate' = MadeLate
    BY <1>0, <2>1, SourcesStay DEF MadeLate
  <2>3. exe[src] \in {Absent} \cup MadeLate
    BY <1>b, <2>1 DEF ExeInv, NotMade, WithSource
  <2> QED BY <2>1, <2>2, <2>3 DEF ExeInv, InTest, Compiled, WithSource, NotMade
<1>6. CASE InitTests \/ TestsDone
  <2>1. UNCHANGED SourceNames
    BY <1>0, <1>6, SourcesStay DEF InitTests, TestsDone
  <2> QED BY <1>6, <1>c, <2>1 DEF InitTests, TestsDone, Goto, local, hist
<1>7. CASE StartTest
  <2>1. /\ pc = "tests" /\ pc' = "input" /\ tfIn' = NoName /\ tfOut' = NoName
        /\ UNCHANGED <<exe, late, stopped, src, job, pipes, SourceNames>>
    BY <1>0, <1>7, SourcesStay DEF StartTest, Goto
  <2>2. {tfIn', tfOut'} \cap SourceNames = {} /\ pipes' \cap SourceNames = {}
    BY <1>0, <2>1 DEF ExeInv
  <2> QED BY <2>1, <2>2, ExeStays DEF InTest, Compiled, WithSource, NotMade
<1>8. CASE PrepareInput \/ PrepareOutput
  <2>1. /\ pc \in InTest /\ pc' \in InTest /\ UNCHANGED <<exe, late, stopped, src, job, pipes>>
        /\ tfIn' \in {tfIn, Fresh(k)} /\ tfOut' \in {tfOut, Fresh(k)}
        /\ UNCHANGED <<tmp, tfIn, tfOut>> \/ Fresh(k) \in Names
        /\ \/ tmp' \in {tmp, Erased(tmp, {}), Erased(tmp, {tfIn})}
           \/ tmp' = [tmp EXCEPT ![Fresh(k)] = Empty]
    BY <1>8 DEF PrepareInput, PrepareOutput, FioFails, InTest
  <2>2. Fresh(k) \notin SourceNames
    BY <1>0, FreshAndBehind, SourcesStay
  <2>3. {tfIn', tfOut'} \cap SourceNames = {} /\ pipes' \cap SourceNames = {}
    BY <2>1, <2>2 DEF ExeInv
  <2>4. UNCHANGED SourceNames
    <3>1. {tfIn} \cap SourceNames = {}
      BY <2>1 DEF ExeInv
    <3> QED BY <1>0, <2>1, <2>2, <3>1, SourcesStay
  <2> QED BY <2>1, <2>3, <2>4, ExeStays DEF InTest, Compiled, WithSource, NotMade
<1>9. CASE Solution \/ FetchOutput \/ UnlinkInput \/ EndTest
  <2>1. /\ pc \in InTest /\ pc' \in InTest \cup {"tests", "end_job"}
        /\ UNCHANGED <<exe, late, stopped, src, job, pipes, tfIn, tfOut>>
    BY <1>9 DEF Solution, FetchOutput, UnlinkInput, EndTest, FioFails, Goto, InTest, hist
  <2>2. tfOut \notin SourceNames /\ tfIn \notin SourceNames
    BY <2>1 DEF ExeInv
  <2>3. \/ tmp' \in {tmp, Erased(tmp, {tfIn}), Erased(tmp, {tfOut})}
        \/ \E x \in {Absent, Empty} \cup ((1 .. MaxJobs) \X (1 .. Tests)) :
             tfOut \in Names /\ tmp' = [tmp EXCEPT ![tfOut] = x]
    <3>1. pc \in {"solution", "fetch"} => tfOut \in Names
      BY DEF TInv, Places
    <3>2. <<job, i>> \in (1 .. MaxJobs) \X (1 .. Tests)
      BY <1>a, <2>1
    <3>3. pc = "fetch" /\ problem.output =>
            testDir["out"] \in {Absent, Empty} \cup ((1 .. MaxJobs) \X (1 .. Tests))
      <4>1. strays \subseteq (1 .. MaxJobs) \X (1 .. Tests)
        BY <1>0 DEF TypeOK
      <4>2. pc = "fetch" => <<job, i>> \in (1 .. MaxJobs) \X (1 .. Tests)
        BY <3>2
      <4>3. pc = "fetch" /\ problem.output => testDir["out"] \in Own
        BY DEF OutInv
      <4> QED BY <4>1, <4>2, <4>3 DEF Own
    <3> QED BY <1>9, <3>1, <3>2, <3>3
            DEF Solution, FetchOutput, UnlinkInput, EndTest, FioFails, Goto
  <2>4. UNCHANGED SourceNames
    BY <1>0, <2>2, <2>3, SourcesStay
  <2> QED BY <1>c, <2>1, <2>4
<1>10. CASE \/ LookAtAnswer \/ Terminate \/ Straggler
           \/ Crash \/ NoClean \/ UNCHANGED vars
  <2>1. /\ UNCHANGED <<SourceNames, exe, late, stopped, src, job, pipes, tfIn, tfOut>>
        /\ \/ (pc \in InTest /\ pc' \in InTest) \/ pc' = pc
           \/ pc' \in {"dead", "terminated"} \/ (pc = "clean" /\ pc' = "erase")
    <3>1. UNCHANGED <<tmp, exe, late, src, job, pipes, tfIn, tfOut, stopped>>
      <4>1. CASE LookAtAnswer
        BY <4>1 DEF LookAtAnswer, disk, local, hist
      <4>2. CASE Terminate
        BY <4>2 DEF Terminate, local
      <4>3. CASE Crash
        BY <4>3 DEF Crash, disk, local
      <4>4. CASE NoClean
        BY <4>4 DEF NoClean, disk, local, hist
      <4>5. CASE UNCHANGED vars
        BY <4>5 DEF vars, disk, local, hist
      <4>6. CASE Straggler
        BY <4>6 DEF Straggler, local, hist
      <4> QED BY <1>10, <4>1, <4>2, <4>3, <4>4, <4>5, <4>6
    <3>2. UNCHANGED SourceNames
      BY <1>0, <3>1, SourcesStay
    <3>3. \/ (pc \in InTest /\ pc' \in InTest) \/ pc' = pc
          \/ pc' \in {"dead", "terminated"} \/ (pc = "clean" /\ pc' = "erase")
      BY <1>10 DEF LookAtAnswer, Terminate, Straggler, Crash, NoClean, Goto, vars, InTest
    <3> QED BY <3>1, <3>2, <3>3
  <2> QED BY <1>c, <2>1
<1>11. CASE CheckerEnds \/ CleanEnds
  <2>1. /\ pipes' = {} /\ tmp' = Erased(tmp, pipes) /\ pipes \cap SourceNames = {}
        /\ UNCHANGED <<exe, late, stopped, src, job, tfIn, tfOut>>
        /\ \/ pc = "checking" /\ pc' = "end_test"
           \/ pc = "cleaning" /\ pc' = "erase"
    BY <1>11 DEF CheckerEnds, CleanEnds, ClosePipes, Goto, hist, ExeInv
  <2>2. UNCHANGED SourceNames
    BY <1>0, <2>1, SourcesStay
  <2> QED BY <1>c, <2>1, <2>2 DEF InTest
<1>12. CASE EraseExecutable
  <2>1. /\ pc = "end_job" /\ pc' = "clean" /\ exe' = Erased(exe, {src})
        /\ UNCHANGED <<late, stopped, src, job, pipes, tfIn, tfOut, tmp>>
    BY <1>12 DEF EraseExecutable, Goto, local, hist
  <2>2. \A n \in Names : exe'[n] = IF n = src THEN Absent ELSE exe[n]
    BY <1>0, <2>1, ErasedIs
  <2>3. SourceNames' = SourceNames /\ MadeLate' = MadeLate
    BY <1>0, <2>1, SourcesStay DEF MadeLate
  <2> QED BY <2>1, <2>2, <2>3 DEF ExeInv, InTest, Compiled, WithSource, NotMade
<1>13. CASE EraseSource
  <2>1. /\ pc = "erase" /\ pc' = "idle" /\ tmp' = Erased(tmp, {src}) /\ src' = NoName
        /\ UNCHANGED <<exe, late, stopped, job, pipes, tfIn, tfOut>>
    BY <1>13 DEF EraseSource, Goto, hist
  <2>2. SourceNames' = SourceNames \ {src} /\ MadeLate' = MadeLate
    BY <1>0, <2>1, SourcesStay DEF MadeLate
  <2> QED BY <1>0, <2>1, <2>2 DEF ExeInv, InTest, Compiled, WithSource, NotMade
<1>14. CASE Restart
  <2>1. /\ pc' = "idle" /\ src' = NoName /\ pipes' = {}
        /\ UNCHANGED <<exe, late, stopped, tmp>>
    BY <1>14 DEF Restart, disk, hist
  <2>2. SourceNames' = SourceNames /\ MadeLate' = MadeLate
    BY <1>0, <2>1, SourcesStay DEF MadeLate
  <2> QED BY <1>0, <2>1, <2>2 DEF ExeInv, InTest, Compiled, WithSource, NotMade
<1> QED
  BY <1>1, <1>2, <1>3, <1>4, <1>5, <1>6, <1>7, <1>8, <1>9, <1>10, <1>11, <1>12, <1>13,
     <1>14 DEF Next

LEMMA ExeInvAlways == Spec => []ExeInv
<1>1. Init => ExeInv
  <2> SUFFICES ASSUME Init PROVE ExeInv
    OBVIOUS
  <2>1. \A n \in Names : tmp[n] = Absent /\ exe[n] = Absent
    BY DEF Init
  <2>2. \A n \in Names, j \in 1 .. MaxJobs : tmp[n] # <<j, 0>>
    BY <2>1, Z3 DEF Absent
  <2>3. SourceNames = {}
    BY <2>2 DEF SourceNames
  <2> QED BY <2>1, <2>3 DEF Init, ExeInv, InTest, Compiled, WithSource
<1>2. Init => OutInv
  BY DEF Init, OutInv, OutputIsOfThisTest, InTest
<1> QED BY <1>1, <1>2, ExeInvStep, OutInvStep, NamesInvAlways, TInvAlways, PTL DEF Spec

(* A submission is run with the executable its own compilation made, or    *)
(* with what a compiler has made that was stopped: gen_unique_filename     *)
(* gives its source a new name, and whatever else was made of a source is  *)
(* erased before that name is free again (submit.cpp:41-46,                *)
(* common.cpp:122).                                                        *)
THEOREM OwnExecutable == Spec => []ExecutableIsOwn
<1>1. ExeInv => ExecutableIsOwn
  BY DEF ExeInv, ExecutableIsOwn, MadeLate, Compiled, InTest
<1> QED BY <1>1, ExeInvAlways, PTL

-----------------------------------------------------------------------------
(* What is left in Temp *)

(* The temporary files of the judging in hand.                             *)
Held ==
  (IF pc \in {"compiling", "checking", "cleaning"} THEN pipes ELSE {}) \cup
  (IF pc \notin {"idle", "dead", "terminated"} THEN {src} ELSE {}) \cup
  (IF pc \in {"output", "solution", "fetch", "unlink"} THEN {tfIn} ELSE {}) \cup
  (IF pc \in {"solution", "fetch", "unlink", "look", "check", "checking", "end_test"}
   THEN {tfOut} ELSE {})

TempInv == \A n \in Names \ orphans : tmp[n] # Absent => n \in Held

LEMMA TempInvStep == TInv /\ OutInv /\ NamesInv /\ TempInv /\ [Next]_vars => TempInv'
<1> SUFFICES ASSUME TInv, OutInv, NamesInv, TempInv, [Next]_vars PROVE TempInv'
  OBVIOUS
<1>0. /\ tmp \in [Names -> Contents] /\ NoName \notin Names /\ TypeOK
  BY BoundsAre DEF TInv, TypeOK, Names, NoName
<1>a. ASSUME NEW f, f = tmp PROVE
        \A ns : \A n \in Names : Erased(f, ns)[n] = IF n \in ns THEN Absent ELSE f[n]
  BY <1>0, <1>a, ErasedIs
<1> USE <1>0 DEF TempInv, Held, Goto
<1>1. CASE CreateSource
  <2>1. /\ pc = "idle" /\ UNCHANGED orphans /\ Fresh(k) \in Names
        /\ \/ pc' = "compile" /\ src' = Fresh(k) /\ tmp' = [tmp EXCEPT ![Fresh(k)] = <<job', 0>>]
           \/ pc' = "clean" /\ UNCHANGED <<src, tmp>>
    BY <1>1 DEF CreateSource
  <2> QED BY <2>1
<1>2. ASSUME NEW at, NEW to, NEW failed, OpenPipes(at, to, failed),
             <<at, to, failed>> \in {<<"compile", "compiling", "not_compiled">>,
                                     <<"check", "checking", "end_test">>,
                                     <<"clean", "cleaning", "erase">>}
      PROVE  TempInv'
  <2>1. pc = at /\ UNCHANGED <<src, tfIn, tfOut, orphans>>
    BY <1>2, PipesOpened
  <2>2. \/ pc' = to /\ \A n \in Names : n \notin pipes' => tmp'[n] = tmp[n]
        \/ pc' = failed /\ UNCHANGED <<tmp, pipes>>
    BY <1>2, PipesOpened
  <2> QED BY <1>2, <2>1, <2>2
<1>3. CASE CompilerEnds \/ CompilerStopped
  <2>1. /\ pc = "compiling" /\ pc' \in {"init", "not_compiled"} /\ UNCHANGED <<src, orphans>>
        /\ tmp' = Erased(tmp, pipes)
    BY <1>3 DEF CompilerEnds, CompilerStopped, ClosePipes, hist
  <2>2. \A n \in Names : tmp'[n] = IF n \in pipes THEN Absent ELSE tmp[n]
    BY <1>a, <2>1
  <2> QED BY <2>1, <2>2
<1>4. CASE InitTests \/ TestsDone \/ LateCompiler \/ StartTest
  BY <1>4 DEF InitTests, TestsDone, LateCompiler, StartTest, local, hist
<1>5. CASE NotCompiled \/ EraseSource
  <2>1. /\ pc \in {"not_compiled", "erase"} /\ pc' \in {"clean", "idle"} /\ UNCHANGED orphans
        /\ tmp' = Erased(tmp, {src})
    BY <1>5 DEF NotCompiled, EraseSource, hist
  <2>2. \A n \in Names : tmp'[n] = IF n = src THEN Absent ELSE tmp[n]
    BY <1>a, <2>1
  <2> QED BY <2>1, <2>2
<1>6. CASE PrepareInput
  <2>1. /\ pc = "input" /\ pc' \in {"output", "look"} /\ UNCHANGED <<src, orphans>>
        /\ \/ tmp' \in {tmp, Erased(tmp, {})}
           \/ pc' = "output" /\ tmp' = [tmp EXCEPT ![tfIn'] = Empty]
    BY <1>6 DEF PrepareInput, FioFails, hist
  <2>2. \A n \in Names : tmp'[n] # Absent => tmp[n] # Absent \/ (pc' = "output" /\ n = tfIn')
    BY <1>a, <2>1
  <2> QED BY <2>1, <2>2
<1>7. CASE PrepareOutput
  <2>1. /\ pc = "output" /\ UNCHANGED <<src, orphans, tfIn>>
        /\ \/ pc' = "solution" /\ tmp' = [tmp EXCEPT ![tfOut'] = Empty]
           \/ pc' = "look" /\ tmp' = Erased(tmp, {tfIn})
    BY <1>7 DEF PrepareOutput, FioFails
  <2>2. CASE pc' = "solution"
    BY <2>1, <2>2
  <2>3. CASE pc' = "look"
    <3>1. \A n \in Names : tmp'[n] = IF n = tfIn THEN Absent ELSE tmp[n]
      BY <1>a, <2>1, <2>3
    <3> QED BY <2>1, <2>3, <3>1
  <2> QED BY <2>1, <2>2, <2>3
<1>8. CASE Solution
  <2>1. /\ pc = "solution" /\ pc' = "fetch" /\ UNCHANGED <<src, orphans, tfIn, tfOut>>
        /\ \A n \in Names : n # tfOut => tmp'[n] = tmp[n]
    BY <1>8 DEF Solution
  <2> QED BY <2>1
<1>9. CASE FetchOutput
  <2>1. /\ pc = "fetch" /\ UNCHANGED <<src, orphans, tfIn, tfOut>>
        /\ \/ pc' = "unlink" /\ \A n \in Names : n # tfOut => tmp'[n] = tmp[n]
           \/ pc' = "look" /\ tmp' = Erased(tmp, {tfIn})
    BY <1>9 DEF FetchOutput, FioFails
  <2>2. pc' = "look" => \A n \in Names : tmp'[n] = IF n = tfIn THEN Absent ELSE tmp[n]
    BY <1>a, <2>1
  <2> QED BY <2>1, <2>2
<1>10. CASE UnlinkInput
  <2>1. /\ pc = "unlink" /\ pc' = "look" /\ UNCHANGED <<src, orphans, tfIn, tfOut>>
        /\ tmp' = Erased(tmp, {tfIn})
    BY <1>10 DEF UnlinkInput
  <2>2. \A n \in Names : tmp'[n] = IF n = tfIn THEN Absent ELSE tmp[n]
    BY <1>a, <2>1
  <2> QED BY <2>1, <2>2
<1>11. CASE LookAtAnswer \/ NoClean \/ Straggler
  BY <1>11 DEF LookAtAnswer, NoClean, Straggler, disk, local, hist
<1>12. CASE Terminate \/ Crash
  <2>1. orphans' = orphans \cup {n \in Names : tmp[n] # Absent \/ exe[n] # Absent}
        /\ UNCHANGED tmp
    BY <1>12 DEF Terminate, Crash, disk
  <2> QED BY <2>1
<1>13. CASE CheckerEnds \/ CleanEnds
  <2>1. /\ UNCHANGED <<src, orphans, tfIn, tfOut>> /\ tmp' = Erased(tmp, pipes)
        /\ \/ pc = "checking" /\ pc' = "end_test"
           \/ pc = "cleaning" /\ pc' = "erase"
    BY <1>13 DEF CheckerEnds, CleanEnds, ClosePipes, hist
  <2>2. \A n \in Names : tmp'[n] = IF n \in pipes THEN Absent ELSE tmp[n]
    BY <1>a, <2>1
  <2> QED BY <2>1, <2>2
<1>14. CASE EndTest
  <2>1. /\ pc = "end_test" /\ pc' \in {"tests", "end_job"} /\ UNCHANGED <<src, orphans>>
        /\ tmp' = Erased(tmp, {tfOut})
    BY <1>14 DEF EndTest, hist
  <2>2. \A n \in Names : tmp'[n] = IF n = tfOut THEN Absent ELSE tmp[n]
    BY <1>a, <2>1
  <2> QED BY <2>1, <2>2
<1>15. CASE EraseExecutable
  BY <1>15 DEF EraseExecutable, local, hist
<1>16. CASE Restart
  BY <1>16 DEF Restart, disk, hist
<1>17. CASE UNCHANGED vars
  BY <1>17 DEF vars, disk, local, hist
<1> QED
  BY <1>1, <1>2, <1>3, <1>4, <1>5, <1>6, <1>7, <1>8, <1>9, <1>10, <1>11, <1>12, <1>13,
     <1>14, <1>15, <1>16, <1>17 DEF Next, OpenCompiler, OpenChecker, OpenClean

(* Between two submissions no file of the running process is left in Temp, *)
(* whichever call failed and whichever early return was taken; there is    *)
(* only what a process left that died, or a compiler that was stopped      *)
(* (tempfiles.cpp:38-55, run.cpp:116-165).                                 *)
THEOREM TempClean == Spec => []TempIsClean
<1>1. Init => OutInv /\ TempInv
  <2> SUFFICES ASSUME Init PROVE OutInv /\ TempInv
    OBVIOUS
  <2>1. \A n \in Names : tmp[n] = Absent
    BY DEF Init
  <2> QED BY <2>1 DEF Init, OutInv, OutputIsOfThisTest, InTest, TempInv
<1>2. TInv /\ TempInv /\ ExeInv => TempIsClean
  <2> SUFFICES ASSUME TInv, TempInv, ExeInv, pc = "idle", NEW n \in Names \ orphans
               PROVE  tmp[n] = Absent /\ exe[n] \in {Absent} \cup {<<j, 0>> : j \in stopped}
    BY DEF TempIsClean
  <2>1. tmp[n] = Absent
    BY DEF TempInv, Held
  <2>2. n \notin SourceNames
    BY <2>1, SourcesStay DEF TInv
  <2> QED BY <2>1, <2>2 DEF ExeInv, MadeLate
<1> QED
  BY <1>1, <1>2, TempInvStep, OutInvStep, ExeInvAlways, NamesInvAlways, TInvAlways, PTL DEF Spec
=============================================================================
