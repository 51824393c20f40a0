--------------------------- MODULE JudgingProofs ---------------------------
(***************************************************************************)
(* Proofs about Judging, for all submissions, packages and outcomes: the   *)
(* tests are run in the order of their numbers, ST_ACCEPTED is earned, the *)
(* first failure decides, each step is one SubmitContract allows, what is  *)
(* stored is of this judging, and what it made is gone at the end.         *)
(***************************************************************************)
EXTENDS Judging, FiniteSetTheorems, TLAPS

-----------------------------------------------------------------------------
(* The tests of a package *)

(* The files of a package that come before one of them.                    *)
Below(p, f) == {g \in Listed(p) : Before(p, g, f)}

LEMMA ListedFinite ==
  ASSUME NEW p \in Packages
  PROVE  /\ IsFiniteSet(Listed(p)) /\ Cardinality(Listed(p)) \in Nat
         /\ \A f \in Listed(p) : f \in Nat /\ p.numbers[f] \in Int
         /\ \A f \in Listed(p) : p.numbers[f] # INVALID_ID
<1>1. p.numbers \in Seq(Int)
  BY PackagesAssumption
<1>2. Len(p.numbers) \in Nat /\ DOMAIN p.numbers = 1 .. Len(p.numbers)
      /\ \A f \in 1 .. Len(p.numbers) : p.numbers[f] \in Int
  BY <1>1
<1>3. IsFiniteSet(1 .. Len(p.numbers)) /\ Listed(p) \in SUBSET (1 .. Len(p.numbers))
  BY <1>2, FS_Interval DEF Listed
<1>4. IsFiniteSet(Listed(p)) /\ Cardinality(Listed(p)) \in Nat
  BY <1>3, FS_Subset, FS_CardinalityType
<1>5. \A f \in 1 .. Len(p.numbers) : f \in Nat
  BY <1>2
<1> QED BY <1>2, <1>3, <1>4, <1>5 DEF Listed

LEMMA BelowFinite ==
  ASSUME NEW p \in Packages, NEW f \in Listed(p)
  PROVE  /\ IsFiniteSet(Below(p, f)) /\ Cardinality(Below(p, f)) \in Nat
         /\ Cardinality(Below(p, f)) < Cardinality(Listed(p))
<1>1. Below(p, f) \in SUBSET Listed(p) /\ f \in Nat /\ p.numbers[f] \in Int
  BY ListedFinite DEF Below
<1>2. ~ Before(p, f, f)
  BY <1>1 DEF Before
<1>3. Below(p, f) # Listed(p)
  BY <1>2 DEF Below
<1>4. IsFiniteSet(Below(p, f)) /\ Cardinality(Below(p, f)) \in Nat
  BY <1>1, ListedFinite, FS_Subset, FS_CardinalityType
<1>5. /\ Cardinality(Below(p, f)) <= Cardinality(Listed(p))
      /\ Cardinality(Below(p, f)) # Cardinality(Listed(p))
  BY <1>1, <1>3, ListedFinite, FS_Subset
<1> QED BY <1>4, <1>5, ListedFinite

LEMMA FewerBelow ==
  ASSUME NEW p \in Packages, NEW f \in Listed(p), NEW g \in Listed(p), Before(p, f, g)
  PROVE  Cardinality(Below(p, f)) < Cardinality(Below(p, g))
<1>1. \A h \in Listed(p) : h \in Nat /\ p.numbers[h] \in Int
  BY ListedFinite
<1>2. \A h \in Listed(p) : Before(p, h, f) => Before(p, h, g)
  BY <1>1 DEF Before
<1>3. ~ Before(p, f, f)
  BY <1>1 DEF Before
<1>4. Below(p, f) \subseteq Below(p, g) /\ f \in Below(p, g) /\ f \notin Below(p, f)
  BY <1>2, <1>3 DEF Below
<1>5. Below(p, f) \in SUBSET Below(p, g) /\ Below(p, f) # Below(p, g)
  BY <1>4
<1>6. /\ Cardinality(Below(p, f)) <= Cardinality(Below(p, g))
      /\ Cardinality(Below(p, f)) # Cardinality(Below(p, g))
  BY <1>5, BelowFinite, FS_Subset
<1> QED BY <1>6, BelowFinite

(* Every rank below the number of files is the rank of one.                *)
LEMMA Ranked ==
  ASSUME NEW p \in Packages, NEW i \in 1 .. Cardinality(Listed(p))
  PROVE  \E f \in Listed(p) : Cardinality(Below(p, f)) = i - 1
<1> DEFINE T == Listed(p)
           n == Cardinality(T)
           rank == [f \in T |-> Cardinality(Below(p, f))]
<1>1. n \in Nat /\ IsFiniteSet(T)
  BY ListedFinite
<1>2. ASSUME NEW f \in T
      PROVE  rank[f] \in 0 .. n - 1
  BY <1>1, BelowFinite
<1>3. rank \in [T -> 0 .. n - 1]
  BY <1>2
<1>4. ASSUME NEW f \in T, NEW g \in T, rank[f] = rank[g]
      PROVE  f = g
  <2>1. \A u, v \in T : Before(p, u, v) => rank[u] < rank[v]
    BY FewerBelow
  <2>2. ~ (rank[f] < rank[g]) /\ ~ (rank[g] < rank[f])
    BY <1>1, <1>2, <1>4
  <2>3. ~ Before(p, f, g) /\ ~ Before(p, g, f)
    BY <2>1, <2>2
  <2>4. f \in Nat /\ g \in Nat /\ p.numbers[f] \in Int /\ p.numbers[g] \in Int
    BY ListedFinite
  <2> QED BY <2>3, <2>4 DEF Before
<1> HIDE DEF rank
<1>5. rank \in Injection(T, 0 .. n - 1)
  BY <1>3, <1>4 DEF Injection, IsInjective
<1>6. IsFiniteSet(0 .. n - 1) /\ Cardinality(0 .. n - 1) = n
  <2> DEFINE m == n - 1
  <2>1. m \in Int /\ 0 \in Int
    BY <1>1
  <2> HIDE DEF m
  <2>2. IsFiniteSet(0 .. m) /\ Cardinality(0 .. m) = IF 0 > m THEN 0 ELSE m - 0 + 1
    BY <2>1, FS_Interval
  <2>3. (IF 0 > m THEN 0 ELSE m - 0 + 1) = n
    BY <1>1 DEF m
  <2> QED BY <2>2, <2>3 DEF m
<1>7. rank \in Surjection(T, 0 .. n - 1)
  <2> DEFINE U == 0 .. n - 1
  <2>1. rank \in Injection(T, U) /\ IsFiniteSet(U) /\ Cardinality(T) = Cardinality(U)
    BY <1>5, <1>6
  <2> HIDE DEF U
  <2>2. Cardinality(T) = Cardinality(U) <=> rank \in Surjection(T, U)
    BY <2>1, FS_Injection, Zenon
  <2> QED BY <2>1, <2>2 DEF U
<1>8. \E f \in T : rank[f] = i - 1
  BY <1>1, <1>7 DEF Surjection
<1> QED BY <1>8 DEF rank

(* The file that is test i of the package.                                 *)
FileOf(p, i) == CHOOSE f \in Listed(p) : Cardinality(Below(p, f)) = i - 1

(* The tests are the numbered files of the package, each once, in the      *)
(* order of the numbers, files of one number being tests of their own      *)
(* (problem.cpp:142-170, util.cpp:146-163).                                *)
THEOREM TestsAreInOrder ==
  ASSUME NEW p \in Packages
  PROVE  /\ Len(TestsOf(p)) = Cardinality(Listed(p))
         /\ TestsOf(p) \in Seq(Int \ {INVALID_ID})
         /\ \A i, j \in 1 .. Len(TestsOf(p)) : i < j => TestsOf(p)[i] <= TestsOf(p)[j]
         /\ \A f \in Listed(p) : \E i \in 1 .. Len(TestsOf(p)) :
              FileOf(p, i) = f /\ TestsOf(p)[i] = p.numbers[f]
<1> DEFINE T == Listed(p)  n == Cardinality(T)
<1>1. n \in Nat
  BY ListedFinite
<1>2. TestsOf(p) = [i \in 1 .. n |-> p.numbers[FileOf(p, i)]]
  BY DEF TestsOf, Below, FileOf
<1>3. ASSUME NEW i \in 1 .. n
      PROVE  FileOf(p, i) \in T /\ Cardinality(Below(p, FileOf(p, i))) = i - 1
  <2>1. \E f \in Listed(p) : Cardinality(Below(p, f)) = i - 1
    BY Ranked
  <2> QED BY <2>1 DEF FileOf
<1>4. \A i \in 1 .. n : TestsOf(p)[i] = p.numbers[FileOf(p, i)]
                       /\ TestsOf(p)[i] \in Int \ {INVALID_ID}
  BY <1>2, <1>3, ListedFinite
<1>5. TestsOf(p) \in Seq(Int \ {INVALID_ID}) /\ Len(TestsOf(p)) = n
  BY <1>1, <1>2, <1>4
<1>6. ASSUME NEW i \in 1 .. n, NEW j \in 1 .. n, i < j
      PROVE  TestsOf(p)[i] <= TestsOf(p)[j]
  <2> DEFINE f == FileOf(p, i)  g == FileOf(p, j)
  <2>1. f \in Listed(p) /\ g \in Listed(p)
        /\ Cardinality(Below(p, f)) = i - 1 /\ Cardinality(Below(p, g)) = j - 1
    BY <1>3
  <2> HIDE DEF f, g
  <2>2. Before(p, g, f) => Cardinality(Below(p, g)) < Cardinality(Below(p, f))
    BY <2>1, FewerBelow
  <2>3. ~ Before(p, g, f)
    BY <1>1, <1>6, <2>1, <2>2
  <2>4. p.numbers[f] \in Int /\ p.numbers[g] \in Int
    BY <2>1, ListedFinite
  <2>5. p.numbers[f] <= p.numbers[g]
    BY <2>3, <2>4 DEF Before
  <2> QED BY <1>4, <2>5 DEF f, g
<1>7. ASSUME NEW f \in T
      PROVE  \E i \in 1 .. n : FileOf(p, i) = f
  <2> DEFINE i == Cardinality(Below(p, f)) + 1
  <2>1. i \in 1 .. n /\ Cardinality(Below(p, f)) = i - 1
    BY <1>1, BelowFinite
  <2> DEFINE g == FileOf(p, i)
  <2>2. g \in T /\ Cardinality(Below(p, g)) = i - 1
    BY <1>3, <2>1
  <2> HIDE DEF g, i
  <2>3. ~ Before(p, f, g) /\ ~ Before(p, g, f)
    <3>1. Before(p, f, g) => Cardinality(Below(p, f)) < Cardinality(Below(p, g))
      BY <2>2, FewerBelow
    <3>2. Before(p, g, f) => Cardinality(Below(p, g)) < Cardinality(Below(p, f))
      BY <2>2, FewerBelow
    <3>3. i - 1 \in Int
      BY <1>1, <2>1
    <3> QED BY <2>1, <2>2, <3>1, <3>2, <3>3
  <2>4. f \in Nat /\ g \in Nat /\ p.numbers[f] \in Int /\ p.numbers[g] \in Int
    BY <2>2, ListedFinite
  <2>5. f = g
    BY <2>3, <2>4 DEF Before
  <2> QED BY <2>1, <2>5 DEF g
<1> QED BY <1>4, <1>5, <1>6, <1>7

(* The number of a test.                                                   *)
LEMMA TestIds ==
  ASSUME NEW p \in Packages, NEW i \in 1 .. Len(TestsOf(p))
  PROVE  TestsOf(p)[i] \in Int
<1>1. TestsOf(p) \in Seq(Int \ {INVALID_ID})
  BY TestsAreInOrder
<1> QED BY <1>1

-----------------------------------------------------------------------------
(* The status of a test *)

LEMMA SolutionStatusIs ==
  ASSUME NEW r \in RunResults
  PROVE  SolutionStatus[r] \in TestFaults \cup {"ST_SERVER_ERROR"}
BY DEF RunResults, SolutionStatus, TestFaults

LEMMA CheckerResultIs ==
  ASSUME NEW c, NEW k \in Nat
  PROVE  /\ CheckerResult(c, k) \in {"ST_ACCEPTED", "ST_WRONG_ANSWER",
                                     "ST_PRESENTATION_ERROR", "ST_CHECKER_ERROR"}
         /\ CheckerResult(c, k) = "ST_ACCEPTED" => k = 0
BY DEF CheckerResult

(* A test that does not end the judging is accepted or the solution's own  *)
(* fault, and an accepted one had both programs exit with code 0, unless   *)
(* limit_run's clock or its output limit stopped the checker.              *)
LEMMA TestStatusIs ==
  ASSUME NEW c, NEW o \in Outcomes
  PROVE  /\ TestStatus(c, o) \in TestFaults \cup
              {"ST_ACCEPTED", "ST_SERVER_ERROR", "ST_CHECKER_ERROR"}
         /\ TestStatus(c, o) = "ST_ACCEPTED" =>
              /\ EndedWell(o) /\ o.code = 0
              /\ o.checker \in {"RUN_OK", "RUN_REALTIMEOUT", "RUN_OUTPUT_LIMIT"}
<1>1. o.run \in RunResults /\ o.code \in Nat
      /\ o.checker \in CheckerRuns \cup {"not run"}
  <2>1. o \in [run : RunResults, exit : {0, 1}, time : Times \cup {Garbage},
                checker : CheckerRuns \cup {"not run"}, code : {0, 1, 2, 4, 5}]
    BY DEF Outcomes
  <2>2. o.run \in RunResults /\ o.code \in {0, 1, 2, 4, 5}
        /\ o.checker \in CheckerRuns \cup {"not run"}
    BY <2>1
  <2>3. \A k \in {0, 1, 2, 4, 5} : k \in Nat
    OBVIOUS
  <2> QED BY <2>2, <2>3, Zenon
<1>5. EndedWell(o) => o.checker # "not run"
  BY Zenon DEF Outcomes
<1>2. CASE ~ EndedWell(o)
  BY <1>1, <1>2, SolutionStatusIs DEF TestStatus, TestFaults
<1>3. CASE EndedWell(o) /\ o.checker \in {"RUN_FAILED", "RUN_ABNORMAL_EXIT", "RUN_TIMEOUT"}
  BY <1>3 DEF TestStatus
<1>4. CASE EndedWell(o) /\ o.checker \notin {"RUN_FAILED", "RUN_ABNORMAL_EXIT", "RUN_TIMEOUT"}
  <2>1. TestStatus(c, o) = CheckerResult(c, o.code)
    BY <1>4 DEF TestStatus
  <2>2. o.checker \in {"RUN_OK", "RUN_REALTIMEOUT", "RUN_OUTPUT_LIMIT"}
    BY <1>1, <1>4, <1>5 DEF CheckerRuns
  <2> QED BY <1>1, <1>4, <2>1, <2>2, CheckerResultIs DEF TestFaults
<1> QED BY <1>2, <1>3, <1>4

-----------------------------------------------------------------------------
(* The inductive invariant *)

LEMMA Element ==
  ASSUME NEW S, NEW q \in Seq(S), NEW i \in 1 .. Len(q)
  PROVE  q[i] \in S
OBVIOUS


Final == Statuses \ {"ST_RUNNING"}

(* What is in hand, and what it has come to.                               *)
JobInv ==
  /\ pc \in {"idle", "compile", "extract", "init", "tests", "cleanup", "store", "dead"}
  /\ sid \in Submits /\ package \in Packages /\ status \in Final
  /\ row = [s \in Submits |-> row[s]]
  /\ seen \in Seq([id : Int, o : Outcomes])

(* The tests seen are the first of the package, in their order.            *)
SeenInOrder ==
  /\ Len(seen) <= Len(TestsOf(package))
  /\ \A i \in 1 .. Len(seen) : seen[i].id = TestsOf(package)[i]

StatusOf(p, t) == TestStatus(ConventionOf(p), t.o)

AllAccepted == \A i \in 1 .. Len(seen) : StatusOf(package, seen[i]) = "ST_ACCEPTED"

(* The last test seen has failed, those before it have not.                *)
LastDecides ==
  /\ Len(seen) > 0 /\ status \in TestFaults
  /\ status = StatusOf(package, seen[Len(seen)]) /\ failed = seen[Len(seen)].id
  /\ \A i \in 1 .. Len(seen) - 1 : StatusOf(package, seen[i]) = "ST_ACCEPTED"

BeforeTests ==
  pc \in {"compile", "extract", "init"} => seen = <<>> /\ next = 1 /\ failed = NoTest

DuringTests ==
  pc = "tests" =>
    /\ next = Len(seen) + 1 /\ SeenInOrder
    /\ status = "ST_ACCEPTED" => AllAccepted
    /\ Acm[sid] => IF status = "ST_ACCEPTED" THEN failed = NoTest ELSE LastDecides

AfterTests ==
  pc \in {"cleanup", "store"} =>
    /\ status = "ST_ACCEPTED" =>
         Len(seen) = Len(TestsOf(package)) /\ SeenInOrder /\ AllAccepted
    /\ Acm[sid] =>
         /\ status \notin TestFaults => failed = NoTest
         /\ status \in TestFaults => Len(seen) > 0 /\ failed = seen[Len(seen)].id
         /\ \A i \in 1 .. Len(seen) :
              StatusOf(package, seen[i]) # "ST_ACCEPTED" =>
                /\ i = Len(seen) /\ status = StatusOf(package, seen[i])
                /\ failed = IF Aborts(status) THEN NoTest ELSE seen[i].id

TestsInv == JobInv /\ BeforeTests /\ DuringTests /\ AfterTests

LEMMA InitTestsInv == Init => TestsInv
<1> SUFFICES ASSUME Init PROVE TestsInv
  OBVIOUS
<1>1. row = [s \in Submits |-> row[s]]
  BY DEF Init
<1>2. JobInv
  BY <1>1 DEF Init, JobInv, Final, Statuses
<1> QED BY <1>2 DEF Init, TestsInv, BeforeTests, DuringTests, AfterTests

(* A row that is changed stays a function of the submissions.              *)
LEMMA RowsStay ==
  ASSUME row = [s \in Submits |-> row[s]], NEW t \in Submits, NEW x,
         row' = [row EXCEPT ![t] = x]
  PROVE  row' = [s \in Submits |-> row'[s]]
OBVIOUS

LEMMA RunTestTestsInv ==
  ASSUME TestsInv, RunTest
  PROVE  TestsInv'
<1> DEFINE T == TestsOf(package)  n == Len(seen)  id == T[next]
<1>1. /\ pc = "tests" /\ ~ TestsDone /\ next = n + 1
      /\ UNCHANGED <<row, sid, package>>
  BY DEF RunTest, TestsInv, DuringTests
<1>2. PICK o \in Outcomes :
        LET st == TestStatus(ConventionOf(package), o) IN
        /\ seen' = Append(seen, [id |-> id, o |-> o])
        /\ IF Aborts(st) THEN AbortTests(st, o) ELSE CountTest(id, st, o)
  BY DEF RunTest
<1> DEFINE st == TestStatus(ConventionOf(package), o)
           new == [id |-> id, o |-> o]
<1>3. T \in Seq(Int \ {INVALID_ID}) /\ n \in Nat /\ Len(T) \in Nat /\ n < Len(T)
      /\ seen \in Seq([id : Int, o : Outcomes])
  BY <1>1, TestsAreInOrder DEF TestsInv, JobInv, TestsDone
<1>4. id \in Int
  BY <1>1, <1>3
<1>5. /\ seen' = Append(seen, new) /\ Len(seen') = n + 1 /\ seen'[n + 1] = new
      /\ \A i \in 1 .. n : seen'[i] = seen[i]
      /\ seen' \in Seq([id : Int, o : Outcomes])
  BY <1>2, <1>3, <1>4
<1>6. /\ \A i \in 1 .. n : StatusOf(package, seen'[i]) = StatusOf(package, seen[i])
      /\ StatusOf(package, seen'[n + 1]) = st
  BY <1>5 DEF StatusOf
<1>7. SeenInOrder'
  BY <1>1, <1>3, <1>5 DEF SeenInOrder, TestsInv, DuringTests
<1>8. st \in TestFaults \cup {"ST_ACCEPTED", "ST_SERVER_ERROR", "ST_CHECKER_ERROR"}
  BY TestStatusIs
<1>9. Acm[sid] => status = "ST_ACCEPTED" /\ failed = NoTest
  BY <1>1 DEF TestsDone, TestsInv, DuringTests
<1>10. status = "ST_ACCEPTED" => AllAccepted
  BY <1>1 DEF TestsInv, DuringTests
<1> HIDE DEF st, new, id, T
<1>11. CASE Aborts(st)
  <2>1. pc' = "cleanup" /\ status' = st /\ failed' = failed
    BY <1>2, <1>11 DEF AbortTests, st
  <2>2. st \in Final /\ st \notin TestFaults /\ st # "ST_ACCEPTED"
    BY <1>11 DEF Aborts, Final, Statuses, TestFaults
  <2>3. JobInv'
    BY <1>1, <1>5, <2>1, <2>2 DEF TestsInv, JobInv
  <2>4. AfterTests'
    <3>1. ASSUME Acm[sid]
          PROVE  /\ failed' = NoTest
                 /\ \A i \in 1 .. n : StatusOf(package, seen'[i]) = "ST_ACCEPTED"
      BY <1>6, <1>9, <1>10, <2>1, <3>1 DEF AllAccepted
    <3>2. \A i \in 1 .. n + 1 : i \in 1 .. n \/ i = n + 1
      BY <1>3
    <3>3. ASSUME Acm[sid], NEW i \in 1 .. n + 1, StatusOf(package, seen'[i]) # "ST_ACCEPTED"
          PROVE  i = n + 1 /\ StatusOf(package, seen'[i]) = st
      BY <1>6, <3>1, <3>2, <3>3
    <3> QED BY <1>1, <1>5, <1>11, <2>1, <2>2, <3>1, <3>3 DEF AfterTests
  <2> QED BY <2>1, <2>3, <2>4 DEF TestsInv, BeforeTests, DuringTests
<1>12. CASE ~ Aborts(st)
  <2>1. /\ pc' = "tests" /\ status' = IF status = "ST_ACCEPTED" THEN st ELSE status
        /\ Acm[sid] => failed' = IF st # "ST_ACCEPTED" THEN id ELSE failed
    BY <1>1, <1>2, <1>12 DEF CountTest, st
  <2>2. st \in TestFaults \cup {"ST_ACCEPTED"} /\ st \in Final
    BY <1>8, <1>12 DEF Aborts, Final, Statuses, TestFaults
  <2>3. JobInv'
    BY <1>1, <1>5, <2>1, <2>2 DEF TestsInv, JobInv
  <2>4. next' = Len(seen') + 1
    BY <1>1, <1>5 DEF RunTest
  <2>5. status' = "ST_ACCEPTED" => AllAccepted'
    <3>1. ASSUME status' = "ST_ACCEPTED", NEW i \in 1 .. n + 1
          PROVE  StatusOf(package, seen'[i]) = "ST_ACCEPTED"
      <4>1. status = "ST_ACCEPTED" /\ st = "ST_ACCEPTED"
        BY <2>1, <3>1
      <4>2. i \in 1 .. n \/ i = n + 1
        BY <1>3
      <4> QED BY <1>6, <1>10, <4>1, <4>2 DEF AllAccepted
    <3> QED BY <1>1, <1>5, <3>1 DEF AllAccepted
  <2>6. ASSUME Acm[sid]
        PROVE  IF status' = "ST_ACCEPTED" THEN failed' = NoTest ELSE LastDecides'
    <3>1. CASE st = "ST_ACCEPTED"
      BY <1>9, <2>1, <2>6, <3>1
    <3>2. CASE st # "ST_ACCEPTED"
      <4>1. status' = st /\ failed' = id /\ st \in TestFaults
        BY <1>9, <2>1, <2>2, <2>6, <3>2
      <4>2. \A i \in 1 .. n : StatusOf(package, seen'[i]) = "ST_ACCEPTED"
        BY <1>6, <1>9, <1>10, <2>6 DEF AllAccepted
      <4>3. seen'[n + 1].id = id
        BY <1>5 DEF new
      <4>4. Len(seen') = n + 1 /\ Len(seen') > 0 /\ Len(seen') - 1 = n
        BY <1>3, <1>5
      <4>5. LastDecides'
        BY <1>1, <1>6, <4>1, <4>2, <4>3, <4>4 DEF LastDecides
      <4> QED BY <3>2, <4>1, <4>5
    <3> QED BY <3>1, <3>2
  <2>7. DuringTests'
    BY <1>1, <1>7, <2>4, <2>5, <2>6 DEF DuringTests
  <2> QED BY <2>1, <2>3, <2>7 DEF TestsInv, BeforeTests, AfterTests
<1> QED BY <1>11, <1>12

LEMMA LoadTestsInv ==
  ASSUME TestsInv, NEW s \in Submits, NEW p \in Packages, Load(s, p)
  PROVE  TestsInv'
<1>1. JobInv'
  BY DEF Load, TestsInv, JobInv, Final, Statuses
<1>2. BeforeTests' /\ DuringTests' /\ AfterTests'
  BY DEF Load, BeforeTests, DuringTests, AfterTests
<1> QED BY <1>1, <1>2 DEF TestsInv

(* A judging that ends before its tests, in a status that is neither       *)
(* ST_ACCEPTED nor a test's fault.                                         *)
LEMMA EarlyEndTestsInv ==
  ASSUME TestsInv, pc \in {"compile", "init"}, pc' = "cleanup",
         status' \in Final \ (TestFaults \cup {"ST_ACCEPTED"}),
         UNCHANGED <<row, sid, package, failed, seen>>
  PROVE  TestsInv'
<1>1. seen = <<>> /\ failed = NoTest
  BY DEF TestsInv, BeforeTests
<1>2. JobInv'
  BY DEF TestsInv, JobInv
<1>3. AfterTests'
  BY <1>1 DEF AfterTests
<1> QED BY <1>2, <1>3 DEF TestsInv, BeforeTests, DuringTests

(* A step from one part of the judging to another that changes nothing the *)
(* invariant is about.                                                     *)
LEMMA QuietTestsInv ==
  ASSUME TestsInv, UNCHANGED <<row, sid, package, status, failed, next, seen>>,
         \/ pc \in {"compile", "extract"} /\ pc' \in {"extract", "init"}
         \/ pc = "cleanup" /\ pc' = "store"
         \/ pc' \in {"idle", "dead"}
         \/ pc' = pc
  PROVE  TestsInv'
<1>1. JobInv'
  BY DEF TestsInv, JobInv
<1>2. BeforeTests'
  BY DEF TestsInv, BeforeTests
<1>3. DuringTests'
  BY DEF TestsInv, DuringTests, SeenInOrder, AllAccepted, LastDecides
<1>4. AfterTests'
  BY DEF TestsInv, AfterTests, SeenInOrder, AllAccepted
<1> QED BY <1>1, <1>2, <1>3, <1>4 DEF TestsInv

LEMMA InitProblemTestsInv ==
  ASSUME TestsInv, InitProblem
  PROVE  TestsInv'
<1>1. /\ pc = "init" /\ pc' = "tests" /\ status' = "ST_ACCEPTED"
      /\ UNCHANGED <<row, sid, package, failed, next, seen>>
  BY DEF InitProblem
<1>2. seen = <<>> /\ next = 1 /\ failed = NoTest
  BY <1>1 DEF TestsInv, BeforeTests
<1>3. JobInv'
  BY <1>1 DEF TestsInv, JobInv, Final, Statuses
<1>4. Len(TestsOf(package)) \in Nat
  BY TestsAreInOrder DEF TestsInv, JobInv
<1>5. DuringTests'
  BY <1>1, <1>2, <1>4 DEF DuringTests, SeenInOrder, AllAccepted
<1> QED BY <1>1, <1>3, <1>5 DEF TestsInv, BeforeTests, AfterTests

LEMMA FinishTestsInv ==
  ASSUME TestsInv, FinishTests
  PROVE  TestsInv'
<1> DEFINE n == Len(seen)
<1>1. /\ pc = "tests" /\ pc' = "cleanup" /\ TestsDone
      /\ UNCHANGED <<row, sid, package, status, failed, next, seen>>
  BY DEF FinishTests, job
<1>2. /\ next = n + 1 /\ SeenInOrder /\ (status = "ST_ACCEPTED" => AllAccepted)
      /\ (Acm[sid] => IF status = "ST_ACCEPTED" THEN failed = NoTest ELSE LastDecides)
  BY <1>1 DEF TestsInv, DuringTests
<1>3. n \in Nat /\ Len(TestsOf(package)) \in Nat /\ seen \in Seq([id : Int, o : Outcomes])
  BY TestsAreInOrder DEF TestsInv, JobInv
<1>4. JobInv'
  BY <1>1 DEF TestsInv, JobInv
<1>5. status = "ST_ACCEPTED" => n = Len(TestsOf(package))
  BY <1>1, <1>2, <1>3 DEF TestsDone, SeenInOrder
<1>6. ASSUME Acm[sid]
      PROVE  /\ status \notin TestFaults => failed = NoTest
             /\ status \in TestFaults => n > 0 /\ failed = seen[n].id
             /\ \A i \in 1 .. n :
                  StatusOf(package, seen[i]) # "ST_ACCEPTED" =>
                    /\ i = n /\ status = StatusOf(package, seen[i])
                    /\ failed = IF Aborts(status) THEN NoTest ELSE seen[i].id
  <2>1. CASE status = "ST_ACCEPTED"
    BY <1>2, <1>6, <2>1 DEF AllAccepted, TestFaults
  <2>2. CASE status # "ST_ACCEPTED"
    <3>1. LastDecides
      BY <1>2, <1>6, <2>2
    <3>2. n > 0 /\ failed = seen[n].id /\ status \in TestFaults
      BY <3>1 DEF LastDecides
    <3>3. ~ Aborts(status)
      BY <3>2 DEF Aborts, TestFaults
    <3>4. \A i \in 1 .. n : i \in 1 .. n - 1 \/ i = n
      BY <1>3
    <3> QED BY <3>1, <3>2, <3>3, <3>4 DEF LastDecides
  <2> QED BY <2>1, <2>2
<1>7. AfterTests'
  BY <1>1, <1>2, <1>5, <1>6 DEF AfterTests, SeenInOrder, AllAccepted
<1> QED BY <1>1, <1>4, <1>7 DEF TestsInv, BeforeTests, DuringTests

LEMMA StoreTestsInv ==
  ASSUME TestsInv, Store
  PROVE  TestsInv'
<1>1. pc' = "idle" /\ UNCHANGED <<sid, package, status, seen>>
  BY DEF Store, job
<1>2. row' = [s \in Submits |-> row'[s]]
  BY DEF Store, TestsInv, JobInv
<1>3. JobInv'
  BY <1>1, <1>2 DEF TestsInv, JobInv
<1> QED BY <1>1, <1>3 DEF TestsInv, BeforeTests, DuringTests, AfterTests

LEMMA StepTestsInv == TestsInv /\ [Next]_vars => TestsInv'
<1> SUFFICES ASSUME TestsInv, [Next]_vars PROVE TestsInv'
  OBVIOUS
<1>1. ASSUME NEW s \in Submits, NEW p \in Packages, Load(s, p) PROVE TestsInv'
  BY <1>1, LoadTestsInv
<1>2. CASE NotCompiled
  <2>1. {"ST_INVALID_LANG", "ST_SERVER_ERROR"}
          \subseteq Final \ (TestFaults \cup {"ST_ACCEPTED"})
    BY DEF Final, Statuses, TestFaults
  <2> QED BY <1>2, <2>1, EarlyEndTestsInv DEF NotCompiled
<1>3. ASSUME NEW rest, Compile(rest) PROVE TestsInv'
  BY <1>3, QuietTestsInv DEF Compile
<1>4. ASSUME NEW rest, NEW st, CompileFails(st, rest) PROVE TestsInv'
  <2>1. CompileFaults \cup {"ST_SERVER_ERROR"}
          \subseteq Final \ (TestFaults \cup {"ST_ACCEPTED"})
    BY DEF Final, Statuses, TestFaults, CompileFaults
  <2> QED BY <1>4, <2>1, EarlyEndTestsInv DEF CompileFails
<1>5. CASE ExtractPackage
  BY <1>5, QuietTestsInv DEF ExtractPackage, job
<1>6. CASE InitProblem
  BY <1>6, InitProblemTestsInv
<1>7. CASE InvalidProblem
  <2>1. "ST_INVALID_PROBLEM" \in Final \ (TestFaults \cup {"ST_ACCEPTED"})
    BY DEF Final, Statuses, TestFaults
  <2> QED BY <1>7, <2>1, EarlyEndTestsInv DEF InvalidProblem
<1>8. CASE RunTest
  BY <1>8, RunTestTestsInv
<1>9. CASE FinishTests
  BY <1>9, FinishTestsInv
<1>10. CASE Cleanup
  BY <1>10, QuietTestsInv DEF Cleanup, job
<1>11. CASE Store
  BY <1>11, StoreTestsInv
<1>12. CASE CopyThrows \/ Die
  BY <1>12, QuietTestsInv DEF CopyThrows, Die, job
<1>13. CASE Restart
  BY <1>13, QuietTestsInv DEF Restart, job
<1>14. CASE UNCHANGED vars
  BY <1>14, QuietTestsInv DEF vars, job
<1> QED BY <1>1, <1>2, <1>3, <1>4, <1>5, <1>6, <1>7, <1>8, <1>9, <1>10, <1>11, <1>12,
           <1>13, <1>14 DEF Next, JudgingStep

(* The tests seen are the first of the package while run_tests() goes over *)
(* them, and status and failed are what they say.                          *)
THEOREM Invariance == Spec => []TestsInv
BY InitTestsInv, StepTestsInv, PTL DEF Spec

-----------------------------------------------------------------------------
(* The theorems *)

(* If no checker is stopped by limit_run's clock or output limit, a        *)
(* submission is accepted only when every test of its package was run, in  *)
(* the order of the numbers, and passed (problem.cpp:64-109, 286-322).     *)
THEOREM AcceptedEarned ==
  ASSUME CheckerOverruns = FALSE
  PROVE  Spec => []AcceptedIsEarned
<1>1. TestsInv => AcceptedIsEarned
  <2> SUFFICES ASSUME TestsInv, pc = "store", status = "ST_ACCEPTED"
               PROVE  /\ [i \in DOMAIN seen |-> seen[i].id] = TestsOf(package)
                      /\ \A i \in DOMAIN seen : Passed(seen[i])
    BY DEF AcceptedIsEarned
  <2>1. Len(seen) = Len(TestsOf(package)) /\ SeenInOrder /\ AllAccepted
    BY DEF TestsInv, AfterTests
  <2>2. seen \in Seq([id : Int, o : Outcomes]) /\ TestsOf(package) \in Seq(Int \ {INVALID_ID})
    BY TestsAreInOrder DEF TestsInv, JobInv
  <2>3. DOMAIN seen = 1 .. Len(seen) /\ DOMAIN TestsOf(package) = 1 .. Len(seen)
    BY <2>1, <2>2
  <2>4. [i \in DOMAIN seen |-> seen[i].id] = TestsOf(package)
    BY <2>1, <2>2, <2>3 DEF SeenInOrder
  <2>5. ASSUME NEW i \in DOMAIN seen
        PROVE  Passed(seen[i])
    <3>1. seen[i].o \in Outcomes
      <4>1. seen[i] \in [id : Int, o : Outcomes]
        BY <2>2, <2>3, Element, Zenon
      <4> QED BY <4>1
    <3>2. TestStatus(ConventionOf(package), seen[i].o) = "ST_ACCEPTED"
      BY <2>1, <2>3 DEF AllAccepted, StatusOf
    <3>3. /\ EndedWell(seen[i].o) /\ seen[i].o.code = 0
          /\ seen[i].o.checker \in {"RUN_OK", "RUN_REALTIMEOUT", "RUN_OUTPUT_LIMIT"}
      BY <3>1, <3>2, TestStatusIs
    <3>4. seen[i].o.checker \in CheckerRuns \cup {"not run"}
      BY <3>1 DEF Outcomes
    <3>5. seen[i].o.checker = "RUN_OK"
      BY <3>3, <3>4 DEF CheckerRuns
    <3> QED BY <3>3, <3>5 DEF Passed
  <2> QED BY <2>4, <2>5
<1> QED BY <1>1, Invariance, PTL

(* Under ACM rules the first failed test decides, whatever the programs    *)
(* do: the status and the number are its own, and no test runs after it    *)
(* (problem.cpp:64-109).                                                   *)
THEOREM FirstFailureIsDecisive == Spec => []FirstFailureDecides
<1>1. TestsInv => FirstFailureDecides
  <2> SUFFICES ASSUME TestsInv, pc = "store", Acm[sid]
               PROVE  /\ status \notin TestFaults => failed = NoTest
                      /\ status \in TestFaults =>
                           Len(seen) > 0 /\ failed = seen[Len(seen)].id
                      /\ \A i \in DOMAIN seen :
                           Verdict(i) # "ST_ACCEPTED" =>
                             /\ i = Len(seen) /\ status = Verdict(i)
                             /\ failed = IF Aborts(status) THEN NoTest ELSE seen[i].id
    BY DEF FirstFailureDecides
  <2>1. DOMAIN seen = 1 .. Len(seen)
    BY DEF TestsInv, JobInv
  <2>2. \A i \in DOMAIN seen : Verdict(i) = StatusOf(package, seen[i])
    BY DEF Verdict, StatusOf
  <2> QED BY <2>1, <2>2 DEF TestsInv, AfterTests
<1> QED BY <1>1, Invariance, PTL

(* The safety part of ImplementsSubmit: each step of the judging is a step *)
(* that the daemon around it knows of, or none.                            *)
THEOREM JudgingRefines == Spec => Contract!Init /\ [][Contract!Next]_(Contract!vars)
<1>1. Init => Contract!Init
  BY DEF Init, Contract!Init, Where, Unjudged
<1> DEFINE Step == [Contract!Next]_(Contract!vars)
<1>2. TestsInv /\ [Next]_vars => Step
  <2> SUFFICES ASSUME TestsInv, [Next]_vars PROVE Step
    OBVIOUS
  <2> USE DEF Contract!Next, Contract!vars, Where
  <2>1. ASSUME NEW s \in Submits, NEW p \in Packages, Load(s, p) PROVE Step
    BY <2>1 DEF Load, Contract!Begin
  <2>2. CASE NotCompiled
    BY <2>2 DEF NotCompiled
  <2>3. ASSUME NEW rest, Compile(rest) PROVE Step
    BY <2>3 DEF Compile
  <2>4. ASSUME NEW rest, NEW st, CompileFails(st, rest) PROVE Step
    BY <2>4 DEF CompileFails
  <2>5. CASE ExtractPackage \/ FinishTests
    BY <2>5 DEF ExtractPackage, FinishTests, job
  <2>6. CASE InitProblem \/ InvalidProblem
    BY <2>6 DEF InitProblem, InvalidProblem
  <2>7. CASE RunTest
    BY <2>7 DEF RunTest, AbortTests, CountTest
  <2>8. CASE Cleanup
    BY <2>8 DEF Cleanup, job, Contract!Judge, TestsInv, JobInv, Final
  <2>9. CASE Store
    <3>1. /\ pc = "store" /\ pc' = "idle" /\ sid' = sid /\ sid \in Submits
          /\ row = [s \in Submits |-> row[s]]
      BY <2>9 DEF Store, job, TestsInv, JobInv
    <3>2. \/ [s \in Submits |-> row'[s].result]
               = [[s \in Submits |-> row[s].result] EXCEPT ![sid] = status]
          \/ row' = row
      <4> DEFINE x == [result |-> status, failed |-> IF failed < 0 THEN NoTest ELSE failed,
                       school |-> IF Acm[sid] THEN row[sid].school ELSE school,
                       time |-> time,
                       info |-> IF InfoWanted THEN info ELSE row[sid].info,
                       fresh |-> InfoWanted]
      <4>1. row' = row \/ row' = [row EXCEPT ![sid] = x]
        BY <2>9 DEF Store
      <4>2. x.result = status
        OBVIOUS
      <4> HIDE DEF x
      <4>3. ASSUME row' = [row EXCEPT ![sid] = x]
            PROVE  [s \in Submits |-> row'[s].result]
                     = [[s \in Submits |-> row[s].result] EXCEPT ![sid] = status]
        BY <3>1, <4>2, <4>3
      <4> QED BY <4>1, <4>3
    <3> QED BY <3>1, <3>2 DEF Contract!Store
  <2>10. CASE CopyThrows \/ Die \/ Restart
    BY <2>10 DEF CopyThrows, Die, Restart, job, Contract!Die, Contract!Restart, TestsInv, JobInv
  <2>11. CASE UNCHANGED vars
    BY <2>11 DEF vars, job
  <2> HIDE DEF Step
  <2> QED BY <2>1, <2>2, <2>3, <2>4, <2>5, <2>6, <2>7, <2>8, <2>9, <2>10, <2>11
          DEF Next, JudgingStep
<1> QED BY <1>1, <1>2, Invariance, PTL DEF Spec

-----------------------------------------------------------------------------
(* Types *)

(* The time of a test that does not end the judging was measured.          *)
LEMMA TimeOfTest ==
  ASSUME NEW c, NEW o \in Outcomes, ~ Aborts(TestStatus(c, o))
  PROVE  o.time \in Times
<1>1. o.time \in Times \cup {Garbage} /\ (o.time = Garbage <=> o.run = "RUN_FAILED")
  BY Zenon DEF Outcomes
<1>2. o.run # "RUN_FAILED"
  BY DEF Aborts, TestStatus, SolutionStatus, EndedWell
<1> QED BY <1>1, <1>2

LEMMA InitTypeOK == Init => TypeOK
<1> SUFFICES ASSUME Init PROVE TypeOK
  OBVIOUS
<1>1. Len(TestsOf(package)) \in Nat
  BY TestsAreInOrder DEF Init
<1>2. row \in [Submits -> Columns]
  BY TimesAssumption DEF Init, Columns, Unjudged, Statuses
<1> QED BY <1>1, <1>2, TimesAssumption DEF Init, TypeOK, Statuses, NoTest

LEMMA RunTestTypes ==
  ASSUME TypeOK, RunTest
  PROVE  TypeOK'
<1> DEFINE id == TestsOf(package)[next]
<1>1. PICK o \in Outcomes :
        LET st == TestStatus(ConventionOf(package), o) IN
        /\ seen' = Append(seen, [id |-> id, o |-> o])
        /\ IF Aborts(st) THEN AbortTests(st, o) ELSE CountTest(id, st, o)
        /\ info' = IF NeedInfo[sid] /\ EndedWell(o) THEN "test" ELSE info
  BY DEF RunTest
<1> DEFINE st == TestStatus(ConventionOf(package), o)
<1>2. /\ next \in 1 .. Len(TestsOf(package)) /\ Len(TestsOf(package)) \in Nat
      /\ next' = next + 1 /\ dirty' = dirty \cup {sid} /\ UNCHANGED <<row, sid, package>>
      /\ pc = "tests"
  BY TestsAreInOrder DEF RunTest, TypeOK, TestsDone
<1>3. id \in Int
  BY <1>2, TestIds DEF TypeOK
<1>4. st \in Statuses
  BY TestStatusIs DEF Statuses
<1>5. seen' \in Seq([id : Int, o : Outcomes])
  BY <1>1, <1>3 DEF TypeOK
<1> HIDE DEF id, st
<1>6. /\ pc' \in {"tests", "cleanup"} /\ status' \in Statuses /\ failed' \in Int
      /\ school' \in Seq(Statuses) /\ time' \in Times
      /\ files' \in [Submits -> SUBSET {"source", "exe", "stray", "byproduct", "package", "verbose"}]
  <2>1. CASE Aborts(st)
    <3>1. AbortTests(st, o)
      BY <1>1, <2>1 DEF st
    <3> QED BY <1>4, <3>1 DEF AbortTests, EndOfTest, TypeOK
  <2>2. CASE ~ Aborts(st)
    <3>1. CountTest(id, st, o)
      BY <1>1, <2>2 DEF st, id
    <3>2. o.time \in Times
      BY <2>2, TimeOfTest DEF st
    <3>3. school' \in Seq(Statuses) /\ failed' \in Int
      <4>1. school' \in {school, Append(school, st)} /\ failed' \in {id, failed}
        BY <3>1 DEF CountTest
      <4>2. Append(school, st) \in Seq(Statuses)
        BY <1>4 DEF TypeOK
      <4> QED BY <1>3, <4>1, <4>2 DEF TypeOK
    <3>4. status' \in Statuses /\ time' \in Times /\ pc' = "tests"
      BY <1>2, <1>4, <3>1, <3>2 DEF CountTest, TypeOK
    <3>5. files' \in [Submits -> SUBSET {"source", "exe", "stray", "byproduct", "package", "verbose"}]
      BY <3>1 DEF CountTest, TypeOK
    <3> QED BY <3>3, <3>4, <3>5
  <2> QED BY <2>1, <2>2
<1>7. info' \in {"none", "compiler", "test"}
  BY <1>1 DEF TypeOK
<1> QED BY <1>2, <1>5, <1>6, <1>7 DEF TypeOK

LEMMA StoreTypes ==
  ASSUME TypeOK, Store
  PROVE  TypeOK'
<1>1. InfoWanted \in BOOLEAN
  BY Zenon DEF InfoWanted
<1> DEFINE x == [result |-> status, failed |-> IF failed < 0 THEN NoTest ELSE failed,
                 school |-> IF Acm[sid] THEN row[sid].school ELSE school, time |-> time,
                 info |-> IF InfoWanted THEN info ELSE row[sid].info,
                 fresh |-> InfoWanted]
<1>2. x \in Columns
  <2>1. row[sid] \in Columns
    BY DEF TypeOK
  <2>2. row[sid].school \in Seq(Statuses) /\ row[sid].info \in {"none", "compiler", "test"}
    BY <2>1 DEF Columns
  <2>3. (IF failed < 0 THEN NoTest ELSE failed) \in Nat \cup {NoTest}
    BY DEF TypeOK
  <2> QED BY <1>1, <2>2, <2>3 DEF TypeOK, Columns
<1>3. row' = [row EXCEPT ![sid] = x] \/ row' = row
  BY DEF Store
<1> HIDE DEF x
<1>4. row' \in [Submits -> Columns]
  BY <1>2, <1>3 DEF TypeOK
<1> QED BY <1>4 DEF Store, job, TypeOK

LEMMA StepTypeOK == TypeOK /\ [Next]_vars => TypeOK'
<1> SUFFICES ASSUME TypeOK, [Next]_vars PROVE TypeOK'
  OBVIOUS
<1>1. ASSUME NEW s \in Submits, NEW p \in Packages, Load(s, p) PROVE TypeOK'
  <2>1. Len(TestsOf(p)) \in Nat
    BY TestsAreInOrder
  <2> QED BY <1>1, <2>1, TimesAssumption DEF Load, TypeOK, Statuses, NoTest
<1>2. CASE NotCompiled
  BY <1>2 DEF NotCompiled, TypeOK, Statuses
<1>3. ASSUME NEW rest \in SUBSET {"byproduct"}, Compile(rest) PROVE TypeOK'
  BY <1>3 DEF Compile, TypeOK
<1>4. ASSUME NEW rest \in SUBSET {"byproduct", "stray"}, NEW st \in Statuses,
             CompileFails(st, rest)
      PROVE  TypeOK'
  BY <1>4 DEF CompileFails, TypeOK
<1>5. CASE ExtractPackage
  BY <1>5 DEF ExtractPackage, job, TypeOK
<1>6. CASE InitProblem
  BY <1>6 DEF InitProblem, TypeOK, Statuses
<1>7. CASE InvalidProblem
  BY <1>7 DEF InvalidProblem, TypeOK, Statuses
<1>8. CASE RunTest
  BY <1>8, RunTestTypes
<1>9. CASE FinishTests
  BY <1>9 DEF FinishTests, EndOfTest, job, TypeOK
<1>10. CASE Cleanup
  BY <1>10 DEF Cleanup, job, TypeOK
<1>11. CASE Store
  BY <1>11, StoreTypes
<1>12. CASE CopyThrows \/ Die \/ Restart
  BY <1>12 DEF CopyThrows, Die, Restart, job, TypeOK
<1>13. CASE UNCHANGED vars
  BY <1>13 DEF vars, job, TypeOK
<1> QED BY <1>1, <1>2, <1>3, <1>4, <1>5, <1>6, <1>7, <1>8, <1>9, <1>10, <1>11, <1>12,
           <1>13 DEF Next, JudgingStep

(* Every column a judging stores has its type, whatever limit_run and the  *)
(* compiler answer: in particular max_time_used is a time limit_run        *)
(* measured, although run() leaves its result uninitialized when it fails  *)
(* (run.cpp:30, problem.cpp:64-109).                                       *)
THEOREM TypeCorrect == Spec => []TypeOK
BY InitTypeOK, StepTypeOK, PTL DEF Spec

-----------------------------------------------------------------------------
(* What a judging stores *)

(* One test more: what it does to what was seen, and what it comes to.     *)
LEMMA SeenGrows ==
  ASSUME TypeOK, RunTest
  PROVE  \E o \in Outcomes :
           LET n  == Len(seen)
               st == StatusOf(package, seen'[n + 1])
           IN /\ pc = "tests" /\ n \in Nat /\ Len(seen') = n + 1
              /\ UNCHANGED <<row, sid, package>>
              /\ \A i \in 1 .. n : seen'[i] = seen[i]
              /\ seen'[n + 1].o = o
              /\ st = TestStatus(ConventionOf(package), o)
              /\ IF Aborts(st) THEN AbortTests(st, o)
                 ELSE CountTest(TestsOf(package)[next], st, o)
<1> DEFINE id == TestsOf(package)[next]
<1>1. PICK o \in Outcomes :
        LET st == TestStatus(ConventionOf(package), o) IN
        /\ seen' = Append(seen, [id |-> id, o |-> o])
        /\ IF Aborts(st) THEN AbortTests(st, o) ELSE CountTest(id, st, o)
  BY DEF RunTest
<1> HIDE DEF id
<1> DEFINE new == [id |-> id, o |-> o]
<1>2. /\ seen' = Append(seen, new) /\ Len(seen) \in Nat /\ Len(seen') = Len(seen) + 1
      /\ \A i \in 1 .. Len(seen) : seen'[i] = seen[i]
      /\ seen'[Len(seen) + 1] = new
  BY <1>1 DEF TypeOK
<1>3. pc = "tests" /\ UNCHANGED <<row, sid, package>>
  BY DEF RunTest
<1>4. StatusOf(package, seen'[Len(seen) + 1]) = TestStatus(ConventionOf(package), o)
  BY <1>2 DEF StatusOf
<1> QED BY <1>1, <1>2, <1>3, <1>4 DEF id

(* max_time is the time of a test that was judged, or 0, and none is more. *)
TimeInv ==
  LET judged(i) == ~ Aborts(StatusOf(package, seen[i])) IN
  /\ time = 0 \/ \E i \in 1 .. Len(seen) : judged(i) /\ time = seen[i].o.time
  /\ \A i \in 1 .. Len(seen) : judged(i) => seen[i].o.time <= time

LEMMA RunTestTimeInv ==
  ASSUME TypeOK, TimeInv, RunTest
  PROVE  TimeInv'
<1> DEFINE n == Len(seen)  st == StatusOf(package, seen'[n + 1])
<1>1. PICK o \in Outcomes :
        /\ pc = "tests" /\ n \in Nat /\ Len(seen') = n + 1
        /\ UNCHANGED <<row, sid, package>>
        /\ \A i \in 1 .. n : seen'[i] = seen[i]
        /\ seen'[n + 1].o = o
        /\ st = TestStatus(ConventionOf(package), o)
        /\ IF Aborts(st) THEN AbortTests(st, o)
           ELSE CountTest(TestsOf(package)[next], st, o)
  BY SeenGrows
<1>2. \A i \in 1 .. n + 1 : i \in 1 .. n \/ i = n + 1
  BY <1>1
<1>3. 1 .. n \subseteq 1 .. n + 1 /\ n + 1 \in 1 .. n + 1
  BY <1>1
<1>4. \A i \in 1 .. n : StatusOf(package, seen'[i]) = StatusOf(package, seen[i])
  BY <1>1
<1>5. time \in Nat /\ \A i \in 1 .. n : seen[i].o.time \in Nat
  <2>1. ASSUME NEW i \in 1 .. n
        PROVE  seen[i].o.time \in Nat
    <3>1. seen[i] \in [id : Int, o : Outcomes]
      BY Element DEF TypeOK
    <3>2. seen[i].o.time \in Times \cup {Garbage}
      BY <3>1, Zenon DEF Outcomes
    <3> QED BY <3>2, TimesAssumption
  <2> QED BY <2>1, TimesAssumption DEF TypeOK
<1> HIDE DEF st
<1>6. CASE Aborts(st)
  <2>1. time' = time
    BY <1>1, <1>6 DEF AbortTests
  <2> QED BY <1>1, <1>2, <1>3, <1>4, <1>6, <2>1 DEF TimeInv, st
<1>7. CASE ~ Aborts(st)
  <2>1. time' = IF o.time > time THEN o.time ELSE time
    BY <1>1, <1>7 DEF CountTest
  <2>2. o.time \in Nat
    BY <1>1, <1>7, TimeOfTest, TimesAssumption DEF st
  <2>3. time <= time' /\ o.time <= time' /\ time' \in {time, o.time} /\ time' \in Nat
    BY <1>5, <2>1, <2>2
  <2>4. ASSUME NEW i \in 1 .. n + 1, ~ Aborts(StatusOf(package, seen'[i]))
        PROVE  seen'[i].o.time <= time'
    <3>1. CASE i \in 1 .. n
      <4>1. seen[i].o.time <= time
        BY <1>4, <2>4, <3>1 DEF TimeInv
      <4> QED BY <1>1, <1>5, <2>3, <3>1, <4>1
    <3> QED BY <1>1, <1>2, <2>3, <3>1
  <2>5. time' = 0 \/ \E i \in 1 .. n + 1 : /\ ~ Aborts(StatusOf(package, seen'[i]))
                                           /\ time' = seen'[i].o.time
    <3>1. CASE time' = o.time
      BY <1>1, <1>3, <1>7, <3>1 DEF st
    <3>2. CASE time' = time
      BY <1>1, <1>3, <1>4, <3>2 DEF TimeInv
    <3> QED BY <2>3, <3>1, <3>2
  <2> QED BY <1>1, <2>4, <2>5 DEF TimeInv
<1> QED BY <1>6, <1>7

LEMMA StepTimeInv == TypeOK /\ TimeInv /\ [Next]_vars => TimeInv'
<1> SUFFICES ASSUME TypeOK, TimeInv, [Next]_vars PROVE TimeInv'
  OBVIOUS
<1>1. ASSUME NEW s \in Submits, NEW p \in Packages, Load(s, p) PROVE TimeInv'
  BY <1>1 DEF Load, TimeInv
<1>2. CASE RunTest
  BY <1>2, RunTestTimeInv
<1>3. CASE UNCHANGED <<package, time, seen>>
  BY <1>3 DEF TimeInv
<1> QED BY <1>1, <1>2, <1>3
        DEF Next, JudgingStep, NotCompiled, Compile, CompileFails, ExtractPackage, InitProblem,
            InvalidProblem, CopyThrows, FinishTests, Cleanup, Store, Die, Restart, vars, job

(* max_time_used is the maximum of times limit_run measured, over exactly  *)
(* the tests that were judged, however the judging ends: the time a failed *)
(* run leaves uninitialized never gets there (problem.cpp:95).             *)
THEOREM TimeMeasured == Spec => []TimeIsMeasured
<1>1. Init => TimeInv
  BY DEF Init, TimeInv
<1>2. TypeOK /\ TimeInv => TimeIsMeasured
  <2> SUFFICES ASSUME TypeOK, TimeInv, pc = "store"
               PROVE  LET judged == {i \in DOMAIN seen : ~ Aborts(Verdict(i))} IN
                      time = Max({0} \cup {seen[i].o.time : i \in judged})
    BY DEF TimeIsMeasured
  <2> DEFINE judged == {i \in DOMAIN seen : ~ Aborts(Verdict(i))}
             S == {0} \cup {seen[i].o.time : i \in judged}
  <2>1. DOMAIN seen = 1 .. Len(seen)
    BY DEF TypeOK
  <2>2. \A i \in DOMAIN seen : Verdict(i) = StatusOf(package, seen[i])
    BY DEF Verdict, StatusOf
  <2>3. time \in Nat /\ time \in S
    BY <2>1, <2>2, TimesAssumption DEF TypeOK, TimeInv
  <2>4. \A t \in S : t <= time
    BY <2>1, <2>2, <2>3 DEF TimeInv
  <2>5. \A t \in S : t \in Nat
    <3>1. ASSUME NEW i \in judged
          PROVE  seen[i].o.time \in Nat
      <4>1. seen[i] \in [id : Int, o : Outcomes]
        BY <2>1, Element DEF TypeOK
      <4>2. seen[i].o.time \in Times \cup {Garbage}
        BY <4>1, Zenon DEF Outcomes
      <4> QED BY <4>2, TimesAssumption
    <3> QED BY <3>1
  <2> HIDE DEF S
  <2>6. \A x \in S : (\A t \in S : x >= t) => x = time
    BY <2>3, <2>4, <2>5
  <2>7. time = Max(S)
    <3>1. \A t \in S : time >= t
      BY <2>3, <2>4, <2>5
    <3> QED BY <2>3, <2>6, <3>1 DEF Max
  <2> QED BY <2>7 DEF S
<1> QED BY <1>1, <1>2, StepTimeInv, TypeCorrect, PTL DEF Spec

(* The first test of the school result that has failed gives the status.   *)
FirstFault ==
  IF status = "ST_ACCEPTED" THEN \A i \in 1 .. Len(school) : school[i] = "ST_ACCEPTED"
  ELSE \E k \in 1 .. Len(school) :
         school[k] = status /\ \A j \in 1 .. k - 1 : school[j] = "ST_ACCEPTED"

SchoolIsSeen == \A i \in 1 .. Len(school) : school[i] = StatusOf(package, seen[i])

SchoolInv ==
  /\ pc \in {"compile", "extract", "init"} => school = <<>>
  /\ pc = "tests" => status \in TestFaults \cup {"ST_ACCEPTED"}
  /\ pc = "tests" /\ ~ Acm[sid] => Len(school) = Len(seen) /\ SchoolIsSeen /\ FirstFault
  /\ pc \in {"cleanup", "store"} /\ ~ Acm[sid] =>
       /\ SchoolIsSeen
       /\ Len(school) = IF Aborts(status) /\ seen # <<>> THEN Len(seen) - 1 ELSE Len(seen)
       /\ status \in TestFaults \cup {"ST_ACCEPTED"} =>
            Len(school) = Len(TestsOf(package)) /\ FirstFault

LEMMA RunTestSchoolInv ==
  ASSUME TypeOK, TestsInv, SchoolInv, RunTest
  PROVE  SchoolInv'
<1> DEFINE n == Len(seen)  st == StatusOf(package, seen'[n + 1])
<1>1. PICK o \in Outcomes :
        /\ pc = "tests" /\ n \in Nat /\ Len(seen') = n + 1
        /\ UNCHANGED <<row, sid, package>>
        /\ \A i \in 1 .. n : seen'[i] = seen[i]
        /\ seen'[n + 1].o = o
        /\ st = TestStatus(ConventionOf(package), o)
        /\ IF Aborts(st) THEN AbortTests(st, o)
           ELSE CountTest(TestsOf(package)[next], st, o)
  BY SeenGrows
<1>2. st \in TestFaults \cup {"ST_ACCEPTED", "ST_SERVER_ERROR", "ST_CHECKER_ERROR"}
  BY <1>1, TestStatusIs
<1>3. /\ status \in TestFaults \cup {"ST_ACCEPTED"}
      /\ ~ Acm[sid] => Len(school) = n /\ SchoolIsSeen /\ FirstFault
      /\ school \in Seq(Statuses)
  BY <1>1 DEF SchoolInv, TypeOK
<1>4. \A i \in 1 .. n : StatusOf(package, seen'[i]) = StatusOf(package, seen[i])
  BY <1>1
<1>5. st \in Statuses
  BY <1>2 DEF Statuses
<1> HIDE DEF st
<1>6. CASE Aborts(st)
  <2>1. pc' = "cleanup" /\ status' = st /\ school' = school
    BY <1>1, <1>6 DEF AbortTests
  <2>2. status' \notin TestFaults \cup {"ST_ACCEPTED"} /\ Aborts(status') /\ seen' # <<>>
    BY <1>1, <1>6, <2>1 DEF Aborts, TestFaults
  <2>3. ~ Acm[sid] => SchoolIsSeen' /\ Len(school') = Len(seen') - 1
    BY <1>1, <1>3, <1>4, <2>1 DEF SchoolIsSeen
  <2> QED BY <1>1, <2>1, <2>2, <2>3 DEF SchoolInv
<1>7. CASE ~ Aborts(st)
  <2>1. /\ pc' = "tests" /\ status' = IF status = "ST_ACCEPTED" THEN st ELSE status
        /\ ~ Acm[sid] => school' = Append(school, st)
    BY <1>1, <1>7 DEF CountTest
  <2>2. status' \in TestFaults \cup {"ST_ACCEPTED"}
    BY <1>2, <1>3, <1>7, <2>1 DEF Aborts
  <2>3. ASSUME ~ Acm[sid]
        PROVE  Len(school') = Len(seen') /\ SchoolIsSeen' /\ FirstFault'
    <3>1. /\ Len(school') = n + 1 /\ school'[n + 1] = st
          /\ \A i \in 1 .. n : school'[i] = school[i]
      BY <1>1, <1>3, <1>5, <2>1, <2>3
    <3>2. \A i \in 1 .. n + 1 : i \in 1 .. n \/ i = n + 1
      BY <1>1
    <3>3. 1 .. n \subseteq 1 .. n + 1 /\ n + 1 \in 1 .. n + 1 /\ n + 1 - 1 = n
      BY <1>1
    <3>4. SchoolIsSeen'
      BY <1>1, <1>3, <1>4, <2>3, <3>1, <3>2 DEF SchoolIsSeen, st
    <3>5. FirstFault'
      <4>1. CASE status = "ST_ACCEPTED" /\ st = "ST_ACCEPTED"
        BY <1>3, <2>1, <2>3, <3>1, <3>2, <4>1 DEF FirstFault
      <4>2. CASE status = "ST_ACCEPTED" /\ st # "ST_ACCEPTED"
        <5>1. \A i \in 1 .. n : school'[i] = "ST_ACCEPTED"
          BY <1>3, <2>3, <3>1, <4>2 DEF FirstFault
        <5>2. school'[n + 1] = status' /\ status' # "ST_ACCEPTED"
          BY <2>1, <3>1, <4>2
        <5> QED BY <3>1, <3>3, <5>1, <5>2 DEF FirstFault
      <4>3. CASE status # "ST_ACCEPTED"
        <5>1. PICK k \in 1 .. n :
                school[k] = status /\ \A j \in 1 .. k - 1 : school[j] = "ST_ACCEPTED"
          BY <1>3, <2>3, <4>3 DEF FirstFault
        <5>2. 1 .. k - 1 \subseteq 1 .. n
          BY <1>1
        <5>3. school'[k] = status' /\ \A j \in 1 .. k - 1 : school'[j] = "ST_ACCEPTED"
          BY <2>1, <3>1, <4>3, <5>1, <5>2
        <5> QED BY <2>1, <3>1, <3>3, <4>3, <5>3 DEF FirstFault
      <4> QED BY <4>1, <4>2, <4>3
    <3> QED BY <1>1, <3>1, <3>4, <3>5
  <2> QED BY <1>1, <2>1, <2>2, <2>3 DEF SchoolInv
<1> QED BY <1>6, <1>7

(* A judging that ends before its tests.                                   *)
LEMMA EarlyEndSchoolInv ==
  ASSUME TestsInv, SchoolInv, pc \in {"compile", "init"}, pc' = "cleanup",
         status' \in Final \ (TestFaults \cup {"ST_ACCEPTED"}),
         UNCHANGED <<sid, package, school, seen>>
  PROVE  SchoolInv'
<1>1. school' = <<>> /\ seen' = <<>>
  BY DEF SchoolInv, TestsInv, BeforeTests
<1> QED BY <1>1 DEF SchoolInv, SchoolIsSeen

LEMMA FinishSchoolInv ==
  ASSUME TestsInv, SchoolInv, FinishTests
  PROVE  SchoolInv'
<1>1. /\ pc = "tests" /\ pc' = "cleanup" /\ TestsDone
      /\ UNCHANGED <<sid, package, status, school, next, seen>>
  BY DEF FinishTests, job
<1>2. ~ Aborts(status)
  BY <1>1 DEF SchoolInv, Aborts, TestFaults
<1>3. ASSUME ~ Acm[sid]
      PROVE  Len(seen) = Len(TestsOf(package))
  <2>1. /\ next = Len(seen) + 1 /\ Len(seen) <= Len(TestsOf(package))
        /\ next > Len(TestsOf(package))
    BY <1>1, <1>3 DEF TestsInv, DuringTests, SeenInOrder, TestsDone
  <2>2. Len(seen) \in Nat /\ Len(TestsOf(package)) \in Nat
    BY TestsAreInOrder DEF TestsInv, JobInv
  <2> QED BY <2>1, <2>2
<1> QED BY <1>1, <1>2, <1>3 DEF SchoolInv, SchoolIsSeen, FirstFault

LEMMA QuietSchoolInv ==
  ASSUME SchoolInv, UNCHANGED <<sid, package, status, school, seen>>,
         \/ pc \in {"compile", "extract"} /\ pc' \in {"extract", "init"}
         \/ pc = "cleanup" /\ pc' = "store"
         \/ pc' \in {"idle", "dead"}
         \/ pc' = pc
  PROVE  SchoolInv'
BY DEF SchoolInv, SchoolIsSeen, FirstFault

LEMMA StepSchoolInv == TypeOK /\ TestsInv /\ SchoolInv /\ [Next]_vars => SchoolInv'
<1> SUFFICES ASSUME TypeOK, TestsInv, SchoolInv, [Next]_vars PROVE SchoolInv'
  OBVIOUS
<1>1. ASSUME NEW s \in Submits, NEW p \in Packages, Load(s, p) PROVE SchoolInv'
  BY <1>1 DEF Load, SchoolInv
<1>2. ASSUME NEW rest, Compile(rest) PROVE SchoolInv'
  BY <1>2 DEF Compile, SchoolInv
<1>3. CASE NotCompiled
  <2>1. {"ST_INVALID_LANG", "ST_SERVER_ERROR"}
          \subseteq Final \ (TestFaults \cup {"ST_ACCEPTED"})
    BY DEF Final, Statuses, TestFaults
  <2> QED BY <1>3, <2>1, EarlyEndSchoolInv DEF NotCompiled
<1>4. ASSUME NEW rest, NEW st, CompileFails(st, rest) PROVE SchoolInv'
  <2>1. CompileFaults \cup {"ST_SERVER_ERROR"}
          \subseteq Final \ (TestFaults \cup {"ST_ACCEPTED"})
    BY DEF Final, Statuses, TestFaults, CompileFaults
  <2> QED BY <1>4, <2>1, EarlyEndSchoolInv DEF CompileFails
<1>5. CASE ExtractPackage
  BY <1>5, QuietSchoolInv DEF ExtractPackage, job
<1>6. CASE InitProblem
  <2>1. pc = "init" /\ pc' = "tests" /\ status' = "ST_ACCEPTED" /\ school' = <<>>
        /\ seen' = <<>>
    BY <1>6 DEF InitProblem, SchoolInv, TestsInv, BeforeTests
  <2> QED BY <2>1 DEF SchoolInv, SchoolIsSeen, FirstFault
<1>7. CASE InvalidProblem
  <2>1. "ST_INVALID_PROBLEM" \in Final \ (TestFaults \cup {"ST_ACCEPTED"})
    BY DEF Final, Statuses, TestFaults
  <2> QED BY <1>7, <2>1, EarlyEndSchoolInv DEF InvalidProblem
<1>8. CASE RunTest
  BY <1>8, RunTestSchoolInv
<1>9. CASE FinishTests
  BY <1>9, FinishSchoolInv
<1>10. CASE Cleanup \/ Store \/ CopyThrows \/ Die \/ Restart
  BY <1>10, QuietSchoolInv DEF Cleanup, Store, CopyThrows, Die, Restart, job
<1>11. CASE UNCHANGED vars
  BY <1>11, QuietSchoolInv DEF vars, job
<1> QED BY <1>1, <1>2, <1>3, <1>4, <1>5, <1>6, <1>7, <1>8, <1>9, <1>10, <1>11
        DEF Next, JudgingStep

LEMMA SchoolInvAlways == Spec => []SchoolInv
<1>1. Init => SchoolInv
  BY DEF Init, SchoolInv
<1> QED BY <1>1, StepSchoolInv, TypeCorrect, Invariance, PTL DEF Spec

(* Under school rules the result has the status of every test judged, in   *)
(* the order of the tests; only a server or checker error cuts it short,   *)
(* and the status is that of the first failed test (problem.cpp:64-109).   *)
THEOREM SchoolResultComplete == Spec => []SchoolResultIsComplete
<1>1. TypeOK /\ SchoolInv => SchoolResultIsComplete
  <2> SUFFICES ASSUME TypeOK, SchoolInv, pc = "store", ~ Acm[sid]
               PROVE  /\ school = [i \in DOMAIN school |-> Verdict(i)]
                      /\ Len(school) = IF Aborts(status) /\ seen # <<>> THEN Len(seen) - 1
                                       ELSE Len(seen)
                      /\ status \in TestFaults \cup {"ST_ACCEPTED"} =>
                           /\ Len(school) = Len(TestsOf(package))
                           /\ \A i \in DOMAIN school :
                                (\A j \in 1 .. i - 1 : school[j] = "ST_ACCEPTED") =>
                                  school[i] \in {"ST_ACCEPTED", status}
    BY DEF SchoolResultIsComplete
  <2>1. DOMAIN school = 1 .. Len(school) /\ Len(school) \in Nat
        /\ school = [i \in DOMAIN school |-> school[i]]
    BY DEF TypeOK
  <2>2. \A i \in DOMAIN school : school[i] = Verdict(i)
    BY <2>1 DEF SchoolInv, SchoolIsSeen, Verdict, StatusOf
  <2>3. ASSUME FirstFault, NEW i \in 1 .. Len(school),
               \A j \in 1 .. i - 1 : school[j] = "ST_ACCEPTED"
        PROVE  school[i] \in {"ST_ACCEPTED", status}
    <3>1. CASE status = "ST_ACCEPTED"
      BY <2>3, <3>1 DEF FirstFault
    <3>2. CASE status # "ST_ACCEPTED"
      <4>1. PICK k \in 1 .. Len(school) :
              school[k] = status /\ \A j \in 1 .. k - 1 : school[j] = "ST_ACCEPTED"
        BY <2>3, <3>2 DEF FirstFault
      <4>2. ~ (k \in 1 .. i - 1)
        BY <2>3, <3>2, <4>1
      <4>3. i = k \/ i \in 1 .. k - 1
        BY <2>1, <4>2
      <4> QED BY <4>1, <4>3
    <3> QED BY <3>1, <3>2
  <2> QED BY <2>1, <2>2, <2>3 DEF SchoolInv
<1> QED BY <1>1, SchoolInvAlways, TypeCorrect, PTL

(* A compilation fault has the compiler's log beside it, in hand and in    *)
(* the row.                                                                *)
InfoInv ==
  /\ pc \in {"cleanup", "store"} /\ status \in CompileFaults => info = "compiler"
  /\ CompileFaultIsExplained

LEMMA StoreInfoInv ==
  ASSUME TypeOK, InfoInv, Store
  PROVE  InfoInv'
<1> DEFINE x == [result |-> status, failed |-> IF failed < 0 THEN NoTest ELSE failed,
                 school |-> IF Acm[sid] THEN row[sid].school ELSE school, time |-> time,
                 info |-> IF InfoWanted THEN info ELSE row[sid].info,
                 fresh |-> InfoWanted]
<1>1. pc = "store" /\ pc' = "idle" /\ (row' = [row EXCEPT ![sid] = x] \/ row' = row)
  BY DEF Store
<1>2. status \in CompileFaults => InfoWanted /\ info = "compiler"
  BY <1>1 DEF InfoInv, InfoWanted
<1>3. x.result = status /\ x.fresh = InfoWanted /\ (InfoWanted => x.info = info)
  OBVIOUS
<1> HIDE DEF x
<1>4. \A s \in Submits : row'[s] = row[s] \/ row'[s] = x
  BY <1>1 DEF TypeOK
<1>5. CompileFaultIsExplained'
  BY <1>2, <1>3, <1>4 DEF InfoInv, CompileFaultIsExplained
<1> QED BY <1>1, <1>5 DEF InfoInv

LEMMA StepInfoInv == TypeOK /\ SchoolInv /\ InfoInv /\ [Next]_vars => InfoInv'
<1> SUFFICES ASSUME TypeOK, SchoolInv, InfoInv, [Next]_vars PROVE InfoInv'
  OBVIOUS
<1> USE DEF InfoInv, CompileFaultIsExplained
<1>1. ASSUME NEW s \in Submits, NEW p \in Packages, Load(s, p) PROVE InfoInv'
  BY <1>1 DEF Load
<1>2. CASE NotCompiled
  BY <1>2 DEF NotCompiled, CompileFaults
<1>3. ASSUME NEW rest, Compile(rest) PROVE InfoInv'
  BY <1>3 DEF Compile
<1>4. ASSUME NEW rest, NEW st, CompileFails(st, rest) PROVE InfoInv'
  BY <1>4 DEF CompileFails, CompileFaults
<1>5. CASE ExtractPackage \/ InitProblem \/ InvalidProblem
  BY <1>5 DEF ExtractPackage, InitProblem, InvalidProblem, CompileFaults
<1>6. CASE RunTest
  <2>1. row' = row /\ pc' \in {"tests", "cleanup"}
        /\ (pc' = "cleanup" => status' \notin CompileFaults)
    <3>1. PICK o \in Outcomes :
            LET st == StatusOf(package, seen'[Len(seen) + 1]) IN
            /\ pc = "tests" /\ row' = row
            /\ IF Aborts(st) THEN AbortTests(st, o)
               ELSE CountTest(TestsOf(package)[next], st, o)
      BY <1>6, SeenGrows
    <3> QED BY <3>1 DEF AbortTests, CountTest, Aborts, CompileFaults
  <2> QED BY <2>1
<1>7. CASE FinishTests
  <2>1. status \notin CompileFaults
    BY <1>7 DEF FinishTests, SchoolInv, TestFaults, CompileFaults
  <2> QED BY <1>7, <2>1 DEF FinishTests, job
<1>8. CASE Store
  BY <1>8, StoreInfoInv
<1>9. CASE Cleanup \/ CopyThrows \/ Die \/ Restart
  BY <1>9 DEF Cleanup, CopyThrows, Die, Restart, job
<1>10. CASE UNCHANGED vars
  BY <1>10 DEF vars, job
<1> QED BY <1>1, <1>2, <1>3, <1>4, <1>5, <1>6, <1>7, <1>8, <1>9, <1>10
        DEF Next, JudgingStep

(* A row that says the compilation failed has the compiler's log of that   *)
(* same judging, wanted or not, and keeps it until the next verdict is     *)
(* stored (submit.cpp:74-88, 125-140).                                     *)
THEOREM CompileFaultsExplained == Spec => []CompileFaultIsExplained
<1>1. Init => InfoInv
  BY DEF Init, InfoInv, CompileFaultIsExplained, Unjudged, CompileFaults
<1>2. InfoInv => CompileFaultIsExplained
  BY DEF InfoInv
<1> QED BY <1>1, <1>2, StepInfoInv, TypeCorrect, SchoolInvAlways, PTL DEF Spec

-----------------------------------------------------------------------------
(* What a judging leaves behind *)

(* No two verbose tests have the same number.                              *)
VerboseOnce ==
  \A p \in Packages : \A i, j \in 1 .. Len(TestsOf(p)) :
    i < j /\ TestsOf(p)[i] = TestsOf(p)[j] => TestsOf(p)[i] \notin p.verbose

LEMMA NoCopyExists ==
  ASSUME VerboseOnce, TypeOK
  PROVE  ~ CopyThrows
<1> SUFFICES ASSUME CopyThrows PROVE FALSE
  OBVIOUS
<1> DEFINE T == TestsOf(package)
<1>1. package \in Packages /\ Len(T) \in Nat /\ next \in 1 .. Len(T)
  BY TestsAreInOrder DEF TypeOK, CopyThrows, TestsDone
<1>2. PICK i \in 1 .. next - 1 : T[i] = T[next]
  BY DEF CopyThrows, CopyExists
<1>3. i \in 1 .. Len(T) /\ i < next /\ T[i] \in package.verbose
  BY <1>1, <1>2 DEF CopyThrows, CopyExists
<1> QED BY <1>1, <1>2, <1>3 DEF VerboseOnce

(* The files of the judging in hand, by where it is.                       *)
MayHold(f) ==
  \/ f = "source" /\ pc \notin {"idle", "compile"}
  \/ f = "exe" /\ pc \in {"extract", "init", "tests"}
  \/ f = "package" /\ pc \in {"init", "tests"}
  \/ f = "verbose" /\ pc = "tests"

FilesInv ==
  /\ pc # "dead"
  /\ \A s \in Submits : \A f \in files[s] : f \in {"byproduct", "stray"} \/ (s = sid /\ MayHold(f))

(* A step that only touches the files of the submission in hand, leaving   *)
(* it what its new place allows.                                           *)
LEMMA FilesFit ==
  ASSUME TypeOK, FilesInv, sid' = sid, pc' # "dead",
         \E x : files' = [files EXCEPT ![sid] = x]
                /\ \A f \in x : f \in {"byproduct", "stray"} \/ MayHold(f)'
  PROVE  FilesInv'
<1>1. PICK x : files' = [files EXCEPT ![sid] = x]
               /\ \A f \in x : f \in {"byproduct", "stray"} \/ MayHold(f)'
  OBVIOUS
<1>2. files'[sid] = x /\ \A s \in Submits : s # sid => files'[s] = files[s]
  BY <1>1 DEF TypeOK
<1> QED BY <1>1, <1>2 DEF FilesInv

LEMMA StepFilesInv ==
  ASSUME ~ MayDie, VerboseOnce
  PROVE  TypeOK /\ FilesInv /\ [Next]_vars => FilesInv'
<1> SUFFICES ASSUME TypeOK, FilesInv, [Next]_vars PROVE FilesInv'
  OBVIOUS
<1>1. sid \in Submits /\ (\A f \in files[sid] : f \in {"byproduct", "stray"} \/ MayHold(f))
  BY DEF TypeOK, FilesInv
<1>2. ASSUME NEW s \in Submits, NEW p \in Packages, Load(s, p) PROVE FilesInv'
  BY <1>1, <1>2 DEF Load, FilesInv, MayHold
<1>3. CASE NotCompiled
  BY <1>3 DEF NotCompiled, FilesInv, MayHold
<1>4. ASSUME NEW rest \in SUBSET {"byproduct"}, Compile(rest) PROVE FilesInv'
  <2>1. files' = [files EXCEPT ![sid] = files[sid] \cup {"source", "exe"} \cup rest]
    BY <1>4 DEF Compile
  <2>2. \A f \in files[sid] \cup {"source", "exe"} \cup rest : f \in {"byproduct", "stray"} \/ MayHold(f)'
    BY <1>1, <1>4 DEF Compile, MayHold
  <2>3. sid' = sid /\ pc' # "dead"
    BY <1>4 DEF Compile
  <2> QED BY <2>1, <2>2, <2>3, FilesFit
<1>5. ASSUME NEW rest \in SUBSET {"byproduct", "stray"}, NEW st, CompileFails(st, rest)
      PROVE  FilesInv'
  <2>1. files' = [files EXCEPT ![sid] = files[sid] \cup rest]
    BY <1>5 DEF CompileFails
  <2>2. \A f \in files[sid] \cup rest : f \in {"byproduct", "stray"} \/ MayHold(f)'
    BY <1>1, <1>5 DEF CompileFails, MayHold
  <2>3. sid' = sid /\ pc' # "dead"
    BY <1>5 DEF CompileFails
  <2> QED BY <2>1, <2>2, <2>3, FilesFit
<1>6. CASE ExtractPackage
  <2>1. files' = [files EXCEPT ![sid] = files[sid] \cup {"package"}]
    BY <1>6 DEF ExtractPackage
  <2>2. \A f \in files[sid] \cup {"package"} : f \in {"byproduct", "stray"} \/ MayHold(f)'
    BY <1>1, <1>6 DEF ExtractPackage, MayHold
  <2>3. sid' = sid /\ pc' # "dead"
    BY <1>6 DEF ExtractPackage, job
  <2> QED BY <2>1, <2>2, <2>3, FilesFit
<1>7. CASE InitProblem
  <2>1. files' = [files EXCEPT ![sid] = files[sid] \ {"verbose"}]
    BY <1>7 DEF InitProblem
  <2>2. \A f \in files[sid] \ {"verbose"} : f \in {"byproduct", "stray"} \/ MayHold(f)'
    BY <1>1, <1>7 DEF InitProblem, MayHold
  <2>3. sid' = sid /\ pc' # "dead"
    BY <1>7 DEF InitProblem
  <2> QED BY <2>1, <2>2, <2>3, FilesFit
<1>8. CASE InvalidProblem
  <2>1. files' = [files EXCEPT ![sid] = files[sid] \ {"exe", "package"}]
    BY <1>8 DEF InvalidProblem
  <2>2. \A f \in files[sid] \ {"exe", "package"} : f \in {"byproduct", "stray"} \/ MayHold(f)'
    BY <1>1, <1>8 DEF InvalidProblem, MayHold
  <2>3. sid' = sid /\ pc' # "dead"
    BY <1>8 DEF InvalidProblem
  <2> QED BY <2>1, <2>2, <2>3, FilesFit
<1>9. ASSUME pc = "tests", pc' = "cleanup", sid' = sid, files' = EndOfTest
      PROVE  FilesInv'
  <2>1. files' = [files EXCEPT ![sid] = files[sid] \ {"exe", "verbose", "package"}]
    BY <1>9 DEF EndOfTest
  <2>2. \A f \in files[sid] \ {"exe", "verbose", "package"} :
          f \in {"byproduct", "stray"} \/ MayHold(f)'
    BY <1>1, <1>9 DEF MayHold
  <2> QED BY <1>9, <2>1, <2>2, FilesFit
<1>10. CASE RunTest
  <2>1. PICK o \in Outcomes :
          LET st == StatusOf(package, seen'[Len(seen) + 1]) IN
          /\ pc = "tests" /\ sid' = sid
          /\ IF Aborts(st) THEN AbortTests(st, o)
             ELSE CountTest(TestsOf(package)[next], st, o)
    BY <1>10, SeenGrows
  <2>2. CASE pc' = "cleanup" /\ files' = EndOfTest
    BY <1>9, <2>1, <2>2
  <2>3. CASE pc' = pc /\ files' = [files EXCEPT ![sid] = files[sid] \cup {"verbose"}]
    <3>1. \A f \in files[sid] \cup {"verbose"} : f \in {"byproduct", "stray"} \/ MayHold(f)'
      BY <1>1, <2>1, <2>3 DEF MayHold
    <3> QED BY <2>1, <2>3, <3>1, FilesFit
  <2>4. CASE pc' = pc /\ files' = files
    BY <2>1, <2>4 DEF FilesInv, MayHold
  <2> QED BY <2>1, <2>2, <2>3, <2>4 DEF AbortTests, CountTest
<1>11. CASE FinishTests
  BY <1>9, <1>11 DEF FinishTests, job
<1>12. CASE Cleanup
  BY <1>12 DEF Cleanup, job, FilesInv, MayHold
<1>13. CASE Store
  <2>1. files' = [files EXCEPT ![sid] = files[sid] \ {"source"}]
    BY <1>13 DEF Store
  <2>2. \A f \in files[sid] \ {"source"} : f \in {"byproduct", "stray"} \/ MayHold(f)'
    BY <1>1, <1>13 DEF Store, MayHold
  <2>3. sid' = sid /\ pc' # "dead"
    BY <1>13 DEF Store, job
  <2> QED BY <2>1, <2>2, <2>3, FilesFit
<1>15. ~ CopyThrows
  BY NoCopyExists
<1>14. CASE Die \/ Restart \/ UNCHANGED vars
  BY <1>14 DEF Die, Restart, vars, job, FilesInv, MayHold
<1> QED BY <1>2, <1>3, <1>4, <1>5, <1>6, <1>7, <1>8, <1>10, <1>11, <1>12, <1>13, <1>14, <1>15
        DEF Next, JudgingStep

(* If the daemon does not die, and no two verbose tests of a package have  *)
(* the same number, which ends it, no way through the judging of a         *)
(* submission leaves its source, package or verbose directory, nor an      *)
(* executable but one that a compiler wrote that was stopped               *)
(* (submit.cpp:41-46, problem.cpp:41-60, common.cpp:114-130).              *)
THEOREM NothingLeft ==
  ASSUME ~ MayDie, VerboseOnce
  PROVE  Spec => []NothingIsLeft
<1>1. Init => FilesInv
  BY DEF Init, FilesInv, MayHold
<1>2. FilesInv => NothingIsLeft
  BY DEF FilesInv, NothingIsLeft, MayHold
<1>3. TypeOK /\ FilesInv /\ [Next]_vars => FilesInv'
  BY StepFilesInv
<1> QED BY <1>1, <1>2, <1>3, TypeCorrect, PTL DEF Spec

(* The Test directory is dirty only from the compilation to the cleanup,   *)
(* and never for a language nobody knows.                                  *)
DirtyInv ==
  /\ pc # "dead"
  /\ pc \in {"idle", "compile", "store"} => dirty = {}
  /\ pc = "cleanup" /\ status = "ST_INVALID_LANG" => dirty = {}
  /\ pc = "tests" => status # "ST_INVALID_LANG"

LEMMA StepDirtyInv ==
  ASSUME ~ MayDie, Cleans, VerboseOnce
  PROVE  TypeOK /\ DirtyInv /\ [Next]_vars => DirtyInv'
<1> SUFFICES ASSUME TypeOK, DirtyInv, [Next]_vars PROVE DirtyInv'
  OBVIOUS
<1> USE DEF DirtyInv
<1>1. ASSUME NEW s \in Submits, NEW p \in Packages, Load(s, p) PROVE DirtyInv'
  BY <1>1 DEF Load
<1>2. CASE NotCompiled
  BY <1>2 DEF NotCompiled
<1>3. ASSUME NEW rest, Compile(rest) PROVE DirtyInv'
  BY <1>3 DEF Compile
<1>4. ASSUME NEW rest, NEW st, CompileFails(st, rest) PROVE DirtyInv'
  BY <1>4 DEF CompileFails, CompileFaults
<1>5. CASE ExtractPackage \/ InitProblem \/ InvalidProblem
  BY <1>5 DEF ExtractPackage, InitProblem, InvalidProblem
<1>6. CASE RunTest
  <2>1. PICK o \in Outcomes :
          LET st == StatusOf(package, seen'[Len(seen) + 1]) IN
          /\ pc = "tests" /\ st = TestStatus(ConventionOf(package), o)
          /\ IF Aborts(st) THEN AbortTests(st, o)
             ELSE CountTest(TestsOf(package)[next], st, o)
    BY <1>6, SeenGrows
  <2>2. TestStatus(ConventionOf(package), o) # "ST_INVALID_LANG"
    BY TestStatusIs DEF TestFaults
  <2> QED BY <2>1, <2>2 DEF AbortTests, CountTest
<1>7. CASE FinishTests
  BY <1>7 DEF FinishTests, job
<1>8. CASE Cleanup
  BY <1>8 DEF Cleanup, job
<1>9. CASE Store
  BY <1>9 DEF Store, job
<1>10. CASE CopyThrows \/ Die \/ Restart
  BY <1>10, NoCopyExists DEF Die, Restart
<1>11. CASE UNCHANGED vars
  BY <1>11 DEF vars, job
<1> QED BY <1>1, <1>2, <1>3, <1>4, <1>5, <1>6, <1>7, <1>8, <1>9, <1>10, <1>11
        DEF Next, JudgingStep

(* If the daemon does not die, by two verbose tests of one number either,  *)
(* and every language has a clean command that works, each judging starts  *)
(* in an empty Test directory, whatever way the one before it ended        *)
(* (submit.cpp:41-46, submit.cpp:112-123).                                 *)
THEOREM TestDirFresh ==
  ASSUME ~ MayDie, Cleans, VerboseOnce
  PROVE  Spec => []TestDirIsFresh
<1>1. Init => DirtyInv
  BY DEF Init, DirtyInv
<1>2. DirtyInv => TestDirIsFresh
  BY DEF DirtyInv, TestDirIsFresh
<1>3. TypeOK /\ DirtyInv /\ [Next]_vars => DirtyInv'
  BY StepDirtyInv
<1> QED BY <1>1, <1>2, <1>3, TypeCorrect, PTL DEF Spec
=============================================================================
