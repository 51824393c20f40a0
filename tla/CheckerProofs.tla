---------------------------- MODULE CheckerProofs ----------------------------
(***************************************************************************)
(* Who a checker blames, what becomes of its verdict, what it has read of  *)
(* an output that it accepts, which numbers it takes an output for, and    *)
(* which outputs the default checker accepts, proved for every text of the *)
(* three files, every width and range of the integers and every number of  *)
(* reads.                                                                  *)
(***************************************************************************)
EXTENDS Checkers, TextProofs

-----------------------------------------------------------------------------
(* What is read from a stream, the stream keeps its mode: quit() tells by  *)
(* it whose fault it is.                                                   *)

IsStream(s) == s = [text |-> s.text, eof |-> s.eof, file |-> s.file, mode |-> s.mode]
Keeps(s, t) == IsStream(t) /\ t.mode = s.mode

(* A read goes on with the stream, dies, or quits with a fault.            *)
Sound(s, r) == Keeps(s, r.s) /\ r.quit \in {"none", "crash", "_pe", "_wa"}

LEMMA GetcKeeps ==
  ASSUME NEW s, IsStream(s)
  PROVE  Keeps(s, Getc(s).s)
BY DEF IsStream, Keeps, Getc

LEMMA UngetKeeps ==
  ASSUME NEW s, IsStream(s), NEW c
  PROVE  Keeps(s, Unget(s, c))
BY DEF IsStream, Keeps, Unget

LEMMA PutBackAtKeeps ==
  ASSUME NEW s, IsStream(s), NEW n
  PROVE  Keeps(s, PutBackAt(s, n))
<1> DEFINE t == [s EXCEPT !.text = SubSeq(@, n, Len(@))]
<1>1. \A text : Keeps(s, [s EXCEPT !.text = text])
  BY DEF IsStream, Keeps
<1>2. Keeps(s, t)
  BY <1>1
<1> HIDE DEF t
<1>3. Keeps(t, Getc(t).s)
  BY <1>2, GetcKeeps DEF Keeps
<1>4. Keeps(Getc(t).s, Unget(Getc(t).s, Getc(t).c))
  BY <1>3, UngetKeeps DEF Keeps
<1>5. PutBackAt(s, n) = Unget(Getc(t).s, Getc(t).c)
  BY Zenon DEF PutBackAt, t
<1> QED BY <1>2, <1>3, <1>4, <1>5 DEF Keeps

LEMMA SkipBlanksKeeps ==
  ASSUME NEW s, IsStream(s)
  PROVE  Keeps(s, SkipBlanks(s))
BY PutBackAtKeeps DEF SkipBlanks, EndOf, SelectInSeq

LEMMA EofSound ==
  ASSUME NEW s, IsStream(s)
  PROVE  Sound(s, Eof(s))
BY GetcKeeps DEF Eof, Sound, Tells, Keeps

LEMMA SeekEofSound ==
  ASSUME NEW s, IsStream(s)
  PROVE  Sound(s, SeekEof(s))
<1>1. Keeps(s, SkipBlanks(s))
  BY SkipBlanksKeeps
<1>2. Sound(s, Eof(SkipBlanks(s)))
  BY <1>1, EofSound DEF Sound, Keeps
<1> QED BY <1>2 DEF SeekEof, Tells, Sound, Keeps

LEMMA ReadCharSound ==
  ASSUME NEW s, IsStream(s)
  PROVE  Sound(s, ReadChar(s))
BY GetcKeeps DEF ReadChar, Sound, Gives, Quits, Keeps

LEMMA ReadSpaceSound ==
  ASSUME NEW s, IsStream(s)
  PROVE  Sound(s, ReadSpace(s))
BY ReadCharSound, Zenon DEF ReadSpace, Then, Quits, Sound

LEMMA ReadWordSound ==
  ASSUME NEW s, IsStream(s)
  PROVE  Sound(s, ReadWord(s))
<1>1. Keeps(s, SkipBlanks(s))
  BY SkipBlanksKeeps
<1>2. Keeps(s, Getc(SkipBlanks(s)).s)
  BY <1>1, GetcKeeps DEF Keeps
<1>3. ASSUME NEW n PROVE Keeps(s, PutBackAt(SkipBlanks(s), n))
  BY <1>1, PutBackAtKeeps DEF Keeps
<1> QED
  BY <1>2, <1>3 DEF ReadWord, Sound, Gives, Quits, Keeps, EndOf, SelectInSeq

LEMMA ReadLongSound ==
  ASSUME NEW s, IsStream(s), NEW tested
  PROVE  Sound(s, ReadLong(s, tested))
<1>1. Sound(s, SeekEof(s))
  BY SeekEofSound
<1>2. Sound(s, ReadWord(SeekEof(s).s))
  BY <1>1, ReadWordSound DEF Sound, Keeps
<1> QED BY <1>1, <1>2 DEF ReadLong, Then, Quits, Sound

LEMMA ReadIntegerSound ==
  ASSUME NEW s, IsStream(s), NEW tested
  PROVE  Sound(s, ReadInteger(s, tested))
BY ReadLongSound DEF ReadInteger, Then, Quits, Sound

LEMMA ReadInRangeSound ==
  ASSUME NEW s, IsStream(s), NEW tested
  PROVE  Sound(s, ReadInRange(s, tested))
BY ReadIntegerSound DEF ReadInRange, Then, Quits, Sound

LEMMA EolnSound ==
  ASSUME NEW s, IsStream(s)
  PROVE  Sound(s, Eoln(s))
<1> DEFINE g == Getc(s)
           h == Getc(g.s)
<1>1. Keeps(s, g.s)
  BY GetcKeeps
<1>2. Keeps(s, h.s)
  BY <1>1, GetcKeeps DEF Keeps
<1>3. \A c : Keeps(s, Unget(g.s, c)) /\ Keeps(s, Unget(h.s, c))
  BY <1>1, <1>2, UngetKeeps DEF Keeps
<1>4. \A c, d : Keeps(s, Unget(Unget(h.s, c), d))
  BY <1>3, UngetKeeps DEF Keeps
<1> QED BY <1>1, <1>2, <1>3, <1>4 DEF Eoln, Tells, Sound, Keeps

LEMMA SeekEolnSound ==
  ASSUME NEW s, IsStream(s)
  PROVE  Sound(s, SeekEoln(s))
<1>1. ASSUME NEW n PROVE Sound(s, Eoln(PutBackAt(s, n)))
  BY PutBackAtKeeps, EolnSound DEF Sound, Keeps
<1> QED BY <1>1, Zenon DEF SeekEoln, Tells, Sound, Keeps, EndOf, SelectInSeq

LEMMA ReadStringSound ==
  ASSUME NEW s, IsStream(s)
  PROVE  Sound(s, ReadString(s))
<1>1. ASSUME NEW n PROVE Keeps(s, Eoln(PutBackAt(s, n)).s)
  BY PutBackAtKeeps, EolnSound DEF Sound, Keeps
<1> QED
  BY <1>1 DEF ReadString, Sound, Gives, Quits, Keeps, EndOf, SelectInSeq

LEMMA ReadSound ==
  ASSUME NEW s, IsStream(s), NEW op \in Ops, NEW tested
  PROVE  Sound(s, Read(op, s, tested))
<1>1. Sound(s, ReadEoln(s))
  BY EolnSound DEF ReadEoln, Then, Quits, Sound
<1>2. Sound(s, ReadEof(s))
  BY EofSound DEF ReadEof, Then, Quits, Sound
<1> QED
  BY <1>1, <1>2, ReadCharSound, ReadSpaceSound, ReadWordSound, ReadLongSound,
     ReadIntegerSound, ReadInRangeSound, ReadStringSound, EofSound, SeekEofSound,
     EolnSound, SeekEolnSound DEF Read, Ops

-----------------------------------------------------------------------------
(* The checker *)

(* Each stream has the mode of its file, and only the output's is _output. *)
ModesInv ==
  up => /\ \A x \in Streams : IsStream(st[x])
        /\ st = [x \in Streams |-> st[x]]
        /\ \A x \in Streams : st[x].mode = "_output" <=> x = "ouf"

(* How the checker ended: by a crash, by a fault in a file of the jury, or *)
(* with a verdict on the output.  The default checker takes no part in it. *)
EndInv ==
  /\ blamed \in Streams \cup {"none"}
  /\ which = "default" => ~ up
  /\ ~ up => blamed = "none" /\ ~ missed /\ (which = "package" => exit = Running)
  /\ up /\ blamed = "none" => exit \in {Running, Crash}
  /\ blamed \in {"inf", "ans"} => exit = 6
  /\ blamed = "ouf" => \/ result = "_ok" /\ exit \in {0, 4}
                       \/ result = "_wa" /\ exit = 2
                       \/ result \in {"_pe", "_dirt"} /\ exit = 4
                       \/ result = "_fail" /\ exit = 6
                       \/ result = "_partially" /\ exit \in Nat
  /\ missed => exit \in {6, Crash}

CheckInv == ModesInv /\ EndInv /\ which \in {"package", "default"}

(* A file that is not there answers nothing but the tests for its end.     *)
LEMMA MissingEnds ==
  ASSUME NEW s, ~ s.file, NEW op \in Ops \ EndTests, NEW tested
  PROVE  Read(op, s, tested).quit # "none"
<1>1. /\ ReadChar(s) = Quits(s, "crash") /\ ReadWord(s) = Quits(s, "crash")
      /\ ReadString(s) = Quits(s, "_pe")
  BY Zenon DEF ReadChar, ReadWord, ReadString
<1>2. \A t, r : Quits(t, r).quit = r
  BY DEF Quits
<1>3. ReadSpace(s) = Quits(s, "crash")
  BY <1>1, <1>2, Zenon DEF ReadSpace, Then
<1>4. ReadLong(s, tested) = Quits(SeekEof(s).s, "_pe")
  <2>1. SeekEof(s) = Tells(s, TRUE)
    BY Zenon DEF SeekEof
  <2>2. SeekEof(s).quit = "none" /\ SeekEof(s).yes
    BY <2>1 DEF Tells
  <2> QED BY <2>2, Zenon DEF ReadLong, Then
<1>5. ReadInteger(s, tested) = ReadLong(s, tested)
  BY <1>2, <1>4, Zenon DEF ReadInteger, Then
<1>6. ReadInRange(s, tested) = ReadLong(s, tested)
  BY <1>2, <1>4, <1>5, Zenon DEF ReadInRange, Then
<1>7. op \in {"readChar", "readSpace", "readWord", "readLong", "readInteger", "readInRange",
             "readString"}
  BY DEF Ops, EndTests
<1>8. Read(op, s, tested) \in {Quits(s, "crash"), Quits(s, "_pe"), Quits(SeekEof(s).s, "_pe")}
  BY <1>1, <1>3, <1>4, <1>5, <1>6, <1>7 DEF Read
<1> QED BY <1>2, <1>8

(* What quit() makes of a result, by the stream it is called on.           *)
LEMMA JuryIsNotBlamed ==
  ASSUME NEW s, NEW x, NEW r, s[x].mode # "_output"
  PROVE  Verdict(s, x, r) = "_fail"
BY DEF Verdict

LEMMA OutputIsJudged ==
  ASSUME NEW s, NEW x, NEW r, s[x].mode = "_output"
  PROVE  /\ r = "_ok" => Verdict(s, x, r) \in {"_ok", "_pe"}
         /\ r = "_dirt" => Verdict(s, x, r) = "_pe"
         /\ r \notin {"_ok", "_dirt"} => Verdict(s, x, r) = r
BY DEF Verdict

LEMMA CodesAre ==
  ASSUME NEW k \in Nat
  PROVE  /\ ResultExitCode("_ok", k) = 0 /\ ResultExitCode("_wa", k) = 2
         /\ ResultExitCode("_pe", k) = 4 /\ ResultExitCode("_fail", k) = 6
         /\ ResultExitCode("_partially", k) \in Nat
BY DEF ResultExitCode, ExitCode

LEMMA PointsAre == \A k \in Points : k \in Nat
BY CheckerAssumption

(* Whenever quit() is called on a stream, the checker has ended as EndInv  *)
(* says.                                                                   *)
LEMMA QuitEnds ==
  ASSUME ModesInv', up', which = "package", UNCHANGED which, NEW x \in Streams,
         NEW r \in Results, NEW k \in Nat, QuitsWith(st', x, r, k), missed' => x # "ouf"
  PROVE  EndInv'
<1>1. result' = r /\ blamed' = x /\ exit' = ResultExitCode(Verdict(st', x, r), k)
  BY DEF QuitsWith
<1>2. CASE x = "ouf"
  <2>1. st'[x].mode = "_output"
    BY <1>2 DEF ModesInv
  <2>2. /\ r = "_ok" => Verdict(st', x, r) \in {"_ok", "_pe"}
        /\ r = "_dirt" => Verdict(st', x, r) = "_pe"
        /\ r \notin {"_ok", "_dirt"} => Verdict(st', x, r) = r
    BY <2>1, OutputIsJudged
  <2> QED BY <1>1, <1>2, <2>2, CodesAre DEF EndInv, Results, Streams
<1>3. CASE x # "ouf"
  <2>1. st'[x].mode # "_output"
    BY <1>3 DEF ModesInv
  <2>2. Verdict(st', x, r) = "_fail"
    BY <2>1, JuryIsNotBlamed
  <2> QED BY <1>1, <1>3, <2>2, CodesAre DEF EndInv, Streams
<1> QED BY <1>2, <1>3

LEMMA OpenedIsStream ==
  ASSUME NEW text, NEW mode
  PROVE  /\ IsStream(Opened(text, mode)) /\ Opened(text, mode).mode = mode
         /\ IsStream(Closed) /\ Closed.mode = "_input"
BY DEF IsStream, Opened, Closed

LEMMA CheckInvStep ==
  CheckInv /\ [RunChecker]_<<vars, which, out, cout>> => CheckInv'
<1> SUFFICES ASSUME CheckInv, [RunChecker]_<<vars, which, out, cout>> PROVE CheckInv'
  OBVIOUS
<1>1. ASSUME which = "package", UNCHANGED which, RegisterTestlibCmd PROVE CheckInv'
  <2>1. /\ up' /\ blamed = "none" /\ exit = Running
        /\ st' = [inf |-> Opened(disk.inf, "_input"),
                  ouf |-> Opened(disk.ouf, "_output"),
                  ans |-> IF disk.ouf = NoFile THEN Closed ELSE Opened(disk.ans, "_answer")]
        /\ UNCHANGED missed /\ ~ missed
        /\ \/ QuitsWith(st', "ouf", "_pe", 0)
           \/ UNCHANGED <<exit, result, blamed>>
    BY <1>1 DEF RegisterTestlibCmd, CheckInv, EndInv
  <2>2. ModesInv'
    <3>1. /\ st'["inf"] = Opened(disk.inf, "_input")
          /\ st'["ouf"] = Opened(disk.ouf, "_output")
          /\ st'["ans"] \in {Closed, Opened(disk.ans, "_answer")}
      BY <2>1
    <3>2. \A x \in Streams : IsStream(st'[x])
      BY <3>1, OpenedIsStream DEF Streams
    <3>3. st'["inf"].mode = "_input" /\ st'["ouf"].mode = "_output"
          /\ st'["ans"].mode \in {"_input", "_answer"}
      BY <3>1, OpenedIsStream
    <3>4. st' = [x \in Streams |-> st'[x]]
      BY <2>1 DEF Streams
    <3> QED BY <3>2, <3>3, <3>4 DEF ModesInv, Streams
  <2>3. CASE QuitsWith(st', "ouf", "_pe", 0)
    BY <1>1, <2>1, <2>2, <2>3, QuitEnds DEF CheckInv, Streams, Results
  <2>4. CASE UNCHANGED <<exit, result, blamed>>
    BY <1>1, <2>1, <2>2, <2>4 DEF CheckInv, EndInv
  <2> QED BY <2>1, <2>3, <2>4
<1>2. ASSUME which = "package", UNCHANGED which, Decide PROVE CheckInv'
  <2>1. PICK r \in Results, k \in Points : QuitsWith(st, "ouf", r, k)
    BY <1>2 DEF Decide
  <2>2. up /\ UNCHANGED <<st, up, missed>> /\ ~ missed /\ k \in Nat
    BY <1>2, PointsAre DEF Decide, CheckInv, EndInv, Running, Crash
  <2>3. ModesInv'
    BY <2>2 DEF CheckInv, ModesInv
  <2>4. QuitsWith(st', "ouf", r, k)
    BY <2>1, <2>2
  <2> QED BY <1>2, <2>2, <2>3, <2>4, QuitEnds DEF CheckInv, Streams
<1>3. ASSUME which = "package", UNCHANGED which,
             NEW x \in Streams, NEW op \in Ops, ReadFrom(x, op)
      PROVE  CheckInv'
  <2>1. PICK tested \in BOOLEAN :
          /\ st' = [st EXCEPT ![x] = Read(op, st[x], tested).s]
          /\ LET quit == Read(op, st[x], tested).quit IN
             CASE quit = "none"  -> UNCHANGED <<exit, result, blamed>>
               [] quit = "crash" -> exit' = Crash /\ UNCHANGED <<result, blamed>>
               [] OTHER          -> QuitsWith(st', x, quit, 0)
    BY <1>3 DEF ReadFrom
  <2> DEFINE r == Read(op, st[x], tested)
  <2>2. /\ up /\ exit = Running /\ up' = up
        /\ missed' = (missed \/ (x # "ouf" /\ ~ st[x].file /\ op \notin EndTests))
    BY <1>3 DEF ReadFrom
  <2>3. Sound(st[x], r)
    BY <2>2, ReadSound DEF CheckInv, ModesInv
  <2>4. st' = [st EXCEPT ![x] = r.s] /\ r.quit \in {"none", "crash", "_pe", "_wa"}
    BY <2>1, <2>3 DEF Sound
  <2>5. \/ r.quit = "none" /\ UNCHANGED <<exit, result, blamed>>
        \/ exit' = Crash /\ UNCHANGED <<result, blamed>>
        \/ r.quit \in Results /\ QuitsWith(st', x, r.quit, 0)
    BY <2>1, <2>4 DEF Results
  <2>6. missed' => x # "ouf" /\ r.quit # "none"
    <3>1. ~ missed
      BY <2>2 DEF CheckInv, EndInv, Running, Crash
    <3> QED BY <2>2, <3>1, MissingEnds
  <2> HIDE DEF r
  <2>7. ModesInv'
    <3>1. st'[x] = r.s /\ \A y \in Streams \ {x} : st'[y] = st[y]
      BY <2>2, <2>4 DEF CheckInv, ModesInv
    <3>2. st' = [y \in Streams |-> st'[y]]
      BY <2>2, <2>4 DEF CheckInv, ModesInv
    <3> QED
      BY <2>2, <2>3, <3>1, <3>2 DEF CheckInv, ModesInv, Sound, Keeps
  <2>8. CASE r.quit = "none" /\ UNCHANGED <<exit, result, blamed>>
    BY <1>3, <2>2, <2>6, <2>7, <2>8 DEF CheckInv, EndInv
  <2>9. CASE exit' = Crash /\ UNCHANGED <<result, blamed>>
    BY <1>3, <2>2, <2>7, <2>9 DEF CheckInv, EndInv, Running, Crash
  <2>10. CASE r.quit \in Results /\ QuitsWith(st', x, r.quit, 0)
    BY <1>3, <2>2, <2>6, <2>7, <2>10, QuitEnds DEF CheckInv
  <2> QED BY <2>5, <2>8, <2>9, <2>10
<1>4. ASSUME which = "default", UNCHANGED <<which, disk, st, up, reads, given, cut, missed, result, blamed>>
      PROVE  CheckInv'
  BY <1>4 DEF CheckInv, ModesInv, EndInv
<1>5. CASE UNCHANGED <<vars, which, out, cout>>
  BY <1>5 DEF vars, CheckInv, ModesInv, EndInv
<1> QED BY <1>1, <1>2, <1>3, <1>4, <1>5 DEF RunChecker, Next

(* The exit code of _fail is an error under every convention.              *)
LEMMA ResultsAre ==
  /\ \A convention : CheckerResult(convention, 6) = "ST_CHECKER_ERROR"
  /\ CheckerResult("bacs_legacy", 0) = "ST_ACCEPTED"
  /\ CheckerResult("bacs_legacy", 2) = "ST_WRONG_ANSWER"
  /\ CheckerResult("bacs_legacy", 4) = "ST_PRESENTATION_ERROR"
<1>1. ASSUME NEW convention
      PROVE  CheckerResult(convention, 6) = "ST_CHECKER_ERROR"
  <2>1. CASE convention = "bacs_legacy"
    BY <2>1 DEF CheckerResult
  <2>2. CASE convention = "ejudge"
    BY <2>2 DEF CheckerResult
  <2>3. CASE convention \in {"testlib", "none"}
    BY <2>3 DEF CheckerResult
  <2>4. CASE convention \notin {"bacs_legacy", "ejudge", "testlib", "none"}
    BY <2>4 DEF CheckerResult
  <2> QED BY <2>1, <2>2, <2>3, <2>4
<1>2. CheckerResult("bacs_legacy", 0) = "ST_ACCEPTED"
  BY DEF CheckerResult
<1>3. CheckerResult("bacs_legacy", 2) = "ST_WRONG_ANSWER"
  BY DEF CheckerResult
<1>4. CheckerResult("bacs_legacy", 4) = "ST_PRESENTATION_ERROR"
  BY DEF CheckerResult
<1> QED BY <1>1, <1>2, <1>3, <1>4

LEMMA CheckInvAlways == CheckersSpec => []CheckInv
<1>1. StartChecker => CheckInv
  BY DEF StartChecker, Init, CheckInv, ModesInv, EndInv
<1> QED BY <1>1, CheckInvStep, PTL DEF CheckersSpec

(* A solution is never blamed for the jury's files: whatever the checker   *)
(* reads, and under every convention of exit codes, a fault in the input   *)
(* or the answer, and anything but a test for an end asked of one of them  *)
(* that is not there, ends as ST_CHECKER_ERROR (testlib.h:1121,            *)
(* problem.cpp:227-266).                                                   *)
THEOREM JuryFaultsAreTheJurys == CheckersSpec => []OnlyOutputIsBlamed
<1>1. CheckInv => OnlyOutputIsBlamed
  <2> SUFFICES ASSUME CheckInv, up, exit # Running, blamed # "ouf" \/ missed
               PROVE  Status = "ST_CHECKER_ERROR"
    BY DEF OnlyOutputIsBlamed, Ended
  <2>1. exit = Crash \/ exit = 6
    BY DEF CheckInv, EndInv, Streams
  <2> QED BY <2>1, ResultsAre DEF Status
<1> QED BY <1>1, CheckInvAlways, PTL

(* The verdict of a checker that follows the exit codes of testlib.h       *)
(* arrives as it was meant, whatever it read before, if it is not a        *)
(* partial result: for _pc(k) the daemon has no verdict, and the exit code *)
(* k may be another's.  The convention is the one such a package names     *)
(* (problem.cpp:227-266).                                                  *)
THEOREM VerdictsArrive ==
  ASSUME Convention = "bacs_legacy"
  PROVE  CheckersSpec => []VerdictArrives
<1>1. CheckInv => VerdictArrives
  <2> SUFFICES ASSUME CheckInv PROVE VerdictArrives
    OBVIOUS
  <2>1. CASE ~ (Ended /\ blamed = "ouf" /\ result # "_partially")
    BY <2>1, Zenon DEF VerdictArrives
  <2>2. CASE Ended /\ blamed = "ouf" /\ result # "_partially"
    <3>1. \/ result = "_ok" /\ exit \in {0, 4}
          \/ result = "_wa" /\ exit = 2
          \/ result \in {"_pe", "_dirt"} /\ exit = 4
          \/ result = "_fail" /\ exit = 6
      BY <2>2 DEF CheckInv, EndInv
    <3>2. Status = CheckerResult("bacs_legacy", exit)
      BY <3>1 DEF Status, Crash
    <3> QED BY <3>1, <3>2, ResultsAre DEF VerdictArrives
  <2> QED BY <2>1, <2>2
<1> QED BY <1>1, CheckInvAlways, PTL

-----------------------------------------------------------------------------
(* The texts the default checker compares                                  *)

Lines(t) == Without(t, {"CR"})

(* The place of the last character that is no line feed, and the text up   *)
(* to it.                                                                  *)
LastSeen(t) == LET I == {i \in 1 .. Len(t) : t[i] # "LF"} IN IF I # {} THEN Max(I) ELSE 0
Trimmed(t)  == SubSeq(t, 1, LastSeen(t))

LEMMA PlainIsTrimmed ==
  ASSUME NEW t
  PROVE  Default!Plain(t) = Trimmed(Lines(t))
<1>1. \A S : Default!Cardinality(S) = Cardinality(S)
  BY DEF Cardinality, Default!Cardinality
<1>2. Default!Without(t, {"CR"}) = Lines(t)
  <2>1. \A K, m : Default!UpTo(K, m) = UpTo(K, m)
    BY <1>1 DEF UpTo, Default!UpTo
  <2>2. Default!Kept(t, {"CR"}) = Kept(t, {"CR"})
    BY DEF Kept, Default!Kept
  <2> DEFINE K == Kept(t, {"CR"})
  <2>3. \A n : Default!Place(K, n) = Place(K, n)
    <3> HIDE DEF K
    <3> QED BY <2>1 DEF Place, Default!Place
  <2>4. /\ Default!Without(t, {"CR"}) = [n \in 1 .. Cardinality(K) |-> t[Default!Place(K, n)]]
        /\ Lines(t) = [n \in 1 .. Cardinality(K) |-> t[Place(K, n)]]
    BY <1>1, <2>2 DEF Lines, Without, Default!Without
  <2> HIDE DEF K
  <2> QED BY <2>3, <2>4
<1>3. \A I : Default!Max(I) = Max(I)
  BY DEF Max, Default!Max
<1>4. \A u : SubSeq(u, 1, Default!SelectLastInSeq(u, LAMBDA c : c # "LF")) = Trimmed(u)
  BY <1>3 DEF Trimmed, LastSeen, Default!SelectLastInSeq
<1> QED BY <1>2, <1>4 DEF Default!Plain, Default!SelectLastInSeq

LEMMA LastSeenIs ==
  ASSUME NEW C, NEW t \in Seq(C)
  PROVE  /\ LastSeen(t) \in 0 .. Len(t)
         /\ \A i \in 1 .. Len(t) : t[i] # "LF" => i <= LastSeen(t)
         /\ LastSeen(t) # 0 => t[LastSeen(t)] # "LF"
<1> DEFINE I == {i \in 1 .. Len(t) : t[i] # "LF"}
<1>1. Len(t) \in Nat /\ I \in SUBSET (1 .. Len(t))
  OBVIOUS
<1>2. \A i : i \in I <=> i \in 1 .. Len(t) /\ t[i] # "LF"
  OBVIOUS
<1>3. LastSeen(t) = IF I # {} THEN Max(I) ELSE 0
  BY DEF LastSeen
<1> HIDE DEF I
<1>4. CASE I = {}
  BY <1>1, <1>2, <1>3, <1>4
<1>5. CASE I # {}
  <2>1. Max(I) \in I /\ \A y \in I : y <= Max(I)
    BY <1>1, <1>5, LastPlace
  <2> QED BY <1>1, <1>2, <1>3, <1>5, <2>1
<1> QED BY <1>4, <1>5

LEMMA TrimmedIs ==
  ASSUME NEW C, NEW t \in Seq(C)
  PROVE  /\ Trimmed(t) \in Seq(C) /\ Len(Trimmed(t)) = LastSeen(t)
         /\ \A i \in 1 .. LastSeen(t) : Trimmed(t)[i] = t[i]
<1>1. Len(t) \in Nat /\ LastSeen(t) \in 0 .. Len(t)
  BY LastSeenIs
<1>2. \A n \in 0 .. Len(t) :
        /\ SubSeq(t, 1, n) \in Seq(C) /\ Len(SubSeq(t, 1, n)) = n
        /\ \A i \in 1 .. n : SubSeq(t, 1, n)[i] = t[i]
  BY <1>1
<1> QED BY <1>1, <1>2 DEF Trimmed

(* Line feeds at the end do not count.                                     *)
LEMMA TrimmedEnds ==
  ASSUME NEW C, NEW a \in Seq(C), NEW b \in Seq(C), \A i \in 1 .. Len(b) : b[i] = "LF"
  PROVE  Trimmed(a \o b) = Trimmed(a)
<1> DEFINE t == a \o b
<1>1. /\ Len(a) \in Nat /\ Len(b) \in Nat /\ t \in Seq(C) /\ Len(t) = Len(a) + Len(b)
      /\ \A i \in 1 .. Len(t) : t[i] = IF i <= Len(a) THEN a[i] ELSE b[i - Len(a)]
  BY ConcatProperties
<1> HIDE DEF t
<1>2. \A i \in 1 .. Len(t) : IF i <= Len(a) THEN t[i] = a[i] ELSE t[i] = "LF"
  <2>1. \A i \in 1 .. Len(t) : i <= Len(a) \/ i - Len(a) \in 1 .. Len(b)
    BY <1>1
  <2> QED BY <1>1, <2>1
<1>3. LastSeen(t) = LastSeen(a)
  <2>1. /\ LastSeen(t) \in 0 .. Len(t) /\ (LastSeen(t) # 0 => t[LastSeen(t)] # "LF")
        /\ \A i \in 1 .. Len(t) : t[i] # "LF" => i <= LastSeen(t)
    BY <1>1, LastSeenIs
  <2>2. /\ LastSeen(a) \in 0 .. Len(a) /\ (LastSeen(a) # 0 => a[LastSeen(a)] # "LF")
        /\ \A i \in 1 .. Len(a) : a[i] # "LF" => i <= LastSeen(a)
    BY LastSeenIs
  <2>3. LastSeen(t) <= LastSeen(a)
    <3>1. LastSeen(t) # 0 => LastSeen(t) <= Len(a) /\ a[LastSeen(t)] # "LF"
      BY <1>1, <1>2, <2>1
    <3> QED BY <1>1, <2>1, <2>2, <3>1
  <2>4. LastSeen(a) <= LastSeen(t)
    <3>1. LastSeen(a) # 0 => LastSeen(a) \in 1 .. Len(t) /\ t[LastSeen(a)] # "LF"
      BY <1>1, <1>2, <2>2
    <3> QED BY <1>1, <2>1, <2>2, <3>1
  <2> QED BY <2>1, <2>2, <2>3, <2>4
<1>4. /\ Trimmed(t) \in Seq(C) /\ Len(Trimmed(t)) = LastSeen(t)
      /\ \A i \in 1 .. LastSeen(t) : Trimmed(t)[i] = t[i]
  BY <1>1, TrimmedIs
<1>5. /\ Trimmed(a) \in Seq(C) /\ Len(Trimmed(a)) = LastSeen(a)
      /\ \A i \in 1 .. LastSeen(a) : Trimmed(a)[i] = a[i]
  BY TrimmedIs
<1>6. \A i \in 1 .. LastSeen(a) : i \in 1 .. Len(t) /\ i <= Len(a)
  <2>1. LastSeen(a) \in 0 .. Len(a)
    BY LastSeenIs
  <2> QED BY <1>1, <2>1
<1>7. \A i \in 1 .. Len(Trimmed(t)) : Trimmed(t)[i] = Trimmed(a)[i]
  BY <1>2, <1>3, <1>4, <1>5, <1>6
<1>8. Trimmed(t) = Trimmed(a)
  BY <1>3, <1>4, <1>5, <1>7, SeqEqual
<1> QED BY <1>8 DEF t

(* Where a text has a character that is no line feed and another has none, *)
(* or another one, the two differ.                                         *)
LEMMA TrimmedDiffer ==
  ASSUME NEW C, NEW s \in Seq(C), NEW t \in Seq(C), NEW n \in 1 .. Len(s), s[n] # "LF",
         n <= Len(t) => t[n] # s[n]
  PROVE  Trimmed(s) # Trimmed(t)
<1>1. n \in Nat /\ n <= LastSeen(s) /\ LastSeen(s) \in Nat
  BY LastSeenIs
<1>2. Len(Trimmed(s)) = LastSeen(s) /\ \A i \in 1 .. LastSeen(s) : Trimmed(s)[i] = s[i]
  BY TrimmedIs
<1>3. /\ Len(Trimmed(t)) = LastSeen(t) /\ \A i \in 1 .. LastSeen(t) : Trimmed(t)[i] = t[i]
      /\ LastSeen(t) \in 0 .. Len(t)
  BY TrimmedIs, LastSeenIs
<1> SUFFICES ASSUME Trimmed(s) = Trimmed(t) PROVE FALSE
  OBVIOUS
<1>4. LastSeen(s) = LastSeen(t) /\ n \in 1 .. LastSeen(s)
  BY <1>1, <1>2, <1>3
<1>5. Trimmed(s)[n] = s[n] /\ Trimmed(t)[n] = t[n] /\ n <= Len(t)
  BY <1>2, <1>3, <1>4
<1> QED BY <1>5

LEMMA LinesAre ==
  ASSUME NEW C
  PROVE  /\ \A s \in Seq(C) : Lines(s) \in Seq(C)
         /\ \A s, t \in Seq(C) : Lines(s \o t) = Lines(s) \o Lines(t)
         /\ Lines(<<>>) = <<>>
<1>1. ASSUME NEW s \in Seq(C) PROVE Lines(s) \in Seq(C)
  <2>1. Lines(s) \in Seq(C \ {"CR"})
    BY WithoutIsText DEF Lines
  <2> QED BY <2>1, SeqMonotonic
<1>2. \A s, t \in Seq(C) : Lines(s \o t) = Lines(s) \o Lines(t)
  BY WithoutConcat DEF Lines
<1> QED BY <1>1, <1>2, WithoutEmpty DEF Lines

(* What is skipped before a character has no lines.                        *)
LEMMA SkippedIs ==
  ASSUME NEW C, NEW t \in Seq(C)
  PROVE  /\ Default!Skipped(t) \in Seq(C)
         /\ Default!Skipped(t) # <<>> => Default!Skipped(t)[1] # "CR"
         /\ \E r \in Seq(C) : t = r \o Default!Skipped(t) /\ Lines(r) = <<>>
<1> DEFINE I == {i \in 1 .. Len(t) : t[i] # "CR"}
           k == Default!Skipped(t)
<1>1. Len(t) \in Nat /\ I \in SUBSET (1 .. Len(t))
  OBVIOUS
<1>2. \A i : i \in I <=> i \in 1 .. Len(t) /\ t[i] # "CR"
  OBVIOUS
<1>3. k = LET n == IF I # {} THEN Min(I) ELSE 0
          IN IF n = 0 THEN <<>> ELSE SubSeq(t, n, Len(t))
  <2>1. \A J : Default!Min(J) = Min(J)
    BY DEF Min, Default!Min
  <2> QED BY <2>1 DEF Default!Skipped, Default!SelectInSeq
<1> HIDE DEF I, k
<1>4. CASE I = {}
  <2>1. k = <<>> /\ \A i \in 1 .. Len(t) : t[i] \in {"CR"}
    BY <1>2, <1>3, <1>4
  <2>2. Lines(t) = <<>>
    BY <2>1, WithoutAll DEF Lines
  <2>3. t = t \o <<>> /\ <<>> \in Seq(C)
    BY ConcatEmptySeq
  <2> QED BY <2>1, <2>2, <2>3 DEF k
<1>5. CASE I # {}
  <2>1. PICK n \in I : n = Min(I) /\ \A y \in I : n <= y
    BY <1>1, <1>5, FirstPlace
  <2>2. n \in 1 .. Len(t) /\ t[n] # "CR" /\ k = SubSeq(t, n, Len(t))
    <3>1. n \in 1 .. Len(t) /\ t[n] # "CR" /\ n # 0
      BY <1>1, <1>2
    <3> QED BY <1>3, <1>5, <2>1, <3>1, Zenon
  <2> DEFINE r == SubSeq(t, 1, n - 1)
  <2>3. n \in 1 .. Len(t) + 1 /\ n <= Len(t)
    BY <1>1, <2>2
  <2>4. /\ r \in Seq(C) /\ k \in Seq(C) /\ t = r \o k /\ Len(r) = n - 1
        /\ \A i \in 1 .. n - 1 : r[i] = t[i]
        /\ k # <<>> /\ k[1] = t[n]
    BY <2>2, <2>3, SplitText
  <2> HIDE DEF r
  <2>5. \A i \in 1 .. Len(r) : r[i] \in {"CR"}
    <3>1. \A i \in 1 .. n - 1 : i \notin I /\ i \in 1 .. Len(t)
      BY <1>1, <2>1, <2>3
    <3> QED BY <1>2, <2>4, <3>1
  <2>6. Lines(r) = <<>>
    BY <2>4, <2>5, WithoutAll DEF Lines
  <2> QED BY <2>2, <2>4, <2>6 DEF k
<1> QED BY <1>4, <1>5

LEMMA LinesOfRest ==
  ASSUME NEW C, NEW p \in Seq(C), NEW t \in Seq(C)
  PROVE  Lines(p \o t) = Lines(p) \o Lines(Default!Skipped(t))
<1>1. PICK r \in Seq(C) : t = r \o Default!Skipped(t) /\ Lines(r) = <<>>
  BY SkippedIs
<1>2. Default!Skipped(t) \in Seq(C)
  BY SkippedIs
<1> DEFINE k == Default!Skipped(t)
<1>3. Lines(k) \in Seq(C)
  BY <1>2, LinesAre
<1>4. Lines(t) = Lines(r) \o Lines(k)
  BY <1>1, <1>2, LinesAre
<1> HIDE DEF k
<1>5. <<>> \o Lines(k) = Lines(k)
  BY <1>3, ConcatEmptySeq
<1> QED BY <1>1, <1>4, <1>5, LinesAre DEF k

(* check_LN tells whether a rest has anything but line ends.               *)
LEMMA CheckLNIs ==
  ASSUME NEW C, NEW t \in Seq(C), \A i \in 1 .. Len(t) : t[i] # "BAD"
  PROVE  \/ Default!CheckLN(t) = "OK" /\ \A i \in 1 .. Len(t) : t[i] \in {"CR", "LF"}
         \/ Default!CheckLN(t) = "WA" /\ \E i \in 1 .. Len(t) : t[i] \notin {"CR", "LF"}
<1> DEFINE I == {i \in 1 .. Len(t) : t[i] \notin {"CR", "LF"}}
<1>1. Len(t) \in Nat /\ I \in SUBSET (1 .. Len(t))
  OBVIOUS
<1>2. \A i : i \in I <=> i \in 1 .. Len(t) /\ t[i] \notin {"CR", "LF"}
  OBVIOUS
<1>3. Default!CheckLN(t) = LET n == IF I # {} THEN Min(I) ELSE 0
                           IN IF n = 0 \/ t[n] = "BAD" THEN "OK" ELSE "WA"
  <2>1. \A J : Default!Min(J) = Min(J)
    BY DEF Min, Default!Min
  <2> QED BY <2>1 DEF Default!CheckLN, Default!SelectInSeq, Default!LineEnds
<1> HIDE DEF I
<1>4. CASE I = {}
  BY <1>2, <1>3, <1>4
<1>5. CASE I # {}
  <2>1. Min(I) \in I
    BY <1>1, <1>5, FirstPlace
  <2> QED BY <1>1, <1>2, <1>3, <1>5, <2>1
<1> QED BY <1>4, <1>5

(* A rest makes a difference exactly when it has something else.           *)
LEMMA RestCounts ==
  ASSUME NEW C, NEW a \in Seq(C), NEW t \in Seq(C)
  PROVE  /\ (\A i \in 1 .. Len(t) : t[i] \in {"CR", "LF"})
              => Trimmed(a \o Lines(t)) = Trimmed(a)
         /\ (\E i \in 1 .. Len(t) : t[i] \notin {"CR", "LF"})
              => Trimmed(a \o Lines(t)) # Trimmed(a)
<1>0. Lines(t) \in Seq(C)
  BY LinesAre
<1>1. ASSUME \A i \in 1 .. Len(t) : t[i] \in {"CR", "LF"}
      PROVE  Trimmed(a \o Lines(t)) = Trimmed(a)
  <2>1. t \in Seq({"CR", "LF"})
    BY <1>1
  <2>2. Lines(t) \in Seq({"CR", "LF"} \ {"CR"})
    BY <2>1, WithoutIsText DEF Lines
  <2>3. \A i \in 1 .. Len(Lines(t)) : Lines(t)[i] = "LF"
    BY <2>2
  <2> QED BY <1>0, <2>3, TrimmedEnds
<1>2. ASSUME NEW i \in 1 .. Len(t), t[i] \notin {"CR", "LF"}
      PROVE  Trimmed(a \o Lines(t)) # Trimmed(a)
  <2> DEFINE k == UpTo(Kept(t, {"CR"}), i)
             s == a \o Lines(t)
  <2>1. i \in Kept(t, {"CR"})
    BY <1>2 DEF Kept
  <2>2. k \in 1 .. Cardinality(Kept(t, {"CR"})) /\ Lines(t)[k] = t[i]
    BY <2>1, WithoutAt DEF Lines
  <2>3. Len(Lines(t)) = Cardinality(Kept(t, {"CR"}))
    BY WithoutIsText DEF Lines
  <2> HIDE DEF k
  <2>4. k \in 1 .. Len(Lines(t)) /\ Lines(t)[k] # "LF"
    BY <1>2, <2>2, <2>3
  <2>5. /\ s \in Seq(C) /\ Len(s) = Len(a) + Len(Lines(t))
        /\ \A j \in 1 .. Len(a) + Len(Lines(t)) :
             s[j] = IF j <= Len(a) THEN a[j] ELSE Lines(t)[j - Len(a)]
    BY <1>0, ConcatProperties
  <2> HIDE DEF s
  <2>6. Len(a) \in Nat /\ Len(Lines(t)) \in Nat
    BY <1>0
  <2>7. Len(a) + k \in 1 .. Len(s) /\ ~ (Len(a) + k <= Len(a)) /\ (Len(a) + k) - Len(a) = k
    BY <2>4, <2>5, <2>6
  <2>8. s[Len(a) + k] # "LF"
    BY <2>4, <2>5, <2>7
  <2>9. Trimmed(s) # Trimmed(a)
    BY <2>5, <2>7, <2>8, TrimmedDiffer
  <2> QED BY <2>9 DEF s
<1> QED BY <1>1, <1>2

LEMMA MismatchCounts ==
  ASSUME NEW C
  PROVE  \A a, s, t \in Seq(C) : \A x, y \in C :
           x # y => Trimmed(Cat(a, Cat(<<x>>, s))) # Trimmed(Cat(a, Cat(<<y>>, t)))
<1> SUFFICES ASSUME NEW a \in Seq(C), NEW s \in Seq(C), NEW t \in Seq(C),
                    NEW x \in C, NEW y \in C, x # y
             PROVE  Trimmed(Cat(a, Cat(<<x>>, s))) # Trimmed(Cat(a, Cat(<<y>>, t)))
  OBVIOUS
<1> SUFFICES Trimmed(a \o (<<x>> \o s)) # Trimmed(a \o (<<y>> \o t))
  BY DEF Cat
<1> DEFINE S == a \o (<<x>> \o s)
           T == a \o (<<y>> \o t)
           n == Len(a) + 1
<1>1. /\ S \in Seq(C) /\ n \in 1 .. Len(S) /\ S[n] = x
      /\ T \in Seq(C) /\ n \in 1 .. Len(T) /\ T[n] = y
  OBVIOUS
<1> HIDE DEF S, T, n
<1>2. CASE x # "LF"
  <2>1. Trimmed(S) # Trimmed(T)
    BY <1>1, <1>2, TrimmedDiffer
  <2> QED BY <2>1 DEF S, T
<1>3. CASE y # "LF"
  <2>1. Trimmed(T) # Trimmed(S)
    BY <1>1, <1>3, TrimmedDiffer
  <2> QED BY <2>1 DEF S, T
<1> QED BY <1>2, <1>3

LEMMA LinesOfFirst ==
  ASSUME NEW C, NEW s \in Seq(C), s # <<>>, s[1] # "CR"
  PROVE  Lines(s) = <<s[1]>> \o Lines(Tail(s))
<1>1. s[1] \in C /\ Tail(s) \in Seq(C) /\ s = <<s[1]>> \o Tail(s)
  BY FirstAndRest
<1>2. Lines(<<s[1]>>) = <<s[1]>>
  BY <1>1, WithoutOne DEF Lines
<1>3. <<s[1]>> \in Seq(C)
  BY <1>1
<1>4. \A x, t \in Seq(C) : Lines(x \o t) = Lines(x) \o Lines(t)
  BY LinesAre
<1>5. Lines(<<s[1]>> \o Tail(s)) = Lines(<<s[1]>>) \o Lines(Tail(s))
  BY <1>1, <1>3, <1>4
<1> QED BY <1>1, <1>2, <1>5

(* A character of what is left to read is one of the text.                 *)
LEMMA RestIsReadable ==
  ASSUME NEW C, NEW p \in Seq(C), NEW t \in Seq(C), \A i \in DOMAIN (p \o t) : (p \o t)[i] # "BAD"
  PROVE  \A i \in 1 .. Len(Default!Skipped(t)) : Default!Skipped(t)[i] # "BAD"
<1> DEFINE k == Default!Skipped(t)
<1>1. PICK r \in Seq(C) : t = r \o k
  BY SkippedIs
<1>2. k \in Seq(C)
  BY SkippedIs
<1> HIDE DEF k
<1> DEFINE s == p \o r
<1>3. s \in Seq(C) /\ p \o t = s \o k
  BY <1>1, <1>2, ConcatProperties, ConcatAssociative
<1> HIDE DEF s
<1>4. \A i \in 1 .. Len(k) : (s \o k)[Len(s) + i] = k[i] /\ Len(s) + i \in DOMAIN (s \o k)
  BY <1>2, <1>3
<1>5. \A i \in 1 .. Len(k) : k[i] # "BAD"
  BY <1>3, <1>4
<1> QED BY <1>5 DEF k

(* How the comparison of two texts may end once their lines are the same   *)
(* up to what is left to read.                                             *)
LEMMA Compared ==
  ASSUME NEW C, NEW p \in Seq(C), NEW s \in Seq(C), NEW q \in Seq(C), NEW t \in Seq(C),
         Lines(p) = Lines(q),
         \A i \in 1 .. Len(Default!Skipped(s)) : Default!Skipped(s)[i] # "BAD",
         \A i \in 1 .. Len(Default!Skipped(t)) : Default!Skipped(t)[i] # "BAD"
  PROVE  LET u    == Default!Skipped(s)
             v    == Default!Skipped(t)
             same == Trimmed(Lines(p \o s)) = Trimmed(Lines(q \o t))
         IN /\ u = <<>> /\ v = <<>> => same
            /\ u = <<>> => \/ Default!CheckLN(v) = "OK" /\ same
                           \/ Default!CheckLN(v) = "WA" /\ ~ same
            /\ v = <<>> => \/ Default!CheckLN(u) = "OK" /\ same
                           \/ Default!CheckLN(u) = "WA" /\ ~ same
            /\ u # <<>> /\ v # <<>> /\ u[1] # v[1] => ~ same
<1> DEFINE u == Default!Skipped(s)
           v == Default!Skipped(t)
           same == Trimmed(Lines(p \o s)) = Trimmed(Lines(q \o t))
           a == Lines(p)
<1>1. /\ u \in Seq(C) /\ (u # <<>> => u[1] # "CR")
      /\ v \in Seq(C) /\ (v # <<>> => v[1] # "CR") /\ a \in Seq(C)
  BY SkippedIs, LinesAre
<1>2. Lines(p \o s) = a \o Lines(u) /\ Lines(q \o t) = a \o Lines(v)
  BY LinesOfRest
<1>3. \/ Default!CheckLN(u) = "OK" /\ \A i \in 1 .. Len(u) : u[i] \in {"CR", "LF"}
      \/ Default!CheckLN(u) = "WA" /\ \E i \in 1 .. Len(u) : u[i] \notin {"CR", "LF"}
  BY <1>1, CheckLNIs
<1>4. \/ Default!CheckLN(v) = "OK" /\ \A i \in 1 .. Len(v) : v[i] \in {"CR", "LF"}
      \/ Default!CheckLN(v) = "WA" /\ \E i \in 1 .. Len(v) : v[i] \notin {"CR", "LF"}
  BY <1>1, CheckLNIs
<1> HIDE DEF u, v, a
<1>5. Lines(<<>>) = <<>> /\ a \o <<>> = a
  BY <1>1, LinesAre, ConcatEmptySeq
<1>6. u = <<>> /\ v = <<>> => same
  BY <1>2
<1>7. u = <<>> => \/ Default!CheckLN(v) = "OK" /\ same
                  \/ Default!CheckLN(v) = "WA" /\ ~ same
  <2>1. /\ (\A i \in 1 .. Len(v) : v[i] \in {"CR", "LF"}) => Trimmed(a \o Lines(v)) = Trimmed(a)
        /\ (\E i \in 1 .. Len(v) : v[i] \notin {"CR", "LF"}) => Trimmed(a \o Lines(v)) # Trimmed(a)
    BY <1>1, RestCounts
  <2> QED BY <1>2, <1>4, <1>5, <2>1
<1>8. v = <<>> => \/ Default!CheckLN(u) = "OK" /\ same
                  \/ Default!CheckLN(u) = "WA" /\ ~ same
  <2>1. /\ (\A i \in 1 .. Len(u) : u[i] \in {"CR", "LF"}) => Trimmed(a \o Lines(u)) = Trimmed(a)
        /\ (\E i \in 1 .. Len(u) : u[i] \notin {"CR", "LF"}) => Trimmed(a \o Lines(u)) # Trimmed(a)
    BY <1>1, RestCounts
  <2> QED BY <1>2, <1>3, <1>5, <2>1
<1>9. ASSUME u # <<>>, v # <<>>, u[1] # v[1] PROVE ~ same
  <2>1. u[1] \in C /\ v[1] \in C /\ Tail(u) \in Seq(C) /\ Tail(v) \in Seq(C)
    BY <1>1, <1>9
  <2>2. Lines(Tail(u)) \in Seq(C) /\ Lines(Tail(v)) \in Seq(C)
    BY <2>1, LinesAre, Zenon
  <2>3. Lines(u) = Cat(<<u[1]>>, Lines(Tail(u))) /\ Lines(v) = Cat(<<v[1]>>, Lines(Tail(v)))
    <3>1. Lines(u) = <<u[1]>> \o Lines(Tail(u)) /\ Lines(v) = <<v[1]>> \o Lines(Tail(v))
      BY <1>1, <1>9, LinesOfFirst, Zenon
    <3> QED BY <3>1, Zenon DEF Cat
  <2>4. Lines(p \o s) = Cat(a, Lines(u)) /\ Lines(q \o t) = Cat(a, Lines(v))
    BY <1>2, Zenon DEF Cat
  <2>5. \A x, y \in C : \A g, h \in Seq(C) :
          x # y => Trimmed(Cat(a, Cat(<<x>>, g))) # Trimmed(Cat(a, Cat(<<y>>, h)))
    BY <1>1, MismatchCounts
  <2>6. Trimmed(Cat(a, Lines(u))) # Trimmed(Cat(a, Lines(v)))
    <3>1. \A x, y \in C : \A g, h \in Seq(C) :
            x # y /\ Lines(u) = Cat(<<x>>, g) /\ Lines(v) = Cat(<<y>>, h)
              => Trimmed(Cat(a, Lines(u))) # Trimmed(Cat(a, Lines(v)))
      BY <2>5
    <3> QED BY <1>9, <2>1, <2>2, <2>3, <3>1, Zenon
  <2> QED BY <2>4, <2>6, Zenon
<1> QED BY <1>6, <1>7, <1>8, <1>9 DEF u, v

LEMMA LinesCat ==
  ASSUME NEW C
  PROVE  \A x, y \in Seq(C) : Lines(Cat(x, y)) = Cat(Lines(x), Lines(y))
BY LinesAre, Zenon DEF Cat

(* The same character read from both keeps the lines the same.             *)
Meet(C, d, s, e, t) ==
  /\ s \in Seq(C) /\ t \in Seq(C)
  /\ \E p, q \in Seq(C) : d = p \o s /\ e = q \o t /\ Lines(p) = Lines(q)

LEMMA BothGoOn ==
  ASSUME NEW C
  PROVE  \A p, q, s, t \in Seq(C) :
           /\ Lines(p) = Lines(q) /\ Default!Skipped(s) # <<>> /\ Default!Skipped(t) # <<>>
           /\ Default!Skipped(s)[1] = Default!Skipped(t)[1]
           => Meet(C, p \o s, Tail(Default!Skipped(s)), q \o t, Tail(Default!Skipped(t)))
<1> SUFFICES ASSUME NEW p \in Seq(C), NEW q \in Seq(C), NEW s \in Seq(C), NEW t \in Seq(C),
                    Lines(p) = Lines(q), Default!Skipped(s) # <<>>, Default!Skipped(t) # <<>>,
                    Default!Skipped(s)[1] = Default!Skipped(t)[1]
             PROVE  Meet(C, p \o s, Tail(Default!Skipped(s)), q \o t, Tail(Default!Skipped(t)))
  BY Zenon
<1> DEFINE u == Default!Skipped(s)
           v == Default!Skipped(t)
<1>1. PICK r \in Seq(C) : s = Cat(r, u) /\ Lines(r) = <<>>
  BY SkippedIs DEF Cat
<1>2. PICK w \in Seq(C) : t = Cat(w, v) /\ Lines(w) = <<>>
  BY SkippedIs DEF Cat
<1>3. u \in Seq(C) /\ v \in Seq(C) /\ u # <<>> /\ v # <<>> /\ v[1] = u[1]
  BY SkippedIs
<1> HIDE DEF u, v
<1>4. PICK c \in C : u = <<c>> \o Tail(u) /\ v = <<c>> \o Tail(v)
  BY <1>3, FirstAndRest
<1>5. PICK d \in Seq(C), s1 \in Seq(C), t1 \in Seq(C) :
        s1 = Tail(u) /\ t1 = Tail(v) /\ u = Cat(d, s1) /\ v = Cat(d, t1)
  <2>1. <<c>> \in Seq(C) /\ Tail(u) \in Seq(C) /\ Tail(v) \in Seq(C)
    BY <1>3
  <2> QED BY <1>4, <2>1 DEF Cat
<1> DEFINE a == Cat(p, Cat(r, d))
           b == Cat(q, Cat(w, d))
<1>6. a \in Seq(C) /\ b \in Seq(C) /\ Cat(r, d) \in Seq(C) /\ Cat(w, d) \in Seq(C)
  BY CatIs
<1>7. Cat(p, s) = Cat(a, s1)
  <2>1. Cat(a, s1) = Cat(p, Cat(Cat(r, d), s1)) /\ Cat(Cat(r, d), s1) = Cat(r, Cat(d, s1))
    BY <1>6, CatIs
  <2> QED BY <1>1, <1>5, <2>1
<1>8. Cat(q, t) = Cat(b, t1)
  <2>1. Cat(b, t1) = Cat(q, Cat(Cat(w, d), t1)) /\ Cat(Cat(w, d), t1) = Cat(w, Cat(d, t1))
    BY <1>6, CatIs
  <2> QED BY <1>2, <1>5, <2>1
<1>9. Lines(a) = Lines(b)
  <2>1. Lines(a) = Cat(Lines(p), Cat(Lines(r), Lines(d)))
    BY <1>6, LinesCat
  <2>2. Lines(b) = Cat(Lines(q), Cat(Lines(w), Lines(d)))
    BY <1>6, LinesCat
  <2> QED BY <1>1, <1>2, <2>1, <2>2
<1>10. Tail(u) \in Seq(C) /\ Tail(v) \in Seq(C)
       /\ \E x, y \in Seq(C) : /\ Cat(p, s) = Cat(x, Tail(u)) /\ Cat(q, t) = Cat(y, Tail(v))
                               /\ Lines(x) = Lines(y)
  <2> HIDE DEF a, b
  <2> QED BY <1>5, <1>6, <1>7, <1>8, <1>9
<1> QED BY <1>10, Zenon DEF u, v, Cat, Meet

-----------------------------------------------------------------------------
(* The default checker                                                     *)

(* While it runs, the lines of what it has read of the two files are the   *)
(* same; when it has ended, its verdict is right.                          *)
CompareInv ==
  which = "default" =>
    /\ {disk.ouf, disk.ans} \subseteq Seq(Chars) \cup {NoFile}
    /\ exit = Running =>
         IF NoFile \in {disk.ouf, disk.ans} THEN NoFile \in {out, cout}
         ELSE Meet(Chars, disk.ouf, out, disk.ans, cout)
    /\ Default!ComparesLines

LEMMA DefaultResults ==
  /\ Default!CheckerResult("bacs_legacy", 0) = "ST_ACCEPTED"
  /\ Default!CheckerResult("bacs_legacy", 2) = "ST_WRONG_ANSWER"
  /\ Default!CheckerResult("bacs_legacy", 100) = "ST_CHECKER_ERROR"
<1>1. Default!CheckerResult("bacs_legacy", 0) = "ST_ACCEPTED"
  BY DEF Default!CheckerResult
<1>2. Default!CheckerResult("bacs_legacy", 2) = "ST_WRONG_ANSWER"
  BY DEF Default!CheckerResult
<1>3. Default!CheckerResult("bacs_legacy", 100) = "ST_CHECKER_ERROR"
  BY DEF Default!CheckerResult
<1> QED BY <1>1, <1>2, <1>3

LEMMA DefaultCodes ==
  Default!Code["OK"] = 0 /\ Default!Code["WA"] = 2 /\ Default!Code["UN"] = 100
BY DEF Default!Code

(* The property, of an exit code and two files.                            *)
IsReadable(s) == \A i \in DOMAIN s : s[i] # "BAD"
RightEnd(code, s, t) ==
  code # Running =>
    LET status == Default!CheckerResult("bacs_legacy", code)
    IN IF NoFile \in {s, t} THEN status = "ST_CHECKER_ERROR"
       ELSE IsReadable(s) /\ IsReadable(t) =>
              status = IF Trimmed(Lines(s)) = Trimmed(Lines(t)) THEN "ST_ACCEPTED"
                       ELSE "ST_WRONG_ANSWER"

LEMMA ComparesByCode ==
  /\ Default!ComparesLines <=> RightEnd(exit, disk.ouf, disk.ans)
  /\ Default!ComparesLines' <=> RightEnd(exit', disk'.ouf, disk'.ans)
<1>1. \A s, t : "BAD" \notin Default!ToSet(s) \cup Default!ToSet(t)
                 <=> IsReadable(s) /\ IsReadable(t)
  BY DEF Default!ToSet, IsReadable
<1>2. \A s : Default!Plain(s) = Trimmed(Lines(s))
  BY PlainIsTrimmed
<1>3. \A s, t : [out |-> s, cout |-> t].out = s /\ [out |-> s, cout |-> t].cout = t
  OBVIOUS
<1> QED
  BY <1>1, <1>2, <1>3 DEF Default!ComparesLines, Default!Readable, Default!Status,
     Default!Running, Running, RightEnd

LEMMA CompareStep ==
  ASSUME CompareInv, which = "default", UNCHANGED <<which, disk>>, Default!Next
  PROVE  CompareInv'
<1>1. CASE Default!CannotOpen
  <2>1. exit = Running /\ NoFile \in {out, cout} /\ exit' = 100
    BY <1>1, DefaultCodes DEF Default!CannotOpen, Default!Running, Running
  <2>2. NoFile \in {disk.ouf, disk.ans}
    BY <2>1, CharsAssumption DEF CompareInv, Meet
  <2>3. exit' # Running /\ Default!CheckerResult("bacs_legacy", exit') = "ST_CHECKER_ERROR"
    BY <2>1, DefaultResults DEF Running
  <2>4. disk' = disk
    OBVIOUS
  <2>5. Default!ComparesLines'
    <3>1. RightEnd(exit', disk.ouf, disk.ans)
      BY <2>2, <2>3 DEF RightEnd
    <3> QED BY <2>4, <3>1, ComparesByCode
  <2> QED BY <2>3, <2>4, <2>5 DEF CompareInv
<1>2. CASE Default!CheckEqual
  <2> DEFINE u == Default!Skipped(out)
             v == Default!Skipped(cout)
  <2>1. exit = Running /\ NoFile \notin {out, cout}
    BY <1>2 DEF Default!CheckEqual, Default!Running, Running
  <2>2. NoFile \notin {disk.ouf, disk.ans}
    BY <2>1 DEF CompareInv
  <2>3. out \in Seq(Chars) /\ cout \in Seq(Chars)
    BY <2>1, <2>2 DEF CompareInv, Meet
  <2>4. PICK p \in Seq(Chars), q \in Seq(Chars) :
          disk.ouf = p \o out /\ disk.ans = q \o cout /\ Lines(p) = Lines(q)
    BY <2>1, <2>2 DEF CompareInv, Meet
  <2>5. /\ Default!Eof(out) <=> u = <<>>
        /\ Default!Eof(cout) <=> v = <<>>
        /\ Default!Good(out) <=> u # <<>> /\ u[1] # "BAD"
        /\ Default!Good(cout) <=> v # <<>> /\ v[1] # "BAD"
    BY Zenon DEF Default!Eof, Default!Good, Default!Bad
  <2>6. CASE u # <<>> /\ u[1] # "BAD" /\ v # <<>> /\ v[1] # "BAD" /\ u[1] = v[1]
    <3>1. exit' = exit /\ out' = Tail(u) /\ cout' = Tail(v)
      BY <1>2, <2>5, <2>6, Zenon DEF Default!CheckEqual
    <3>2. Meet(Chars, p \o out, Tail(u), q \o cout, Tail(v))
      BY <2>3, <2>4, <2>6, BothGoOn, Zenon
    <3>3. Default!ComparesLines'
      <4>1. RightEnd(exit', disk'.ouf, disk'.ans)
        BY <2>1, <3>1 DEF RightEnd
      <4> QED BY <4>1, ComparesByCode
    <3> HIDE DEF u, v
    <3> QED BY <2>1, <2>2, <2>4, <3>1, <3>2, <3>3 DEF CompareInv
  <2>7. CASE ~ (u # <<>> /\ u[1] # "BAD" /\ v # <<>> /\ v[1] # "BAD" /\ u[1] = v[1])
    <3> DEFINE same     == Trimmed(Lines(disk.ouf)) = Trimmed(Lines(disk.ans))
               readable == IsReadable(disk.ouf) /\ IsReadable(disk.ans)
               right(d) == readable => (d = "OK" <=> same)
    <3>1. ASSUME readable
          PROVE  /\ u # <<>> => u[1] # "BAD"
                 /\ v # <<>> => v[1] # "BAD"
                 /\ u = <<>> /\ v = <<>> => same
                 /\ u = <<>> => \/ Default!CheckLN(v) = "OK" /\ same
                                \/ Default!CheckLN(v) = "WA" /\ ~ same
                 /\ v = <<>> => \/ Default!CheckLN(u) = "OK" /\ same
                                \/ Default!CheckLN(u) = "WA" /\ ~ same
                 /\ u # <<>> /\ v # <<>> /\ u[1] # v[1] => ~ same
      <4>1. (\A i \in 1 .. Len(u) : u[i] # "BAD") /\ (\A i \in 1 .. Len(v) : v[i] # "BAD")
        BY <2>3, <2>4, <3>1, RestIsReadable DEF IsReadable
      <4>2. (u # <<>> => u[1] # "BAD") /\ (v # <<>> => v[1] # "BAD")
        <5>1. u \in Seq(Chars) /\ v \in Seq(Chars)
          BY <2>3, SkippedIs
        <5> HIDE DEF u, v
        <5>2. (u # <<>> => 1 \in 1 .. Len(u)) /\ (v # <<>> => 1 \in 1 .. Len(v))
          BY <5>1
        <5> QED BY <4>1, <5>2
      <4> QED BY <2>3, <2>4, <4>1, <4>2, Compared
    <3>2. \A t : Default!CheckLN(t) \in {"OK", "WA"}
      BY DEF Default!CheckLN
    <3>3. \E d \in {"OK", "WA"} : exit' = Default!Code[d] /\ right(d)
      <4>1. CASE u # <<>> /\ u[1] # "BAD" /\ v # <<>> /\ v[1] # "BAD"
        <5>1. u[1] # v[1] /\ exit' = Default!Code["WA"]
          BY <1>2, <2>5, <2>7, <4>1, Zenon DEF Default!CheckEqual
        <5> QED BY <3>1, <4>1, <5>1
      <4>2. CASE u = <<>> /\ v = <<>>
        <5>1. exit' = Default!Code["OK"]
          BY <1>2, <2>5, <4>2 DEF Default!CheckEqual
        <5> QED BY <3>1, <4>2, <5>1
      <4>3. CASE u = <<>> /\ v # <<>> /\ v[1] # "BAD"
        <5>1. exit' = Default!Code[Default!CheckLN(v)]
          BY <1>2, <2>5, <4>3 DEF Default!CheckEqual
        <5> QED BY <3>1, <3>2, <4>3, <5>1
      <4>4. CASE u # <<>> /\ u[1] # "BAD" /\ v = <<>>
        <5>1. exit' = Default!Code[Default!CheckLN(u)]
          BY <1>2, <2>5, <4>4 DEF Default!CheckEqual
        <5> QED BY <3>1, <3>2, <4>4, <5>1
      <4>5. CASE (u # <<>> /\ u[1] = "BAD") \/ (v # <<>> /\ v[1] = "BAD")
        <5>1. exit' = Default!Code["WA"] /\ ~ readable
          BY <1>2, <2>5, <3>1, <4>5 DEF Default!CheckEqual
        <5> QED BY <5>1
      <4> HIDE DEF u, v, right
      <4> QED BY <4>1, <4>2, <4>3, <4>4, <4>5
    <3> HIDE DEF same, readable
    <3>4. /\ exit' \in {0, 2}
          /\ readable => (exit' = 0 <=> same)
      BY <3>3, DefaultCodes
    <3>5. RightEnd(exit', disk.ouf, disk.ans)
      BY <2>2, <3>4, DefaultResults DEF RightEnd, same, readable
    <3>6. exit' # Running /\ disk' = disk
      BY <3>4 DEF Running
    <3>7. Default!ComparesLines'
      BY <3>5, <3>6, ComparesByCode
    <3> QED BY <3>6, <3>7 DEF CompareInv
  <2> QED BY <2>6, <2>7
<1> QED BY <1>1, <1>2 DEF Default!Next

LEMMA CompareInvStep ==
  CompareInv /\ [RunChecker]_<<vars, which, out, cout>> => CompareInv'
<1> SUFFICES ASSUME CompareInv, [RunChecker]_<<vars, which, out, cout>>, which' = "default"
             PROVE  CompareInv'
  BY DEF CompareInv
<1>1. CASE UNCHANGED <<vars, which, out, cout>>
  <2>1. Default!ComparesLines' <=> Default!ComparesLines
    BY <1>1, ComparesByCode DEF vars
  <2> QED BY <1>1, <2>1 DEF vars, CompareInv
<1>2. CASE RunChecker
  <2>1. which = "default" /\ UNCHANGED <<which, disk>> /\ Default!Next
    BY <1>2 DEF RunChecker
  <2> QED BY <2>1, CompareStep
<1> QED BY <1>1, <1>2

LEMMA CompareInvInit == StartChecker => CompareInv
<1> SUFFICES ASSUME StartChecker, which = "default" PROVE CompareInv
  BY DEF CompareInv
<1>1. /\ disk.ouf \in Outputs /\ disk.ans \in Answers
      /\ out = disk.ouf /\ cout = disk.ans /\ exit = Running
  BY DEF StartChecker, Default!Init, Default!Running, Running
<1>2. {disk.ouf, disk.ans} \subseteq Seq(Chars) \cup {NoFile}
  BY <1>1, TextsAssumption
<1>3. RightEnd(exit, disk.ouf, disk.ans)
  BY <1>1 DEF RightEnd
<1>4. Default!ComparesLines
  BY <1>3, ComparesByCode
<1>5. ASSUME NoFile \notin {disk.ouf, disk.ans}
      PROVE  Meet(Chars, disk.ouf, out, disk.ans, cout)
  <2>1. out \in Seq(Chars) /\ cout \in Seq(Chars)
    BY <1>1, <1>2, <1>5
  <2>2. /\ <<>> \in Seq(Chars) /\ disk.ouf = <<>> \o out /\ disk.ans = <<>> \o cout
    BY <1>1, <2>1, ConcatEmptySeq
  <2> QED BY <2>1, <2>2, Zenon DEF Meet
<1> QED BY <1>1, <1>2, <1>4, <1>5 DEF CompareInv

(* The default checker accepts exactly the outputs that differ from the    *)
(* correct one in carriage returns and the line ends after the last line,  *)
(* whatever the two texts are (checkdef.cpp:20).                           *)
THEOREM LinesAreCompared == CheckersSpec => []ComparesLines
<1>1. CompareInv => ComparesLines
  BY DEF CompareInv, ComparesLines
<1> QED BY <1>1, CompareInvInit, CompareInvStep, PTL DEF CheckersSpec

-----------------------------------------------------------------------------
(* What is read of a text, and what is left                                *)

(* The characters of the files and what getc makes of them.                *)
Characters == Chars \cup Unseen
Strings    == Seq(Characters)

LEMMA StringsAre ==
  /\ \A x, y \in Strings : Cat(x, y) \in Strings
  /\ \A x, y, z \in Strings : Cat(Cat(x, y), z) = Cat(x, Cat(y, z))
  /\ <<>> \in Strings /\ \A x \in Strings : Cat(<<>>, x) = x /\ Cat(x, <<>>) = x
  /\ \A c \in Characters : <<c>> \in Strings
BY CatIs, FirstIs, Zenon DEF Strings

LEMMA FilesAreStrings ==
  \A s \in Seq(Chars) : s \in Strings
BY SeqMonotonic DEF Strings, Characters

LEMMA VisibleIs ==
  /\ \A x \in Strings : Visible(x) \in Strings
  /\ \A x, y \in Strings : Visible(Cat(x, y)) = Cat(Visible(x), Visible(y))
  /\ Visible(<<>>) = <<>>
  /\ \A c \in Characters : Visible(<<c>>) = IF c \in Unseen THEN <<>> ELSE <<c>>
<1>1. ASSUME NEW x \in Strings PROVE Visible(x) \in Strings
  <2>1. Without(x, Unseen) \in Seq(Characters \ Unseen)
    BY WithoutIsText DEF Strings
  <2> QED BY <2>1, SeqMonotonic DEF Strings, Visible
<1>2. \A x, y \in Seq(Characters) :
        Without(x \o y, Unseen) = Without(x, Unseen) \o Without(y, Unseen)
  BY WithoutConcat
<1>3. \A c \in Characters : Without(<<c>>, Unseen) = IF c \in Unseen THEN <<>> ELSE <<c>>
  BY WithoutOne
<1>4. Without(<<>>, Unseen) = <<>>
  BY WithoutEmpty
<1> QED BY <1>1, <1>2, <1>3, <1>4, Zenon DEF Strings, Visible, Cat

LEMMA UnseenAre ==
  /\ Unseen \subseteq Characters
  /\ "CR" \in Unseen /\ "LF" \in Unseen /\ EOF \in Unseen /\ "FF" \in Unseen /\ "EOFC" \in Unseen
  /\ \A c : isBlanks(c) => c \in Unseen
  /\ Visible(<<"CR">>) = <<>> /\ Visible(<<"LF">>) = <<>> /\ Visible(<<EOF>>) = <<>>
  /\ \A c : c \in {" ", "TAB"} => c \in Unseen
<1>1. /\ "CR" \in Unseen /\ "LF" \in Unseen /\ EOF \in Unseen /\ "FF" \in Unseen
      /\ "EOFC" \in Unseen /\ \A c : c \in {" ", "TAB"} => c \in Unseen
  BY Zenon DEF Unseen, Marks
<1>2. \A c : isBlanks(c) => c \in Unseen
  BY Zenon DEF Unseen, isBlanks
<1>3. Unseen \subseteq Characters
  BY Zenon DEF Characters
<1> HIDE DEF Unseen
<1>4. \A c \in Unseen : Visible(<<c>>) = <<>>
  BY <1>3, VisibleIs
<1> QED BY <1>1, <1>2, <1>3, <1>4

(* What is left of the text t, once the visible characters g were handed   *)
(* out: the rest of it, before which eoln() may have put back a carriage   *)
(* return, and before that the last character read.                        *)
Left(t, u, g) ==
  \E a, b, x \in Strings :
    /\ t = Cat(a, b) /\ u = Cat(x, b) /\ Cat(g, Visible(x)) = Visible(a)
    /\ \/ x \in {<<>>, <<"CR">>}
       \/ \E a0 \in Strings, c \in Characters : a = Cat(a0, <<c>>) /\ x = Cat(<<c>>, <<"CR">>)

LEMMA LeftAtFirst ==
  ASSUME NEW t \in Strings
  PROVE  Left(t, t, <<>>)
<1>1. <<>> \in Strings /\ Cat(<<>>, t) = t /\ Visible(<<>>) = <<>> /\ Cat(<<>>, <<>>) = <<>>
  BY StringsAre, VisibleIs
<1> QED BY <1>1, Zenon DEF Left

(* The first character is taken.                                           *)
LEMMA TakeOne ==
  ASSUME NEW t, NEW g \in Strings, NEW c \in Characters, NEW v \in Strings,
         Left(t, Cat(<<c>>, v), g)
  PROVE  Left(t, v, Cat(g, Visible(<<c>>)))
<1>1. PICK a \in Strings, b \in Strings, x \in Strings :
        /\ t = Cat(a, b) /\ Cat(<<c>>, v) = Cat(x, b) /\ Cat(g, Visible(x)) = Visible(a)
        /\ \/ x \in {<<>>, <<"CR">>}
           \/ \E a0 \in Strings, d \in Characters : a = Cat(a0, <<d>>) /\ x = Cat(<<d>>, <<"CR">>)
  BY Zenon DEF Left
<1> DEFINE w == Visible(<<c>>)
<1>2. <<c>> \in Strings /\ w \in Strings /\ <<"CR">> \in Strings /\ "CR" \in Characters
  BY StringsAre, VisibleIs, UnseenAre
<1>3. \A d, e \in Characters : \A s, u \in Strings :
        Cat(<<d>>, s) = Cat(<<e>>, u) => d = e /\ s = u
  BY FirstIs DEF Strings
<1>4. CASE x = <<>>
  <2> DEFINE a1 == Cat(a, <<c>>)
  <2>1. b = Cat(<<c>>, v) /\ t = Cat(a1, v) /\ a1 \in Strings
    BY <1>1, <1>2, <1>4, StringsAre
  <2>2. Visible(a) = g /\ Visible(a1) = Cat(g, w)
    BY <1>1, <1>2, <1>4, StringsAre, VisibleIs
  <2>3. v = Cat(<<>>, v) /\ Cat(Cat(g, w), Visible(<<>>)) = Visible(a1) /\ <<>> \in Strings
    BY <1>2, <2>2, StringsAre, VisibleIs
  <2> QED BY <2>1, <2>3, Zenon DEF Left
<1>5. CASE x = <<"CR">>
  <2>1. c = "CR" /\ v = b
    BY <1>1, <1>2, <1>3, <1>5
  <2>2. v = Cat(<<>>, b) /\ Cat(Cat(g, w), Visible(<<>>)) = Visible(a) /\ <<>> \in Strings
    BY <1>1, <1>2, <1>5, <2>1, StringsAre, VisibleIs
  <2> QED BY <1>1, <2>2, Zenon DEF Left
<1>6. CASE \E a0 \in Strings, d \in Characters : a = Cat(a0, <<d>>) /\ x = Cat(<<d>>, <<"CR">>)
  <2>1. PICK d \in Characters : x = Cat(<<d>>, <<"CR">>)
    BY <1>6
  <2>2. /\ <<d>> \in Strings /\ Cat(<<"CR">>, b) \in Strings
        /\ Cat(x, b) = Cat(<<d>>, Cat(<<"CR">>, b))
    BY <1>2, <2>1, StringsAre
  <2>3. c = d /\ v = Cat(<<"CR">>, b)
    BY <1>1, <1>3, <2>2
  <2>4. Visible(x) = Cat(w, Visible(<<"CR">>)) /\ Visible(<<"CR">>) \in Strings
    BY <1>2, <2>1, <2>3, VisibleIs
  <2>5. Cat(Cat(g, w), Visible(<<"CR">>)) = Visible(a)
    BY <1>1, <1>2, <2>4, StringsAre
  <2> QED BY <1>1, <1>2, <2>3, <2>5, Zenon DEF Left
<1> QED BY <1>1, <1>4, <1>5, <1>6

(* So are any number of them.                                              *)
Takes(t, w) == \A v, g \in Strings : Left(t, Cat(w, v), g) => Left(t, v, Cat(g, Visible(w)))

LEMMA TakeMany ==
  ASSUME NEW t, NEW s \in Strings
  PROVE  Takes(t, s)
<1> DEFINE Odd == {n \in Nat : \E w \in Strings : Len(w) = n /\ ~ Takes(t, w)}
<1>0. \A w \in Strings : Len(w) \in Nat
  BY DEF Strings
<1>1. Odd = {}
  <2> SUFFICES ASSUME Odd # {} PROVE FALSE
    OBVIOUS
  <2>1. PICK n \in Odd : \A m \in Odd : n <= m
    <3>1. Odd \in SUBSET Nat
      OBVIOUS
    <3> HIDE DEF Odd
    <3> QED BY <3>1, LeastNumber
  <2>2. PICK w \in Strings : Len(w) = n /\ ~ Takes(t, w)
    OBVIOUS
  <2>3. w # <<>>
    <3> SUFFICES Takes(t, <<>>)
      BY <2>2
    <3> SUFFICES ASSUME NEW v \in Strings, NEW g \in Strings, Left(t, Cat(<<>>, v), g)
                 PROVE  Left(t, v, Cat(g, Visible(<<>>)))
      BY DEF Takes
    <3> QED BY StringsAre, VisibleIs
  <2>4. PICK c \in Characters, u \in Strings : w = Cat(<<c>>, u) /\ Len(u) + 1 = Len(w)
    <3>1. w[1] \in Characters /\ Tail(w) \in Strings /\ w = Cat(<<w[1]>>, Tail(w))
      BY <2>3, FirstAndRest, Zenon DEF Strings, Cat
    <3>2. Len(Tail(w)) + 1 = Len(w)
      BY <1>0, <2>3 DEF Strings
    <3> QED BY <3>1, <3>2
  <2>5. Takes(t, u)
    <3>1. Len(u) \in Nat /\ ~ (n <= Len(u))
      BY <1>0, <2>2, <2>4
    <3>2. Len(u) \notin Odd
      BY <2>1, <3>1
    <3> QED BY <3>1, <3>2
  <2>6. ASSUME NEW v \in Strings, NEW g \in Strings, Left(t, Cat(w, v), g)
        PROVE  Left(t, v, Cat(g, Visible(w)))
    <3>1. /\ <<c>> \in Strings /\ Cat(u, v) \in Strings /\ Cat(w, v) = Cat(<<c>>, Cat(u, v))
          /\ Visible(<<c>>) \in Strings /\ Visible(u) \in Strings
          /\ Cat(g, Visible(<<c>>)) \in Strings
      <4>1. <<c>> \in Strings /\ Cat(u, v) \in Strings
        BY StringsAre
      <4>2. Cat(w, v) = Cat(<<c>>, Cat(u, v))
        BY <2>4, <4>1, StringsAre
      <4>3. Visible(<<c>>) \in Strings /\ Visible(u) \in Strings
        BY <4>1, VisibleIs
      <4> QED BY <4>1, <4>2, <4>3, StringsAre
    <3>2. Left(t, Cat(u, v), Cat(g, Visible(<<c>>)))
      BY <2>6, <3>1, TakeOne
    <3>3. Left(t, v, Cat(Cat(g, Visible(<<c>>)), Visible(u)))
      BY <2>5, <3>1, <3>2 DEF Takes
    <3>4. Cat(Cat(g, Visible(<<c>>)), Visible(u)) = Cat(g, Visible(w))
      BY <2>4, <3>1, StringsAre, VisibleIs
    <3> QED BY <3>3, <3>4
  <2>7. Takes(t, w)
    BY <2>6 DEF Takes
  <2> QED BY <2>2, <2>7
<1> QED BY <1>0, <1>1

(* Two characters are put back in the wrong order, by eoln().              *)
LEMMA PutBackTwo ==
  ASSUME NEW t, NEW g \in Strings, NEW c \in Characters, NEW v \in Strings,
         Left(t, Cat(<<"CR">>, Cat(<<c>>, v)), g)
  PROVE  Left(t, Cat(<<c>>, Cat(<<"CR">>, v)), g)
<1>1. PICK a \in Strings, b \in Strings, x \in Strings :
        /\ t = Cat(a, b) /\ Cat(<<"CR">>, Cat(<<c>>, v)) = Cat(x, b)
        /\ Cat(g, Visible(x)) = Visible(a)
        /\ \/ x \in {<<>>, <<"CR">>}
           \/ \E a0 \in Strings, d \in Characters : a = Cat(a0, <<d>>) /\ x = Cat(<<d>>, <<"CR">>)
  BY Zenon DEF Left
<1> DEFINE w == Visible(<<c>>)
           y == Cat(<<c>>, <<"CR">>)
<1>2. /\ <<c>> \in Strings /\ w \in Strings /\ <<"CR">> \in Strings /\ "CR" \in Characters
      /\ Cat(<<c>>, v) \in Strings /\ Cat(<<"CR">>, v) \in Strings
  BY StringsAre, VisibleIs, UnseenAre
<1>3. \A d, e \in Characters : \A s, u \in Strings :
        Cat(<<d>>, s) = Cat(<<e>>, u) => d = e /\ s = u
  BY FirstIs DEF Strings
<1>4. /\ y \in Strings /\ Cat(<<c>>, Cat(<<"CR">>, v)) = Cat(y, v)
      /\ Visible(y) = w /\ Visible(<<"CR">>) = <<>>
  <2>1. y \in Strings /\ Cat(<<c>>, Cat(<<"CR">>, v)) = Cat(y, v)
    BY <1>2, StringsAre
  <2>2. Visible(<<"CR">>) = <<>>
    BY UnseenAre
  <2>3. Visible(y) = Cat(w, <<>>)
    BY <1>2, <2>2, VisibleIs
  <2> QED BY <1>2, <2>1, <2>2, <2>3, StringsAre
<1>5. ASSUME NEW a1 \in Strings, t = Cat(Cat(a1, <<c>>), v), Visible(a1) = g
      PROVE  Left(t, Cat(<<c>>, Cat(<<"CR">>, v)), g)
  <2> DEFINE a2 == Cat(a1, <<c>>)
  <2>1. a2 \in Strings /\ Visible(a2) = Cat(g, Visible(y))
    BY <1>2, <1>4, <1>5, StringsAre, VisibleIs
  <2>2. /\ t = Cat(a2, v) /\ Cat(<<c>>, Cat(<<"CR">>, v)) = Cat(y, v)
        /\ Cat(g, Visible(y)) = Visible(a2) /\ y \in Strings
    BY <1>4, <1>5, <2>1
  <2>3. \E a0 \in Strings, d \in Characters : a2 = Cat(a0, <<d>>) /\ y = Cat(<<d>>, <<"CR">>)
    BY <1>5
  <2> HIDE DEF a2, y
  <2> QED BY <2>1, <2>2, <2>3, Zenon DEF Left
<1> HIDE DEF y
<1>6. CASE x = <<>>
  <2>1. b = Cat(<<"CR">>, Cat(<<c>>, v)) /\ Visible(a) = g
    BY <1>1, <1>2, <1>6, StringsAre, VisibleIs
  <2> DEFINE a1 == Cat(a, <<"CR">>)
  <2>2. a1 \in Strings /\ t = Cat(Cat(a1, <<c>>), v)
    <3>1. a1 \in Strings /\ Cat(a1, Cat(<<c>>, v)) = Cat(a, Cat(<<"CR">>, Cat(<<c>>, v)))
      BY <1>2, StringsAre
    <3>2. Cat(Cat(a1, <<c>>), v) = Cat(a1, Cat(<<c>>, v))
      BY <1>2, <3>1, StringsAre
    <3> QED BY <1>1, <2>1, <3>1, <3>2
  <2>3. Visible(a1) = g
    BY <1>1, <1>2, <1>4, <2>1, StringsAre, VisibleIs
  <2> QED BY <1>5, <2>2, <2>3
<1>7. CASE x = <<"CR">>
  <2>1. b = Cat(<<c>>, v) /\ Visible(a) = g
    <3>1. b = Cat(<<c>>, v)
      BY <1>1, <1>2, <1>3, <1>7
    <3>2. Visible(a) = Cat(g, <<>>)
      BY <1>1, <1>4, <1>7
    <3> QED BY <3>1, <3>2, StringsAre
  <2>2. t = Cat(Cat(a, <<c>>), v)
    BY <1>1, <1>2, <2>1, StringsAre
  <2> QED BY <1>5, <2>1, <2>2
<1>8. CASE \E a0 \in Strings, d \in Characters : a = Cat(a0, <<d>>) /\ x = Cat(<<d>>, <<"CR">>)
  <2>1. PICK d \in Characters : x = Cat(<<d>>, <<"CR">>)
    BY <1>8
  <2>2. /\ <<d>> \in Strings /\ Cat(<<"CR">>, b) \in Strings
        /\ Cat(x, b) = Cat(<<d>>, Cat(<<"CR">>, b))
    BY <1>2, <2>1, StringsAre
  <2>3. Cat(<<c>>, v) = Cat(<<"CR">>, b)
    BY <1>1, <1>2, <1>3, <2>2
  <2>4. c = "CR"
    BY <1>2, <1>3, <2>3
  <2> QED BY <2>4
<1> QED BY <1>1, <1>6, <1>7, <1>8

(* What is left ends, or goes on with a byte that counts as the end: then  *)
(* all that can be seen up to such a place was handed out.                 *)
LEMMA LeftEnds ==
  ASSUME NEW t, NEW u \in Strings, NEW g \in Strings, Left(t, u, g), u = <<>> \/ u[1] \in Marks
  PROVE  \E n \in 0 .. Len(t) : /\ n = Len(t) \/ t[n + 1] \in Marks
                                /\ g = Visible(SubSeq(t, 1, n))
<1>1. PICK a \in Strings, b \in Strings, x \in Strings :
        /\ t = Cat(a, b) /\ u = Cat(x, b) /\ Cat(g, Visible(x)) = Visible(a)
        /\ \/ x \in {<<>>, <<"CR">>}
           \/ \E a0 \in Strings, d \in Characters : a = Cat(a0, <<d>>) /\ x = Cat(<<d>>, <<"CR">>)
  BY Zenon DEF Left
<1>2. \A p, r \in Strings :
        /\ Len(p) \in 0 .. Len(Cat(p, r)) /\ SubSeq(Cat(p, r), 1, Len(p)) = p
        /\ Len(p) = Len(Cat(p, r)) \/ (r # <<>> /\ Cat(p, r)[Len(p) + 1] = r[1])
  BY PrefixIs DEF Strings
<1>3. \A c \in Characters : \A s \in Strings : Cat(<<c>>, s) # <<>> /\ Cat(<<c>>, s)[1] = c
  BY FirstIs DEF Strings
<1>4. <<"CR">> \in Strings /\ "CR" \in Characters /\ "CR" \notin Marks /\ Visible(<<"CR">>) = <<>>
  <2>1. "CR" \notin Marks
    BY DEF Marks
  <2> QED BY <2>1, UnseenAre, StringsAre
<1>5. ASSUME NEW p \in Strings, NEW r \in Strings, t = Cat(p, r), g = Visible(p),
             r = <<>> \/ r[1] \in Marks
      PROVE  \E n \in 0 .. Len(t) : /\ n = Len(t) \/ t[n + 1] \in Marks
                                    /\ g = Visible(SubSeq(t, 1, n))
  <2>1. /\ Len(p) \in 0 .. Len(t) /\ SubSeq(t, 1, Len(p)) = p
        /\ Len(p) = Len(t) \/ t[Len(p) + 1] \in Marks
    BY <1>2, <1>5
  <2> QED BY <1>5, <2>1
<1>6. CASE x = <<>>
  <2>1. u = b /\ Visible(a) = g
    <3>1. Cat(<<>>, b) = b /\ Cat(g, <<>>) = g
      BY StringsAre
    <3> QED BY <1>1, <1>6, <3>1, VisibleIs
  <2> QED BY <1>1, <1>5, <2>1
<1>7. CASE x = <<"CR">>
  <2>1. u # <<>> /\ u[1] = "CR"
    BY <1>1, <1>3, <1>4, <1>7
  <2> QED BY <1>4, <2>1
<1>8. CASE \E a0 \in Strings, d \in Characters : a = Cat(a0, <<d>>) /\ x = Cat(<<d>>, <<"CR">>)
  <2>1. PICK a0 \in Strings, d \in Characters : a = Cat(a0, <<d>>) /\ x = Cat(<<d>>, <<"CR">>)
    BY <1>8
  <2>2. <<d>> \in Strings /\ Cat(<<"CR">>, b) \in Strings /\ u = Cat(<<d>>, Cat(<<"CR">>, b))
    BY <1>1, <1>4, <2>1, StringsAre
  <2>3. d \in Marks /\ d \in Unseen
    <3>1. d \in Marks
      BY <1>3, <2>2
    <3> QED BY <3>1, Zenon DEF Unseen
  <2>4. Visible(<<d>>) = <<>>
    BY <2>3, VisibleIs
  <2>5. Visible(x) = <<>> /\ Visible(a) = Visible(a0)
    <3>1. Visible(x) = Cat(<<>>, <<>>) /\ Visible(a) = Cat(Visible(a0), <<>>)
      BY <1>4, <2>1, <2>2, <2>4, VisibleIs
    <3> QED BY <3>1, StringsAre, VisibleIs
  <2>6. g = Visible(a0)
    <3>1. Cat(g, <<>>) = g
      BY StringsAre
    <3> QED BY <1>1, <2>5, <3>1
  <2>7. t = Cat(a0, Cat(<<d>>, b)) /\ Cat(<<d>>, b) \in Strings /\ Cat(<<d>>, b)[1] = d
    <3>1. Cat(<<d>>, b) \in Strings /\ Cat(Cat(a0, <<d>>), b) = Cat(a0, Cat(<<d>>, b))
      BY <2>2, StringsAre
    <3> QED BY <1>1, <1>3, <2>1, <3>1
  <2> QED BY <1>5, <2>3, <2>6, <2>7
<1> QED BY <1>1, <1>6, <1>7, <1>8

-----------------------------------------------------------------------------
(* How far a read goes                                                     *)

(* From u to v, in any file, the visible characters w are handed out.      *)
Moves(u, v, w) ==
  \A d, g \in Strings : Left(d, u, g) => Left(d, v, Cat(g, w))

LEMMA MovesAre ==
  /\ \A u : Moves(u, u, <<>>)
  /\ \A t, u, x : \A v, w \in Strings : Moves(t, u, v) /\ Moves(u, x, w) => Moves(t, x, Cat(v, w))
  /\ \A c \in Characters : \A u \in Strings : Moves(Cat(<<c>>, u), u, Visible(<<c>>))
  /\ \A s, u \in Strings : Moves(Cat(s, u), u, Visible(s))
  /\ \A c \in Characters : \A u \in Strings :
       Moves(Cat(<<"CR">>, Cat(<<c>>, u)), Cat(<<c>>, Cat(<<"CR">>, u)), <<>>)
<1>0. \A g \in Strings : Cat(g, <<>>) = g
  BY StringsAre
<1>1. \A u : Moves(u, u, <<>>)
  BY <1>0 DEF Moves
<1>2. ASSUME NEW t, NEW u, NEW x, NEW v \in Strings, NEW w \in Strings,
             Moves(t, u, v), Moves(u, x, w)
      PROVE  Moves(t, x, Cat(v, w))
  <2>1. ASSUME NEW d \in Strings, NEW g \in Strings, Left(d, t, g)
        PROVE  Left(d, x, Cat(g, Cat(v, w)))
    <3>1. Left(d, u, Cat(g, v)) /\ Cat(g, v) \in Strings
      BY <1>2, <2>1, StringsAre DEF Moves
    <3>2. Left(d, x, Cat(Cat(g, v), w))
      BY <1>2, <3>1 DEF Moves
    <3>3. Cat(Cat(g, v), w) = Cat(g, Cat(v, w))
      BY StringsAre
    <3> QED BY <3>2, <3>3
  <2> QED BY <2>1 DEF Moves
<1>3. \A c \in Characters : \A u \in Strings : Moves(Cat(<<c>>, u), u, Visible(<<c>>))
  BY TakeOne DEF Moves
<1>4. \A s, u \in Strings : Moves(Cat(s, u), u, Visible(s))
  BY TakeMany DEF Moves, Takes
<1>5. \A c \in Characters : \A u \in Strings :
        Moves(Cat(<<"CR">>, Cat(<<c>>, u)), Cat(<<c>>, Cat(<<"CR">>, u)), <<>>)
  BY <1>0, PutBackTwo DEF Moves
<1> QED BY <1>1, <1>2, <1>3, <1>4, <1>5

(* A stream of the program: past the end nothing comes any more.           *)
Good(s) == IsStream(s) /\ s.text \in Seq(Chars) /\ (s.eof => s.text = <<>>)

(* From the stream s to the stream t, w is handed out.                     *)
Goes(s, t, w) == Good(t) /\ t.file = s.file /\ w \in Strings /\ Moves(s.text, t.text, w)

LEMMA GoesSame ==
  \A s : Good(s) => Goes(s, s, <<>>)
BY MovesAre, StringsAre DEF Goes

LEMMA GoesOn ==
  \A s, t, u, v, w : Goes(s, t, v) /\ Goes(t, u, w) => Goes(s, u, Cat(v, w))
BY MovesAre, StringsAre DEF Goes

(* What nothing was handed out before or after.                            *)
LEMMA GoesPast ==
  \A s, t, u, w : /\ Goes(s, t, <<>>) /\ Goes(t, u, w) => Goes(s, u, w)
                  /\ Goes(s, t, w) /\ Goes(t, u, <<>>) => Goes(s, u, w)
<1>1. \A w \in Strings : Cat(<<>>, w) = w /\ Cat(w, <<>>) = w
  BY StringsAre
<1>2. \A s, t, w : Goes(s, t, w) => w \in Strings
  BY DEF Goes
<1> QED BY <1>1, <1>2, GoesOn

(* The first character of what comes.                                      *)
LEMMA TextStarts ==
  ASSUME NEW u \in Seq(Chars), u # <<>>
  PROVE  /\ u[1] \in Chars /\ u[1] \in Characters /\ u[1] # EOF /\ Tail(u) \in Seq(Chars)
         /\ u = Cat(<<u[1]>>, Tail(u)) /\ Tail(u) \in Strings /\ u \in Strings
<1>1. u[1] \in Chars /\ Tail(u) \in Seq(Chars) /\ u = <<u[1]>> \o Tail(u)
  BY FirstAndRest
<1>2. u[1] # EOF
  BY <1>1, CharsAssumption
<1>3. Tail(u) \in Strings /\ u \in Strings
  BY <1>1, FilesAreStrings
<1> QED BY <1>1, <1>2, <1>3, Zenon DEF Cat, Characters

LEMMA GetcGoes ==
  ASSUME NEW s, Good(s)
  PROVE  /\ Goes(s, Getc(s).s, Visible(<<Getc(s).c>>))
         /\ Getc(s).c \in Characters
         /\ Getc(s).c # EOF => /\ Getc(s).c \in Chars /\ s.text = Cat(<<Getc(s).c>>, Getc(s).s.text)
                               /\ s.text # <<>> /\ s.text[1] = Getc(s).c
         /\ Getc(s).c = EOF => s.text = <<>> \/ s.text[1] = "FF"
<1> DEFINE g == Getc(s)
<1>1. CASE s.text = <<>>
  <2>1. g.c = EOF /\ g.s = [s EXCEPT !.eof = TRUE]
    BY <1>1 DEF Getc
  <2>2. g.s.text = s.text /\ g.s.file = s.file /\ IsStream(g.s) /\ Good(g.s)
    BY <1>1, <2>1 DEF Good, IsStream
  <2>3. Visible(<<EOF>>) = <<>> /\ EOF \in Characters
    BY UnseenAre
  <2>4. Goes(s, g.s, <<>>)
    BY <2>2, MovesAre, StringsAre DEF Goes
  <2> QED BY <1>1, <2>1, <2>3, <2>4
<1>2. CASE s.text # <<>>
  <2> DEFINE c == s.text[1]
             u == Tail(s.text)
  <2>1. /\ c \in Chars /\ c \in Characters /\ c # EOF /\ u \in Seq(Chars) /\ u \in Strings
        /\ s.text = Cat(<<c>>, u)
    BY <1>2, TextStarts DEF Good
  <2>2. ~ s.eof
    BY <1>2 DEF Good
  <2>3. g.c = (IF c = "FF" THEN EOF ELSE c) /\ g.s = [s EXCEPT !.text = u]
    BY <1>2 DEF Getc
  <2> HIDE DEF c, u
  <2>4. g.s.text = u /\ g.s.file = s.file /\ Good(g.s)
    BY <2>1, <2>2, <2>3 DEF Good, IsStream
  <2>5. Visible(<<g.c>>) = Visible(<<c>>) /\ g.c \in Characters
    <3>1. Visible(<<"FF">>) = <<>> /\ Visible(<<EOF>>) = <<>> /\ EOF \in Characters
      BY UnseenAre, VisibleIs
    <3> QED BY <2>1, <2>3, <3>1
  <2>6. Visible(<<c>>) \in Strings /\ Moves(s.text, u, Visible(<<c>>))
    BY <2>1, MovesAre, VisibleIs, StringsAre
  <2>7. Goes(s, g.s, Visible(<<g.c>>))
    BY <2>4, <2>5, <2>6 DEF Goes
  <2> HIDE DEF g
  <2> QED BY <1>2, <2>1, <2>3, <2>4, <2>5, <2>7 DEF c, g
<1> QED BY <1>1, <1>2

(* A character is put back.                                                *)
LEMMA UngetIs ==
  ASSUME NEW s, Good(s), NEW c \in Chars
  PROVE  /\ Good(Unget(s, c)) /\ Unget(s, c).file = s.file
         /\ Unget(s, c).text = Cat(<<c>>, s.text)
<1>1. c # EOF
  BY CharsAssumption
<1> DEFINE u == <<c>> \o s.text
<1>2. u \in Seq(Chars)
  BY DEF Good
<1>3. Unget(s, c) = [s EXCEPT !.text = u, !.eof = FALSE]
  BY <1>1 DEF Unget
<1>4. u = Cat(<<c>>, s.text)
  BY Zenon DEF Cat
<1> HIDE DEF u
<1> QED BY <1>2, <1>3, <1>4 DEF Good, IsStream

(* A character is read and put back: at most the byte 0xFF is lost.        *)
LEMMA UngetGoes ==
  ASSUME NEW s, Good(s)
  PROVE  /\ Goes(s, Unget(Getc(s).s, Getc(s).c), <<>>)
         /\ Getc(s).c # EOF => Unget(Getc(s).s, Getc(s).c).text = s.text
<1> DEFINE g == Getc(s)
           t == Unget(g.s, g.c)
<1>1. Good(g.s) /\ g.s.file = s.file /\ Goes(s, g.s, Visible(<<g.c>>))
  BY GetcGoes DEF Goes
<1>2. CASE g.c = EOF
  <2>1. t = g.s
    BY <1>2 DEF Unget
  <2>2. Visible(<<g.c>>) = <<>>
    BY <1>2, UnseenAre
  <2> QED BY <1>1, <1>2, <2>1, <2>2
<1>3. CASE g.c # EOF
  <2>1. g.c \in Chars /\ s.text = Cat(<<g.c>>, g.s.text)
    BY <1>3, GetcGoes
  <2>2. Good(t) /\ t.file = g.s.file /\ t.text = s.text
    BY <1>1, <2>1, UngetIs
  <2> HIDE DEF t, g
  <2>3. Goes(s, t, <<>>)
    BY <1>1, <2>2, MovesAre, StringsAre DEF Goes
  <2> QED BY <2>2, <2>3 DEF t, g
<1> QED BY <1>2, <1>3

(* A run of bytes is read, and the one after it put back.                  *)
LEMMA PutBackAtGoes ==
  ASSUME NEW s, Good(s), NEW n \in 1 .. Len(s.text) + 1
  PROVE  Goes(s, PutBackAt(s, n), Visible(SubSeq(s.text, 1, n - 1)))
<1> DEFINE u == SubSeq(s.text, n, Len(s.text))
           v == SubSeq(s.text, 1, n - 1)
           t == [s EXCEPT !.text = u]
<1>1. s.text \in Seq(Chars)
  BY DEF Good
<1>2. u \in Seq(Chars) /\ v \in Seq(Chars) /\ s.text = v \o u
  BY <1>1, SplitText
<1>3. s.text = Cat(v, u) /\ u \in Strings /\ v \in Strings
  BY <1>2, FilesAreStrings, Zenon DEF Cat
<1>4. Visible(v) \in Strings /\ Moves(s.text, u, Visible(v))
  <2> HIDE DEF u, v
  <2> QED BY <1>3, MovesAre, VisibleIs
<1>5. s.text = <<>> => u = <<>>
  BY <1>1
<1>6. PutBackAt(s, n) = Unget(Getc(t).s, Getc(t).c)
  BY Zenon DEF PutBackAt
<1> HIDE DEF u, v
<1>7. Good(t) /\ t.file = s.file /\ t.text = u
  <2>1. u \in Seq(Chars)
    BY <1>2
  <2>2. IsStream(t) /\ t.file = s.file /\ t.text = u /\ t.eof = s.eof
    BY DEF Good, IsStream
  <2> QED BY <1>5, <2>1, <2>2 DEF Good
<1> HIDE DEF t
<1>8. Goes(s, t, Visible(v))
  BY <1>4, <1>7 DEF Goes
<1>9. Goes(t, PutBackAt(s, n), <<>>)
  BY <1>6, <1>7, UngetGoes
<1>10. Goes(s, PutBackAt(s, n), Visible(v))
  BY <1>8, <1>9, GoesPast
<1> QED BY <1>10 DEF v

(* The place at which a search of a text ends: nothing before it is found. *)
LEMMA SearchEnds ==
  ASSUME NEW L \in Nat, NEW I \in SUBSET (1 .. L), NEW m, m = (IF I # {} THEN Min(I) ELSE 0),
         NEW n, n = (IF m = 0 THEN L + 1 ELSE m)
  PROVE  n \in 1 .. L + 1 /\ \A i \in 1 .. n - 1 : i \notin I
<1>1. CASE I = {}
  BY <1>1
<1>2. CASE I # {}
  <2>1. Min(I) \in I /\ \A y \in I : Min(I) <= y
    BY <1>2, FirstPlace
  <2>2. m \in I /\ m \in 1 .. L /\ m \in Int /\ n = m /\ \A y \in I : m <= y
    BY <1>2, <2>1
  <2> QED BY <2>2
<1> QED BY <1>1, <1>2

(* How far a read goes, unless it quits.                                   *)
Passes(s, r) == r.quit = "none" => Goes(s, r.s, Visible(r.got))

LEMMA TellsPasses ==
  \A s, t, yes : Goes(s, t, <<>>) => Passes(s, Tells(t, yes))
BY VisibleIs DEF Passes, Tells

LEMMA QuitsPasses ==
  \A s, t, r : r # "none" => Passes(s, Quits(t, r))
BY DEF Passes, Quits

LEMMA SkipBlanksGoes ==
  ASSUME NEW s, Good(s)
  PROVE  Goes(s, SkipBlanks(s), <<>>)
<1> DEFINE I == {i \in 1 .. Len(s.text) : ~ isBlanks(s.text[i])}
           m == IF I # {} THEN Min(I) ELSE 0
           n == IF m = 0 THEN Len(s.text) + 1 ELSE m
           v == SubSeq(s.text, 1, n - 1)
<1>1. SkipBlanks(s) = PutBackAt(s, n)
  BY Zenon DEF SkipBlanks, EndOf, SelectInSeq
<1>2. s.text \in Seq(Chars) /\ Len(s.text) \in Nat /\ I \in SUBSET (1 .. Len(s.text))
  BY DEF Good
<1>3. n \in 1 .. Len(s.text) + 1 /\ \A i \in 1 .. n - 1 : i \notin I
  <2>1. m = (IF I # {} THEN Min(I) ELSE 0) /\ n = (IF m = 0 THEN Len(s.text) + 1 ELSE m)
    OBVIOUS
  <2> HIDE DEF I, m, n
  <2> QED BY <1>2, <2>1, SearchEnds
<1>4. \A i \in 1 .. n - 1 : isBlanks(s.text[i])
  <2>1. \A i \in 1 .. n - 1 : i \in 1 .. Len(s.text)
    <3> HIDE DEF n
    <3> QED BY <1>2, <1>3
  <2> QED BY <1>3, <2>1, Zenon
<1> HIDE DEF n
<1>5. v \in Seq(Chars) /\ Len(v) = n - 1 /\ \A i \in 1 .. n - 1 : v[i] = s.text[i]
  BY <1>2, <1>3, SplitText
<1>6. \A i \in 1 .. Len(v) : v[i] \in Unseen
  <2>1. \A c : isBlanks(c) => c \in Unseen
    BY UnseenAre
  <2> HIDE DEF v
  <2> QED BY <1>4, <1>5, <2>1
<1>7. Visible(v) = <<>>
  <2> HIDE DEF v
  <2> QED BY <1>5, <1>6, WithoutAll DEF Visible
<1> QED BY <1>1, <1>3, <1>7, PutBackAtGoes

LEMMA EofPasses ==
  ASSUME NEW s, Good(s)
  PROVE  Passes(s, Eof(s)) /\ Goes(s, Eof(s).s, <<>>) /\ Eof(s).quit = "none"
<1> DEFINE g == Getc(s)
<1>1. Goes(s, s, <<>>) /\ Goes(s, g.s, Visible(<<g.c>>))
  BY GoesSame, GetcGoes
<1>2. isEof(g.c) => Visible(<<g.c>>) = <<>>
  BY UnseenAre, VisibleIs DEF isEof
<1>3. \E t, yes : Goes(s, t, <<>>) /\ Eof(s) = Tells(t, yes)
  BY <1>1, <1>2 DEF Eof
<1> QED BY <1>3, TellsPasses DEF Tells

LEMMA SeekEofPasses ==
  ASSUME NEW s, Good(s)
  PROVE  Passes(s, SeekEof(s)) /\ Goes(s, SeekEof(s).s, <<>>) /\ SeekEof(s).quit = "none"
<1>1. Goes(s, SkipBlanks(s), <<>>) /\ Good(SkipBlanks(s))
  BY SkipBlanksGoes DEF Goes
<1>2. Goes(s, Eof(SkipBlanks(s)).s, <<>>) /\ Eof(SkipBlanks(s)).quit = "none"
  BY <1>1, EofPasses, GoesPast
<1>3. Eof(SkipBlanks(s)).got = <<>>
  BY DEF Eof, Tells
<1>4. Goes(s, s, <<>>)
  BY GoesSame
<1>5. Goes(s, SeekEof(s).s, <<>>) /\ SeekEof(s).quit = "none" /\ SeekEof(s).got = <<>>
  BY <1>2, <1>3, <1>4 DEF SeekEof, Tells
<1> QED BY <1>5, VisibleIs DEF Passes

(* An output that has ended was read to its end, or to a byte that counts  *)
(* as it.                                                                  *)
LEMMA EndIsRead ==
  ASSUME NEW s, Good(s), s.file, SeekEof(s).yes,
         NEW d \in Strings, NEW g \in Strings, Left(d, s.text, g)
  PROVE  \E n \in 0 .. Len(d) : /\ n = Len(d) \/ d[n + 1] \in Marks
                                /\ g = Visible(SubSeq(d, 1, n))
<1> DEFINE p == SkipBlanks(s)
           c == Getc(p).c
<1>1. Goes(s, p, <<>>)
  BY SkipBlanksGoes
<1>2. Left(d, p.text, g) /\ p.text \in Strings
  <2>1. Left(d, p.text, Cat(g, <<>>)) /\ p.text \in Strings
    BY <1>1, FilesAreStrings DEF Goes, Moves, Good
  <2> QED BY <2>1, StringsAre
<1>3. p.file /\ Good(p)
  BY <1>1 DEF Goes
<1>4. Eof(p).yes
  BY DEF SeekEof
<1> HIDE DEF p
<1>5. p.eof \/ isEof(c)
  BY <1>3, <1>4 DEF Eof, Tells
<1>6. p.text = <<>> \/ p.text[1] \in Marks
  <2>1. c # EOF => p.text # <<>> /\ p.text[1] = c
    BY <1>3, GetcGoes
  <2>2. c = EOF => p.text = <<>> \/ p.text[1] = "FF"
    BY <1>3, GetcGoes
  <2>3. p.eof => p.text = <<>>
    BY <1>3 DEF Good
  <2> HIDE DEF c
  <2> QED BY <1>5, <2>1, <2>2, <2>3 DEF isEof, Marks
<1> QED BY <1>2, <1>6, LeftEnds

(* What getc takes when it gives EOF: nothing, or the byte 0xFF.           *)
LEMMA GetcEnds ==
  ASSUME NEW s, Good(s), Getc(s).c = EOF
  PROVE  \/ s.text = <<>> /\ Getc(s).s.text = <<>>
         \/ s.text = Cat(<<"FF">>, Getc(s).s.text)
<1>1. CASE s.text = <<>>
  BY <1>1 DEF Getc, Good, IsStream
<1>2. CASE s.text # <<>>
  <2>1. s.text[1] = "FF"
    BY <1>2, GetcGoes
  <2>2. s.text = Cat(<<s.text[1]>>, Tail(s.text))
    BY <1>2, TextStarts DEF Good
  <2> DEFINE u == Tail(s.text)
  <2>3. Getc(s).s.text = u
    <3>1. Getc(s).s = [s EXCEPT !.text = u]
      BY <1>2 DEF Getc
    <3> HIDE DEF u
    <3> QED BY <3>1 DEF Good, IsStream
  <2> QED BY <2>1, <2>2, <2>3
<1> QED BY <1>1, <1>2

(* A carriage return without a line feed, and what comes after it.         *)
LEMMA ReturnGoes ==
  ASSUME NEW s, Good(s), Getc(s).c = "CR"
  PROVE  Goes(s, Unget(Unget(Getc(Getc(s).s).s, "CR"), Getc(Getc(s).s).c), <<>>)
<1> DEFINE g == Getc(s).s
           h == Getc(g)
           v == h.s.text
           p == Unget(h.s, "CR")
           t == Unget(p, h.c)
<1>1. "CR" \in Chars /\ "CR" \in Characters /\ s.text = Cat(<<"CR">>, g.text) /\ Good(g)
  <2>1. "CR" # EOF
    BY DEF EOF
  <2>2. "CR" \in Chars /\ s.text = Cat(<<"CR">>, g.text) /\ Good(g)
    BY <2>1, GetcGoes DEF Goes
  <2> QED BY <2>2, UnseenAre
<1>2. Good(h.s) /\ v \in Strings
  <2>1. Good(h.s)
    BY <1>1, GetcGoes DEF Goes
  <2> QED BY <2>1, FilesAreStrings DEF Good
<1>3. Good(p) /\ p.file = h.s.file /\ p.text = Cat(<<"CR">>, v)
  BY <1>1, <1>2, UngetIs
<1>4. h.s.file = s.file
  BY <1>1, GetcGoes DEF Goes
<1>5. \A c \in Characters : Moves(Cat(<<"CR">>, Cat(<<c>>, v)), Cat(<<c>>, Cat(<<"CR">>, v)), <<>>)
  BY <1>2, MovesAre
<1>6. CASE h.c = EOF
  <2>1. t = p
    BY <1>6 DEF Unget
  <2>2. CASE g.text = <<>> /\ v = <<>>
    <3>1. p.text = s.text
      BY <1>1, <1>3, <2>2
    <3> QED BY <1>3, <1>4, <2>1, <3>1, MovesAre, StringsAre DEF Goes
  <2>3. CASE g.text = Cat(<<"FF">>, v)
    <3>1. "FF" \in Characters /\ Visible(<<"FF">>) = <<>>
      BY UnseenAre, VisibleIs
    <3>2. Moves(s.text, Cat(<<"FF">>, Cat(<<"CR">>, v)), <<>>)
      BY <1>1, <1>5, <2>3, <3>1
    <3>3. Cat(<<"CR">>, v) \in Strings
      BY <1>1, <1>2, StringsAre
    <3>4. Moves(Cat(<<"FF">>, Cat(<<"CR">>, v)), Cat(<<"CR">>, v), <<>>)
      BY <3>1, <3>3, MovesAre
    <3>5. Moves(s.text, p.text, Cat(<<>>, <<>>)) /\ Cat(<<>>, <<>>) = <<>> /\ <<>> \in Strings
      BY <1>3, <3>2, <3>4, MovesAre, StringsAre
    <3> QED BY <1>3, <1>4, <2>1, <3>5 DEF Goes
  <2> QED BY <1>1, <1>6, <2>2, <2>3, GetcEnds
<1>7. CASE h.c # EOF
  <2>1. h.c \in Chars /\ h.c \in Characters /\ g.text = Cat(<<h.c>>, v)
    BY <1>1, <1>7, GetcGoes
  <2>2. Good(t) /\ t.file = s.file /\ t.text = Cat(<<h.c>>, Cat(<<"CR">>, v))
    BY <1>3, <1>4, <2>1, UngetIs
  <2>3. Moves(s.text, t.text, <<>>) /\ <<>> \in Strings
    BY <1>1, <1>5, <2>1, <2>2, StringsAre
  <2> QED BY <2>2, <2>3 DEF Goes
<1> QED BY <1>6, <1>7

LEMMA EolnPasses ==
  ASSUME NEW s, Good(s)
  PROVE  Passes(s, Eoln(s)) /\ Goes(s, Eoln(s).s, <<>>) /\ Eoln(s).quit = "none"
<1> DEFINE g == Getc(s)
           h == Getc(g.s)
<1>1. Goes(s, s, <<>>) /\ Goes(s, g.s, Visible(<<g.c>>)) /\ Good(g.s)
  BY GoesSame, GetcGoes DEF Goes
<1>2. Goes(g.s, h.s, Visible(<<h.c>>))
  BY <1>1, GetcGoes
<1>3. /\ isEof(g.c) \/ g.c \in {"LF", "CR"} => Visible(<<g.c>>) = <<>>
      /\ h.c = "LF" => Visible(<<h.c>>) = <<>>
  BY UnseenAre, VisibleIs DEF isEof
<1>4. Goes(s, Unget(g.s, g.c), <<>>)
  BY UngetGoes
<1>5. g.c = "CR" => Goes(s, Unget(Unget(h.s, "CR"), h.c), <<>>)
  BY ReturnGoes
<1>6. g.c = "CR" /\ h.c = "LF" => Goes(s, h.s, <<>>)
  BY <1>1, <1>2, <1>3, GoesPast
<1>7. \E t, yes : Goes(s, t, <<>>) /\ Eoln(s) = Tells(t, yes)
  <2>1. CASE ~ s.file
    <3>1. Eoln(s) = Tells(s, TRUE)
      BY <2>1 DEF Eoln
    <3> QED BY <1>1, <3>1
  <2>2. CASE s.file /\ (isEof(g.c) \/ g.c = "LF")
    <3>1. Eoln(s) = Tells(g.s, TRUE)
      BY <2>2 DEF Eoln
    <3> QED BY <1>1, <1>3, <2>2, <3>1
  <2>3. CASE s.file /\ ~ (isEof(g.c) \/ g.c = "LF") /\ g.c # "CR"
    <3>1. Eoln(s) = Tells(Unget(g.s, g.c), FALSE)
      BY <2>3 DEF Eoln
    <3> QED BY <1>4, <3>1
  <2>4. CASE s.file /\ ~ (isEof(g.c) \/ g.c = "LF") /\ g.c = "CR" /\ h.c = "LF"
    <3>1. Eoln(s) = Tells(h.s, TRUE)
      BY <2>4 DEF Eoln
    <3> QED BY <1>6, <2>4, <3>1
  <2>5. CASE s.file /\ ~ (isEof(g.c) \/ g.c = "LF") /\ g.c = "CR" /\ h.c # "LF"
    <3>1. Eoln(s) = Tells(Unget(Unget(h.s, "CR"), h.c), FALSE)
      BY <2>5 DEF Eoln
    <3> QED BY <1>5, <2>5, <3>1
  <2> HIDE DEF g, h
  <2> QED BY <2>1, <2>2, <2>3, <2>4, <2>5
<1> QED BY <1>7, TellsPasses DEF Tells

LEMMA SeekEolnPasses ==
  ASSUME NEW s, Good(s)
  PROVE  Passes(s, SeekEoln(s))
<1> DEFINE I == {i \in 1 .. Len(s.text) : s.text[i] \notin {" ", "TAB"}}
           m == IF I # {} THEN Min(I) ELSE 0
           n == IF m = 0 THEN Len(s.text) + 1 ELSE m
           v == SubSeq(s.text, 1, n - 1)
           p == PutBackAt(s, n)
<1>1. s.file => SeekEoln(s) = Eoln(p)
  BY Zenon DEF SeekEoln, EndOf, SelectInSeq
<1>2. s.text \in Seq(Chars) /\ Len(s.text) \in Nat
  BY DEF Good
<1>3. /\ I \in SUBSET (1 .. Len(s.text))
      /\ \A i \in 1 .. Len(s.text) : i \notin I => s.text[i] \in Unseen
  <2>1. \A i \in 1 .. Len(s.text) : i \notin I => s.text[i] \in {" ", "TAB"}
    BY Zenon
  <2>2. I \in SUBSET (1 .. Len(s.text))
    BY Zenon
  <2>3. \A c : c \in {" ", "TAB"} => c \in Unseen
    BY UnseenAre, Zenon
  <2> QED BY <2>1, <2>2, <2>3, Zenon
<1>4. n \in 1 .. Len(s.text) + 1 /\ \A i \in 1 .. n - 1 : i \notin I
  <2> HIDE DEF I
  <2>1. m = (IF I # {} THEN Min(I) ELSE 0) /\ n = (IF m = 0 THEN Len(s.text) + 1 ELSE m)
    OBVIOUS
  <2> HIDE DEF m, n
  <2> QED BY <1>2, <1>3, <2>1, SearchEnds
<1> HIDE DEF I, m, n
<1>5. v \in Seq(Chars) /\ Len(v) = n - 1 /\ \A i \in 1 .. n - 1 : v[i] = s.text[i]
  BY <1>2, <1>4, SplitText
<1>6. \A i \in 1 .. Len(v) : v[i] \in Unseen
  <2>1. \A i \in 1 .. n - 1 : i \in 1 .. Len(s.text)
    BY <1>2, <1>4
  <2> HIDE DEF v
  <2> QED BY <1>3, <1>4, <1>5, <2>1
<1>7. Visible(v) = <<>>
  <2> HIDE DEF v
  <2> QED BY <1>5, <1>6, WithoutAll DEF Visible
<1>8. Goes(s, p, <<>>) /\ Good(p)
  BY <1>4, <1>7, PutBackAtGoes DEF Goes
<1> HIDE DEF p
<1>9. CASE s.file
  <2>1. Goes(s, Eoln(p).s, <<>>) /\ Eoln(p).got = <<>>
    BY <1>8, EolnPasses, GoesPast DEF Eoln, Tells
  <2> QED BY <1>1, <1>9, <2>1, VisibleIs DEF Passes
<1>10. CASE ~ s.file
  <2>1. SeekEoln(s) = Tells(s, TRUE)
    BY <1>10, Zenon DEF SeekEoln
  <2> QED BY <2>1, GoesSame, TellsPasses
<1> QED BY <1>9, <1>10

LEMMA ReadCharPasses ==
  ASSUME NEW s, Good(s)
  PROVE  Passes(s, ReadChar(s))
<1>1. Goes(s, Getc(s).s, Visible(<<Getc(s).c>>))
  BY GetcGoes
<1> QED BY <1>1 DEF Passes, ReadChar, Gives, Quits

LEMMA ReadSpacePasses ==
  ASSUME NEW s, Good(s)
  PROVE  Passes(s, ReadSpace(s))
<1>1. ReadSpace(s) = ReadChar(s) \/ ReadSpace(s).quit = "_pe"
  <2>1. \A r : Quits(r.s, "_pe").quit = "_pe"
    BY DEF Quits
  <2> QED BY <2>1, Zenon DEF ReadSpace, Then
<1>2. "_pe" # "none"
  OBVIOUS
<1> QED BY <1>1, <1>2, ReadCharPasses, Zenon DEF Passes

LEMMA ReadWordPasses ==
  ASSUME NEW s, Good(s)
  PROVE  Passes(s, ReadWord(s))
<1> DEFINE r == SkipBlanks(s)
           I == {i \in 1 .. Len(r.text) : isBlanks(r.text[i]) \/ r.text[i] = "FF"}
           m == IF I # {} THEN Min(I) ELSE 0
           n == IF m = 0 THEN Len(r.text) + 1 ELSE m
           w == Gives(PutBackAt(r, n), SubSeq(r.text, 1, n - 1))
<1>1. ReadWord(s) = w \/ ReadWord(s) = Quits(s, "crash") \/ ReadWord(s) = Quits(Getc(r).s, "_pe")
  BY Zenon DEF ReadWord, EndOf, SelectInSeq
<1>2. Goes(s, r, <<>>) /\ Good(r) /\ Len(r.text) \in Nat
  BY SkipBlanksGoes DEF Goes, Good
<1>3. n \in 1 .. Len(r.text) + 1
  <2>1. I \in SUBSET (1 .. Len(r.text))
    BY Zenon
  <2> HIDE DEF I
  <2>2. m = (IF I # {} THEN Min(I) ELSE 0) /\ n = (IF m = 0 THEN Len(r.text) + 1 ELSE m)
    OBVIOUS
  <2> HIDE DEF m, n
  <2> QED BY <1>2, <2>1, <2>2, SearchEnds
<1> HIDE DEF I, m, n, r
<1>4. Goes(s, PutBackAt(r, n), Visible(SubSeq(r.text, 1, n - 1)))
  BY <1>2, <1>3, PutBackAtGoes, GoesPast
<1>5. Passes(s, w)
  BY <1>4 DEF Passes, Gives
<1> HIDE DEF w
<1> QED BY <1>1, <1>5, QuitsPasses

LEMMA ReadLongPasses ==
  ASSUME NEW s, Good(s), NEW tested
  PROVE  Passes(s, ReadLong(s, tested))
<1> DEFINE e == SeekEof(s).s
           w == ReadWord(e)
<1>1. Goes(s, e, <<>>) /\ Good(e)
  BY SeekEofPasses DEF Goes
<1>2. Passes(s, w)
  BY <1>1, ReadWordPasses, GoesPast DEF Passes
<1>3. ReadLong(s, tested) = w \/ \E t : ReadLong(s, tested) = Quits(t, "_pe")
  <2>1. SeekEof(s).quit = "none"
    BY SeekEofPasses
  <2> QED BY <2>1, Zenon DEF ReadLong, Then
<1> HIDE DEF w
<1> QED BY <1>2, <1>3, QuitsPasses

LEMMA ReadIntegerPasses ==
  ASSUME NEW s, Good(s), NEW tested
  PROVE  Passes(s, ReadInteger(s, tested))
<1>1. \/ ReadInteger(s, tested) = ReadLong(s, tested)
      \/ \E t : ReadInteger(s, tested) = Quits(t, "_pe")
  BY Zenon DEF ReadInteger, Then
<1> QED BY <1>1, ReadLongPasses, QuitsPasses

LEMMA ReadInRangePasses ==
  ASSUME NEW s, Good(s), NEW tested
  PROVE  Passes(s, ReadInRange(s, tested))
<1>1. \/ ReadInRange(s, tested) = ReadInteger(s, tested)
      \/ \E t : ReadInRange(s, tested) = Quits(t, "_wa")
  BY Zenon DEF ReadInRange, Then
<1> QED BY <1>1, ReadIntegerPasses, QuitsPasses

LEMMA ReadStringPasses ==
  ASSUME NEW s, Good(s)
  PROVE  Passes(s, ReadString(s))
<1> DEFINE I == {i \in 1 .. Len(s.text) : isEoln(s.text[i]) \/ s.text[i] \in Marks}
           m == IF I # {} THEN Min(I) ELSE 0
           n == IF m = 0 THEN Len(s.text) + 1 ELSE m
           p == PutBackAt(s, n)
           w == Gives(Eoln(p).s, SubSeq(s.text, 1, n - 1))
<1>1. ReadString(s) = w \/ ReadString(s) = Quits(s, "_pe")
  BY Zenon DEF ReadString, EndOf, SelectInSeq
<1>2. Len(s.text) \in Nat
  BY DEF Good
<1>3. n \in 1 .. Len(s.text) + 1
  <2>1. I \in SUBSET (1 .. Len(s.text))
    BY Zenon
  <2> HIDE DEF I
  <2>2. m = (IF I # {} THEN Min(I) ELSE 0) /\ n = (IF m = 0 THEN Len(s.text) + 1 ELSE m)
    OBVIOUS
  <2> HIDE DEF m, n
  <2> QED BY <1>2, <2>1, <2>2, SearchEnds
<1> HIDE DEF I, m, n
<1>4. Goes(s, p, Visible(SubSeq(s.text, 1, n - 1))) /\ Good(p)
  BY <1>3, PutBackAtGoes DEF Goes
<1>5. Goes(s, Eoln(p).s, Visible(SubSeq(s.text, 1, n - 1)))
  <2>1. Goes(p, Eoln(p).s, <<>>)
    BY <1>4, EolnPasses
  <2> HIDE DEF p
  <2> QED BY <1>4, <2>1, GoesPast
<1>6. Passes(s, w)
  BY <1>5 DEF Passes, Gives
<1> HIDE DEF w
<1> QED BY <1>1, <1>6, QuitsPasses

LEMMA ReadEolnPasses ==
  ASSUME NEW s, Good(s)
  PROVE  Passes(s, ReadEoln(s))
<1>1. ReadEoln(s) = Eoln(s) \/ \E t : ReadEoln(s) = Quits(t, "_pe")
  BY Zenon DEF ReadEoln, Then
<1> QED BY <1>1, EolnPasses, QuitsPasses

LEMMA ReadEofPasses ==
  ASSUME NEW s, Good(s)
  PROVE  Passes(s, ReadEof(s))
<1>1. ReadEof(s) = Eof(s) \/ \E t : ReadEof(s) = Quits(t, "_pe")
  BY Zenon DEF ReadEof, Then
<1> QED BY <1>1, EofPasses, QuitsPasses

(* No read takes a visible character that it does not hand out, and none   *)
(* hands one out that it does not take.                                    *)
LEMMA ReadPasses ==
  ASSUME NEW s, Good(s), NEW op \in Ops, NEW tested
  PROVE  Passes(s, Read(op, s, tested))
BY ReadCharPasses, ReadSpacePasses, ReadWordPasses, ReadLongPasses, ReadIntegerPasses,
   ReadInRangePasses, ReadStringPasses, ReadEolnPasses, ReadEofPasses, EofPasses, SeekEofPasses,
   EolnPasses, SeekEolnPasses DEF Read, Ops

-----------------------------------------------------------------------------
(* An accepted output was read                                             *)

(* Of the output t, all that can be seen was handed out as g, up to its    *)
(* end or to a byte that counts as it.                                     *)
AllSeen(t, g) ==
  \E n \in 0 .. Len(t) : (n = Len(t) \/ t[n + 1] \in Marks) /\ g = Visible(SubSeq(t, 1, n))

(* While a checker runs, what its reads handed out of the output and what  *)
(* the stream still holds make up the whole file, unless a number was read *)
(* from a cut token; once it has accepted, nothing was left.               *)
Reading ==
  /\ disk.ouf \in Seq(Chars) /\ Good(st["ouf"]) /\ st["ouf"].file
  /\ cut \/ (given \in Strings /\ Left(disk.ouf, st["ouf"].text, given))

ReadInv ==
  /\ disk.ouf \in Seq(Chars) \cup {NoFile}
  /\ which = "default" \/ exit = Running \/ ~ up => result = "none"
  /\ ~ up => given = <<>> /\ ~ cut
  /\ cut \in BOOLEAN
  /\ which = "package" /\ up /\ exit = Running => Reading
  /\ result = "_ok" => exit = 4 \/ cut \/ AllSeen(disk.ouf, given)

LEMMA QuitStops ==
  ASSUME NEW s, NEW x, NEW r \in Results, NEW k \in Nat, QuitsWith(s, x, r, k)
  PROVE  exit' # Running /\ result' = r
<1>1. Verdict(s, x, r) \in Results \ {"_dirt"}
  BY DEF Verdict, Results
<1>2. exit' = ResultExitCode(Verdict(s, x, r), k) /\ result' = r
  BY DEF QuitsWith
<1>3. exit' \in Nat
  BY <1>1, <1>2, CodesAre DEF Results
<1> QED BY <1>2, <1>3 DEF Running

LEMMA ReadInvInit == StartChecker => ReadInv
<1> SUFFICES ASSUME StartChecker PROVE ReadInv
  OBVIOUS
<1>1. /\ ~ up /\ given = <<>> /\ cut = FALSE /\ result = "none"
  BY DEF StartChecker, Init
<1>2. disk.ouf \in Seq(Chars) \cup {NoFile}
  <2>1. CASE which = "package" /\ Init
    BY <2>1, CheckerAssumption DEF Init
  <2>2. CASE disk \in [inf : {NoFile}, ouf : Outputs, ans : Answers]
    BY <2>2, TextsAssumption
  <2> QED BY <2>1, <2>2 DEF StartChecker
<1> QED BY <1>1, <1>2 DEF ReadInv

LEMMA RegisterReads ==
  ASSUME CheckInv, ReadInv, which = "package", UNCHANGED which, RegisterTestlibCmd
  PROVE  ReadInv'
<1>1. /\ ~ up /\ up' /\ UNCHANGED <<disk, given, cut>> /\ given = <<>> /\ result = "none"
      /\ cut = FALSE
      /\ exit = Running
      /\ st' = [inf |-> Opened(disk.inf, "_input"),
                ouf |-> Opened(disk.ouf, "_output"),
                ans |-> IF disk.ouf = NoFile THEN Closed ELSE Opened(disk.ans, "_answer")]
      /\ IF disk.ouf = NoFile THEN QuitsWith(st', "ouf", "_pe", 0)
         ELSE UNCHANGED <<exit, result, blamed>>
  BY DEF RegisterTestlibCmd, ReadInv, CheckInv, EndInv
<1>2. disk.ouf \in Seq(Chars) \cup {NoFile}
  BY DEF ReadInv
<1>3. CASE disk.ouf = NoFile
  <2>1. exit' # Running /\ result' = "_pe"
    <3>1. "_pe" \in Results
      BY DEF Results
    <3> QED BY <1>1, <1>3, <3>1, QuitStops
  <2> QED BY <1>1, <1>2, <2>1 DEF ReadInv
<1>4. CASE disk.ouf # NoFile
  <2>1. UNCHANGED <<exit, result>> /\ disk.ouf \in Seq(Chars)
    BY <1>1, <1>2, <1>4
  <2>2. /\ st'["ouf"] = [text |-> disk.ouf, eof |-> FALSE, file |-> TRUE, mode |-> "_output"]
    <3>1. st'["ouf"] = Opened(disk.ouf, "_output")
      BY <1>1
    <3>2. Opened(disk.ouf, "_output")
            = [text |-> disk.ouf, eof |-> FALSE, file |-> TRUE, mode |-> "_output"]
      BY <1>4 DEF Opened
    <3> QED BY <3>1, <3>2
  <2> DEFINE s == st'["ouf"]
  <2>3. Good(s) /\ s.file /\ s.text = disk.ouf
    BY <2>1, <2>2 DEF Good, IsStream
  <2>4. Left(disk.ouf, disk.ouf, <<>>) /\ <<>> \in Strings
    BY <2>1, FilesAreStrings, LeftAtFirst, StringsAre
  <2>5. Reading'
    BY <1>1, <2>1, <2>3, <2>4 DEF Reading
  <2> QED BY <1>1, <1>2, <2>1, <2>5 DEF ReadInv
<1> QED BY <1>3, <1>4

LEMMA DecideReads ==
  ASSUME CheckInv, ReadInv, which = "package", UNCHANGED which, Decide
  PROVE  ReadInv'
<1>1. PICK r \in Results, k \in Points : QuitsWith(st, "ouf", r, k)
  BY DEF Decide
<1>2. up /\ exit = Running /\ UNCHANGED <<disk, st, up, given, cut>> /\ k \in Nat
  BY PointsAre DEF Decide
<1>3. Reading /\ disk.ouf \in Seq(Chars)
  BY <1>2 DEF ReadInv, Reading
<1>4. exit' # Running /\ result' = r
  BY <1>1, <1>2, QuitStops
<1>5. r = "_ok" => exit' = 4 \/ SeekEof(st["ouf"]).yes
  <2>1. st["ouf"].mode = "_output"
    BY <1>2 DEF CheckInv, ModesInv, Streams
  <2>2. r = "_ok" => Verdict(st, "ouf", r) = "_pe" \/ SeekEof(st["ouf"]).yes
    BY <2>1 DEF Verdict
  <2> QED BY <1>1, <1>2, <2>2, CodesAre DEF QuitsWith
<1>6. SeekEof(st["ouf"]).yes => cut \/ AllSeen(disk.ouf, given)
  <2>1. disk.ouf \in Strings
    BY <1>3, FilesAreStrings
  <2> QED BY <1>3, <2>1, EndIsRead DEF Reading, AllSeen
<1> QED BY <1>2, <1>3, <1>4, <1>5, <1>6 DEF ReadInv

LEMMA ReadFromReads ==
  ASSUME CheckInv, ReadInv, which = "package", UNCHANGED which,
         NEW x \in Streams, NEW op \in Ops, ReadFrom(x, op)
  PROVE  ReadInv'
<1>1. PICK tested \in BOOLEAN :
        LET r == Read(op, st[x], tested) IN
        /\ st' = [st EXCEPT ![x] = r.s]
        /\ given' = IF x = "ouf" THEN given \o Visible(Handed(op, r.got)) ELSE given
        /\ cut' = (cut \/ (x = "ouf" /\ Handed(op, r.got) # r.got))
        /\ CASE r.quit = "none"  -> UNCHANGED <<exit, result, blamed>>
             [] r.quit = "crash" -> exit' = Crash /\ UNCHANGED <<result, blamed>>
             [] OTHER            -> QuitsWith(st', x, r.quit, 0)
  BY DEF ReadFrom
<1> DEFINE r == Read(op, st[x], tested)
<1>2. up /\ exit = Running /\ UNCHANGED <<disk, up>>
  BY DEF ReadFrom
<1>3. Reading /\ result = "none" /\ disk.ouf \in Seq(Chars)
  BY <1>2 DEF ReadInv, Reading
<1>4. Sound(st[x], r)
  BY <1>2, ReadSound DEF CheckInv, ModesInv
<1>5. r.quit \in {"none", "crash", "_pe", "_wa"}
  BY <1>4 DEF Sound
<1>6. /\ st' = [st EXCEPT ![x] = r.s]
      /\ given' = IF x = "ouf" THEN Cat(given, Visible(Handed(op, r.got))) ELSE given
      /\ cut' = (cut \/ (x = "ouf" /\ Handed(op, r.got) # r.got))
  BY <1>1, Zenon DEF Cat
<1>7. /\ r.quit = "none" => UNCHANGED <<exit, result>>
      /\ r.quit = "crash" => exit' = Crash /\ UNCHANGED result
      /\ r.quit \in {"_pe", "_wa"} => QuitsWith(st', x, r.quit, 0)
  BY <1>1
<1>8. /\ x # "ouf" => cut' = cut /\ given' = given
      /\ x = "ouf" /\ ~ cut' => ~ cut /\ given' = Cat(given, Visible(r.got))
      /\ cut' \in BOOLEAN
  <2>1. cut \in BOOLEAN
    BY DEF ReadInv
  <2> HIDE DEF r
  <2> QED BY <1>6, <2>1
<1>9. CASE r.quit = "none"
  <2>1. Reading'
    <3>1. CASE x # "ouf"
      <4>1. st'["ouf"] = st["ouf"] /\ given' = given /\ cut' = cut
        BY <1>2, <1>6, <1>8, <3>1
      <4> QED BY <1>2, <1>3, <4>1 DEF Reading
    <3>2. CASE x = "ouf"
      <4>1. st'["ouf"] = r.s
        BY <1>2, <1>6, <3>2 DEF CheckInv, ModesInv
      <4>2. Goes(st["ouf"], r.s, Visible(r.got))
        BY <1>3, <1>9, <3>2, ReadPasses DEF Reading, Passes
      <4>3. ~ cut' => ~ cut /\ given' = Cat(given, Visible(r.got))
        BY <1>8, <3>2
      <4>4. disk.ouf \in Strings
        BY <1>3, FilesAreStrings
      <4> HIDE DEF r
      <4>5. Good(r.s) /\ r.s.file
        BY <1>3, <4>2 DEF Goes, Reading
      <4>6. ~ cut' => given' \in Strings /\ Left(disk.ouf, r.s.text, given')
        <5> SUFFICES ASSUME ~ cut' PROVE given' \in Strings /\ Left(disk.ouf, r.s.text, given')
          OBVIOUS
        <5>1. ~ cut /\ given' = Cat(given, Visible(r.got))
          BY <4>3
        <5>2. given \in Strings /\ Left(disk.ouf, st["ouf"].text, given)
          BY <1>3, <5>1 DEF Reading
        <5>3. Visible(r.got) \in Strings
              /\ \A d, g \in Strings : Left(d, st["ouf"].text, g)
                    => Left(d, r.s.text, Cat(g, Visible(r.got)))
          BY <4>2 DEF Goes, Moves
        <5> QED BY <4>4, <5>1, <5>2, <5>3, StringsAre, Zenon
      <4> QED BY <1>2, <1>3, <4>1, <4>5, <4>6 DEF Reading
    <3> QED BY <3>1, <3>2
  <2> QED BY <1>2, <1>3, <1>7, <1>8, <1>9, <2>1 DEF ReadInv
<1>10. CASE r.quit = "crash"
  <2>1. exit' # Running /\ result' = "none"
    BY <1>3, <1>7, <1>10 DEF Crash, Running
  <2> QED BY <1>2, <1>3, <1>8, <2>1 DEF ReadInv
<1>11. CASE r.quit \in {"_pe", "_wa"}
  <2>1. r.quit \in Results /\ r.quit # "_ok"
    BY <1>11 DEF Results
  <2>2. exit' # Running /\ result' = r.quit
    BY <1>7, <1>11, <2>1, QuitStops
  <2> QED BY <1>2, <1>3, <1>8, <2>1, <2>2 DEF ReadInv
<1> QED BY <1>5, <1>9, <1>10, <1>11

LEMMA ReadInvStep ==
  CheckInv /\ ReadInv /\ [RunChecker]_<<vars, which, out, cout>> => ReadInv'
<1> SUFFICES ASSUME CheckInv, ReadInv, [RunChecker]_<<vars, which, out, cout>> PROVE ReadInv'
  OBVIOUS
<1>1. ASSUME which = "default", UNCHANGED <<which, disk, st, up, reads, given, cut, missed, result, blamed>>
      PROVE  ReadInv'
  <2>1. ~ up /\ result = "none"
    BY <1>1 DEF CheckInv, EndInv, ReadInv
  <2> QED BY <1>1, <2>1 DEF ReadInv
<1>2. CASE UNCHANGED <<vars, which, out, cout>>
  BY <1>2 DEF vars, ReadInv, Reading
<1> QED BY <1>1, <1>2, RegisterReads, DecideReads, ReadFromReads DEF RunChecker, Next

(* Under no convention does the exit code of _pe accept.                   *)
LEMMA PeIsNotAccepted ==
  \A convention : CheckerResult(convention, 4) # "ST_ACCEPTED"
<1> SUFFICES ASSUME NEW convention PROVE CheckerResult(convention, 4) # "ST_ACCEPTED"
  OBVIOUS
<1>1. CASE convention = "bacs_legacy"
  BY <1>1 DEF CheckerResult
<1>2. CASE convention = "ejudge"
  BY <1>2 DEF CheckerResult
<1>3. CASE convention \in {"testlib", "none"}
  BY <1>3 DEF CheckerResult
<1>4. CASE convention \notin {"bacs_legacy", "ejudge", "testlib", "none"}
  BY <1>4 DEF CheckerResult
<1> QED BY <1>1, <1>2, <1>3, <1>4

(* An output is accepted only when all that can be seen of it was handed   *)
(* to the checker, whatever the file, the reads and the convention of exit *)
(* codes: an output with something left is quit's _dirt (testlib.h:1129).  *)
(* The byte 0xFF, which getc cannot tell from the end, counts as one.      *)
(* Left aside are the checkers that read a number from a token with a NUL  *)
(* in it, which cuts it (testlib.h:1552), and partial results.             *)
THEOREM AcceptedAreRead == CheckersSpec => []AcceptedIsRead
<1>1. ReadInv => AcceptedIsRead
  BY PeIsNotAccepted DEF ReadInv, AllSeen, AcceptedIsRead, Status, Ended, Crash
<1> QED BY <1>1, ReadInvInit, ReadInvStep, CheckInvAlways, PTL DEF CheckersSpec

-----------------------------------------------------------------------------
(* The number an output begins with                                        *)

(* What FirstToken is made of: a text from its first character that is not *)
(* blank on, and the characters of a text before the first blank.          *)
FromStart(t) == SubSeq(t, EndOf(t, LAMBDA c : ~ isBlanks(c)), Len(t))
Word(u)      == SubSeq(u, 1, EndOf(u, isBlanks) - 1)

(* A text in which the byte that cannot be put back is not.                *)
Plain(t) == t \in Seq(Chars) /\ \A i \in 1 .. Len(t) : t[i] # "FF"

LEMMA PlainIs ==
  ASSUME NEW t \in Seq(Chars), "FF" \notin ToSet(t)
  PROVE  Plain(t)
<1>1. DOMAIN t = 1 .. Len(t)
  OBVIOUS
<1>2. \A i \in 1 .. Len(t) : t[i] \in ToSet(t)
  BY <1>1 DEF ToSet
<1> QED BY <1>2 DEF Plain

LEMMA FromStartIs ==
  ASSUME NEW t, Plain(t)
  PROVE  /\ Plain(FromStart(t))
         /\ FromStart(t) # <<>> => ~ isBlanks(FromStart(t)[1])
         /\ t # <<>> /\ ~ isBlanks(t[1]) => FromStart(t) = t
<1> DEFINE I == {i \in 1 .. Len(t) : ~ isBlanks(t[i])}
           m == IF I # {} THEN Min(I) ELSE 0
           n == IF m = 0 THEN Len(t) + 1 ELSE m
           u == SubSeq(t, n, Len(t))
<1>1. FromStart(t) = u
  BY Zenon DEF FromStart, EndOf, SelectInSeq
<1>2. t \in Seq(Chars) /\ Len(t) \in Nat /\ I \in SUBSET (1 .. Len(t))
  BY DEF Plain
<1>3. m = (IF I # {} THEN Min(I) ELSE 0) /\ n = (IF m = 0 THEN Len(t) + 1 ELSE m)
  OBVIOUS
<1>4. \A i : i \in I <=> i \in 1 .. Len(t) /\ ~ isBlanks(t[i])
  OBVIOUS
<1> HIDE DEF I, m, n
<1>5. n \in 1 .. Len(t) + 1 /\ (n <= Len(t) => n \in I)
  <2>1. CASE I = {}
    BY <1>2, <1>3, <2>1
  <2>2. CASE I # {}
    <3>1. Min(I) \in I
      BY <1>2, <2>2, FirstPlace
    <3>2. m \in I /\ m \in 1 .. Len(t) /\ n = m
      BY <1>2, <1>3, <2>2, <3>1
    <3> QED BY <1>2, <3>2
  <2> QED BY <2>1, <2>2
<1>6. /\ u \in Seq(Chars) /\ Len(u) = Len(t) - n + 1
      /\ \A i \in 1 .. Len(u) : u[i] = t[n + i - 1] /\ n + i - 1 \in 1 .. Len(t)
  <2>1. u \in Seq(Chars) /\ Len(u) = Len(t) - n + 1
    BY <1>2, <1>5
  <2>2. ASSUME NEW i \in 1 .. Len(u) PROVE u[i] = t[n + i - 1] /\ n + i - 1 \in 1 .. Len(t)
    <3>1. i \in 1 .. Len(t) - n + 1 /\ i \in Int
      BY <2>1
    <3> QED BY <1>2, <1>5, <3>1
  <2> QED BY <2>1, <2>2
<1> HIDE DEF u
<1>7. Plain(u)
  BY <1>6 DEF Plain
<1>8. ASSUME u # <<>> PROVE ~ isBlanks(u[1])
  <2>1. Len(u) \in Nat /\ Len(u) # 0
    BY <1>6, <1>8
  <2>2. 1 \in 1 .. Len(u) /\ n <= Len(t) /\ n + 1 - 1 = n
    BY <1>2, <1>5, <1>6, <2>1
  <2> QED BY <1>4, <1>5, <1>6, <2>2
<1>9. ASSUME t # <<>>, ~ isBlanks(t[1]) PROVE u = t
  <2>1. Len(t) # 0
    BY <1>2, <1>9
  <2>2. 1 \in I /\ I # {}
    BY <1>2, <1>4, <1>9, <2>1
  <2>3. Min(I) \in I /\ \A y \in I : Min(I) <= y
    BY <1>2, <2>2, FirstPlace
  <2>4. n = 1
    BY <1>2, <1>3, <2>2, <2>3
  <2>5. Len(u) = Len(t) /\ \A i \in 1 .. Len(u) : u[i] = t[i]
    BY <1>2, <1>6, <2>4
  <2> QED BY <1>2, <1>6, <2>5, SeqEqual
<1> QED BY <1>1, <1>7, <1>8, <1>9

(* The word a text begins with.                                            *)
LEMMA WordIs ==
  ASSUME NEW u, Plain(u)
  PROVE  /\ Word(u) \in Seq(Chars)
         /\ Word(u) = SubSeq(u, 1, EndOf(u, LAMBDA c : isBlanks(c) \/ c = "FF") - 1)
         /\ u = <<>> => Word(u) = <<>>
         /\ u # <<>> /\ ~ isBlanks(u[1]) => Word(u) # <<>> /\ Word(u)[1] = u[1]
<1> DEFINE I == {i \in 1 .. Len(u) : isBlanks(u[i])}
           J == {i \in 1 .. Len(u) : isBlanks(u[i]) \/ u[i] = "FF"}
           m == IF I # {} THEN Min(I) ELSE 0
           n == IF m = 0 THEN Len(u) + 1 ELSE m
           k == IF J # {} THEN Min(J) ELSE 0
           w == SubSeq(u, 1, n - 1)
<1>1. Word(u) = w
  BY Zenon DEF Word, EndOf, SelectInSeq
<1>2. I = J
  BY DEF Plain
<1>3. EndOf(u, LAMBDA c : isBlanks(c) \/ c = "FF") = IF k = 0 THEN Len(u) + 1 ELSE k
  BY Zenon DEF EndOf, SelectInSeq
<1>4. EndOf(u, LAMBDA c : isBlanks(c) \/ c = "FF") = n
  <2>1. m = k
    <3> HIDE DEF I, J
    <3> QED BY <1>2
  <2> HIDE DEF m, k
  <2> QED BY <1>3, <2>1
<1>5. u \in Seq(Chars) /\ Len(u) \in Nat /\ I \in SUBSET (1 .. Len(u))
  BY DEF Plain
<1>6. m = (IF I # {} THEN Min(I) ELSE 0) /\ n = (IF m = 0 THEN Len(u) + 1 ELSE m)
  OBVIOUS
<1>7. \A i : i \in I <=> i \in 1 .. Len(u) /\ isBlanks(u[i])
  OBVIOUS
<1> HIDE DEF I, J, m, n, k
<1>8. n \in 1 .. Len(u) + 1 /\ (n <= Len(u) => n \in I)
  <2>1. CASE I = {}
    BY <1>5, <1>6, <2>1
  <2>2. CASE I # {}
    <3>1. Min(I) \in I
      BY <1>5, <2>2, FirstPlace
    <3>2. m \in I /\ m \in 1 .. Len(u) /\ n = m
      BY <1>5, <1>6, <2>2, <3>1
    <3> QED BY <1>5, <3>2
  <2> QED BY <2>1, <2>2
<1>9. w \in Seq(Chars) /\ Len(w) = n - 1 /\ \A i \in 1 .. n - 1 : w[i] = u[i]
  BY <1>5, <1>8, SplitText
<1> HIDE DEF w
<1>10. ASSUME u = <<>> PROVE w = <<>>
  <2>1. Len(u) = 0
    BY <1>10
  <2>2. Len(w) = 0
    BY <1>8, <1>9, <2>1
  <2> QED BY <1>9, <2>2
<1>11. ASSUME u # <<>>, ~ isBlanks(u[1]) PROVE w # <<>> /\ w[1] = u[1]
  <2>1. Len(u) # 0
    BY <1>5, <1>11
  <2>2. n # 1
    BY <1>5, <1>7, <1>8, <1>11, <2>1
  <2>3. 1 \in 1 .. n - 1 /\ Len(w) # 0
    BY <1>5, <1>8, <1>9, <2>2
  <2> QED BY <1>9, <2>3
<1> QED BY <1>1, <1>4, <1>9, <1>10, <1>11 DEF w

(* A stream of an output, with the text u to come.                         *)
Holds(s, u) == IsStream(s) /\ s.file /\ s.text = u

LEMMA PutBackHolds ==
  ASSUME NEW s, IsStream(s), s.file, NEW n, Plain(SubSeq(s.text, n, Len(s.text)))
  PROVE  LET u == SubSeq(s.text, n, Len(s.text)) IN
         Holds(PutBackAt(s, n), u) /\ (PutBackAt(s, n).eof <=> u = <<>>)
<1> DEFINE u == SubSeq(s.text, n, Len(s.text))
           t == [s EXCEPT !.text = u]
           g == Getc(t)
<1>1. PutBackAt(s, n) = Unget(g.s, g.c)
  BY Zenon DEF PutBackAt
<1>2. Plain(u)
  OBVIOUS
<1> HIDE DEF u
<1>3. IsStream(t) /\ t.file /\ t.text = u
  BY DEF IsStream
<1> HIDE DEF t
<1>4. CASE u = <<>>
  <2>1. g.c = EOF /\ g.s = [t EXCEPT !.eof = TRUE]
    BY <1>3, <1>4 DEF Getc
  <2>2. Unget(g.s, g.c) = [t EXCEPT !.eof = TRUE]
    BY <2>1 DEF Unget
  <2> HIDE DEF g
  <2>3. PutBackAt(s, n) = [t EXCEPT !.eof = TRUE]
    BY <1>1, <2>2
  <2> QED BY <1>3, <1>4, <2>3 DEF Holds, IsStream, u
<1>5. CASE u # <<>>
  <2> DEFINE c == u[1]
             v == Tail(u)
  <2>1. c \in Chars /\ c # EOF /\ u = <<c>> \o v /\ c # "FF"
    <3>1. c \in Chars /\ u = <<c>> \o v /\ Len(u) \in Nat /\ Len(u) # 0
      BY <1>2, <1>5, FirstAndRest DEF Plain
    <3>2. 1 \in 1 .. Len(u)
      BY <3>1
    <3> QED BY <1>2, <3>1, <3>2, CharsAssumption DEF Plain
  <2>2. g.c = c /\ g.s = [t EXCEPT !.text = v]
    BY <1>3, <1>5, <2>1 DEF Getc
  <2> DEFINE w == <<c>> \o v
  <2>3. Unget(g.s, g.c) = [[t EXCEPT !.text = v] EXCEPT !.text = w, !.eof = FALSE]
    <3>1. [t EXCEPT !.text = v].text = v
      BY <1>3 DEF IsStream
    <3> HIDE DEF c, v, g
    <3> QED BY <2>1, <2>2, <3>1 DEF Unget
  <2>4. w = u
    BY <2>1
  <2> HIDE DEF g, c, v, w
  <2>5. PutBackAt(s, n) = [[t EXCEPT !.text = v] EXCEPT !.text = u, !.eof = FALSE]
    BY <1>1, <2>3, <2>4
  <2> QED BY <1>3, <1>5, <2>5 DEF Holds, IsStream, u
<1> QED BY <1>4, <1>5

LEMMA SkipBlanksHolds ==
  ASSUME NEW s, NEW t, Holds(s, t), Plain(t)
  PROVE  /\ Holds(SkipBlanks(s), FromStart(t))
         /\ SkipBlanks(s).eof <=> FromStart(t) = <<>>
<1>1. IsStream(s) /\ s.file /\ s.text = t
  BY DEF Holds
<1> DEFINE n == EndOf(t, LAMBDA c : ~ isBlanks(c))
<1>2. SkipBlanks(s) = PutBackAt(s, n)
  BY <1>1, Zenon DEF SkipBlanks
<1>3. FromStart(t) = SubSeq(t, n, Len(t)) /\ Plain(FromStart(t))
  BY FromStartIs, Zenon DEF FromStart
<1> HIDE DEF n
<1> QED BY <1>1, <1>2, <1>3, PutBackHolds

(* What a NUL leaves of a token.                                           *)
LEMMA CStrIs ==
  ASSUME NEW w \in Seq(Chars)
  PROVE  /\ CStr(w) \in Seq(Chars) /\ (w = <<>> => CStr(w) = <<>>)
         /\ CStr(w) # <<>> => w # <<>> /\ CStr(w)[1] = w[1]
         /\ w # <<>> /\ CStr(w) = <<>> => w[1] = "NUL"
<1> DEFINE I == {i \in 1 .. Len(w) : w[i] = "NUL"}
           m == IF I # {} THEN Min(I) ELSE 0
           n == IF m = 0 THEN Len(w) + 1 ELSE m
           c == SubSeq(w, 1, n - 1)
<1>1. CStr(w) = c
  BY Zenon DEF CStr, EndOf, SelectInSeq
<1>2. Len(w) \in Nat /\ I \in SUBSET (1 .. Len(w))
  OBVIOUS
<1>3. m = (IF I # {} THEN Min(I) ELSE 0) /\ n = (IF m = 0 THEN Len(w) + 1 ELSE m)
  OBVIOUS
<1>4. \A i \in I : w[i] = "NUL"
  OBVIOUS
<1> HIDE DEF I, m, n
<1>5. n \in 1 .. Len(w) + 1 /\ (n <= Len(w) => n \in I)
  <2>1. CASE I = {}
    BY <1>2, <1>3, <2>1
  <2>2. CASE I # {}
    <3>1. Min(I) \in I
      BY <1>2, <2>2, FirstPlace
    <3>2. m \in I /\ m \in 1 .. Len(w) /\ n = m
      BY <1>2, <1>3, <2>2, <3>1
    <3> QED BY <1>2, <3>2
  <2> QED BY <2>1, <2>2
<1>6. c \in Seq(Chars) /\ Len(c) = n - 1 /\ \A i \in 1 .. n - 1 : c[i] = w[i]
  BY <1>2, <1>5, SplitText
<1> HIDE DEF c
<1>7. ASSUME w = <<>> PROVE c = <<>>
  <2>1. Len(c) = 0
    BY <1>5, <1>6, <1>7
  <2> QED BY <1>6, <2>1
<1>8. ASSUME c # <<>> PROVE w # <<>> /\ c[1] = w[1]
  <2>1. Len(c) # 0 /\ Len(c) \in Nat
    BY <1>6, <1>8
  <2>2. 1 \in 1 .. n - 1
    BY <1>2, <1>5, <1>6, <2>1
  <2> QED BY <1>6, <1>7, <1>8, <2>2
<1>9. ASSUME w # <<>>, c = <<>> PROVE w[1] = "NUL"
  <2>1. Len(w) # 0 /\ Len(c) = 0
    BY <1>9
  <2>2. n = 1 /\ n \in I
    BY <1>2, <1>5, <1>6, <2>1
  <2> QED BY <1>4, <2>2
<1> QED BY <1>1, <1>6, <1>7, <1>8, <1>9

(* The first number read of an output: the word it begins with, or a       *)
(* fault.                                                                  *)
LEMMA FirstNumber ==
  ASSUME NEW s, NEW t, Holds(s, t), Plain(t), ~ s.eof, NEW tested
  PROVE  LET w == FirstToken(t)
             v == Value(w)
             r == ReadInRange(s, tested)
         IN /\ w \in Seq(Chars)
            /\ r.quit = IF \/ w = <<>> \/ w[1] = "EOFC" \/ Refuses(CStr(w), tested)
                           \/ v \notin IntMin .. IntMax
                        THEN "_pe" ELSE IF v \notin RangeMin .. RangeMax THEN "_wa" ELSE "none"
<1> DEFINE u == FromStart(t)
           w == Word(u)
           p == SkipBlanks(s)
<1>1. FirstToken(t) = w
  BY Zenon DEF FirstToken, FromStart, Word
<1>2. Plain(u) /\ (u # <<>> => ~ isBlanks(u[1])) /\ (u # <<>> => FromStart(u) = u)
  BY FromStartIs
<1>3. Holds(p, u) /\ (p.eof <=> u = <<>>)
  BY SkipBlanksHolds
<1> HIDE DEF u, p
<1>4. /\ w \in Seq(Chars) /\ (u = <<>> => w = <<>>)
      /\ u # <<>> => w # <<>> /\ w[1] = u[1]
      /\ w = SubSeq(u, 1, EndOf(u, LAMBDA c : isBlanks(c) \/ c = "FF") - 1)
  BY <1>2, WordIs
<1> HIDE DEF w
<1>5. SeekEof(s) = Eof(p)
  BY DEF SeekEof, Holds, p
<1> DEFINE e == SeekEof(s)
           l == ReadLong(s, tested)
           r == ReadInRange(s, tested)
<1>6. ASSUME l.quit = "_pe" PROVE r.quit = "_pe"
  <2>1. ReadInteger(s, tested) = l
    BY <1>6, Zenon DEF ReadInteger, Then
  <2> HIDE DEF l
  <2> QED BY <1>6, <2>1, Zenon DEF ReadInRange, Then
<1>7. e.quit = "none"
  BY DEF Eof, Tells, SeekEof
<1>8. ASSUME e.yes PROVE r.quit = "_pe"
  <2>1. l.quit = "_pe"
    <3>1. l = Quits(e.s, "_pe")
      BY <1>7, <1>8, Zenon DEF ReadLong, Then
    <3> QED BY <3>1 DEF Quits
  <2> QED BY <1>6, <2>1
<1>9. CASE u = <<>>
  <2>1. e.yes
    BY <1>3, <1>5, <1>9 DEF Eof, Tells, Holds
  <2> HIDE DEF r, e
  <2> QED BY <1>1, <1>4, <1>8, <1>9, <2>1 DEF r
<1>10. CASE u # <<>>
  <2> DEFINE c == u[1]
  <2>1. c \in Chars /\ c # "FF" /\ c # EOF /\ ~ isBlanks(c)
    <3>1. u \in Seq(Chars) /\ Len(u) \in Nat /\ Len(u) # 0
      BY <1>2, <1>10 DEF Plain
    <3>2. 1 \in 1 .. Len(u)
      BY <3>1
    <3> QED BY <1>2, <1>10, <3>1, <3>2, CharsAssumption DEF Plain
  <2>2. \A q : Holds(q, u) => Getc(q).c = c
    BY <1>10, <2>1 DEF Getc, Holds
  <2>3. w # <<>> /\ w[1] = c
    BY <1>4, <1>10
  <2> HIDE DEF c
  <2>4. isEof(Getc(p).c) <=> c = "EOFC"
    BY <1>3, <2>1, <2>2 DEF isEof
  <2>5. CASE c = "EOFC"
    <3>1. e.yes
      BY <1>3, <1>5, <1>10, <2>4, <2>5 DEF Eof, Tells
    <3> HIDE DEF r, e
    <3> QED BY <1>1, <1>4, <1>8, <2>3, <2>5, <3>1 DEF r
  <2>6. CASE c # "EOFC"
    <3>1. e = Tells(p, FALSE)
      BY <1>3, <1>5, <1>10, <2>4, <2>6 DEF Eof, Holds
    <3>2. ~ e.yes /\ e.s = p
      BY <3>1 DEF Tells
    <3> DEFINE q == SkipBlanks(p)
               word == ReadWord(p)
    <3>3. Holds(q, u)
      BY <1>2, <1>3, <1>10, SkipBlanksHolds
    <3>4. Getc(q).c = c /\ ~ (isEof(c) \/ isBlanks(c)) /\ p.file /\ q.text = u
      BY <1>3, <2>1, <2>2, <2>6, <3>3 DEF Holds, isEof
    <3>5. \E z : word = Gives(z, w)
      <4> HIDE DEF q
      <4> DEFINE n == EndOf(u, LAMBDA d : isBlanks(d) \/ d = "FF")
      <4>1. word = Gives(PutBackAt(q, n), SubSeq(u, 1, n - 1))
        BY <3>4, Zenon DEF ReadWord, q
      <4>2. w = SubSeq(u, 1, n - 1)
        BY <1>4, Zenon
      <4> QED BY <4>1, <4>2, Zenon
    <3>6. word.quit = "none" /\ word.got = w
      BY <3>5 DEF Gives
    <3>7. l = IF Refuses(CStr(w), tested) THEN Quits(word.s, "_pe") ELSE word
      <4> HIDE DEF word
      <4>1. l = Then(word, LAMBDA x : IF Refuses(CStr(x.got), tested) THEN Quits(x.s, "_pe") ELSE x)
        BY <1>7, <3>2, Zenon DEF ReadLong, Then, word
      <4> QED BY <3>6, <4>1, Zenon DEF Then
    <3> HIDE DEF e, l, word
    <3>8. CASE Refuses(CStr(w), tested)
      <4>1. l.quit = "_pe"
        BY <3>7, <3>8 DEF Quits
      <4> HIDE DEF r
      <4> QED BY <1>1, <1>4, <1>6, <3>8, <4>1 DEF r
    <3>9. CASE ~ Refuses(CStr(w), tested)
      <4> DEFINE v == Value(w)
                 i == ReadInteger(s, tested)
      <4>1. l = word
        BY <3>7, <3>9
      <4> HIDE DEF v
      <4>2. i = IF v \in IntMin .. IntMax THEN word ELSE Quits(word.s, "_pe")
        BY <3>6, <4>1, Zenon DEF ReadInteger, Then, l, v
      <4>3. r = Then(i, LAMBDA x : IF Value(x.got) \in RangeMin .. RangeMax THEN x
                                  ELSE Quits(x.s, "_wa"))
        BY Zenon DEF ReadInRange
      <4> HIDE DEF r, i
      <4>4. v \notin IntMin .. IntMax => r.quit = "_pe"
        <5>1. v \notin IntMin .. IntMax => i.quit = "_pe"
          BY <4>2 DEF Quits
        <5>2. i.quit = "_pe" => r = i
          BY <4>3, Zenon DEF Then
        <5> QED BY <5>1, <5>2
      <4>5. v \in IntMin .. IntMax
              => r = IF v \in RangeMin .. RangeMax THEN word ELSE Quits(word.s, "_wa")
        BY <3>6, <4>2, <4>3, Zenon DEF Then, v
      <4>6. v \in IntMin .. IntMax
              => r.quit = IF v \in RangeMin .. RangeMax THEN "none" ELSE "_wa"
        BY <3>6, <4>5 DEF Quits
      <4> QED BY <1>1, <1>4, <2>3, <2>6, <3>9, <4>4, <4>6 DEF r, v
    <3> QED BY <3>8, <3>9
  <2> QED BY <2>5, <2>6
<1> QED BY <1>9, <1>10

(* No figures are the number 0.                                            *)
LEMMA NothingIsZero ==
  ASSUME NEW tested \in BOOLEAN
  PROVE  ~ Refuses(<<>>, tested) /\ StringToLongLong(<<>>) = 0
<1>1. Body(<<>>) = <<>> /\ ~ HasMinus(<<>>) /\ Len(<<>>) = 0
  BY DEF Body, HasMinus
<1>2. Decimal(LLONG_MIN) # <<>> /\ MaxFigures \in Nat /\ MaxFigures # 0
  <2>1. Top \in Nat /\ LLONG_MIN \in Int
    BY IntegerTokenAssumption DEF LLONG_MIN
  <2>2. Decimal(LLONG_MIN) # <<>>
    BY <2>1, DecimalHas
  <2>3. Figured[Top] \in Seq(FigureSet) /\ Len(Figured[Top]) >= 1
    BY <2>1, NumeralIsText
  <2> QED BY <2>2, <2>3 DEF MaxFigures
<1>3. Accumulated(<<>>) = 0
  <2>1. PICK g : Sums(<<>>, 0, g) /\ Accumulated(<<>>) = g[0]
    BY <1>1, AccumulatedIs
  <2> QED BY <2>1, SumsAt
<1>4. LeadingZeroes(<<>>) = 0
  BY <1>1 DEF LeadingZeroes, SelectInSeq
<1> QED
  BY <1>1, <1>2, <1>3, <1>4
     DEF Refuses, StringToLongLong, Malformed, Overflows, Negated

(* The numbers a word may be read as are the one it is read as.            *)
LEMMA MeantIs ==
  ASSUME NEW w \in Seq(Chars), NEW tested \in BOOLEAN
  PROVE  IF \/ w = <<>> \/ w[1] = "EOFC" \/ Refuses(CStr(w), tested)
            \/ Value(w) \notin IntMin .. IntMax
         THEN Meant(w) = {} ELSE Meant(w) = {Value(w)}
<1> DEFINE c == CStr(w)
           v == StringToLongLong(c)
           meant == Meant(w)
<1>0. c \in Seq(Chars) /\ Value(w) = v
      /\ (w = <<>> => c = <<>>) /\ (c # <<>> => w # <<>> /\ c[1] = w[1])
      /\ (w # <<>> /\ c = <<>> => w[1] # "EOFC")
  BY CStrIs DEF Value
<1>1. ASSUME NEW n \in IntMin .. IntMax
      PROVE  n \in LLONG_MIN .. LLONG_MAX /\ n \in Int
  <2>1. /\ Top \in Nat /\ IntMin \in LLONG_MIN .. LLONG_MAX /\ IntMax \in LLONG_MIN .. LLONG_MAX
    BY CheckerAssumption, IntegerTokenAssumption
  <2> QED BY <2>1 DEF LLONG_MIN, LLONG_MAX
<1>2. \A n \in IntMin .. IntMax : Numeral[n] = Decimal(n)
  BY DEF Numeral
<1>3. \A n : n \in meant <=> /\ n \in IntMin .. IntMax
                             /\ Numeral[n] = c \/ (n = 0 /\ w # <<>> /\ c = <<>>)
  BY DEF Meant
<1> HIDE DEF meant, c
<1>4. ASSUME NEW n \in IntMin .. IntMax, c = Decimal(n)
      PROVE  c # <<>> /\ c[1] # "EOFC" /\ ~ Refuses(c, tested) /\ v = n
  <2>1. n \in LLONG_MIN .. LLONG_MAX /\ n \in Int
    BY <1>1
  <2>2. ~ Refuses(c, tested) /\ v = n
    BY <1>4, <2>1, NumeralsAreRead
  <2>3. c # <<>> /\ c \in Seq(FigureSet \cup {"-"})
    BY <1>4, <2>1, DecimalHas
  <2>4. c[1] \in FigureSet \cup {"-"}
    <3>1. Len(c) # 0 /\ Len(c) \in Nat
      BY <2>3
    <3>2. 1 \in 1 .. Len(c)
      BY <3>1
    <3> QED BY <2>3, <3>2
  <2>5. "EOFC" \notin FigureSet \cup {"-"}
    BY FigureSetIs
  <2> HIDE DEF v
  <2> QED BY <2>2, <2>3, <2>4, <2>5
<1>5. CASE c = <<>>
  <2>1. ~ Refuses(c, tested) /\ v = 0
    BY <1>5, NothingIsZero
  <2>2. \A n \in IntMin .. IntMax : Numeral[n] # c
    BY <1>2, <1>4, <1>5
  <2> HIDE DEF v
  <2>3. \A n : n \in meant <=> n \in IntMin .. IntMax /\ n = 0 /\ w # <<>>
    BY <1>3, <1>5, <2>2
  <2>4. IF w = <<>> \/ 0 \notin IntMin .. IntMax THEN meant = {} ELSE meant = {0}
    BY <2>3
  <2> QED BY <1>0, <1>5, <2>1, <2>4 DEF meant, c
<1>6. CASE c # <<>>
  <2>1. ASSUME NEW n \in meant
        PROVE  w[1] # "EOFC" /\ ~ Refuses(c, tested) /\ v = n /\ n \in IntMin .. IntMax
    <3>1. n \in IntMin .. IntMax /\ c = Decimal(n)
      BY <1>2, <1>3, <1>6
    <3> HIDE DEF v
    <3> QED BY <1>0, <1>4, <1>6, <3>1
  <2>2. ASSUME ~ Refuses(c, tested), v \in IntMin .. IntMax
        PROVE  v \in meant
    <3>1. c = Decimal(v)
      BY <1>0, <1>6, <2>2, ReadIsDecimal
    <3> HIDE DEF v
    <3> QED BY <1>2, <1>3, <2>2, <3>1
  <2> HIDE DEF v
  <2>3. IF w[1] = "EOFC" \/ Refuses(c, tested) \/ v \notin IntMin .. IntMax
        THEN meant = {} ELSE meant = {v}
    BY <2>1, <2>2
  <2> QED BY <1>0, <1>6, <2>3 DEF meant, c
<1> QED BY <1>5, <1>6

(* Before its first read a checker has the whole output to come.           *)
FirstInv ==
  /\ reads \in Nat
  /\ which = "package" /\ up /\ exit = Running /\ reads = 0
       => st["ouf"] = Opened(disk.ouf, "_output")

LEMMA FirstInvInit == StartChecker => FirstInv
BY DEF StartChecker, Init, FirstInv

LEMMA FirstInvStep ==
  CheckInv /\ FirstInv /\ [RunChecker]_<<vars, which, out, cout>> => FirstInv'
<1> SUFFICES ASSUME CheckInv, FirstInv, [RunChecker]_<<vars, which, out, cout>> PROVE FirstInv'
  OBVIOUS
<1>1. ASSUME which = "package", UNCHANGED which, RegisterTestlibCmd PROVE FirstInv'
  <2>1. UNCHANGED <<disk, reads>> /\ st'["ouf"] = Opened(disk.ouf, "_output")
    BY <1>1 DEF RegisterTestlibCmd
  <2> QED BY <2>1 DEF FirstInv
<1>2. ASSUME which = "package", UNCHANGED which, Decide PROVE FirstInv'
  <2>1. UNCHANGED reads /\ \E r \in Results, k \in Nat : QuitsWith(st, "ouf", r, k)
    BY <1>2, PointsAre DEF Decide
  <2>2. exit' # Running
    BY <2>1, QuitStops
  <2> QED BY <2>1, <2>2 DEF FirstInv
<1>3. ASSUME which = "package", UNCHANGED which, NEW x \in Streams, NEW op \in Ops,
             ReadFrom(x, op)
      PROVE  FirstInv'
  <2>1. reads' = reads + 1
    BY <1>3 DEF ReadFrom
  <2> QED BY <2>1 DEF FirstInv
<1>4. ASSUME which = "default", UNCHANGED <<which, disk, st, up, reads, given, cut, missed, result, blamed>>
      PROVE  FirstInv'
  BY <1>4 DEF FirstInv
<1>5. CASE UNCHANGED <<vars, which, out, cout>>
  BY <1>5 DEF vars, FirstInv
<1> QED BY <1>1, <1>2, <1>3, <1>4, <1>5 DEF RunChecker, Next

LEMMA FirstReadIsJudged ==
  ASSUME CheckInv, ReadInv, FirstInv, reads = 0, "FF" \notin ToSet(disk.ouf),
         ReadFrom("ouf", "readInRange")
  PROVE  LET meant == Meant(FirstToken(disk.ouf))
         IN result' = IF meant = {} THEN "_pe"
                      ELSE IF meant \subseteq RangeMin .. RangeMax THEN "none" ELSE "_wa"
<1>1. up /\ exit = Running
  BY DEF ReadFrom
<1>2. which = "package"
  BY <1>1 DEF CheckInv, EndInv
<1>3. Reading /\ result = "none" /\ disk.ouf \in Seq(Chars) /\ disk.ouf # NoFile
  BY <1>1, <1>2, CharsAssumption DEF ReadInv, Reading
<1> DEFINE s == st["ouf"]
           t == disk.ouf
           w == FirstToken(t)
           v == Value(w)
<1>4. Plain(t)
  BY <1>3, PlainIs
<1>5. Holds(s, t) /\ ~ s.eof
  <2>1. s = [text |-> t, eof |-> FALSE, file |-> TRUE, mode |-> "_output"]
    <3>1. s = Opened(t, "_output")
      BY <1>1, <1>2 DEF FirstInv
    <3> QED BY <1>3, <3>1 DEF Opened
  <2> HIDE DEF s
  <2> QED BY <2>1 DEF Holds, IsStream
<1>6. PICK tested \in BOOLEAN :
        LET r == Read("readInRange", s, tested) IN
        /\ r.quit = "none"  => UNCHANGED result
        /\ r.quit \in {"_pe", "_wa"} => QuitsWith(st', "ouf", r.quit, 0)
  BY DEF ReadFrom
<1> DEFINE r == ReadInRange(s, tested)
<1>7. Read("readInRange", s, tested) = r
  BY DEF Read
<1>8. /\ w \in Seq(Chars)
      /\ r.quit = IF \/ w = <<>> \/ w[1] = "EOFC" \/ Refuses(CStr(w), tested)
                     \/ v \notin IntMin .. IntMax
                  THEN "_pe" ELSE IF v \notin RangeMin .. RangeMax THEN "_wa" ELSE "none"
  BY <1>4, <1>5, FirstNumber
<1>9. /\ r.quit = "none" => result' = "none"
      /\ r.quit \in {"_pe", "_wa"} => result' = r.quit
  BY <1>3, <1>6, <1>7 DEF QuitsWith
<1> DEFINE meant == Meant(w)
<1>10. IF \/ w = <<>> \/ w[1] = "EOFC" \/ Refuses(CStr(w), tested) \/ v \notin IntMin .. IntMax
       THEN meant = {} ELSE meant = {v}
  BY <1>8, MeantIs
<1> HIDE DEF r, v, w, meant
<1>11. result' = IF meant = {} THEN "_pe"
                 ELSE IF meant \subseteq RangeMin .. RangeMax THEN "none" ELSE "_wa"
  BY <1>8, <1>9, <1>10
<1> QED BY <1>11 DEF meant, w, t

(* A number of the output is read when its token, up to the first NUL in   *)
(* it, is written in canonical decimal form, and everything else is        *)
(* refused as a presentation error, but for a token that begins with a     *)
(* NUL, which is read as 0: whatever the output and its other characters   *)
(* (but 0xFF), for every width of the integers, every range, and both ways *)
(* the compiler may deal with the test of an overflowing sum               *)
(* (testlib.h:1495, 1552).                                                 *)
THEOREM CanonicalNumbersAreRead == CheckersSpec => OnlyCanonicalIsRead
<1>1. CheckInv /\ ReadInv /\ FirstInv
        => [reads = 0 /\ reads' = 1 /\ "FF" \notin ToSet(disk.ouf) /\ ReadFrom("ouf", "readInRange")
            => LET meant == Meant(FirstToken(disk.ouf))
               IN result' = IF meant = {} THEN "_pe"
                            ELSE IF meant \subseteq RangeMin .. RangeMax THEN "none" ELSE "_wa"]_vars
  BY FirstReadIsJudged
<1> QED
  BY <1>1, FirstInvInit, FirstInvStep, ReadInvInit, ReadInvStep, CheckInvAlways, PTL
     DEF CheckersSpec, OnlyCanonicalIsRead
=============================================================================
