------------------------------ MODULE Checker ------------------------------
(***************************************************************************)
(* A checker built on testlib.h: the streams it reads, the tests it makes  *)
(* of them, and quit(), whose exit code the daemon turns into a verdict.   *)
(* A checker makes any reads of Ops in any order and quits with any result *)
(* of Results, a partially correct one with any of Points included.        *)
(***************************************************************************)
EXTENDS IntegerToken, ExitCodes, Texts

CONSTANTS
  Chars,        \* the bytes of the files
  Files,        \* what the files may be: records of inf, ouf and ans, each a
                \* text or NoFile
  NoFile,       \* no file of this name
  IntMin, IntMax,      \* the numbers of an int
  RangeMin, RangeMax,  \* the range the checker asks for
  Convention,   \* key checker_return of the problem
  Points,       \* the k of the partial results _pc(k)
  MaxReads      \* bound: reads and tests of a checker

ASSUME CheckerAssumption ==
  /\ {IntMin, IntMax, RangeMin, RangeMax} \subseteq LLONG_MIN .. LLONG_MAX
  /\ MaxReads \in Nat /\ Points \subseteq Nat
  /\ \A f \in Files : f.ouf = NoFile \/ f.ouf \in Seq(Chars)

(* EOF is what getc returns past the end and, converted to char, what the  *)
(* byte "FF" looks like; "EOFC" is the byte 26, "NUL" the byte 0.          *)
EOF == "EOF"
Marks == {"EOFC", "FF"}
isEof(c)    == c \in {EOF, "EOFC"}
isEoln(c)   == c \in {"LF", "CR"}
isBlanks(c) == c \in {"LF", "CR", " ", "TAB"}

(* No byte is the EOF of getc.                                             *)
ASSUME CharsAssumption == EOF \notin Chars /\ NoFile \notin Seq(Chars)

Unseen == {"LF", "CR", " ", "TAB"} \cup Marks \cup {EOF}
Visible(text) == Without(text, Unseen)

VARIABLES
  disk,      \* the files
  st,        \* the streams inf, ouf, ans
  up,        \* whether they are initialized
  exit,      \* the exit code, or Running, or Crash
  reads,     \* number of reads and tests made
  given,     \* history: the visible characters of the output handed out
  cut,       \* history: a number of the output was read from a cut token
  missed,    \* history: something other than an end was asked of a file of the
             \* jury's that is not there
  result,    \* history: the result quit() was called with
  blamed     \* history: the stream it was called on

vars == <<disk, st, up, exit, reads, given, cut, missed, result, blamed>>

Running == -1
Crash   == -2
Streams == {"inf", "ouf", "ans"}
Results == {"_ok", "_wa", "_pe", "_fail", "_dirt", "_partially"}

-----------------------------------------------------------------------------
(* A stream: the bytes to come, the end-of-file flag, whether there is a   *)
(* file at all, and InStream's mode; strict is false in a checker.         *)
Closed == [text |-> <<>>, eof |-> FALSE, file |-> FALSE, mode |-> "_input"]

Opened(text, mode) ==
  [text |-> IF text = NoFile THEN <<>> ELSE text, eof |-> FALSE, file |-> text # NoFile,
   mode |-> mode]

Getc(s) ==
  IF s.text = <<>> THEN [c |-> EOF, s |-> [s EXCEPT !.eof = TRUE]]
  ELSE [c |-> IF s.text[1] = "FF" THEN EOF ELSE s.text[1], s |-> [s EXCEPT !.text = Tail(@)]]

(* ungetc: EOF is not put back, so the byte "FF" is lost.                  *)
Unget(s, c) ==
  IF c = EOF THEN s ELSE [s EXCEPT !.text = <<c>> \o @, !.eof = FALSE]

(* How a read ends: with what it hands out, with the answer of a test, or  *)
(* by quitting; one that needs a file there is not dies.                   *)
Gives(s, got) == [s |-> s, got |-> got, yes |-> TRUE, quit |-> "none"]
Tells(s, yes) == [s |-> s, got |-> <<>>, yes |-> yes, quit |-> "none"]
Quits(s, r)   == [s |-> s, got |-> <<>>, yes |-> FALSE, quit |-> r]

(* r's reading is gone on with by Op, unless it quit.                      *)
Then(r, Op(_)) == IF r.quit # "none" THEN r ELSE Op(r)

(* The first byte that ends a run of bytes, or the place after the last.   *)
EndOf(text, Stops(_)) ==
  LET n == SelectInSeq(text, Stops) IN IF n = 0 THEN Len(text) + 1 ELSE n

(* The stream from its n-th byte on, which was read and put back.          *)
PutBackAt(s, n) ==
  LET g == Getc([s EXCEPT !.text = SubSeq(@, n, Len(@))]) IN Unget(g.s, g.c)

SkipBlanks(s) == PutBackAt(s, EndOf(s.text, LAMBDA c : ~ isBlanks(c)))

Eof(s) ==
  IF ~ s.file \/ s.eof THEN Tells(s, TRUE)
  ELSE LET g == Getc(s) IN IF isEof(g.c) THEN Tells(g.s, TRUE) ELSE Tells(s, FALSE)

SeekEof(s) == IF s.file THEN Eof(SkipBlanks(s)) ELSE Tells(s, TRUE)

ReadChar(s) ==
  IF s.file THEN LET g == Getc(s) IN Gives(g.s, <<g.c>>) ELSE Quits(s, "crash")

ReadSpace(s) ==
  Then(ReadChar(s), LAMBDA r : IF r.got = <<" ">> THEN r ELSE Quits(r.s, "_pe"))

(* A token goes to the next white space or end; the byte 26 ends none.     *)
ReadWord(s) ==
  LET r == SkipBlanks(s)
      n == EndOf(r.text, LAMBDA c : isBlanks(c) \/ c = "FF")
      c == Getc(r).c
  IN IF ~ s.file THEN Quits(s, "crash")
     ELSE IF isEof(c) \/ isBlanks(c) THEN Quits(Getc(r).s, "_pe")
     ELSE Gives(PutBackAt(r, n), SubSeq(r.text, 1, n - 1))

(* token.c_str(): a token up to its first NUL.                             *)
CStr(token) == SubSeq(token, 1, EndOf(token, LAMBDA c : c = "NUL") - 1)

(* Whether the sum is tested for overflow is the compiler's choice.        *)
ReadLong(s, tested) ==
  Then(SeekEof(s),
       LAMBDA e : IF e.yes THEN Quits(e.s, "_pe")
                  ELSE Then(ReadWord(e.s), LAMBDA w :
                         IF Refuses(CStr(w.got), tested) THEN Quits(w.s, "_pe") ELSE w))

Value(token) == StringToLongLong(CStr(token))

ReadInteger(s, tested) ==
  Then(ReadLong(s, tested), LAMBDA w :
    IF Value(w.got) \in IntMin .. IntMax THEN w ELSE Quits(w.s, "_pe"))

ReadInRange(s, tested) ==
  Then(ReadInteger(s, tested), LAMBDA w :
    IF Value(w.got) \in RangeMin .. RangeMax THEN w ELSE Quits(w.s, "_wa"))

(* eoln(): at a carriage return without a line feed both characters are    *)
(* put back, the second one last.                                          *)
Eoln(s) ==
  LET g == Getc(s)
      h == Getc(g.s)
  IN IF ~ s.file \/ isEof(g.c) \/ g.c = "LF" THEN Tells(IF s.file THEN g.s ELSE s, TRUE)
     ELSE IF g.c # "CR" THEN Tells(Unget(g.s, g.c), FALSE)
     ELSE IF h.c = "LF" THEN Tells(h.s, TRUE)
     ELSE Tells(Unget(Unget(h.s, "CR"), h.c), FALSE)

SeekEoln(s) ==
  IF s.file THEN Eoln(PutBackAt(s, EndOf(s.text, LAMBDA c : c \notin {" ", "TAB"})))
  ELSE Tells(s, TRUE)

ReadEoln(s) == Then(Eoln(s), LAMBDA r : IF r.yes THEN r ELSE Quits(r.s, "_pe"))
ReadEof(s)  == Then(Eof(s),  LAMBDA r : IF r.yes THEN r ELSE Quits(r.s, "_pe"))

ReadString(s) ==
  LET n    == EndOf(s.text, LAMBDA c : isEoln(c) \/ c \in Marks)
      rest == PutBackAt(s, n)
  IN IF ~ s.file THEN Quits(s, "_pe")
     ELSE Gives(Eoln(rest).s, SubSeq(s.text, 1, n - 1))

Ops == {"readChar", "readSpace", "readWord", "readLong", "readInteger", "readInRange",
        "readString", "readEoln", "readEof", "eof", "seekEof", "eoln", "seekEoln"}

Read(op, s, tested) ==
  CASE op = "readChar" -> ReadChar(s)    [] op = "readSpace" -> ReadSpace(s)
    [] op = "readWord" -> ReadWord(s)    [] op = "readLong"  -> ReadLong(s, tested)
    [] op = "readInteger" -> ReadInteger(s, tested)
    [] op = "readInRange" -> ReadInRange(s, tested)
    [] op = "readString" -> ReadString(s) [] op = "readEoln" -> ReadEoln(s)
    [] op = "readEof"  -> ReadEof(s)     [] op = "eof"       -> Eof(s)
    [] op = "seekEof"  -> SeekEof(s)     [] op = "eoln"      -> Eoln(s)
    [] op = "seekEoln" -> SeekEoln(s)

(* What the checker gets of a token: a number has only what it was read    *)
(* from.                                                                   *)
NumberReads == {"readLong", "readInteger", "readInRange"}
Handed(op, token) == IF op \in NumberReads THEN CStr(token) ELSE token

(* The reads that a file which is not there answers like one at its end.   *)
EndTests == {"eof", "seekEof", "eoln", "seekEoln", "readEoln", "readEof"}

-----------------------------------------------------------------------------
(* resultExitCode(), of which the daemon gets eight bits; k are the points *)
(* of a partial result.                                                    *)
ExitCode == [_ok |-> 0, _wa |-> 2, _pe |-> 4, _fail |-> 6, _dirt |-> 6]
ResultExitCode(r, k) == IF r = "_partially" THEN k % 256 ELSE ExitCode[r]

(* The operators X_... are faulty variants of X.  Here: whoever reads a    *)
(* stream is blamed for it.                                                *)
Verdict_OfAnyStream(s, x, r) ==
  IF r = "_dirt" \/ (r = "_ok" /\ ~ SeekEof(s["ouf"]).yes) THEN "_pe" ELSE r

(* What follows the checker's last read is not looked at.                  *)
Verdict_TrustsOk(s, x, r) ==
  IF s[x].mode # "_output" /\ r # "_fail" THEN "_fail"
  ELSE IF r = "_dirt" THEN "_pe" ELSE r

(* What is left of the output keeps its own exit code.                     *)
Verdict_DirtStays(s, x, r) ==
  IF s[x].mode # "_output" /\ r # "_fail" THEN "_fail"
  ELSE IF r = "_ok" /\ ~ SeekEof(s["ouf"]).yes THEN "_dirt" ELSE r

(* quit(): a fault in any file but the output is the jury's; an accepted   *)
(* output must have ended, or it is _dirt, which is reported as _pe.  A    *)
(* partially correct one need not have.                                    *)
Verdict(s, x, r) ==
  IF s[x].mode # "_output" /\ r # "_fail" THEN "_fail"
  ELSE IF r = "_dirt" \/ (r = "_ok" /\ ~ SeekEof(s["ouf"]).yes) THEN "_pe" ELSE r

(* quit() ends the checker; no report is asked for on its command line.    *)
QuitsWith(s, x, r, k) ==
  result' = r /\ blamed' = x /\ exit' = ResultExitCode(Verdict(s, x, r), k)

Init ==
  /\ disk \in Files
  /\ st = [x \in Streams |-> Closed]
  /\ up = FALSE /\ exit = Running /\ reads = 0
  /\ given = <<>> /\ cut = FALSE /\ missed = FALSE
  /\ result = "none" /\ blamed = "none"

(* registerTestlibCmd: the answer is not opened when there is no output.   *)
RegisterTestlibCmd ==
  /\ ~ up /\ up' = TRUE
  /\ st' = [inf |-> Opened(disk.inf, "_input"),
            ouf |-> Opened(disk.ouf, "_output"),
            ans |-> IF disk.ouf = NoFile THEN Closed ELSE Opened(disk.ans, "_answer")]
  /\ IF disk.ouf = NoFile THEN QuitsWith(st', "ouf", "_pe", 0)
     ELSE UNCHANGED <<exit, result, blamed>>
  /\ UNCHANGED <<disk, reads, given, cut, missed>>

ReadFrom(x, op) ==
  /\ up /\ exit = Running /\ reads < MaxReads /\ reads' = reads + 1
  /\ \E tested \in BOOLEAN : LET r == Read(op, st[x], tested) IN
     /\ st' = [st EXCEPT ![x] = r.s]
     /\ given' = IF x = "ouf" THEN given \o Visible(Handed(op, r.got)) ELSE given
     /\ cut' = (cut \/ (x = "ouf" /\ Handed(op, r.got) # r.got))
     /\ missed' = (missed \/ (x # "ouf" /\ ~ st[x].file /\ op \notin EndTests))
     /\ CASE r.quit = "none"  -> UNCHANGED <<exit, result, blamed>>
          [] r.quit = "crash" -> exit' = Crash /\ UNCHANGED <<result, blamed>>
          [] OTHER            -> QuitsWith(st', x, r.quit, 0)
  /\ UNCHANGED <<disk, up>>

(* The checker's own call of quit(), which is ouf.quit().                  *)
Decide ==
  /\ up /\ exit = Running
  /\ \E r \in Results, k \in Points : QuitsWith(st, "ouf", r, k)
  /\ UNCHANGED <<disk, st, up, reads, given, cut, missed>>

Next ==
  \/ RegisterTestlibCmd \/ Decide
  \/ \E x \in Streams, op \in Ops : ReadFrom(x, op)

Spec == Init /\ [][Next]_vars

(* What run_test() makes of the checker's end.                             *)
Status == IF exit = Crash THEN "ST_CHECKER_ERROR" ELSE CheckerResult(Convention, exit)
Ended  == exit # Running

-----------------------------------------------------------------------------
(* Properties *)

(* An output is accepted only when all that can be seen of it was handed   *)
(* to the checker, or it goes on after a byte that counts as its end       *)
(* (quit's _dirt, testlib.h:1129); 0xFF within a token is such a byte too. *)
(* Accepted is what the checker found correct: what is left is not looked  *)
(* at behind a partial result.  A checker that reads a number from a token *)
(* which a NUL cuts is left aside: what follows the NUL is neither read    *)
(* (testlib.h:1552) nor left for quit to find.                             *)
AcceptedIsRead ==
  Ended /\ result = "_ok" /\ Status = "ST_ACCEPTED" /\ ~ cut =>
    LET t == disk.ouf IN
    \E n \in 0 .. Len(t) : /\ n = Len(t) \/ t[n + 1] \in Marks
                           /\ given = Visible(SubSeq(t, 1, n))

(* A solution is never blamed for the jury's files: a fault read in the    *)
(* input or the answer, and anything but an end that is looked for in one  *)
(* of them that is not there, ends as ST_CHECKER_ERROR (testlib.h:1121).   *)
(* A file that is not there does answer a test for its end, like an empty  *)
(* one (testlib.h:1642, 1663, 1671): what a checker that asks no more of   *)
(* the answer says of the output is left aside.                            *)
OnlyOutputIsBlamed ==
  up /\ Ended /\ (blamed # "ouf" \/ missed) => Status = "ST_CHECKER_ERROR"

(* The daemon's verdict is the checker's, whatever stands between them:    *)
(* quit's rules, the exit codes of testlib.h, and the convention of the    *)
(* problem (problem.cpp:227).  A partial result, for which the daemon has  *)
(* no verdict, is left aside: _pc(0) is accepted, since its exit code is   *)
(* the one of _ok (testlib.h:1096).                                        *)
VerdictArrives ==
  Ended /\ blamed = "ouf" /\ result # "_partially" =>
    CASE result = "_ok"   -> Status \in {"ST_ACCEPTED", "ST_PRESENTATION_ERROR"}
      [] result = "_wa"   -> Status = "ST_WRONG_ANSWER"
      [] result \in {"_pe", "_dirt"} -> Status = "ST_PRESENTATION_ERROR"
      [] result = "_fail" -> Status = "ST_CHECKER_ERROR"

(* The canonical decimal forms.                                            *)
Numeral == [n \in IntMin .. IntMax |-> Decimal(n)]

(* The token a read begins with, from the text of a file.                  *)
FirstToken(text) ==
  LET t == SubSeq(text, EndOf(text, LAMBDA c : ~ isBlanks(c)), Len(text))
  IN SubSeq(t, 1, EndOf(t, isBlanks) - 1)

(* The numbers a token may be read as: the one it is the canonical form   *)
(* of, up to a NUL in it; a token that begins with a NUL is read as 0.     *)
Meant(token) ==
  {n \in IntMin .. IntMax : \/ Numeral[n] = CStr(token)
                            \/ n = 0 /\ token # <<>> /\ CStr(token) = <<>>}

(* A number of the output is read when its token, up to the first NUL in   *)
(* it, is the canonical decimal form of a number, and every other token is *)
(* refused as a presentation error but for one that begins with a NUL,     *)
(* which is read as 0: no sign without figures, no zero in front, and no   *)
(* number that does not fit, though the sum it is read into overflows      *)
(* (testlib.h:1495).  It is a wrong answer if it is outside the range      *)
(* asked for.  The byte 0xFF, which is lost where it is put back, is left  *)
(* aside.                                                                  *)
OnlyCanonicalIsRead ==
  [][reads = 0 /\ reads' = 1 /\ "FF" \notin ToSet(disk.ouf) /\ ReadFrom("ouf", "readInRange")
     => LET meant == Meant(FirstToken(disk.ouf))
        IN result' = IF meant = {} THEN "_pe"
                     ELSE IF meant \subseteq RangeMin .. RangeMax THEN "none" ELSE "_wa"]_vars
=============================================================================
