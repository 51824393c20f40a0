--------------------------- MODULE DefaultChecker ---------------------------
(***************************************************************************)
(* checkdef, the checker of problems that name none: it compares what the  *)
(* solution wrote with the correct output, character by character.         *)
(***************************************************************************)
EXTENDS Integers, Sequences, SequencesExt, ExitCodes, Texts

CONSTANTS
  Outputs, Answers,  \* what the two files may be: a text or NoFile
  NoFile             \* a file that cannot be opened

LineEnds == {"CR", "LF"}

VARIABLES
  disk,      \* the two files
  out, cout, \* what is left to read of each
  exit       \* the exit code, or Running

vars == <<disk, out, cout, exit>>

Running == -1
Code == [OK |-> 0, WA |-> 2, UN |-> 100]

Init ==
  /\ disk \in [out : Outputs, cout : Answers]
  /\ out = disk.out /\ cout = disk.cout /\ exit = Running

(* The places at which a stream stands after get(), until no CR was read.  *)
Skipped(text) ==
  LET n == SelectInSeq(text, LAMBDA c : c # "CR")
  IN IF n = 0 THEN <<>> ELSE SubSeq(text, n, Len(text))
Eof(text)  == Skipped(text) = <<>>
Bad(text)  == ~ Eof(text) /\ Skipped(text)[1] = "BAD"
Good(text) == ~ Eof(text) /\ ~ Bad(text)

(* Only line feeds are looked for.                                         *)
CheckLN_Strict(rest) ==
  LET n == SelectInSeq(rest, LAMBDA c : c # "LF")
  IN IF n = 0 \/ rest[n] = "BAD" THEN "OK" ELSE "WA"

(* check_LN: nothing but line ends; a rest that cannot be read ends it,    *)
(* too.                                                                    *)
CheckLN(rest) ==
  LET n == SelectInSeq(rest, LAMBDA c : c \notin LineEnds)
  IN IF n = 0 \/ rest[n] = "BAD" THEN "OK" ELSE "WA"

CannotOpen ==
  /\ exit = Running /\ NoFile \in {out, cout}
  /\ exit' = Code["UN"] /\ UNCHANGED <<disk, out, cout>>

(* One turn of the loop of check_equal, and what follows the last one.     *)
CheckEqual ==
  /\ exit = Running /\ NoFile \notin {out, cout}
  /\ IF Good(out) /\ Good(cout)
     THEN IF Skipped(out)[1] # Skipped(cout)[1]
          THEN exit' = Code["WA"] /\ UNCHANGED <<out, cout>>
          ELSE out' = Tail(Skipped(out)) /\ cout' = Tail(Skipped(cout)) /\ UNCHANGED exit
     ELSE /\ exit' = Code[CASE Eof(out) /\ Eof(cout)  -> "OK"
                            [] Eof(out) /\ Good(cout) -> CheckLN(Skipped(cout))
                            [] Good(out) /\ Eof(cout) -> CheckLN(Skipped(out))
                            [] OTHER                  -> "WA"]
          /\ UNCHANGED <<out, cout>>
  /\ UNCHANGED disk

Next == CannotOpen \/ CheckEqual
Spec == Init /\ [][Next]_vars /\ WF_vars(Next)

(* What the daemon makes of it: init_checker sets this convention.         *)
Status == CheckerResult("bacs_legacy", exit)

-----------------------------------------------------------------------------
(* Properties *)

(* A text as the check is meant to see it: no carriage returns, and no     *)
(* empty lines or line's end at the end.                                   *)
Plain(text) ==
  LET t    == Without(text, {"CR"})
      last == SelectLastInSeq(t, LAMBDA c : c # "LF")
  IN SubSeq(t, 1, last)

Readable == "BAD" \notin ToSet(disk.out) \cup ToSet(disk.cout)

(* The verdict is ST_ACCEPTED for exactly the outputs that differ from the *)
(* correct one in nothing but carriage returns and the line ends after the *)
(* last line, and ST_WRONG_ANSWER for the others (checkdef.cpp:20, and its *)
(* tests from line 51 on).                                                 *)
ComparesLines ==
  exit # Running =>
    IF NoFile \in {disk.out, disk.cout} THEN Status = "ST_CHECKER_ERROR"
    ELSE Readable => Status = IF Plain(disk.out) = Plain(disk.cout) THEN "ST_ACCEPTED"
                              ELSE "ST_WRONG_ANSWER"
=============================================================================
