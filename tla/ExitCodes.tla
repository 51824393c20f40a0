----------------------------- MODULE ExitCodes -----------------------------
(* What the daemon makes of the exit code of a checker (problem.cpp).      *)

(* get_checker_result()                                                    *)
CheckerResult(convention, code) ==
  LET means(ok, wa, pe) == CASE code \in ok -> "ST_ACCEPTED"
                             [] code \in wa -> "ST_WRONG_ANSWER"
                             [] code \in pe -> "ST_PRESENTATION_ERROR"
                             [] OTHER       -> "ST_CHECKER_ERROR"
  IN CASE convention = "bacs_legacy"         -> means({0}, {5, 2}, {4})
       [] convention = "ejudge"              -> means({0}, {5}, {4})
       [] convention \in {"testlib", "none"} -> means({0}, {1}, {2})
       [] OTHER                              -> "ST_CHECKER_ERROR"
=============================================================================
