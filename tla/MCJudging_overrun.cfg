CONSTANTS
  Submits = {1}
  Acm <- AcmRules
  NeedInfo <- InfoForTwo
  Packages <- TwoPackages
  Times = {0}
  Garbage = 99
  CheckerOverruns = TRUE
  Cleans = TRUE
  MayDie = FALSE
SPECIFICATION Spec
INVARIANTS
  CheckerHasAnswered
