CONSTANTS
  Submits = {1}
  Acm <- AcmRules
  NeedInfo <- InfoForTwo
  Packages <- NoTests
  Times = {0}
  Garbage = 99
  CheckerOverruns = FALSE
  Cleans = TRUE
  MayDie = FALSE
SPECIFICATION Spec
INVARIANTS
  MissingTestsAreInvalid
