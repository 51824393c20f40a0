CONSTANTS
  Submits = {1}
  Acm <- AcmRules
  NeedInfo <- InfoForTwo
  Packages <- VariedPackages
  Times = {0, 3}
  Garbage = 99
  CheckerOverruns = FALSE
  Cleans = TRUE
  MayDie = FALSE
SPECIFICATION Spec
INVARIANTS
  TypeOK
  AcceptedIsEarned
  FirstFailureDecides
  TimeIsMeasured
  CompileFaultIsExplained
  NothingIsLeft
  TestDirIsFresh
