CONSTANTS
  Submits = {2}
  Acm <- SchoolRules
  NeedInfo <- InfoForTwo
  Packages <- SchoolPackages
  Times = {0}
  Garbage = 99
  CheckerOverruns = FALSE
  Cleans = FALSE
  MayDie = TRUE
SPECIFICATION FairSpec
INVARIANTS
  SchoolResultIsComplete
PROPERTIES
  ImplementsSubmit
