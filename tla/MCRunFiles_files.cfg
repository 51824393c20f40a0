CONSTANTS
  Tests = 2
  Problems <- BothProblems
  MaxJobs = 2
  MaxCrashes = 1
  MaxStrays = 1
  MaxNames = 28
SPECIFICATION Spec
INVARIANTS
  TypeOK
  OutputIsOfThisTest
  ExecutableIsOwn
  TempIsClean
  CopiesFit
CHECK_DEADLOCK FALSE
