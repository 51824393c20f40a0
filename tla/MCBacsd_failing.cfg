CONSTANTS
  v1 = v1  v2 = v2
  d1 = d1  d2 = d2  d3 = d3
  Daemons = {d1, d2}
  Submits = {1, 2}
  Verdicts = {v1}
  Args <- CheckLoops
  Order = "rand"
  Signals = {"SIGINT", "SIGTERM"}
  PingUri = TRUE
  Reconnect = TRUE
  Reentrant = TRUE
  Faults = {"idle_drop"}
  Failing = {"connect", "check", "lock", "select", "unlock", "load", "store"}
  MaxDepth = 2
  MaxCrashes = 0
SPECIFICATION FairSpec
INVARIANTS
  ExclusiveJudging
  HeldIsRunning
  CaptureIsExclusive
PROPERTIES
  VerdictStays
  TermStops
