CONSTANTS
  Limits <- SomeLimits
  Codes = {0, 1}
  Starts = {0, 800}
  Grain = 1000
  MaxLag = 2
  MaxCpu = 1000
  MaxClock = 37000
SPECIFICATION Spec
INVARIANTS
  TypeOK
  OkIsTheChilds
  OveruseIsTimeout
  ClockIsKept
PROPERTIES
  RunEnds
CHECK_DEADLOCK FALSE
