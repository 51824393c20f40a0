CONSTANTS
  v1 = v1  v2 = v2
  d1 = d1  d2 = d2  d3 = d3
  Daemons = {d1, d2}
  Submits = {1, 2}
  Verdicts = {v1}
  Args <- ByHand
  Order = "desc"
  Signals = {}
  PingUri = FALSE
  Reconnect = TRUE
  Reentrant = FALSE
  Faults = {"crash", "drop"}
  Failing = {"mark"}
  MaxDepth = 1
  MaxCrashes = 2
SPECIFICATION AttendedSpec
PROPERTY
  EventuallyJudged
