CONSTANTS
  v1 = v1  v2 = v2
  d1 = d1  d2 = d2  d3 = d3
  Daemons = {d1, d2}
  Submits = {1, 2}
  Verdicts = {v1, v2}
  Args <- CheckLoops
  Order = "rand"
  Signals = {"SIGINT", "SIGTERM"}
  PingUri = TRUE
  Reconnect = TRUE
  Reentrant = TRUE
  Faults = {"crash", "idle_drop"}
  Failing = {}
  MaxDepth = 1
  MaxCrashes = 1
SPECIFICATION Spec
SYMMETRY Symmetry
INVARIANTS
  TypeOK
  LockIsScoped
  OrphansOnlyByCrash
  ReportedIsStored
PROPERTY
  ImplementsContract
