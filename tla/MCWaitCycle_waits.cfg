CONSTANTS
  Second = 7
  Poll = 2
  Late = 1
  PingTime = 1
  Wrap = 4
  Delays <- SomeDelays
  Periods <- SomePeriods
  MaxStart = 6
SPECIFICATION Spec
INVARIANTS
  DelayIsKept
  SignalEndsWait
PROPERTIES
  ImplementsWait
CHECK_DEADLOCK FALSE
