CONSTANTS
  Nodes <- Places
  Root = "Test"
  Parent <- Parents
  MaxCreated = 2
SPECIFICATION Spec
INVARIANTS
  ZeroIsWiped
PROPERTIES
  WipeEnds
CHECK_DEADLOCK FALSE
