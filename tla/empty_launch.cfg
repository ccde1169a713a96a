SPECIFICATION Spec
CONSTANTS
  Parent <- OneHop
  Order <- TwoNodes
  MaxSessions = 2
  MaxEvents = 4
  MaxQueue = 1
INVARIANTS
  StartHasTopology
CHECK_DEADLOCK FALSE
