SPECIFICATION FairSpec
CONSTANTS
  Parent <- OneHop
  Order <- TwoNodes
  MaxSessions = 2
  MaxEvents = 4
  MaxQueue = 1
INVARIANTS
  RoutesJoinDevices
  InStep
PROPERTIES
  ConnectionShown
CHECK_DEADLOCK FALSE
