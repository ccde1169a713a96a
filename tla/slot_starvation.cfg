SPECIFICATION Spec
CONSTANTS
  g = g
  a = a
  b = b
  c = c
  d = d
  NoAck = NoAck
  C2 <- TreeC2
  C3 <- Gateway
  NextHop <- TreeHop
  HopCount <- TreeCount
  Reach <- TreeReach
  InitialPayloads = 3
  NodeSlots = 3
  TotalSlots = 5
  IdMod = 65536
INVARIANTS
  SlotsServePayloads
