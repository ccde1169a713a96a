SPECIFICATION FairSpec
CONSTANTS
  g = g
  a = a
  b = b
  c = c
  d = d
  NoAck = NoAck
  C2 <- LineC2
  C3 <- Gateway
  NextHop <- LineHop
  HopCount <- LineCount
  Reach <- LineReach
  InitialPayloads = 3
  NodeSlots = 3
  TotalSlots = 5
  IdMod = 65536
INVARIANTS
  TypeOK
  NeverFrozen
  WindowsAgree
  AckBeforeNextData
  NoStaleAck
  LinkAgreement
  ExactlyOnce
PROPERTIES
  ImplementsHopByHop
  PendingIsTransmitted
  AllDelivered
