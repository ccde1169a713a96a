SPECIFICATION Spec
CONSTANTS
  C2 = {"a", "b"}
  C3 = {"g"}
  NextHop <- TwoHops
  InitialPayloads = 1
  SamplesPerExport = 2
  MaxIds = 3
  MaxSamples = 4
INVARIANT PathsFollowChain
INVARIANT LatencyShrinksOnPath
INVARIANT ShownIsRecorded
CHECK_DEADLOCK FALSE
