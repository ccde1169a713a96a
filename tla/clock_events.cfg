SPECIFICATION FairSpec
CONSTANTS
  Tick = 2
  Steps <- ShortAndLong
  Airtimes <- OneTickAndMore
  NodeCount = 2
  MaxEvents = 10
  MaxTime = 6
  MaxPauses = 1
INVARIANTS
  NoneLeftBehind
  PhasesInOrder
  RunsInItsTick
  RunsOnce
PROPERTIES
  StopReturns
  EventsRun
CHECK_DEADLOCK FALSE
