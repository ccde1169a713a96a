SPECIFICATION Spec
CONSTANTS
  Waiters = {w1}
  MaxConfigs = 1
  MaxLosses = 1
  MaxQueue = 1
INVARIANTS
  NothingFreedUnderClock
CHECK_DEADLOCK FALSE
