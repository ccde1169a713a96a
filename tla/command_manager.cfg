SPECIFICATION FairSpec
CONSTANTS
  Waiters = {w1, w2}
  MaxConfigs = 2
  MaxLosses = 1
  MaxQueue = 1
INVARIANTS
  OneWaiter
  OneAtATime
  RunningIsComplete
  NoRelaunchByItself
PROPERTIES
  ConfigIsLaunched
CHECK_DEADLOCK FALSE
