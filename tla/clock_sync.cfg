SPECIFICATION SyncSpec
CONSTANTS
  Slaves = 2
  AirTime = 2
  Wrap = 3
  BootDelay = 1
  MaxFaults = 1
INVARIANT LagIsRelays
