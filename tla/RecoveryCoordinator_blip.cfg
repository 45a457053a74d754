SPECIFICATION FairSpec
CONSTANTS
  Debounce = 1
  Retry <- TwoRetries
  Stable = 2
  Heartbeat = 1
  Changes = {"path"}
  Commands = {"manual", "stop", "select", "setting"}
  Faulty = FALSE
  SlowLoop = FALSE
  RawAnytime = TRUE
  Horizon = 2
  MaxChanges = 2
  MaxOps = 1
  MaxRuns = 1
PROPERTIES
  DeadEngineRetried
