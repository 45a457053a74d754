SPECIFICATION FairSpec
CONSTANTS
  Debounce = 1
  Retry <- TwoRetries
  Stable = 2
  Heartbeat = 1
  Changes = {"bump", "path", "wake"}
  Commands = {"manual", "stop", "select", "setting"}
  Faulty = FALSE
  SlowLoop = FALSE
  RawAnytime = FALSE
  Horizon = 2
  MaxChanges = 1
  MaxOps = 2
  MaxRuns = 2
PROPERTIES
  DeadEngineRetried
