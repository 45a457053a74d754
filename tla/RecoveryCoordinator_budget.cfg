SPECIFICATION Spec
CONSTANTS
  Debounce = 1
  Retry <- TwoRetries
  Stable = 2
  Heartbeat = 1
  Changes = {"bump", "path", "wake"}
  Commands = {"manual", "reject", "stop", "select", "setting"}
  Faulty = TRUE
  SlowLoop = TRUE
  RawAnytime = TRUE
  Horizon = 2
  MaxChanges = 1
  MaxOps = 2
  MaxRuns = 3
INVARIANTS
  OneAttempt
  BudgetRespected
PROPERTIES
  BackoffKept
  StableBeforeReset
  RestartIsLicensed
